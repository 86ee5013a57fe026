------------------------------ MODULE Transfer ------------------------------
(***************************************************************************)
(* A transfer from end to end: the DOS sender, a camera that misses what   *)
(* it likes, the receiver's store, and the person between the two screens  *)
(* who reads "DOS window" and "Missing" on the phone and presses keys on   *)
(* the PC.  Nothing else flows back from the receiver to the sender, and   *)
(* the sender keeps no window but the current one.                         *)
(*                                                                         *)
(* The store is seen through the frames it holds (SessionStore's recovery  *)
(* is Peeled), the equations, and the windows it has heard of.  All three  *)
(* only grow while a symbol is seen again, late or out of order, so the    *)
(* camera's delays need no queue here.                                     *)
(***************************************************************************)
EXTENDS LegacySender

CONSTANTS
  ComparesWindow,  \* the user compares the window numbers of the two screens
  MaxRelaunches    \* bound on kills of the receiver

VARIABLES
  kept,       \* global indices of the frames on disk
  equations,  \* the equations on disk, as sets of global indices
  heard,      \* windowExpected: the windows some symbol of which was accepted
  relaunches

receiver == <<kept, equations, heard, relaunches>>
vars == <<sender, receiver>>

TransferInit ==
  /\ Init
  /\ kept = {} /\ equations = {} /\ heard = {}
  /\ relaunches = 0

\* The global indices of frames of the window on the screen.
Global(S) == {screen.base + i : i \in S}

\* accept() of the decoded symbols; an END_WINDOW opens no session.
See(items) ==
  /\ items # {}
  /\ items = {EndWindow} => kept # {} \/ equations # {}
  /\ equations' = equations \cup {Global(e) : e \in Equations(items)}
  /\ LET stored == kept \cup Global(DataOf(items))
     IN kept' = stored \cup Peeled(stored, equations', length)
  /\ heard' = heard \cup {screen.window}
  /\ UNCHANGED <<sender, relaunches>>

WindowFrames(w) == (w * cfg.size)..(Smaller(w * cfg.size + cfg.size, length) - 1)

\* The receiver is killed and started again: reload() knows the windows of
\* the frames on disk.
Relaunch ==
  /\ relaunches < MaxRelaunches
  /\ relaunches' = relaunches + 1
  /\ heard' = {w \in heard : WindowFrames(w) \cap kept # {}}
  /\ UNCHANGED <<sender, kept, equations>>

\* stats(): the newest window, and which of its frames are missing.
Newest == IF heard = {} THEN 0 ELSE CHOOSE w \in heard : \A v \in heard : v <= w

\* Mutant of Missing: the ranges stop before the last frame of the window.
MissingButLast ==
  IF heard = {} THEN {}
  ELSE {i \in WindowFrames(Newest) : i + 1 \in WindowFrames(Newest)} \ kept

Missing == IF heard = {} THEN {} ELSE WindowFrames(Newest) \ kept

\* The user presses Enter when Missing shows "-", and asks for the ranges
\* shown or for a replay otherwise; comparing windows, also that there is one
\* at all ("Unique: 0 / 0" says there is not).
Reads == ComparesWindow => heard # {} /\ Newest = window
AskedFor == {<<i - Newest * cfg.size + 1, i - Newest * cfg.size + 1>> : i \in Missing}

Commit == Reads /\ Missing = {} /\ Enter
Ask == Reads /\ Missing # {} /\ MissingRanges(AskedFor)
AskAgain == Reads => Missing # {}
User == Commit \/ Ask \/ (AskAgain /\ (Replay \/ MissingAll))

Sends == Start \/ Show \/ ShowEow \/ Pause \/ Resume \/ Cancel

TransferNext ==
  \/ (Sends \/ User) /\ UNCHANGED receiver
  \/ \E items \in SUBSET screen.items : See(items)
  \/ Relaunch

TransferSpec == TransferInit /\ [][TransferNext]_vars

\* The sender runs on; the user presses keys in the end; and an image shown
\* again and again is decoded some time.
FairTransfer ==
  /\ TransferSpec
  /\ WF_vars((Start \/ Show \/ ShowEow \/ Resume) /\ UNCHANGED receiver)
  /\ WF_vars(User /\ UNCHANGED receiver)
  /\ \A i \in 0..(CHOOSE n \in Lengths : \A m \in Lengths : m <= n) :
       SF_vars(\E item \in screen.items :
                 (DataOf({item}) # {} /\ screen.base + item.first = i) /\ See({item}))
  /\ SF_vars(EndWindow \in screen.items /\ See({EndWindow}))

-----------------------------------------------------------------------------
(* Properties.                                                             *)

TransferTypeOK ==
  /\ TypeOK
  /\ kept \subseteq 0..(length - 1)
  /\ \A e \in equations : e \subseteq 0..(length - 1)
  /\ heard \subseteq 0..window

\* The sender forgets a window when Enter is pressed: what the receiver's
\* screen tells the user is enough never to commit a window that is not
\* whole, whatever was seen of it and whatever the receiver has recovered or
\* forgotten.
NothingLost == 0..(base - 1) \subseteq kept

\* When the sender says "Transfer complete" and could read its files, the
\* receiver holds every frame.
DoneMeansAll == phase = "done" /\ failAt = NoFailure => kept = 0..(length - 1)

\* Every transfer that is not given up ends.
Ends == <>(phase \in {"done", "cancelled"})
=============================================================================
