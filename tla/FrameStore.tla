------------------------------ MODULE FrameStore ------------------------------
(***************************************************************************)
(* What the Android receiver promises about the frames it has validated,   *)
(* stated without files, equations, windows or a process that can die.     *)
(*                                                                         *)
(* A store keeps, per transfer session, a set of frame indices.  It grows  *)
(* one frame at a time; it is emptied only when the user resets the        *)
(* session being received, in part if it is killed meanwhile; and one      *)
(* session is received at a time: another session may take its place only  *)
(* while the store of the current one is empty, or when the receiver       *)
(* restarts.                                                               *)
(***************************************************************************)
EXTENDS Naturals

CONSTANTS
  Sessions,   \* session IDs a sender may use
  Indices,    \* global DATA frame indices
  NoSession   \* the receiver has not adopted a session

VARIABLES
  current,    \* the session being received, or NoSession
  retained,   \* the frames kept, per session
  starts      \* how often the receiver was started again

vars == <<current, retained, starts>>

TypeOK ==
  /\ current \in Sessions \cup {NoSession}
  /\ retained \in [Sessions -> SUBSET Indices]
  /\ starts \in Nat

Init ==
  /\ current = NoSession
  /\ retained = [s \in Sessions |-> {}]
  /\ starts = 0

\* A frame of another session may be received only while nothing would be
\* mixed up by it.
MayReceive(s) ==
  current \in Sessions => current = s \/ retained[current] = {}

Adopt(s) ==
  /\ MayReceive(s)
  /\ current' = s
  /\ UNCHANGED <<retained, starts>>

Retain(s, i) ==
  /\ MayReceive(s)
  /\ i \notin retained[s]
  /\ current' = s
  /\ retained' = [retained EXCEPT ![s] = @ \cup {i}]
  /\ UNCHANGED starts

Reset ==
  /\ current \in Sessions
  /\ current' = NoSession
  /\ retained' = [retained EXCEPT ![current] = {}]
  /\ UNCHANGED starts

\* The process is killed and started again: the frames survive, whatever
\* session it takes up.
Restart ==
  /\ current' \in Sessions \cup {NoSession}
  /\ starts' = starts + 1
  /\ UNCHANGED retained

\* It is killed while the user's reset empties the current session.
RestartInReset ==
  /\ current \in Sessions
  /\ current' \in Sessions \cup {NoSession}
  /\ \E kept \in SUBSET retained[current] :
       retained' = [retained EXCEPT ![current] = kept]
  /\ starts' = starts + 1

Next ==
  \/ \E s \in Sessions : Adopt(s)
  \/ \E s \in Sessions, i \in Indices : Retain(s, i)
  \/ Reset
  \/ Restart
  \/ RestartInReset

Spec == Init /\ [][Next]_vars
===============================================================================
