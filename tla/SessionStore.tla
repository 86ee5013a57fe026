----------------------------- MODULE SessionStore -----------------------------
(***************************************************************************)
(* The Android receiver's frame store                                      *)
(* (android_receiver/.../SessionStore.java): it takes decoded DQR1 frames, *)
(* keeps each validated one as a file in the directory of its session, and *)
(* peels CHAIN_XOR, BLOCK_XOR and PLANE_CODED equations to recover DATA     *)
(* frames the camera missed.  The process may be killed between any two    *)
(* file operations, a file operation may fail, and the preference that     *)
(* names the active session reaches the disk some time after it is set.    *)
(*                                                                         *)
(* Payloads are elements of GF(2)^Tokens written as sets of tokens: the    *)
(* record of frame i is the basis vector {i}, XOR is symmetric difference, *)
(* and a payload passes the record CRC exactly when it is one record.      *)
(* A token outside Indices is a record no honest sender of the session     *)
(* has in that place.                                                      *)
(***************************************************************************)
EXTENDS Integers, FiniteSets

CONSTANTS
  Sessions,      \* session IDs seen by the camera
  NoSession,     \* active == 0
  NoFile,        \* File.exists() is false
  NoFrame,       \* no accept() in progress
  MaxIndex,      \* bound on global frame indices
  Tokens,        \* the records payloads are built from
  Frames,        \* the DQR1 frames the camera may decode
  EndToken,      \* per session, the token of its TRANSFER_END record
  MaxWindow,     \* Protocol.MAX_WINDOW
  MaxFailures,   \* bound on failing file writes
  MaxCrashes,    \* bound on kills of the process
  LosesPref      \* whether a kill may come before apply() reached the disk

Indices == 0..MaxIndex
Windows == {f.window : f \in Frames}

VARIABLES
  frames,          \* frame_*.dqr, per session and global index
  equations,       \* xor_*, parity_* and plane_* files, per session
  prefActive,      \* the "active" preference on disk
  active,          \* SessionStore.active
  windowExpected,  \* SessionStore.windowExpected, 0 for an absent key
  windowSeen,      \* SessionStore.windowSeen
  endIndex,        \* SessionStore.endIndex
  total,           \* SessionStore.totalPayload, in records
  pc,              \* where the synchronized accept() or constructor stands
  job,             \* the plane basis frame whose DATA file is still to be written
  result,          \* what the last accept() returned
  failures,        \* file writes that have failed (bounded)
  crashes          \* kills so far (bounded)

disk == <<frames, equations>>
stats == <<windowExpected, windowSeen, endIndex, total>>
vars == <<frames, equations, prefActive, active, windowExpected, windowSeen,
          endIndex, total, pc, job, result, failures, crashes>>

-----------------------------------------------------------------------------
(* Frame geometry.                                                         *)

\* Mutant of ValidRecord: the record CRC is not checked.
UncheckedRecord(payload) == payload # {}

ValidRecord(payload) == \E t \in Tokens : payload = {t}

Stride(f) ==
  IF f.flags = "GROUP_XOR_WHITENED"
  THEN IF f.streamOffset = 0 THEN 1 ELSE f.streamOffset
  ELSE 1

ValidBlock(f) ==
  /\ f.kind = "BLOCK_XOR"
  /\ f.streamId \in 1..MaxWindow
  /\ \/ /\ f.flags = "GROUP_XOR_WHITENED"
        /\ f.streamId <= 3
        /\ Stride(f) \in 1..MaxWindow
        /\ f.windowIndex + (f.streamId - 1) * Stride(f) < f.windowCount
     \/ /\ f.flags = "WHITENED"
        /\ f.streamOffset = 0
        /\ f.windowIndex + f.streamId <= f.windowCount

ChainFits(f) == f.windowIndex + 1 < f.windowCount

BasisCoefficients == {1, 2, 4, 8}
BasisOf(coefficient) ==
  CASE coefficient = 1 -> 0
    [] coefficient = 2 -> 1
    [] coefficient = 4 -> 2
    [] OTHER           -> 3

\* A plane frame keeps its coefficient in globalIndex, its group in streamId
\* and its width in streamOffset.
IsBasis(f) == f.kind = "PLANE_CODED" /\ f.globalIndex \in BasisCoefficients

ValidPlane(f) ==
  /\ f.globalIndex \in {1, 2, 4, 7, 8, 15}
  /\ f.streamOffset \in {3, 4}
  /\ f.flags = IF f.streamOffset = 4 /\ f.globalIndex = 15
               THEN "NONE" ELSE "PLANE_WHITENED"
  /\ f.globalIndex = 7 => f.streamOffset = 3
  /\ f.globalIndex \in {8, 15} => f.streamOffset = 4
  /\ f.windowIndex + f.streamOffset <= f.windowCount

PlaneStart(f) ==
  /\ f.kind = "PLANE_CODED"
  /\ f.flags = "PLANE_WHITENED"
  /\ f.globalIndex = 1
  /\ f.streamOffset \in {3, 4}
  /\ f.windowIndex + f.streamOffset <= f.windowCount
  /\ ValidRecord(f.payload)

RecoveryStart(f) ==
  \/ f.kind = "CHAIN_XOR" /\ f.flags = "PAIR_WHITENED" /\ ChainFits(f)
  \/ ValidBlock(f)

SessionStart(f) == f.kind = "DATA" \/ PlaneStart(f) \/ RecoveryStart(f)

-----------------------------------------------------------------------------
(* The files of the active session.                                        *)

Files == [window : Windows, windowIndex : Nat, windowCount : Nat,
          payload : SUBSET Tokens]

File(window, windowIndex, windowCount, payload) ==
  [window |-> window, windowIndex |-> windowIndex,
   windowCount |-> windowCount, payload |-> payload]

Retained(s) == {i \in Indices : frames[s][i] # NoFile}

\* Name of an equation's file: xor_<index>, parity_<index> or
\* plane_<group>_<coefficient>.
SameFile(f, g) ==
  /\ f.kind = g.kind
  /\ f.globalIndex = g.globalIndex
  /\ f.kind = "PLANE_CODED" => f.streamId = g.streamId

Stored(s, f) == {g \in equations[s] : SameFile(f, g)}

-----------------------------------------------------------------------------
(* Peeling one equation.                                                   *)

Solves(e) ==
  \/ e.kind = "CHAIN_XOR" /\ ChainFits(e)
  \/ e.kind = "BLOCK_XOR" /\ ValidBlock(e)
  \/ e.kind = "PLANE_CODED" /\ ValidPlane(e) /\ ~IsBasis(e)

Offsets(e) ==
  CASE e.kind = "CHAIN_XOR" -> 0..1
    [] e.kind = "BLOCK_XOR" -> 0..(e.streamId - 1)
    [] OTHER                -> 0..(e.streamOffset - 1)

Step(e, i) == IF e.kind = "BLOCK_XOR" THEN i * Stride(e) ELSE i
First(e) == IF e.kind = "PLANE_CODED" THEN e.streamId ELSE e.globalIndex
IndexAt(e, i) == First(e) + Step(e, i)

\* Mutant of BasisFiles: the group is not part of the file name.
BasisFilesOfAnyGroup(e, i) ==
  {b \in equations[e.session] : IsBasis(b) /\ BasisOf(b.globalIndex) = i}

\* The file of member i: a DATA frame, or for a plane equation the stored
\* basis frame, whatever became of its DATA frame.
BasisFiles(e, i) ==
  {b \in equations[e.session] :
     IsBasis(b) /\ b.streamId = e.streamId /\ BasisOf(b.globalIndex) = i}

HasMember(e, i) ==
  IF e.kind = "PLANE_CODED"
  THEN BasisFiles(e, i) # {}
  ELSE frames[e.session][IndexAt(e, i)] # NoFile

Member(e, i) ==
  IF e.kind = "PLANE_CODED"
  THEN CHOOSE b \in BasisFiles(e, i) : TRUE
  ELSE frames[e.session][IndexAt(e, i)]

Fits(e, i) ==
  LET known == Member(e, i) IN
  CASE e.kind = "BLOCK_XOR" ->
         known.window = e.window /\ known.windowIndex = e.windowIndex + Step(e, i)
    [] e.kind = "PLANE_CODED" ->
         /\ known.window = e.window
         /\ known.streamOffset = e.streamOffset
         /\ known.flags = "PLANE_WHITENED"
    [] OTHER -> TRUE

Absent(e) == {i \in Offsets(e) : ~HasMember(e, i)}

\* The equation XORed with every member on disk.
Residue(e) ==
  {t \in Tokens :
     (t \in e.payload) # (Cardinality({i \in Offsets(e) \ Absent(e) :
                             t \in Member(e, i).payload}) % 2 = 1)}

Solvable(e) ==
  /\ Solves(e)
  /\ \A i \in Offsets(e) \ Absent(e) : Fits(e, i)
  /\ ValidRecord(Residue(e))
  /\ \E i \in Offsets(e) :
        Absent(e) = {i} /\ frames[e.session][IndexAt(e, i)] = NoFile

Work == IF active = NoSession THEN {} ELSE {e \in equations[active] : Solvable(e)}

-----------------------------------------------------------------------------
(* What is assumed of the constants.                                       *)

ASSUME ConstantsAssumption ==
  /\ NoSession \notin Sessions
  /\ NoFrame \notin Frames
  /\ NoFile \notin Files
  /\ MaxIndex \in Nat
  /\ Indices \subseteq Tokens
  /\ EndToken \in [Sessions -> Indices]
  /\ MaxFailures \in Nat
  /\ MaxCrashes \in Nat
  /\ LosesPref \in BOOLEAN

\* Parsed header fields are unsigned; the frames of the instance stay within
\* the index bound.
ASSUME FramesAssumption ==
  \A f \in Frames :
    /\ f.session \in Sessions
    /\ f.windowIndex \in Nat
    /\ f.windowCount \in Nat
    /\ f.globalIndex \in Nat
    /\ f.streamId \in Nat
    /\ f.streamOffset \in Nat
    /\ f.payload \in SUBSET Tokens
    /\ f.kind = "DATA" => f.globalIndex \in Indices
    /\ IsBasis(f) => f.streamId + BasisOf(f.globalIndex) \in Indices
    /\ Solves(f) => \A i \in Offsets(f) : IndexAt(f, i) \in Indices

\* What a sender may emit: an equation is the XOR of its members' records;
\* a DATA or basis frame carries its own record, or one that belongs to no
\* frame of the session; nothing is numbered past the TRANSFER_END record.
ASSUME SenderAssumption ==
  \A f \in Frames :
    /\ f.kind = "DATA" =>
          /\ f.globalIndex <= EndToken[f.session]
          /\ f.payload \cap Indices \subseteq {f.globalIndex}
    /\ IsBasis(f) =>
          /\ f.streamId + BasisOf(f.globalIndex) <= EndToken[f.session]
          /\ f.payload \cap Indices \subseteq {f.streamId + BasisOf(f.globalIndex)}
    /\ Solves(f) =>
          /\ f.payload = {IndexAt(f, i) : i \in Offsets(f)}
          /\ \A i \in Offsets(f) : IndexAt(f, i) <= EndToken[f.session]

-----------------------------------------------------------------------------
(* Storing.                                                                *)

WriteFails ==
  /\ failures < MaxFailures
  /\ failures' = failures + 1

Emptied == [w \in Windows |-> 0]
Unseen == [w \in Windows |-> {}]

\* storeRecovered(): the DATA file of a record obtained from frame e, with
\* the statistics that follow a successful write.
StoreRecovered(e, index, windowIndex, payload) ==
  /\ frames' = [frames EXCEPT ![e.session][index] =
                  File(e.window, windowIndex, e.windowCount, payload)]
  /\ windowExpected' = [windowExpected EXCEPT ![e.window] = e.windowCount]
  /\ windowSeen' = [windowSeen EXCEPT ![e.window] = @ \cup {windowIndex}]
  /\ total' = total + 1
  /\ endIndex' = IF payload = {EndToken[e.session]} THEN index ELSE endIndex
  /\ UNCHANGED failures

-----------------------------------------------------------------------------
(* accept().                                                               *)

\* Mutant of Return: the frame being accepted is not let go.
ReturnKeepingJob(r) ==
  /\ pc' = "idle"
  /\ result' = r
  /\ UNCHANGED job

Return(r) ==
  /\ pc' = "idle"
  /\ job' = NoFrame
  /\ result' = r

\* Mutant of Recover: accept() forgets recoverAvailable().
ReturnUnrecovered == Return("STORED")

Recover ==
  /\ pc' = "recover"
  /\ job' = NoFrame
  /\ result' = "STORED"

\* Mutant of Admitted: any starting frame replaces the session.
AdmittedOverFrames(f) == active = f.session \/ SessionStart(f)

\* The session check at the top of accept().
Admitted(f) ==
  \/ active = f.session
  \/ /\ SessionStart(f)
     /\ active # NoSession => Retained(active) = {}

\* activate(): a newly adopted session starts with empty maps, whatever its
\* directory holds.
Activate(f) == active' = f.session /\ UNCHANGED prefActive

\* Mutants: activate() runs for every frame, or leaves endIndex behind.
SeenCleared(f) == Unseen
TotalCleared(f) == 0
EndIndexKept(f) == endIndex

Expected0(f) == IF active = f.session THEN windowExpected ELSE Emptied
Seen0(f) == IF active = f.session THEN windowSeen ELSE Unseen
EndIndex0(f) == IF active = f.session THEN endIndex ELSE -1
Total0(f) == IF active = f.session THEN total ELSE 0

Expect(f) ==
  windowExpected' = [Expected0(f) EXCEPT ![f.window] = f.windowCount]

\* A frame or DATA record that does not parse, or an equation whose geometry
\* accept() refuses.
Garbled ==
  /\ pc = "idle"
  /\ result' = "INVALID"
  /\ UNCHANGED <<disk, prefActive, active, stats, pc, job, failures, crashes>>

OtherSession(f) ==
  /\ pc = "idle"
  /\ ~Admitted(f)
  /\ f.kind = "DATA" => ValidRecord(f.payload)
  /\ result' = "OTHER_SESSION"
  /\ UNCHANGED <<disk, prefActive, active, stats, pc, job, failures, crashes>>

EndWindow(f) ==
  /\ pc = "idle"
  /\ f.kind = "END_WINDOW"
  /\ Admitted(f)
  /\ Activate(f)
  /\ Expect(f)
  /\ windowSeen' = Seen0(f)
  /\ endIndex' = EndIndex0(f)
  /\ total' = Total0(f)
  /\ Return("STORED")
  /\ UNCHANGED <<disk, failures, crashes>>

\* The write of an equation's file, and what follows it.
KeepEquation(f) ==
  IF Stored(f.session, f) # {}
  THEN /\ Return(IF f \in Stored(f.session, f) THEN "DUPLICATE" ELSE "INVALID")
       /\ UNCHANGED <<equations, failures>>
  ELSE \/ /\ equations' = [equations EXCEPT ![f.session] = @ \cup {f}]
          /\ IF IsBasis(f)
             THEN pc' = "basis" /\ job' = f /\ UNCHANGED result
             ELSE Recover
          /\ UNCHANGED failures
       \/ /\ WriteFails
          /\ Return("INVALID")
          /\ UNCHANGED equations

Equation(f) ==
  /\ pc = "idle"
  /\ f.kind \in {"CHAIN_XOR", "BLOCK_XOR", "PLANE_CODED"}
  /\ Admitted(f)
  /\ f.kind = "BLOCK_XOR" => ValidBlock(f)
  /\ f.kind = "PLANE_CODED" => ValidPlane(f) /\ (IsBasis(f) => ValidRecord(f.payload))
  /\ Activate(f)
  /\ Expect(f)
  /\ windowSeen' = Seen0(f)
  /\ endIndex' = EndIndex0(f)
  /\ total' = Total0(f)
  /\ KeepEquation(f)
  /\ UNCHANGED <<frames, crashes>>

\* The second half of a plane basis: its record as a DATA file.  Only a
\* newly stored record goes on to recoverAvailable().
StoreBasis ==
  /\ pc = "basis"
  /\ LET index == job.streamId + BasisOf(job.globalIndex)
         old   == frames[active][index]
     IN IF old # NoFile
        THEN /\ Return(IF old.payload = job.payload THEN "DUPLICATE" ELSE "INVALID")
             /\ UNCHANGED <<frames, stats, failures>>
        ELSE \/ /\ StoreRecovered(job, index, job.windowIndex + BasisOf(job.globalIndex),
                                  job.payload)
                /\ Recover
             \/ /\ WriteFails
                /\ Return("INVALID")
                /\ UNCHANGED <<frames, stats>>
  /\ UNCHANGED <<equations, prefActive, active, crashes>>

Data(f) ==
  /\ pc = "idle"
  /\ f.kind = "DATA"
  /\ ValidRecord(f.payload)
  /\ Admitted(f)
  /\ Activate(f)
  /\ Expect(f)
  /\ endIndex' = IF f.payload = {EndToken[f.session]} THEN f.globalIndex ELSE EndIndex0(f)
  /\ LET old  == frames[f.session][f.globalIndex]
         seen == [Seen0(f) EXCEPT ![f.window] = @ \cup {f.windowIndex}]
     IN IF old # NoFile
        THEN /\ IF old.payload = f.payload
                THEN Return("DUPLICATE") /\ windowSeen' = seen
                ELSE Return("INVALID") /\ windowSeen' = Seen0(f)
             /\ total' = Total0(f)
             /\ UNCHANGED <<frames, failures>>
        ELSE \/ /\ frames' = [frames EXCEPT ![f.session][f.globalIndex] =
                                File(f.window, f.windowIndex, f.windowCount, f.payload)]
                /\ windowSeen' = seen
                /\ total' = Total0(f) + 1
                /\ Recover
                /\ UNCHANGED failures
             \/ /\ WriteFails
                /\ Return("INVALID")
                /\ windowSeen' = Seen0(f)
                /\ total' = Total0(f)
                /\ UNCHANGED frames
  /\ UNCHANGED <<equations, crashes>>

\* Mutant of RecoverOne: a frame that cannot be written counts as a change of
\* the pass, on a full disk.
RecoverAgain(e) ==
  /\ pc = "recover"
  /\ e \in Work
  /\ UNCHANGED vars

\* Mutant of RecoverOne: a member of a strided group is filed as the next one.
RecoverUnstrided(e) ==
  /\ pc = "recover"
  /\ e \in Work
  /\ LET i == CHOOSE j \in Offsets(e) : Absent(e) = {j}
     IN StoreRecovered(e, First(e) + i, e.windowIndex + i, Residue(e))
  /\ UNCHANGED <<equations, prefActive, active, pc, job, result, crashes>>

\* One equation recovered inside recoverAvailable().
RecoverOne(e) ==
  /\ pc = "recover"
  /\ e \in Work
  /\ LET i == CHOOSE j \in Offsets(e) : Absent(e) = {j}
     IN StoreRecovered(e, IndexAt(e, i), e.windowIndex + Step(e, i), Residue(e))
  /\ UNCHANGED <<equations, prefActive, active, pc, job, result, crashes>>

\* A pass over all equations that changed nothing ends the loop: none is
\* solvable, or the write of each that is has failed.
RecoverDone ==
  /\ pc = "recover"
  /\ \/ Work = {} /\ UNCHANGED failures
     \/ Work # {} /\ WriteFails
  /\ pc' = "idle"
  /\ UNCHANGED <<disk, prefActive, active, stats, job, result, crashes>>

-----------------------------------------------------------------------------
(* The user's reset, the preference's write, and a kill with its restart.  *)

\* Mutant of Reset: the whole sessions directory is deleted.
ResetEverySession ==
  /\ pc = "idle"
  /\ active # NoSession
  /\ frames' = [s \in Sessions |-> [i \in Indices |-> NoFile]]
  /\ equations' = [s \in Sessions |-> {}]
  /\ active' = NoSession
  /\ windowExpected' = Emptied
  /\ windowSeen' = Unseen
  /\ endIndex' = -1
  /\ total' = 0
  /\ UNCHANGED <<prefActive, pc, job, result, failures, crashes>>

Reset ==
  /\ pc = "idle"
  /\ active # NoSession
  /\ frames' = [frames EXCEPT ![active] = [i \in Indices |-> NoFile]]
  /\ equations' = [equations EXCEPT ![active] = {}]
  /\ active' = NoSession
  /\ windowExpected' = Emptied
  /\ windowSeen' = Unseen
  /\ endIndex' = -1
  /\ total' = 0
  /\ UNCHANGED <<prefActive, pc, job, result, failures, crashes>>

FlushPref ==
  /\ prefActive # active
  /\ prefActive' = active
  /\ UNCHANGED <<disk, active, stats, pc, job, result, failures, crashes>>

\* reload(): what the constructor rebuilds from the DATA files of a directory.
Kept(dir) == {i \in Indices : dir[i] # NoFile}
Reloaded(dir) == {dir[i] : i \in Kept(dir)}

ReloadStats(dir, end) ==
  /\ windowExpected' = [w \in Windows |->
        IF \E f \in Reloaded(dir) : f.window = w
        THEN (CHOOSE f \in Reloaded(dir) : f.window = w).windowCount ELSE 0]
  /\ windowSeen' = [w \in Windows |->
        {f.windowIndex : f \in {g \in Reloaded(dir) : g.window = w}}]
  /\ total' = Cardinality(Kept(dir))
  /\ endIndex' = IF \E i \in Kept(dir) : dir[i].payload = end
                 THEN CHOOSE i \in Kept(dir) : dir[i].payload = end
                 ELSE -1

\* The process is killed and started again.
Relaunch ==
  /\ crashes < MaxCrashes
  /\ crashes' = crashes + 1
  /\ LosesPref \/ prefActive = active
  /\ active' = prefActive
  /\ IF prefActive = NoSession
     THEN /\ pc' = "idle"
          /\ windowExpected' = Emptied
          /\ windowSeen' = Unseen
          /\ total' = 0
          /\ endIndex' = -1
     ELSE /\ pc' = "recover"
          /\ ReloadStats(frames'[prefActive], {EndToken[prefActive]})
  /\ job' = NoFrame
  /\ result' = "NONE"
  /\ UNCHANGED <<prefActive, failures>>

Crash == UNCHANGED disk /\ Relaunch

\* reset() deletes file by file, in no particular order: a kill leaves any of
\* them, and the preference with them.
ResetKilled ==
  /\ pc = "idle" /\ active # NoSession
  /\ \E kept \in SUBSET Retained(active) :
       frames' = [frames EXCEPT ![active] =
                    [i \in Indices |-> IF i \in kept THEN frames[active][i] ELSE NoFile]]
  /\ \E kept \in SUBSET equations[active] :
       equations' = [equations EXCEPT ![active] = kept]
  /\ Relaunch

-----------------------------------------------------------------------------
Init ==
  /\ frames = [s \in Sessions |-> [i \in Indices |-> NoFile]]
  /\ equations = [s \in Sessions |-> {}]
  /\ prefActive = NoSession
  /\ active = NoSession
  /\ windowExpected = Emptied
  /\ windowSeen = Unseen
  /\ endIndex = -1
  /\ total = 0
  /\ pc = "idle"
  /\ job = NoFrame
  /\ result = "NONE"
  /\ failures = 0
  /\ crashes = 0

Accept(f) == OtherSession(f) \/ EndWindow(f) \/ Equation(f) \/ Data(f)

Next ==
  \/ \E f \in Frames : OtherSession(f)
  \/ \E f \in Frames : EndWindow(f)
  \/ \E f \in Frames : Equation(f)
  \/ \E f \in Frames : Data(f)
  \/ Garbled
  \/ StoreBasis
  \/ \E e \in Frames : RecoverOne(e)
  \/ RecoverDone
  \/ Reset
  \/ FlushPref
  \/ Crash
  \/ ResetKilled

Spec == Init /\ [][Next]_vars

\* accept() and the constructor run to completion on their thread.
FairSpec ==
  Spec /\ WF_vars(StoreBasis \/ RecoverDone \/ \E e \in Frames : RecoverOne(e))

-----------------------------------------------------------------------------
(* Properties.                                                             *)

Results == {"NONE", "STORED", "DUPLICATE", "INVALID", "OTHER_SESSION"}

\* Type invariant.
TypeOK ==
  /\ frames \in [Sessions -> [Indices -> Files \cup {NoFile}]]
  /\ equations \in [Sessions -> SUBSET Frames]
  /\ prefActive \in Sessions \cup {NoSession}
  /\ active \in Sessions \cup {NoSession}
  /\ windowExpected \in [Windows -> Nat]
  /\ windowSeen \in [Windows -> SUBSET Nat]
  /\ endIndex \in Indices \cup {-1}
  /\ total \in Nat
  /\ pc \in {"idle", "basis", "recover"}
  /\ job \in Frames \cup {NoFrame}
  /\ pc = "basis" <=> job # NoFrame
  /\ result \in Results
  /\ failures \in 0..MaxFailures
  /\ crashes \in 0..MaxCrashes

\* The records a sender put at index i of session s: the genuine one, or the
\* payload of a DATA or basis frame the camera decoded for that place.
SentPayloads(s, i) ==
  {{i}} \cup {f.payload : f \in {g \in Frames : g.session = s /\
                 \/ g.kind = "DATA" /\ g.globalIndex = i
                 \/ IsBasis(g) /\ g.streamId + BasisOf(g.globalIndex) = i}}

\* Peeling never fabricates a frame and never files one under another index:
\* every retained payload is one that was sent for that index, through any
\* mixture of recoveries, conflicting frames, failed writes and restarts.
RetainedAsSent ==
  \A s \in Sessions, i \in Indices :
    frames[s][i] # NoFile => frames[s][i].payload \in SentPayloads(s, i)

\* Mutant of Complete: off by one.
CompleteOneShort == active # NoSession /\ endIndex >= 0 /\ Cardinality(Retained(active)) = endIndex

Complete == active # NoSession /\ endIndex >= 0 /\ Cardinality(Retained(active)) = endIndex + 1

\* stats().complete compares a count with endIndex; when it says complete,
\* the frames on disk are exactly 0..endIndex, so reconstruction has no gap.
CompleteMeansAll == Complete => Retained(active) = 0..endIndex

\* The files of window w hold window index wi.
OnDisk(w, wi) == \E i \in Retained(active) :
                    frames[active][i].window = w /\ frames[active][i].windowIndex = wi

\* The missing ranges the user copies to the sender's M prompt name exactly
\* the frames of the window that are not on disk: none that is there, and
\* none left out, after recoveries, failed writes and restarts.
MissingExact ==
  pc = "idle" /\ active # NoSession =>
    \A w \in Windows : \A wi \in 0..(windowExpected[w] - 1) :
      wi \in windowSeen[w] <=> OnDisk(w, wi)

\* totalPayload counts every retained record once, however it arrived.
TotalExact ==
  pc = "idle" /\ active # NoSession => total = Cardinality(Retained(active))

\* "When exactly one member of any BLOCK_XOR equation is absent, a receiver
\* XORs every available member" (PROTOCOL.md), and the same for CHAIN_XOR:
\* once accept() has returned no such equation is left, if no write failed.
EquationsSettled ==
  pc = "idle" /\ active # NoSession /\ failures = 0 =>
    \A e \in equations[active] :
      e.kind # "PLANE_CODED" /\ Solves(e) => Cardinality(Absent(e)) # 1

\* "Once three bases and the parity are known it reconstructs the fourth"
\* (PLANE_XOR.md): once accept() has returned, of a plane group that lacks one
\* basis that record is on disk too.
PlanesSettled ==
  pc = "idle" /\ active # NoSession /\ failures = 0 =>
    \A e \in equations[active] :
      e.kind = "PLANE_CODED" /\ Solves(e) /\ Cardinality(Absent(e)) = 1 =>
        \A i \in Absent(e) : e.streamId + i \in Retained(active)

\* "The Android app atomically retains every validated QR frame"
\* (RECOVERY.md): a basis frame that is kept has its record kept too.
BasisRetained ==
  pc = "idle" /\ active # NoSession =>
    \A b \in equations[active] : IsBasis(b) =>
      b.streamId + BasisOf(b.globalIndex) \in Retained(active)

\* A frame on disk is never altered, and it goes away only when the user
\* resets the session being received: with all the others, unless the process
\* is killed in the middle.
NeverOverwritten ==
  [][\A s \in Sessions, i \in Indices :
       frames[s][i] # NoFile /\ frames'[s][i] # frames[s][i] =>
         /\ s = active /\ frames'[s][i] = NoFile
         /\ \/ active' = NoSession /\ \A j \in Indices : frames'[s][j] = NoFile
            \/ pc = "idle" /\ crashes' = crashes + 1]_vars

\* Every call of accept() returns: the recovery loop runs out of equations.
AcceptReturns == (pc # "idle") ~> (pc = "idle")

\* Strengthening for the proofs: files lie in the directory of their own
\* session, the locked part of accept() works for the active session, and no
\* frame is numbered past the end of its transfer.
Placed ==
  /\ \A s \in Sessions : \A e \in equations[s] : e.session = s
  /\ pc = "basis" => IsBasis(job) /\ job.session = active
  /\ pc = "recover" => active # NoSession

EndKnown ==
  /\ \A s \in Sessions, i \in Indices : frames[s][i] # NoFile => i <= EndToken[s]
  /\ active # NoSession /\ endIndex >= 0 => endIndex = EndToken[active]

IInv == TypeOK /\ Placed /\ RetainedAsSent /\ EndKnown

\* The store implements the abstract store of validated frames.
Abstract == INSTANCE FrameStore
              WITH current <- active,
                   retained <- [s \in Sessions |-> Retained(s)],
                   starts <- crashes
AbstractSpec == Abstract!Spec
===============================================================================
