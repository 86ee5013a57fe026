-------------------------- MODULE SessionStoreProofs --------------------------
(***************************************************************************)
(* Theorems about the receiver's frame store, for every set of sessions    *)
(* and frames that meets the assumptions of SessionStore.                  *)
(***************************************************************************)
EXTENDS SessionStore, TLAPS, FiniteSetTheorems

-----------------------------------------------------------------------------
(* Facts about the operators.                                              *)

\* A frame's window is a window, and a file built from a frame is a file.
LEMMA FileType ==
  ASSUME NEW f \in Frames, NEW wi \in Nat, NEW p \in SUBSET Tokens
  PROVE  /\ f.window \in Windows
         /\ File(f.window, wi, f.windowCount, p) \in Files
         /\ File(f.window, wi, f.windowCount, p) # NoFile
         /\ File(f.window, wi, f.windowCount, p).payload = p
  BY FramesAssumption, ConstantsAssumption DEF Windows, File, Files

\* The retained indices of a session are finitely many.
LEMMA RetainedFinite ==
  ASSUME NEW s \in Sessions
  PROVE  /\ IsFiniteSet(Retained(s))
         /\ Cardinality(Retained(s)) \in Nat
         /\ Retained(s) \subseteq Indices
<1>1. IsFiniteSet(Indices)
  BY ConstantsAssumption, FS_Interval DEF Indices
<1>2. Retained(s) \subseteq Indices
  BY DEF Retained
<1>3. IsFiniteSet(Retained(s))
  BY <1>1, <1>2, FS_Subset
<1>4. QED
  BY <1>2, <1>3, FS_CardinalityType

\* The maps accept() starts from are maps, newly adopted session or not.
LEMMA BaseType ==
  ASSUME TypeOK, NEW f \in Frames
  PROVE  /\ Expected0(f) \in [Windows -> Nat]
         /\ Seen0(f) \in [Windows -> SUBSET Nat]
         /\ EndIndex0(f) \in Indices \cup {-1}
         /\ Total0(f) \in Nat
  BY DEF TypeOK, Expected0, Seen0, EndIndex0, Total0, Emptied, Unseen

\* Members of an equation have distinct places, within its window.
LEMMA StepFacts ==
  ASSUME NEW e \in Frames, Solves(e), NEW i \in Offsets(e), NEW j \in Offsets(e)
  PROVE  /\ Step(e, i) \in Nat
         /\ IndexAt(e, i) \in Indices
         /\ IndexAt(e, i) = IndexAt(e, j) => i = j
<1>1. IndexAt(e, i) \in Indices /\ IndexAt(e, j) \in Indices
  BY FramesAssumption
<1>2. i \in Nat /\ j \in Nat
  BY FramesAssumption DEF Offsets
<1>3. First(e) \in Nat
  BY FramesAssumption DEF First
<1>4. CASE e.kind = "BLOCK_XOR"
  <2>1. Stride(e) \in Nat /\ Stride(e) >= 1
    BY <1>4, FramesAssumption DEF Solves, ValidBlock, Stride
  <2>2. Step(e, i) = i * Stride(e) /\ Step(e, j) = j * Stride(e)
    BY <1>4 DEF Step
  <2>3. ASSUME NEW m \in Nat, NEW n \in Nat, NEW d \in Nat, d >= 1, m * d = n * d
        PROVE  m = n
    BY <2>3
  <2>4. Step(e, i) \in Nat /\ Step(e, j) \in Nat
    BY <2>1, <2>2, <1>2
  <2>5. IndexAt(e, i) = IndexAt(e, j) => Step(e, i) = Step(e, j)
    BY <2>4, <1>3 DEF IndexAt
  <2>6. QED
    BY <1>1, <1>2, <2>1, <2>2, <2>3, <2>4, <2>5
<1>5. CASE e.kind # "BLOCK_XOR"
  BY <1>1, <1>2, <1>3, <1>5 DEF IndexAt, Step
<1>6. QED
  BY <1>4, <1>5

\* A payload sent for index i has nothing to do with any other index.
LEMMA SentOwn ==
  ASSUME NEW s \in Sessions, NEW i \in Indices, NEW p \in SentPayloads(s, i)
  PROVE  p \cap Indices \subseteq {i}
  BY SenderAssumption DEF SentPayloads

-----------------------------------------------------------------------------
(* Type correctness, with the placement of files and of the locked step.   *)

\* Placed and typed: what StoreRecovered leaves behind.
LEMMA StoreRecoveredType ==
  ASSUME TypeOK, NEW e \in Frames, NEW index \in Indices, NEW wi \in Nat,
         NEW p \in SUBSET Tokens, StoreRecovered(e, index, wi, p)
  PROVE  /\ frames' \in [Sessions -> [Indices -> Files \cup {NoFile}]]
         /\ windowExpected' \in [Windows -> Nat]
         /\ windowSeen' \in [Windows -> SUBSET Nat]
         /\ endIndex' \in Indices \cup {-1}
         /\ total' \in Nat
         /\ failures' = failures
<1>1. File(e.window, wi, e.windowCount, p) \in Files
  BY FileType
<1>2. /\ e.session \in Sessions
      /\ e.windowCount \in Nat
      /\ e.window \in Windows
  BY FramesAssumption, FileType
<1>3. frames' \in [Sessions -> [Indices -> Files \cup {NoFile}]]
  BY <1>1, <1>2 DEF StoreRecovered, TypeOK
<1>4. QED
  BY <1>2, <1>3 DEF StoreRecovered, TypeOK

\* The record a RecoverOne step stores, and where.
LEMMA RecoverOnePlace ==
  ASSUME TypeOK, Placed, NEW e \in Frames, RecoverOne(e)
  PROVE  /\ e \in equations[active]
         /\ active \in Sessions
         /\ e.session = active
         /\ Solvable(e)
         /\ \E i \in Offsets(e) :
              /\ Absent(e) = {i}
              /\ frames[active][IndexAt(e, i)] = NoFile
              /\ StoreRecovered(e, IndexAt(e, i), e.windowIndex + Step(e, i), Residue(e))
<1>1. active # NoSession /\ e \in equations[active] /\ Solvable(e)
  BY DEF RecoverOne, Work
<1>2. active \in Sessions
  BY <1>1 DEF TypeOK
<1>3. e.session = active
  BY <1>1, <1>2 DEF Placed
<1>4. PICK i \in Offsets(e) :
        Absent(e) = {i} /\ frames[e.session][IndexAt(e, i)] = NoFile
  BY <1>1 DEF Solvable
<1>5. (CHOOSE j \in Offsets(e) : Absent(e) = {j}) = i
  BY <1>4
<1>6. StoreRecovered(e, IndexAt(e, i), e.windowIndex + Step(e, i), Residue(e))
  BY <1>5 DEF RecoverOne
<1>7. QED
  BY <1>1, <1>2, <1>3, <1>4, <1>6

\* The place a StoreBasis step writes to.
LEMMA BasisPlace ==
  ASSUME TypeOK, Placed, pc = "basis"
  PROVE  /\ job \in Frames
         /\ IsBasis(job)
         /\ job.session = active
         /\ active \in Sessions
         /\ job.streamId + BasisOf(job.globalIndex) \in Indices
         /\ job.windowIndex + BasisOf(job.globalIndex) \in Nat
         /\ job.payload \in SUBSET Tokens
<1>1. job \in Frames /\ IsBasis(job) /\ job.session = active
  BY DEF TypeOK, Placed
<1>2. BasisOf(job.globalIndex) \in Nat
  BY <1>1 DEF BasisOf
<1>3. QED
  BY <1>1, <1>2, FramesAssumption

\* A kill leaves the files alone, or in the middle of reset() any part of
\* those of the active session.
LEMMA KillFiles ==
  ASSUME TypeOK, Crash \/ ResetKilled
  PROVE  /\ Relaunch
         /\ frames' \in [Sessions -> [Indices -> Files \cup {NoFile}]]
         /\ equations' \in [Sessions -> SUBSET Frames]
         /\ \A s \in Sessions : equations'[s] \subseteq equations[s]
         /\ \A s \in Sessions, i \in Indices : frames'[s][i] \in {frames[s][i], NoFile}
<1>1. CASE Crash
  BY <1>1 DEF Crash, disk, TypeOK
<1>2. CASE ResetKilled
  <2>1. active \in Sessions
    BY <1>2 DEF ResetKilled, TypeOK
  <2>2. PICK kept \in SUBSET Retained(active) :
          frames' = [frames EXCEPT ![active] =
                       [i \in Indices |-> IF i \in kept THEN frames[active][i] ELSE NoFile]]
    BY <1>2 DEF ResetKilled
  <2>3. PICK left \in SUBSET equations[active] :
          equations' = [equations EXCEPT ![active] = left]
    BY <1>2 DEF ResetKilled
  <2>4. /\ frames' \in [Sessions -> [Indices -> Files \cup {NoFile}]]
        /\ \A s \in Sessions, i \in Indices : frames'[s][i] \in {frames[s][i], NoFile}
    BY <2>1, <2>2 DEF TypeOK
  <2>5. /\ equations' \in [Sessions -> SUBSET Frames]
        /\ \A s \in Sessions : equations'[s] \subseteq equations[s]
    BY <2>1, <2>3 DEF TypeOK
  <2>6. QED
    BY <1>2, <2>4, <2>5 DEF ResetKilled
<1>3. QED
  BY <1>1, <1>2

\* The statistics the constructor starts with are typed.
LEMMA RelaunchType ==
  ASSUME TypeOK, Relaunch, frames' \in [Sessions -> [Indices -> Files \cup {NoFile}]]
  PROVE  /\ windowExpected' \in [Windows -> Nat]
         /\ windowSeen' \in [Windows -> SUBSET Nat]
         /\ endIndex' \in Indices \cup {-1}
         /\ total' \in Nat
<1>1. CASE prefActive = NoSession
  BY <1>1 DEF Relaunch, Emptied, Unseen
<1>2. CASE prefActive \in Sessions
  <2> DEFINE dir == frames'[prefActive]
  <2>1. prefActive # NoSession
    BY <1>2, ConstantsAssumption
  <2>2. ReloadStats(dir, {EndToken[prefActive]})
    BY <2>1 DEF Relaunch
  <2>3. Reloaded(dir) \subseteq Files
    BY <1>2 DEF Reloaded, Kept
  <2>4. windowExpected' \in [Windows -> Nat]
    BY <2>2, <2>3 DEF ReloadStats, Files
  <2>5. windowSeen' \in [Windows -> SUBSET Nat]
    BY <2>2, <2>3 DEF ReloadStats, Files
  <2>6. Kept(dir) \subseteq Indices /\ Cardinality(Kept(dir)) \in Nat
    <3>1. Kept(dir) \subseteq Indices
      BY DEF Kept
    <3>2. IsFiniteSet(Indices)
      BY ConstantsAssumption, FS_Interval DEF Indices
    <3>3. IsFiniteSet(Kept(dir))
      BY <3>1, <3>2, FS_Subset
    <3>4. QED
      BY <3>1, <3>3, FS_CardinalityType
  <2>7. total' \in Nat /\ endIndex' \in Indices \cup {-1}
    BY <2>2, <2>6 DEF ReloadStats
  <2>8. QED
    BY <2>4, <2>5, <2>7
<1>3. QED
  BY <1>1, <1>2 DEF TypeOK

\* Every step of the store keeps its type and its placement.
LEMMA TypeStep ==
  ASSUME TypeOK, Placed, [Next]_vars
  PROVE  TypeOK' /\ Placed'
<1>1. ASSUME NEW f \in Frames, OtherSession(f)
      PROVE  TypeOK' /\ Placed'
  BY <1>1 DEF TypeOK, Placed, OtherSession, Results, disk, stats
<1>2. ASSUME NEW f \in Frames, EndWindow(f)
      PROVE  TypeOK' /\ Placed'
  <2>1. f.session \in Sessions /\ f.window \in Windows /\ f.windowCount \in Nat
    BY FramesAssumption, FileType
  <2>2. windowExpected' \in [Windows -> Nat]
    BY <1>2, <2>1, BaseType DEF EndWindow, Expect
  <2>3. QED
    BY <1>2, <2>1, <2>2, BaseType, ConstantsAssumption
       DEF TypeOK, Placed, EndWindow, Activate, Return, Results, disk
<1>3. ASSUME NEW f \in Frames, Equation(f)
      PROVE  TypeOK' /\ Placed'
  <2>1. f.session \in Sessions /\ f.window \in Windows /\ f.windowCount \in Nat
    BY FramesAssumption, FileType
  <2>2. windowExpected' \in [Windows -> Nat]
    BY <1>3, <2>1, BaseType DEF Equation, Expect
  <2>3. equations' \in [Sessions -> SUBSET Frames]
    BY <1>3, <2>1 DEF Equation, KeepEquation, TypeOK
  <2>4. \A s \in Sessions : \A e \in equations'[s] : e.session = s
    BY <1>3, <2>1 DEF Equation, KeepEquation, TypeOK, Placed
  <2>5. active' = f.session /\ active' # NoSession
    BY <1>3, <2>1, ConstantsAssumption DEF Equation, Activate
  <2>6. /\ pc' \in {"idle", "basis", "recover"}
        /\ job' \in Frames \cup {NoFrame}
        /\ pc' = "basis" <=> job' # NoFrame
        /\ pc' = "basis" => IsBasis(job') /\ job'.session = active'
        /\ result' \in Results
        /\ failures' \in 0..MaxFailures
    BY <1>3, <2>5, ConstantsAssumption
       DEF Equation, KeepEquation, Return, Recover, WriteFails, TypeOK, Results
  <2>7. QED
    BY <1>3, <2>1, <2>2, <2>3, <2>4, <2>5, <2>6, BaseType
       DEF TypeOK, Placed, Equation, Activate
<1>4. ASSUME NEW f \in Frames, Data(f)
      PROVE  TypeOK' /\ Placed'
  <2>1. /\ f.session \in Sessions /\ f.window \in Windows /\ f.windowCount \in Nat
        /\ f.windowIndex \in Nat /\ f.payload \in SUBSET Tokens
    BY FramesAssumption, FileType
  <2>2. f.globalIndex \in Indices
    BY <1>4, FramesAssumption DEF Data
  <2>3. windowExpected' \in [Windows -> Nat]
    BY <1>4, <2>1, BaseType DEF Data, Expect
  <2>4. File(f.window, f.windowIndex, f.windowCount, f.payload) \in Files
    BY <2>1, FileType
  <2>5. frames' \in [Sessions -> [Indices -> Files \cup {NoFile}]]
    <3>1. \/ UNCHANGED frames
          \/ frames' = [frames EXCEPT ![f.session][f.globalIndex] =
                          File(f.window, f.windowIndex, f.windowCount, f.payload)]
      BY <1>4 DEF Data
    <3>2. QED
      BY <2>1, <2>2, <2>4, <3>1 DEF TypeOK
  <2>6. windowSeen' \in [Windows -> SUBSET Nat]
    <3>1. \/ windowSeen' = Seen0(f)
          \/ windowSeen' = [Seen0(f) EXCEPT ![f.window] = @ \cup {f.windowIndex}]
      BY <1>4 DEF Data
    <3>2. Seen0(f) \in [Windows -> SUBSET Nat]
      BY BaseType
    <3>3. QED
      BY <2>1, <3>1, <3>2
  <2>7. endIndex' \in Indices \cup {-1} /\ total' \in Nat
    BY <1>4, <2>2, BaseType DEF Data
  <2>8. /\ pc' \in {"idle", "recover"}
        /\ job' = NoFrame
        /\ result' \in Results
        /\ failures' \in 0..MaxFailures
    <3>1. /\ failures \in 0..MaxFailures
          /\ WriteFails => failures' \in 0..MaxFailures
      BY ConstantsAssumption DEF WriteFails, TypeOK
    <3>2. \/ Recover /\ UNCHANGED failures
          \/ /\ Return("DUPLICATE") \/ Return("INVALID")
             /\ UNCHANGED failures \/ WriteFails
      BY <1>4 DEF Data
    <3>3. QED
      BY <3>1, <3>2 DEF Return, Recover, Results
  <2>9. /\ active' = f.session
        /\ UNCHANGED <<prefActive, equations, crashes>>
    BY <1>4 DEF Data, Activate
  <2>10. QED
    BY <2>1, <2>3, <2>5, <2>6, <2>7, <2>8, <2>9, ConstantsAssumption
       DEF TypeOK, Placed
<1>5. CASE Garbled
  BY <1>5 DEF TypeOK, Placed, Garbled, Results, disk, stats
<1>6. CASE StoreBasis
  <2> DEFINE index == job.streamId + BasisOf(job.globalIndex)
  <2>1. /\ job \in Frames /\ job.session = active /\ active \in Sessions
        /\ index \in Indices /\ job.payload \in SUBSET Tokens
        /\ job.windowIndex + BasisOf(job.globalIndex) \in Nat
    BY <1>6, BasisPlace DEF StoreBasis
  <2>2. CASE /\ UNCHANGED <<frames, stats>>
             /\ failures' \in 0..MaxFailures
             /\ pc' = "idle" /\ job' = NoFrame
             /\ result' \in {"DUPLICATE", "INVALID"}
    BY <1>6, <2>2 DEF TypeOK, Placed, StoreBasis, Results, stats
  <2>3. CASE /\ StoreRecovered(job, index,
                   job.windowIndex + BasisOf(job.globalIndex), job.payload)
             /\ Recover
    <3>1. /\ frames' \in [Sessions -> [Indices -> Files \cup {NoFile}]]
          /\ windowExpected' \in [Windows -> Nat]
          /\ windowSeen' \in [Windows -> SUBSET Nat]
          /\ endIndex' \in Indices \cup {-1}
          /\ total' \in Nat
          /\ failures' = failures
      BY <2>1, <2>3, StoreRecoveredType
    <3>2. active # NoSession
      BY <2>1, ConstantsAssumption
    <3>3. QED
      BY <1>6, <2>3, <3>1, <3>2 DEF TypeOK, Placed, StoreBasis, Recover, Results
  <2>4. QED
    <3>1. failures \in 0..MaxFailures /\ (WriteFails => failures' \in 0..MaxFailures)
      BY ConstantsAssumption DEF TypeOK, WriteFails
    <3>2. QED
      BY <1>6, <2>2, <2>3, <3>1 DEF StoreBasis, Return
<1>7. ASSUME NEW e \in Frames, RecoverOne(e)
      PROVE  TypeOK' /\ Placed'
  <2>1. PICK i \in Offsets(e) :
          StoreRecovered(e, IndexAt(e, i), e.windowIndex + Step(e, i), Residue(e))
    BY <1>7, RecoverOnePlace
  <2>2. IndexAt(e, i) \in Indices /\ Step(e, i) \in Nat
    BY <1>7, RecoverOnePlace, StepFacts DEF Solvable
  <2>3. e.windowIndex + Step(e, i) \in Nat /\ Residue(e) \in SUBSET Tokens
    BY <2>2, FramesAssumption DEF Residue
  <2>4. /\ frames' \in [Sessions -> [Indices -> Files \cup {NoFile}]]
        /\ windowExpected' \in [Windows -> Nat]
        /\ windowSeen' \in [Windows -> SUBSET Nat]
        /\ endIndex' \in Indices \cup {-1}
        /\ total' \in Nat
        /\ failures' = failures
    BY <2>1, <2>2, <2>3, StoreRecoveredType
  <2>5. QED
    BY <1>7, <2>4 DEF TypeOK, Placed, RecoverOne
<1>8. CASE RecoverDone
  <2>1. failures' \in 0..MaxFailures
    BY <1>8, ConstantsAssumption DEF RecoverDone, WriteFails, TypeOK
  <2>2. job = NoFrame
    BY <1>8 DEF RecoverDone, TypeOK
  <2>3. QED
    BY <1>8, <2>1, <2>2 DEF TypeOK, Placed, RecoverDone, disk, stats
<1>9. CASE Reset
  <2>1. active \in Sessions
    BY <1>9 DEF Reset, TypeOK
  <2>2. frames' \in [Sessions -> [Indices -> Files \cup {NoFile}]]
    BY <1>9, <2>1 DEF Reset, TypeOK
  <2>3. QED
    BY <1>9, <2>1, <2>2 DEF TypeOK, Placed, Reset, Emptied, Unseen
<1>10. CASE FlushPref
  BY <1>10 DEF TypeOK, Placed, FlushPref, disk, stats
<1>11. CASE Crash \/ ResetKilled
  <2>1. /\ Relaunch
        /\ frames' \in [Sessions -> [Indices -> Files \cup {NoFile}]]
        /\ equations' \in [Sessions -> SUBSET Frames]
        /\ \A s \in Sessions : equations'[s] \subseteq equations[s]
    BY <1>11, KillFiles
  <2>2. crashes' \in 0..MaxCrashes
    BY <2>1, ConstantsAssumption DEF Relaunch, TypeOK
  <2>3. /\ windowExpected' \in [Windows -> Nat]
        /\ windowSeen' \in [Windows -> SUBSET Nat]
        /\ endIndex' \in Indices \cup {-1}
        /\ total' \in Nat
    BY <2>1, RelaunchType
  <2>4. /\ pc' \in {"idle", "recover"} /\ job' = NoFrame /\ result' = "NONE"
        /\ active' = prefActive /\ UNCHANGED <<prefActive, failures>>
        /\ pc' = "recover" => active' # NoSession
    BY <2>1 DEF Relaunch
  <2>5. QED
    BY <2>1, <2>2, <2>3, <2>4, ConstantsAssumption DEF TypeOK, Placed, Results
<1>12. CASE UNCHANGED vars
  BY <1>12 DEF TypeOK, Placed, vars
<1>13. QED
  BY <1>1, <1>2, <1>3, <1>4, <1>5, <1>6, <1>7, <1>8, <1>9, <1>10, <1>11, <1>12
     DEF Next

\* The store starts typed and placed.
LEMMA TypeInit ==
  ASSUME Init
  PROVE  TypeOK /\ Placed
  BY ConstantsAssumption DEF Init, TypeOK, Placed, Emptied, Unseen, Results

\* The type invariant of the store, with its placement of files.
THEOREM TypeCorrect == Spec => [](TypeOK /\ Placed)
<1>1. Init => TypeOK /\ Placed
  BY TypeInit
<1>2. TypeOK /\ Placed /\ [Next]_vars => (TypeOK /\ Placed)'
  BY TypeStep
<1>3. QED
  BY <1>1, <1>2, PTL DEF Spec

-----------------------------------------------------------------------------
(* What each step does to the files.                                       *)

\* Every step leaves the DATA files alone, adds one in a free place of the
\* session it is then receiving, or is the user's reset, ended or not.
StoresOne(s, i, file) ==
  /\ frames[s][i] = NoFile
  /\ frames' = [frames EXCEPT ![s][i] = file]
  /\ active' = s
  /\ active = s \/ active = NoSession \/ Retained(active) = {}

\* An accepted DATA frame.
LEMMA DataFiles ==
  ASSUME TypeOK, NEW f \in Frames, Data(f)
  PROVE  /\ f.session \in Sessions
         /\ f.globalIndex \in Indices
         /\ \/ UNCHANGED frames
            \/ StoresOne(f.session, f.globalIndex,
                         File(f.window, f.windowIndex, f.windowCount, f.payload))
<1>1. f.session \in Sessions /\ f.globalIndex \in Indices
  BY FramesAssumption DEF Data
<1>2. active' = f.session
  BY DEF Data, Activate
<1>3. active = f.session \/ active = NoSession \/ Retained(active) = {}
  BY DEF Data, Admitted
<1>4. \/ UNCHANGED frames
      \/ /\ frames[f.session][f.globalIndex] = NoFile
         /\ frames' = [frames EXCEPT ![f.session][f.globalIndex] =
                         File(f.window, f.windowIndex, f.windowCount, f.payload)]
  BY DEF Data
<1>5. QED
  BY <1>1, <1>2, <1>3, <1>4 DEF StoresOne

\* The record of a plane basis.
LEMMA BasisFileStep ==
  ASSUME TypeOK, Placed, StoreBasis
  PROVE  \/ UNCHANGED frames
         \/ \E wi \in Nat :
              StoresOne(active, job.streamId + BasisOf(job.globalIndex),
                        File(job.window, wi, job.windowCount, job.payload))
<1>1. /\ job.session = active /\ active \in Sessions
      /\ job.windowIndex + BasisOf(job.globalIndex) \in Nat
  BY BasisPlace DEF StoreBasis
<1>2. active' = active
  BY DEF StoreBasis
<1>3. \/ UNCHANGED frames
      \/ /\ frames[active][job.streamId + BasisOf(job.globalIndex)] = NoFile
         /\ StoreRecovered(job, job.streamId + BasisOf(job.globalIndex),
                           job.windowIndex + BasisOf(job.globalIndex), job.payload)
  BY DEF StoreBasis
<1>4. QED
  BY <1>1, <1>2, <1>3 DEF StoresOne, StoreRecovered

\* A recovered record.
LEMMA RecoverFileStep ==
  ASSUME TypeOK, Placed, NEW e \in Frames, RecoverOne(e)
  PROVE  \E i \in Offsets(e), wi \in Nat :
           /\ Absent(e) = {i}
           /\ IndexAt(e, i) \in Indices
           /\ StoresOne(active, IndexAt(e, i),
                        File(e.window, wi, e.windowCount, Residue(e)))
<1>1. /\ active \in Sessions /\ e.session = active
      /\ Solves(e)
  BY RecoverOnePlace DEF Solvable
<1>2. PICK i \in Offsets(e) :
        /\ Absent(e) = {i}
        /\ frames[active][IndexAt(e, i)] = NoFile
        /\ StoreRecovered(e, IndexAt(e, i), e.windowIndex + Step(e, i), Residue(e))
  BY RecoverOnePlace
<1>3. IndexAt(e, i) \in Indices /\ e.windowIndex + Step(e, i) \in Nat
  BY <1>1, StepFacts, FramesAssumption
<1>4. active' = active
  BY DEF RecoverOne
<1>5. QED
  BY <1>1, <1>2, <1>3, <1>4 DEF StoresOne, StoreRecovered

\* All other steps but the reset.
LEMMA OtherFileStep ==
  ASSUME [Next]_vars,
         ~(\E f \in Frames : Data(f)), ~StoreBasis,
         ~(\E e \in Frames : RecoverOne(e)), ~Reset, ~ResetKilled
  PROVE  UNCHANGED frames
  BY DEF Next, vars, OtherSession, EndWindow, Equation, Garbled, RecoverDone,
         FlushPref, Crash, disk

-----------------------------------------------------------------------------
(* Recovery fabricates nothing.                                            *)

\* XORing the members on disk into an equation leaves the absent one's
\* record in, because no member's record lies at another member's index.
LEMMA ResidueHasAbsent ==
  ASSUME TypeOK, Placed, RetainedAsSent, NEW e \in Frames, e \in equations[active],
         active \in Sessions, e.session = active, Solves(e),
         NEW i \in Offsets(e), Absent(e) = {i}
  PROVE  IndexAt(e, i) \in Residue(e)
<1> DEFINE t == IndexAt(e, i)
           K == {j \in Offsets(e) \ Absent(e) : t \in Member(e, j).payload}
<1>1. t \in Indices /\ t \in Tokens
  BY StepFacts, ConstantsAssumption
<1>2. t \in e.payload
  BY SenderAssumption
<1>3. ASSUME NEW j \in Offsets(e) \ Absent(e), t \in Member(e, j).payload
      PROVE  FALSE
  <2>1. j # i /\ HasMember(e, j)
    BY <1>3 DEF Absent
  <2>2. IndexAt(e, j) \in Indices /\ IndexAt(e, j) # t
    BY <2>1, StepFacts
  <2>3. CASE e.kind = "PLANE_CODED"
    <3>1. PICK b \in BasisFiles(e, j) : Member(e, j) = b
      BY <2>1, <2>3 DEF HasMember, Member
    <3>2. b \in Frames /\ IsBasis(b) /\ b.streamId = e.streamId /\ BasisOf(b.globalIndex) = j
      BY <3>1 DEF BasisFiles, TypeOK
    <3>3. b.payload \cap Indices \subseteq {b.streamId + BasisOf(b.globalIndex)}
      BY <3>2, SenderAssumption
    <3>4. IndexAt(e, j) = b.streamId + BasisOf(b.globalIndex)
      BY <2>3, <3>2 DEF IndexAt, First, Step
    <3>5. QED
      BY <1>1, <1>3, <2>2, <3>1, <3>3, <3>4
  <2>4. CASE e.kind # "PLANE_CODED"
    <3>1. /\ Member(e, j) = frames[active][IndexAt(e, j)]
          /\ frames[active][IndexAt(e, j)] # NoFile
      BY <2>1, <2>4 DEF HasMember, Member
    <3>2. Member(e, j).payload \in SentPayloads(active, IndexAt(e, j))
      BY <2>2, <3>1 DEF RetainedAsSent
    <3>3. Member(e, j).payload \cap Indices \subseteq {IndexAt(e, j)}
      BY <2>2, <3>2, SentOwn
    <3>4. QED
      BY <1>1, <1>3, <2>2, <3>3
  <2>5. QED
    BY <2>3, <2>4
<1>4. K = {}
  BY <1>3
<1>5. Cardinality(K) % 2 # 1
  <2>1. Cardinality({}) = 0
    BY FS_EmptySet
  <2>2. Cardinality(K) = 0
    BY ONLY <1>4, <2>1
  <2>3. 0 % 2 # 1
    OBVIOUS
  <2>4. QED
    BY <2>2, <2>3
<1>6. QED
  BY <1>1, <1>2, <1>5 DEF Residue

\* A recovered payload is the record of the index it is stored under.
LEMMA ResidueGenuine ==
  ASSUME TypeOK, Placed, RetainedAsSent, NEW e \in Frames, RecoverOne(e),
         NEW i \in Offsets(e), Absent(e) = {i}
  PROVE  Residue(e) = {IndexAt(e, i)}
<1>1. /\ e \in equations[active] /\ active \in Sessions /\ e.session = active
      /\ Solves(e) /\ ValidRecord(Residue(e))
  BY RecoverOnePlace DEF Solvable
<1>2. IndexAt(e, i) \in Residue(e)
  BY <1>1, ResidueHasAbsent
<1>3. QED
  BY <1>1, <1>2 DEF ValidRecord

\* One stored file keeps RetainedAsSent if its payload was sent for its index.
LEMMA StoresOneSent ==
  ASSUME TypeOK, RetainedAsSent, NEW s \in Sessions, NEW i \in Indices, NEW file,
         StoresOne(s, i, file), file.payload \in SentPayloads(s, i)
  PROVE  RetainedAsSent'
<1>1. ASSUME NEW r \in Sessions, NEW j \in Indices, frames'[r][j] # NoFile
      PROVE  frames'[r][j].payload \in SentPayloads(r, j)
  <2>1. CASE r = s /\ j = i
    BY <2>1 DEF StoresOne, TypeOK
  <2>2. CASE ~(r = s /\ j = i)
    <3>1. frames'[r][j] = frames[r][j]
      BY <2>2 DEF StoresOne, TypeOK
    <3>2. QED
      BY <1>1, <3>1 DEF RetainedAsSent
  <2>3. QED
    BY <2>1, <2>2
<1>2. QED
  BY <1>1 DEF RetainedAsSent, SentPayloads

\* RetainedAsSent is kept by every step.
LEMMA SentStep ==
  ASSUME TypeOK, Placed, RetainedAsSent, [Next]_vars
  PROVE  RetainedAsSent'
<1>1. ASSUME NEW f \in Frames, Data(f)
      PROVE  RetainedAsSent'
  <2>1. f.session \in Sessions /\ f.globalIndex \in Indices /\ f.kind = "DATA"
    BY <1>1, DataFiles DEF Data
  <2>2. f.payload \in SentPayloads(f.session, f.globalIndex)
    BY <2>1 DEF SentPayloads
  <2>3. CASE UNCHANGED frames
    BY <2>3 DEF RetainedAsSent, SentPayloads
  <2>4. CASE StoresOne(f.session, f.globalIndex,
                       File(f.window, f.windowIndex, f.windowCount, f.payload))
    BY <2>1, <2>2, <2>4, StoresOneSent DEF File
  <2>5. QED
    BY <1>1, <2>3, <2>4, DataFiles
<1>2. CASE StoreBasis
  <2> DEFINE index == job.streamId + BasisOf(job.globalIndex)
  <2>1. /\ active \in Sessions /\ index \in Indices
        /\ job \in Frames /\ IsBasis(job) /\ job.session = active
    BY <1>2, BasisPlace DEF StoreBasis
  <2>2. job.payload \in SentPayloads(active, index)
    BY <2>1 DEF SentPayloads
  <2>3. CASE UNCHANGED frames
    BY <2>3 DEF RetainedAsSent, SentPayloads
  <2>4. ASSUME NEW wi \in Nat,
               StoresOne(active, index, File(job.window, wi, job.windowCount, job.payload))
        PROVE  RetainedAsSent'
    BY <2>1, <2>2, <2>4, StoresOneSent DEF File
  <2>5. QED
    BY <1>2, <2>3, <2>4, BasisFileStep
<1>3. ASSUME NEW e \in Frames, RecoverOne(e)
      PROVE  RetainedAsSent'
  <2>1. PICK i \in Offsets(e), wi \in Nat :
          /\ Absent(e) = {i}
          /\ IndexAt(e, i) \in Indices
          /\ StoresOne(active, IndexAt(e, i),
                       File(e.window, wi, e.windowCount, Residue(e)))
    BY <1>3, RecoverFileStep
  <2>2. Residue(e) \in SentPayloads(active, IndexAt(e, i))
    BY <1>3, <2>1, ResidueGenuine DEF SentPayloads
  <2>3. active \in Sessions
    BY <1>3, RecoverOnePlace
  <2>4. QED
    BY <2>1, <2>2, <2>3, StoresOneSent DEF File
<1>4. CASE Reset
  <2>1. active \in Sessions
    BY <1>4 DEF Reset, TypeOK
  <2>2. ASSUME NEW s \in Sessions, NEW i \in Indices, frames'[s][i] # NoFile
        PROVE  frames'[s][i] = frames[s][i]
    BY <1>4, <2>1, <2>2 DEF Reset, TypeOK
  <2>3. QED
    BY <2>2 DEF RetainedAsSent, SentPayloads
<1>5. CASE ResetKilled
  <2>1. ASSUME NEW s \in Sessions, NEW i \in Indices, frames'[s][i] # NoFile
        PROVE  frames'[s][i] = frames[s][i]
    BY <1>5, <2>1, KillFiles
  <2>2. QED
    BY <2>1 DEF RetainedAsSent, SentPayloads
<1>6. CASE UNCHANGED frames
  BY <1>6 DEF RetainedAsSent, SentPayloads
<1>7. QED
  BY <1>1, <1>2, <1>3, <1>4, <1>5, <1>6, OtherFileStep

\* Peeling never fabricates a frame, for any equations, losses, conflicting
\* frames, failed writes and restarts.
THEOREM RecoveryGenuine == Spec => []RetainedAsSent
<1>1. Init => RetainedAsSent
  BY DEF Init, RetainedAsSent
<1>2. TypeOK /\ Placed /\ RetainedAsSent /\ [Next]_vars => RetainedAsSent'
  BY SentStep
<1>3. QED
  BY <1>1, <1>2, TypeCorrect, PTL DEF Spec

-----------------------------------------------------------------------------
(* The end of the transfer, and what "complete" means.                     *)

\* A file stored within the transfer keeps every file within it.
LEMMA StoresOneWithin ==
  ASSUME TypeOK, NEW s \in Sessions, NEW i \in Indices, NEW file,
         StoresOne(s, i, file), i <= EndToken[s],
         \A r \in Sessions, j \in Indices : frames[r][j] # NoFile => j <= EndToken[r]
  PROVE  \A r \in Sessions, j \in Indices : frames'[r][j] # NoFile => j <= EndToken[r]
<1>1. ASSUME NEW r \in Sessions, NEW j \in Indices, frames'[r][j] # NoFile
      PROVE  j <= EndToken[r]
  <2>1. CASE r = s /\ j = i
    BY <2>1
  <2>2. CASE ~(r = s /\ j = i)
    BY <1>1, <2>2 DEF StoresOne, TypeOK
  <2>3. QED
    BY <2>1, <2>2
<1>2. QED
  BY <1>1

\* A step that keeps the files, or deletes some, and keeps or forgets the end.
LEMMA EndKept ==
  ASSUME TypeOK, EndKnown,
         \A s \in Sessions, i \in Indices : frames'[s][i] # NoFile => frames[s][i] # NoFile,
         (active' = active /\ endIndex' = endIndex) \/ endIndex' = -1
  PROVE  EndKnown'
  BY DEF EndKnown

\* endIndex is a session's TRANSFER_END, and nothing is numbered past it.
LEMMA EndStep ==
  ASSUME TypeOK, Placed, RetainedAsSent, EndKnown, [Next]_vars
  PROVE  EndKnown'
<1>1. ASSUME NEW f \in Frames, Data(f)
      PROVE  EndKnown'
  <2>1. /\ f.session \in Sessions /\ f.globalIndex \in Indices
        /\ f.globalIndex <= EndToken[f.session]
        /\ f.payload \cap Indices \subseteq {f.globalIndex}
    BY <1>1, DataFiles, SenderAssumption DEF Data
  <2>2. active' = f.session
    BY <1>1 DEF Data, Activate
  <2>3. \A s \in Sessions, i \in Indices : frames'[s][i] # NoFile => i <= EndToken[s]
    <3>1. CASE UNCHANGED frames
      BY <3>1 DEF EndKnown
    <3>2. CASE StoresOne(f.session, f.globalIndex,
                         File(f.window, f.windowIndex, f.windowCount, f.payload))
      BY <2>1, <3>2, StoresOneWithin DEF EndKnown
    <3>3. QED
      BY <1>1, <3>1, <3>2, DataFiles
  <2>4. CASE f.payload = {EndToken[f.session]}
    <3>1. f.globalIndex = EndToken[f.session]
      BY <2>1, <2>4, ConstantsAssumption
    <3>2. endIndex' = EndToken[f.session]
      BY <1>1, <2>4, <3>1 DEF Data
    <3>3. QED
      BY <2>2, <2>3, <3>2 DEF EndKnown
  <2>5. CASE f.payload # {EndToken[f.session]}
    <3>1. endIndex' = EndIndex0(f)
      BY <1>1, <2>5 DEF Data
    <3>2. active' # NoSession /\ endIndex' >= 0 => endIndex' = EndToken[active']
      BY <2>2, <3>1 DEF EndKnown, EndIndex0
    <3>3. QED
      BY <2>3, <3>2 DEF EndKnown
  <2>6. QED
    BY <2>4, <2>5
<1>2. CASE StoreBasis
  <2> DEFINE index == job.streamId + BasisOf(job.globalIndex)
  <2>1. /\ active \in Sessions /\ index \in Indices
        /\ job \in Frames /\ IsBasis(job) /\ job.session = active
    BY <1>2, BasisPlace DEF StoreBasis
  <2>2. index <= EndToken[active] /\ job.payload \cap Indices \subseteq {index}
    BY <2>1, SenderAssumption
  <2>3. active' = active
    BY <1>2 DEF StoreBasis
  <2>4. \A s \in Sessions, i \in Indices : frames'[s][i] # NoFile => i <= EndToken[s]
    <3>1. CASE UNCHANGED frames
      BY <3>1 DEF EndKnown
    <3>2. ASSUME NEW wi \in Nat,
                 StoresOne(active, index, File(job.window, wi, job.windowCount, job.payload))
          PROVE  \A s \in Sessions, i \in Indices : frames'[s][i] # NoFile => i <= EndToken[s]
      BY <2>1, <2>2, <3>2, StoresOneWithin DEF EndKnown
    <3>3. QED
      BY <1>2, <3>1, <3>2, BasisFileStep
  <2>5. \/ endIndex' = endIndex
        \/ endIndex' = index /\ job.payload = {EndToken[active]}
    BY <1>2, <2>1 DEF StoreBasis, StoreRecovered, stats
  <2>6. job.payload = {EndToken[active]} => index = EndToken[active]
    BY <2>1, <2>2, ConstantsAssumption
  <2>7. QED
    BY <2>3, <2>4, <2>5, <2>6 DEF EndKnown
<1>3. ASSUME NEW e \in Frames, RecoverOne(e)
      PROVE  EndKnown'
  <2>1. PICK i \in Offsets(e) :
          /\ Absent(e) = {i}
          /\ frames[active][IndexAt(e, i)] = NoFile
          /\ StoreRecovered(e, IndexAt(e, i), e.windowIndex + Step(e, i), Residue(e))
    BY <1>3, RecoverOnePlace
  <2>2. /\ active \in Sessions /\ e.session = active /\ active' = active
        /\ Solves(e)
    BY <1>3, RecoverOnePlace DEF Solvable, RecoverOne
  <2>3. IndexAt(e, i) \in Indices /\ IndexAt(e, i) <= EndToken[active]
    BY <2>2, StepFacts, SenderAssumption
  <2>4. Residue(e) = {IndexAt(e, i)}
    BY <1>3, <2>1, ResidueGenuine
  <2>5. StoresOne(active, IndexAt(e, i),
                  File(e.window, e.windowIndex + Step(e, i), e.windowCount, Residue(e)))
    BY <2>1, <2>2 DEF StoresOne, StoreRecovered
  <2>6. \A s \in Sessions, j \in Indices : frames'[s][j] # NoFile => j <= EndToken[s]
    BY <2>2, <2>3, <2>5, StoresOneWithin DEF EndKnown
  <2>7. endIndex' = IF Residue(e) = {EndToken[active]} THEN IndexAt(e, i) ELSE endIndex
    BY <2>1, <2>2 DEF StoreRecovered
  <2>8. QED
    BY <2>2, <2>4, <2>6, <2>7 DEF EndKnown
<1>4. CASE Reset
  <2>1. active \in Sessions
    BY <1>4 DEF Reset, TypeOK
  <2>2. \A s \in Sessions, i \in Indices : frames'[s][i] # NoFile => frames[s][i] # NoFile
    BY <1>4, <2>1 DEF Reset, TypeOK
  <2>3. QED
    BY <1>4, <2>2, EndKept DEF Reset
<1>5. CASE Crash \/ ResetKilled
  <2>1. /\ Relaunch /\ active' = prefActive
        /\ frames' \in [Sessions -> [Indices -> Files \cup {NoFile}]]
        /\ \A s \in Sessions, i \in Indices : frames'[s][i] \in {frames[s][i], NoFile}
    BY <1>5, KillFiles DEF Relaunch
  <2>2. \A s \in Sessions, i \in Indices : frames'[s][i] # NoFile => frames[s][i] # NoFile
    BY <2>1
  <2>3. CASE prefActive = NoSession
    BY <2>1, <2>2, <2>3, EndKept DEF Relaunch
  <2>4. CASE prefActive \in Sessions
    <3> DEFINE dir == frames'[prefActive]
    <3>1. prefActive # NoSession
      BY <2>4, ConstantsAssumption
    <3>2. ReloadStats(dir, {EndToken[prefActive]})
      BY <2>1, <3>1 DEF Relaunch
    <3>3. ASSUME NEW i \in Kept(dir), dir[i].payload = {EndToken[prefActive]}
          PROVE  i = EndToken[prefActive]
      <4>1. i \in Indices /\ dir[i] = frames[prefActive][i] /\ frames[prefActive][i] # NoFile
        BY <2>1, <2>4 DEF Kept
      <4>2. dir[i].payload \in SentPayloads(prefActive, i)
        BY <2>4, <4>1 DEF RetainedAsSent
      <4>3. dir[i].payload \cap Indices \subseteq {i}
        BY <2>4, <4>1, <4>2, SentOwn
      <4>4. EndToken[prefActive] \in Indices
        BY <2>4, ConstantsAssumption
      <4>5. QED
        BY <3>3, <4>3, <4>4
    <3>4. endIndex' = EndToken[prefActive] \/ endIndex' = -1
      BY <3>2, <3>3 DEF ReloadStats
    <3>5. QED
      BY <2>1, <2>2, <3>4 DEF EndKnown
  <2>5. QED
    BY <2>3, <2>4 DEF TypeOK
<1>6. ASSUME NEW f \in Frames, EndWindow(f) \/ Equation(f)
      PROVE  EndKnown'
  <2>1. UNCHANGED frames /\ active' = f.session /\ endIndex' = EndIndex0(f)
    BY <1>6 DEF EndWindow, Equation, Activate, disk
  <2>2. QED
    BY <2>1, EndKept DEF EndIndex0
<1>7. ASSUME \/ \E f \in Frames : OtherSession(f)
             \/ Garbled \/ RecoverDone \/ FlushPref \/ UNCHANGED vars
      PROVE  EndKnown'
  <2>1. UNCHANGED <<frames, active, endIndex>>
    BY <1>7 DEF OtherSession, Garbled, RecoverDone, FlushPref, vars, disk, stats
  <2>2. QED
    BY <2>1, EndKept
<1>8. QED
  BY <1>1, <1>2, <1>3, <1>4, <1>5, <1>6, <1>7 DEF Next

\* The inductive invariant holds throughout.
THEOREM Inductive == Spec => []IInv
<1>1. Init => EndKnown
  BY DEF Init, EndKnown
<1>2. TypeOK /\ Placed /\ RetainedAsSent /\ EndKnown /\ [Next]_vars => EndKnown'
  BY EndStep
<1>3. QED
  BY <1>1, <1>2, TypeCorrect, RecoveryGenuine, PTL DEF Spec, IInv

\* When stats() reports a complete transfer, every frame of it is on disk.
THEOREM CompleteIsGapless == Spec => []CompleteMeansAll
<1>1. IInv => CompleteMeansAll
  <2> SUFFICES ASSUME IInv, Complete
               PROVE  Retained(active) = 0..endIndex
    BY DEF CompleteMeansAll
  <2>1. active \in Sessions /\ endIndex \in Nat /\ endIndex = EndToken[active]
    BY DEF IInv, TypeOK, EndKnown, Complete, Indices
  <2>2. Retained(active) \subseteq 0..endIndex
    BY <2>1, RetainedFinite DEF IInv, EndKnown, Retained, Indices
  <2>3. IsFiniteSet(0..endIndex) /\ Cardinality(0..endIndex) = endIndex + 1
    <3>1. 0 \in Int /\ endIndex \in Int /\ ~(0 > endIndex) /\ endIndex - 0 + 1 = endIndex + 1
      BY <2>1
    <3>2. QED
      BY <3>1, FS_Interval, Zenon
  <2>4. Cardinality(Retained(active)) = endIndex + 1
    BY DEF Complete
  <2>5. QED
    BY <2>2, <2>3, <2>4, FS_Subset
<1>2. QED
  BY <1>1, Inductive, PTL

-----------------------------------------------------------------------------
(* Frames are never altered, and the abstract store is implemented.        *)

\* No step but the user's reset, ended or not, takes a frame away.
LEMMA OverwriteStep ==
  ASSUME TypeOK, Placed, [Next]_vars,
         NEW s \in Sessions, NEW i \in Indices,
         frames[s][i] # NoFile, frames'[s][i] # frames[s][i]
  PROVE  /\ s = active /\ frames'[s][i] = NoFile
         /\ \/ active' = NoSession /\ \A j \in Indices : frames'[s][j] = NoFile
            \/ pc = "idle" /\ crashes' = crashes + 1
<1>1. ASSUME NEW r \in Sessions, NEW j \in Indices, NEW file, StoresOne(r, j, file)
      PROVE  FALSE
  BY <1>1 DEF StoresOne, TypeOK
<1>2. ASSUME NEW f \in Frames, Data(f)
      PROVE  FALSE
  BY <1>1, <1>2, DataFiles
<1>3. CASE StoreBasis
  <2>1. active \in Sessions /\ job.streamId + BasisOf(job.globalIndex) \in Indices
    BY <1>3, BasisPlace DEF StoreBasis
  <2>2. QED
    BY <1>1, <1>3, <2>1, BasisFileStep
<1>4. ASSUME NEW e \in Frames, RecoverOne(e)
      PROVE  FALSE
  <2>1. active \in Sessions
    BY <1>4, RecoverOnePlace
  <2>2. QED
    BY <1>1, <1>4, <2>1, RecoverFileStep
<1>5. CASE Reset
  <2>1. active \in Sessions
    BY <1>5 DEF Reset, TypeOK
  <2>2. QED
    BY <1>5, <2>1 DEF Reset, TypeOK
<1>6. CASE ResetKilled
  <2>1. frames'[s][i] = NoFile
    BY <1>6, KillFiles
  <2>2. s = active
    BY <1>6 DEF ResetKilled, TypeOK
  <2>3. QED
    BY <1>6, <2>1, <2>2 DEF ResetKilled, Relaunch
<1>7. QED
  BY <1>2, <1>3, <1>4, <1>5, <1>6, OtherFileStep

\* A retained frame survives replays, recoveries, conflicts and restarts.
THEOREM FramesSurvive == Spec => NeverOverwritten
<1>1. TypeOK /\ Placed /\ [Next]_vars =>
        [\A s \in Sessions, i \in Indices :
           frames[s][i] # NoFile /\ frames'[s][i] # frames[s][i] =>
             /\ s = active /\ frames'[s][i] = NoFile
             /\ \/ active' = NoSession /\ \A j \in Indices : frames'[s][j] = NoFile
                \/ pc = "idle" /\ crashes' = crashes + 1]_vars
  BY OverwriteStep
<1>2. QED
  BY <1>1, TypeCorrect, PTL DEF Spec, NeverOverwritten

-----------------------------------------------------------------------------
(* Refinement of the abstract store.                                       *)

retained == [s \in Sessions |-> Retained(s)]

\* Storing one file in the session being received is a Retain of FrameStore.
LEMMA StoresOneRetains ==
  ASSUME TypeOK, NEW s \in Sessions, NEW i \in Indices, NEW file,
         StoresOne(s, i, file), file # NoFile
  PROVE  /\ i \notin retained[s]
         /\ retained' = [retained EXCEPT ![s] = @ \cup {i}]
<1>1. i \notin retained[s]
  BY DEF retained, Retained, StoresOne
<1>2. ASSUME NEW r \in Sessions
      PROVE  retained'[r] = IF r = s THEN retained[s] \cup {i} ELSE retained[r]
  BY <1>2 DEF retained, Retained, StoresOne, TypeOK
<1>3. retained' = [r \in Sessions |-> retained'[r]]
  BY DEF retained
<1>4. QED
  BY <1>1, <1>2, <1>3 DEF retained

\* Resetting the session being received is the Reset of FrameStore.
LEMMA ResetMaps ==
  ASSUME TypeOK, Reset
  PROVE  Abstract!Reset
<1>1. active \in Sessions /\ active' = NoSession /\ crashes' = crashes
  BY DEF Reset, TypeOK
<1>2. ASSUME NEW r \in Sessions
      PROVE  retained'[r] = IF r = active THEN {} ELSE retained[r]
  BY <1>1, <1>2 DEF retained, Retained, Reset, TypeOK
<1>3. retained' = [retained EXCEPT ![active] = {}]
  BY <1>1, <1>2 DEF retained
<1>4. QED
  BY <1>1, <1>3 DEF Abstract!Reset, retained

\* A kill in the middle of it is the RestartInReset of FrameStore.
LEMMA ResetKilledMaps ==
  ASSUME TypeOK, ResetKilled
  PROVE  Abstract!RestartInReset
<1>1. /\ active \in Sessions /\ active' \in Sessions \cup {NoSession}
      /\ crashes' = crashes + 1
  BY DEF ResetKilled, Relaunch, TypeOK
<1>2. PICK kept \in SUBSET Retained(active) :
        frames' = [frames EXCEPT ![active] =
                     [i \in Indices |-> IF i \in kept THEN frames[active][i] ELSE NoFile]]
  BY DEF ResetKilled
<1>3. ASSUME NEW r \in Sessions
      PROVE  retained'[r] = IF r = active THEN kept ELSE retained[r]
  BY <1>1, <1>2, <1>3 DEF retained, Retained, TypeOK
<1>4. retained' = [retained EXCEPT ![active] = kept]
  BY <1>1, <1>3 DEF retained
<1>5. kept \in SUBSET retained[active]
  BY <1>1 DEF retained
<1>6. QED
  BY <1>1, <1>4, <1>5 DEF Abstract!RestartInReset, retained

\* Every step of the store is a step of FrameStore, or changes nothing it sees.
LEMMA RefinementStep ==
  ASSUME TypeOK, Placed, [Next]_vars
  PROVE  [Abstract!Next]_(Abstract!vars)
<1> DEFINE Keeps == UNCHANGED <<active, frames, crashes>>
<1>1. Keeps => UNCHANGED Abstract!vars
  BY DEF Abstract!vars, Retained
<1>2. ASSUME NEW s \in Sessions, NEW i \in Indices, NEW file,
             StoresOne(s, i, file), file # NoFile, crashes' = crashes
      PROVE  Abstract!Retain(s, i)
  <2>1. active' = s /\ (active \in Sessions => active = s \/ Retained(active) = {})
    BY <1>2, ConstantsAssumption DEF StoresOne, TypeOK
  <2>2. Abstract!MayReceive(s)
    BY <2>1 DEF Abstract!MayReceive
  <2>3. QED
    BY <1>2, <2>1, <2>2, StoresOneRetains DEF Abstract!Retain, retained
<1>3. ASSUME NEW f \in Frames, Admitted(f), active' = f.session,
             UNCHANGED <<frames, crashes>>
      PROVE  Abstract!Next
  <2>1. f.session \in Sessions
    BY FramesAssumption
  <2>2. Abstract!MayReceive(f.session)
    BY <1>3, ConstantsAssumption DEF Admitted, Abstract!MayReceive
  <2>3. Abstract!Adopt(f.session)
    BY <1>3, <2>2 DEF Abstract!Adopt, Retained
  <2>4. QED
    BY <2>1, <2>3 DEF Abstract!Next
<1>4. ASSUME NEW f \in Frames, EndWindow(f) \/ Equation(f)
      PROVE  Abstract!Next
  <2>1. Admitted(f) /\ active' = f.session /\ UNCHANGED <<frames, crashes>>
    BY <1>4 DEF EndWindow, Equation, Activate, disk
  <2>2. QED
    BY <1>3, <2>1
<1>5. ASSUME NEW f \in Frames, Data(f)
      PROVE  Abstract!Next
  <2>1. Admitted(f) /\ active' = f.session /\ crashes' = crashes
    BY <1>5 DEF Data, Activate
  <2>2. CASE UNCHANGED frames
    BY <1>3, <2>1, <2>2
  <2>3. CASE StoresOne(f.session, f.globalIndex,
                       File(f.window, f.windowIndex, f.windowCount, f.payload))
    <3>1. File(f.window, f.windowIndex, f.windowCount, f.payload) # NoFile
      BY FileType, ConstantsAssumption, FramesAssumption
    <3>2. f.session \in Sessions /\ f.globalIndex \in Indices
      BY <1>5, DataFiles
    <3>3. QED
      BY <1>2, <2>1, <2>3, <3>1, <3>2 DEF Abstract!Next
  <2>4. QED
    BY <1>5, <2>2, <2>3, DataFiles
<1>6. CASE StoreBasis
  <2>1. /\ active \in Sessions /\ job \in Frames
        /\ job.streamId + BasisOf(job.globalIndex) \in Indices
    BY <1>6, BasisPlace DEF StoreBasis
  <2>2. active' = active /\ crashes' = crashes
    BY <1>6 DEF StoreBasis
  <2>3. CASE UNCHANGED frames
    BY <1>1, <2>2, <2>3
  <2>4. ASSUME NEW wi \in Nat,
               StoresOne(active, job.streamId + BasisOf(job.globalIndex),
                         File(job.window, wi, job.windowCount, job.payload))
        PROVE  Abstract!Next
    <3>1. File(job.window, wi, job.windowCount, job.payload) # NoFile
      BY <2>1, FileType, ConstantsAssumption, FramesAssumption
    <3>2. QED
      BY <1>2, <2>1, <2>2, <2>4, <3>1 DEF Abstract!Next
  <2>5. QED
    BY <1>6, <2>3, <2>4, BasisFileStep
<1>7. ASSUME NEW e \in Frames, RecoverOne(e)
      PROVE  Abstract!Next
  <2>1. PICK i \in Offsets(e), wi \in Nat :
          /\ IndexAt(e, i) \in Indices
          /\ StoresOne(active, IndexAt(e, i),
                       File(e.window, wi, e.windowCount, Residue(e)))
    BY <1>7, RecoverFileStep
  <2>2. active \in Sessions /\ crashes' = crashes
    BY <1>7, RecoverOnePlace DEF RecoverOne
  <2>3. Residue(e) \in SUBSET Tokens
    BY DEF Residue
  <2>4. File(e.window, wi, e.windowCount, Residue(e)) # NoFile
    BY <2>3, FileType, ConstantsAssumption, FramesAssumption
  <2>5. QED
    BY <1>2, <2>1, <2>2, <2>4 DEF Abstract!Next
<1>8. CASE Crash
  <2>1. /\ active' \in Sessions \cup {NoSession} /\ crashes' = crashes + 1
        /\ UNCHANGED frames
    BY <1>8 DEF Crash, Relaunch, TypeOK, disk
  <2>2. Abstract!Restart
    BY <2>1 DEF Abstract!Restart, Retained
  <2>3. QED
    BY <2>2 DEF Abstract!Next
<1>9. ASSUME \/ \E f \in Frames : OtherSession(f)
             \/ Garbled \/ RecoverDone \/ FlushPref \/ UNCHANGED vars
      PROVE  UNCHANGED Abstract!vars
  <2>1. Keeps
    BY <1>9 DEF OtherSession, Garbled, RecoverDone, FlushPref, vars, disk
  <2>2. QED
    BY <1>1, <2>1
<1>10. CASE Reset
  BY <1>10, ResetMaps DEF Abstract!Next
<1>11. CASE ResetKilled
  BY <1>11, ResetKilledMaps DEF Abstract!Next
<1>12. QED
  BY <1>4, <1>5, <1>6, <1>7, <1>8, <1>9, <1>10, <1>11 DEF Next

\* The receiver's store implements the abstract store of validated frames.
THEOREM Refinement == Spec => AbstractSpec
<1>1. Init => Abstract!Init
  BY DEF Init, Abstract!Init, Retained
<1>2. TypeOK /\ Placed /\ [Next]_vars => [Abstract!Next]_(Abstract!vars)
  BY RefinementStep
<1>3. QED
  BY <1>1, <1>2, TypeCorrect, PTL DEF Spec, AbstractSpec, Abstract!Spec

-----------------------------------------------------------------------------
(* What stats() tells the user.                                            *)

\* What frame f yields becomes record i of its session, at index wi of f's window.
Puts(f, i, wi) ==
  \/ f.kind = "DATA" /\ i = f.globalIndex /\ wi = f.windowIndex
  \/ /\ IsBasis(f)
     /\ i = f.streamId + BasisOf(f.globalIndex)
     /\ wi = f.windowIndex + BasisOf(f.globalIndex)
  \/ /\ Solves(f)
     /\ \E k \in Offsets(f) : i = IndexAt(f, k) /\ wi = f.windowIndex + Step(f, k)

\* A sender numbers a record alike in whatever frames it shows it.
Numbered ==
  \A f, g \in Frames : f.session = g.session =>
    \A i \in Indices : \A v, w \in Nat :
      Puts(f, i, v) /\ Puts(g, i, w) => f.window = g.window /\ v = w

\* Every file says where a sender puts its record.
Filed ==
  \A s \in Sessions, i \in Indices : frames[s][i] # NoFile =>
    \E f \in Frames :
      f.session = s /\ f.window = frames[s][i].window /\ Puts(f, i, frames[s][i].windowIndex)

\* The files of session s hold index wi of window w.
FileAt(s, w, wi) ==
  \E i \in Retained(s) : frames[s][i].window = w /\ frames[s][i].windowIndex = wi

\* Session s is the only one on disk, n records large, and `seen` says which.
Tells(s, n, seen) ==
  /\ \A r \in Sessions : r # s => Retained(r) = {}
  /\ n = Cardinality(Retained(s))
  /\ \A w \in Windows : \A wi \in Nat : wi \in seen[w] <=> FileAt(s, w, wi)

Told ==
  /\ active = NoSession => \A r \in Sessions : Retained(r) = {}
  /\ active # NoSession => Tells(active, total, windowSeen)

\* What a frame is accepted to: the session's own statistics, or those of a
\* session of which nothing is on disk.
LEMMA AdoptedTells ==
  ASSUME TypeOK, Told, NEW f \in Frames, Admitted(f)
  PROVE  Tells(f.session, Total0(f), Seen0(f)) /\ f.session \in Sessions /\ f.session # NoSession
<1>1. f.session \in Sessions /\ f.session # NoSession
  BY FramesAssumption, ConstantsAssumption
<1>2. CASE active = f.session
  BY <1>1, <1>2 DEF Told, Total0, Seen0
<1>3. CASE active # f.session
  <2>1. \A r \in Sessions : Retained(r) = {}
    BY <1>3 DEF Admitted, Told, Tells, TypeOK
  <2>2. Cardinality(Retained(f.session)) = 0
    BY <1>1, <2>1, FS_EmptySet
  <2>3. \A w \in Windows : \A wi \in Nat :
          wi \in Seen0(f)[w] <=> FileAt(f.session, w, wi)
    BY <1>1, <1>3, <2>1 DEF Seen0, Unseen, FileAt
  <2> QED
    BY <1>1, <1>3, <2>1, <2>2, <2>3 DEF Tells, Total0
<1> QED
  BY <1>1, <1>2, <1>3

\* The files are left alone.
LEMMA LeftTells ==
  ASSUME UNCHANGED frames, NEW s, NEW n, NEW seen, Tells(s, n, seen)
  PROVE  Tells(s, n, seen)'
BY DEF Tells, FileAt, Retained

\* One more file, and the statistics with it.
LEMMA StoresOneTells ==
  ASSUME TypeOK, NEW s \in Sessions, NEW i \in Indices, NEW file \in Files,
         NEW n, NEW seen \in [Windows -> SUBSET Nat],
         StoresOne(s, i, file), Tells(s, n, seen)
  PROVE  Tells(s, n + 1, [seen EXCEPT ![file.window] = @ \cup {file.windowIndex}])'
<1>1. i \notin Retained(s) /\ file # NoFile
  BY ConstantsAssumption DEF StoresOne, Retained
<1>2. \A r \in Sessions : r # s => frames'[r] = frames[r]
  BY DEF StoresOne, TypeOK
<1>3. \A j \in Indices : frames'[s][j] = IF j = i THEN file ELSE frames[s][j]
  BY DEF StoresOne, TypeOK
<1>4. \A r \in Sessions : r # s => Retained(r)' = {}
  BY <1>2 DEF Tells, Retained
<1>5. Retained(s)' = Retained(s) \cup {i}
  BY <1>1, <1>3 DEF Retained
<1>6. n + 1 = Cardinality(Retained(s)')
  <2>1. IsFiniteSet(Retained(s)) /\ n = Cardinality(Retained(s))
    BY RetainedFinite DEF Tells
  <2> QED
    BY <1>1, <1>5, <2>1, FS_AddElement
<1>7. ASSUME NEW w \in Windows, NEW wi \in Nat
      PROVE  wi \in [seen EXCEPT ![file.window] = @ \cup {file.windowIndex}][w]
             <=> FileAt(s, w, wi)'
  <2>1. FileAt(s, w, wi)' <=> \/ FileAt(s, w, wi)
                              \/ file.window = w /\ file.windowIndex = wi
    <3>1. FileAt(s, w, wi)' <=> \E j \in Retained(s) \cup {i} :
            frames'[s][j].window = w /\ frames'[s][j].windowIndex = wi
      BY <1>5 DEF FileAt
    <3>2. \A j \in Retained(s) : frames'[s][j] = frames[s][j]
      BY <1>1, <1>3 DEF Retained
    <3>3. frames'[s][i] = file
      BY <1>3
    <3> QED
      BY <3>1, <3>2, <3>3 DEF FileAt
  <2>2. wi \in seen[w] <=> FileAt(s, w, wi)
    BY DEF Tells
  <2> QED
    BY <2>1, <2>2
<1> QED
  BY <1>4, <1>6, <1>7 DEF Tells

\* An accepted frame that is already there tells nothing new.
LEMMA KnownTells ==
  ASSUME TypeOK, Filed, Numbered, NEW f \in Frames, f.kind = "DATA", f.session \in Sessions,
         frames[f.session][f.globalIndex] # NoFile,
         NEW n, NEW seen \in [Windows -> SUBSET Nat], Tells(f.session, n, seen)
  PROVE  [seen EXCEPT ![f.window] = @ \cup {f.windowIndex}] = seen
<1> DEFINE i == f.globalIndex
           old == frames[f.session][i]
<1>1. i \in Indices /\ f.window \in Windows /\ f.windowIndex \in Nat
  BY FramesAssumption DEF Windows
<1>2. old \in Files /\ i \in Retained(f.session)
  BY <1>1 DEF TypeOK, Retained
<1>3. PICK g \in Frames :
        g.session = f.session /\ g.window = old.window /\ Puts(g, i, old.windowIndex)
  BY <1>1 DEF Filed
<1>4. Puts(f, i, f.windowIndex) /\ old.windowIndex \in Nat
  BY <1>2 DEF Puts, Files
<1>5. old.window = f.window /\ old.windowIndex = f.windowIndex
  BY <1>1, <1>3, <1>4 DEF Numbered
<1>6. FileAt(f.session, f.window, f.windowIndex)
  BY <1>2, <1>5 DEF FileAt
<1>7. f.windowIndex \in seen[f.window]
  BY <1>1, <1>6 DEF Tells
<1>8. seen[f.window] \cup {f.windowIndex} = seen[f.window]
  BY <1>7
<1>9. [seen EXCEPT ![f.window] = seen[f.window]] = seen
  OBVIOUS
<1> QED
  BY <1>8, <1>9

LEMMA ToldNow ==
  ASSUME NEW s, s # NoSession, NEW n, NEW seen, Tells(s, n, seen)',
         active' = s, total' = n, windowSeen' = seen
  PROVE  Told'
BY DEF Told, Tells, FileAt, Retained

LEMMA ToldLeft ==
  ASSUME Told, UNCHANGED <<frames, active, total, windowSeen>>
  PROVE  Told'
BY DEF Told, Tells, FileAt, Retained

LEMMA ToldData ==
  ASSUME TypeOK, Filed, Numbered, Told, NEW f \in Frames, Data(f)
  PROVE  Told'
<1> DEFINE s == f.session
           i == f.globalIndex
           file == File(f.window, f.windowIndex, f.windowCount, f.payload)
<1>1. PICK n, seen : n = Total0(f) /\ seen = Seen0(f)
  OBVIOUS
<1>2. Tells(s, n, seen) /\ s \in Sessions /\ s # NoSession /\ active' = s
  BY <1>1, AdoptedTells DEF Data, Activate
<1>3. seen \in [Windows -> SUBSET Nat]
  BY <1>1, BaseType
<1>4. CASE frames[s][i] # NoFile
  <2>1. UNCHANGED frames /\ total' = n
    BY <1>1, <1>4 DEF Data
  <2>2. windowSeen' \in {seen, [seen EXCEPT ![f.window] = @ \cup {f.windowIndex}]}
    BY <1>1, <1>4 DEF Data
  <2>3. f.kind = "DATA"
    BY DEF Data
  <2>4. windowSeen' = seen
    BY <1>2, <1>3, <1>4, <2>2, <2>3, KnownTells
  <2>5. Tells(s, n, seen)'
    BY <1>2, <2>1, LeftTells
  <2> QED
    BY <1>2, <2>1, <2>4, <2>5, ToldNow
<1>5. CASE frames[s][i] = NoFile /\ frames' = [frames EXCEPT ![s][i] = file]
  <2>1. windowSeen' = [seen EXCEPT ![f.window] = @ \cup {f.windowIndex}] /\ total' = n + 1
    <3>1. f.payload # {}
      BY DEF Data, ValidRecord
    <3>2. file # NoFile /\ i \in Indices /\ frames'[s][i] = file
      <4>1. i \in Indices /\ file # NoFile
        BY FileType, FramesAssumption DEF Data
      <4> QED
        BY <1>2, <1>5, <4>1 DEF TypeOK
    <3>3. ~UNCHANGED frames
      BY <1>5, <3>2
    <3> QED
      BY <1>1, <1>5, <3>3 DEF Data
  <2>2. file \in Files /\ file.window = f.window /\ file.windowIndex = f.windowIndex /\ i \in Indices
    BY FramesAssumption, FileType DEF Data, File
  <2>3. StoresOne(s, i, file)
    BY <1>2, <1>5 DEF StoresOne, Data, Admitted
  <2>4. Tells(s, n + 1, [seen EXCEPT ![file.window] = @ \cup {file.windowIndex}])'
    BY <1>2, <1>3, <2>2, <2>3, StoresOneTells
  <2> QED
    BY <1>2, <2>1, <2>2, <2>4, ToldNow
<1>6. CASE frames[s][i] = NoFile /\ UNCHANGED frames /\ total' = n /\ windowSeen' = seen
  <2>1. Tells(s, n, seen)'
    BY <1>2, <1>6, LeftTells
  <2> QED
    BY <1>2, <1>6, <2>1, ToldNow
<1> QED
  BY <1>1, <1>4, <1>5, <1>6 DEF Data

\* An END_WINDOW or an equation leaves the DATA files alone.
LEMMA ToldAdopted ==
  ASSUME TypeOK, Told, NEW f \in Frames, EndWindow(f) \/ Equation(f)
  PROVE  Told'
<1>1. PICK n, seen : n = Total0(f) /\ seen = Seen0(f)
  OBVIOUS
<1>2. Admitted(f) /\ UNCHANGED frames /\ active' = f.session /\ total' = n /\ windowSeen' = seen
  BY <1>1 DEF EndWindow, Equation, Activate, disk
<1>3. Tells(f.session, n, seen) /\ f.session # NoSession
  BY <1>1, <1>2, AdoptedTells
<1>4. Tells(f.session, n, seen)'
  BY <1>2, <1>3, LeftTells
<1> QED
  BY <1>2, <1>3, <1>4, ToldNow

\* A record recovered, or split off a plane basis.
LEMMA ToldStored ==
  ASSUME TypeOK, Told, active \in Sessions, active' = active,
         NEW e \in Frames, e.session = active, NEW i \in Indices, NEW wi \in Nat,
         NEW p \in SUBSET Tokens, frames[active][i] = NoFile,
         StoreRecovered(e, i, wi, p)
  PROVE  Told'
<1> DEFINE file == File(e.window, wi, e.windowCount, p)
<1>1. PICK s, n, seen : s = active /\ n = total /\ seen = windowSeen
  OBVIOUS
<1>2. s \in Sessions /\ s # NoSession /\ Tells(s, n, seen) /\ seen \in [Windows -> SUBSET Nat]
  BY <1>1, ConstantsAssumption DEF Told, TypeOK
<1>3. file \in Files /\ file.window = e.window /\ file.windowIndex = wi
  BY FileType DEF File
<1>4. StoresOne(s, i, file)
  BY <1>1 DEF StoresOne, StoreRecovered
<1>5. Tells(s, n + 1, [seen EXCEPT ![file.window] = @ \cup {file.windowIndex}])'
  BY <1>2, <1>3, <1>4, StoresOneTells
<1>6. /\ active' = s /\ total' = n + 1
      /\ windowSeen' = [seen EXCEPT ![file.window] = @ \cup {file.windowIndex}]
  BY <1>1, <1>3 DEF StoreRecovered
<1> QED
  BY <1>2, <1>5, <1>6, ToldNow

LEMMA ToldBasis == ASSUME TypeOK, Placed, Told, StoreBasis PROVE Told'
<1> DEFINE i == job.streamId + BasisOf(job.globalIndex)
           wi == job.windowIndex + BasisOf(job.globalIndex)
<1>1. /\ job \in Frames /\ job.session = active /\ active \in Sessions
      /\ i \in Indices /\ wi \in Nat /\ active' = active
  BY BasisPlace DEF StoreBasis
<1>2. CASE UNCHANGED <<frames, stats>>
  BY <1>1, <1>2, ToldLeft DEF stats
<1>3. CASE frames[active][i] = NoFile /\ StoreRecovered(job, i, wi, job.payload)
  <2>1. job.payload \in SUBSET Tokens
    BY <1>1, FramesAssumption
  <2> HIDE DEF i, wi
  <2> QED
    BY <1>1, <1>3, <2>1, ToldStored
<1> QED
  BY <1>2, <1>3 DEF StoreBasis

LEMMA ToldRecovered ==
  ASSUME TypeOK, Placed, Told, NEW e \in Frames, RecoverOne(e)
  PROVE  Told'
<1>1. /\ e.session = active /\ active \in Sessions /\ active' = active /\ Solvable(e)
  BY RecoverOnePlace DEF RecoverOne
<1>2. PICK i \in Offsets(e) : Absent(e) = {i} /\ frames[e.session][IndexAt(e, i)] = NoFile
  BY <1>1 DEF Solvable
<1>3. i = CHOOSE j \in Offsets(e) : Absent(e) = {j}
  BY <1>2
<1>4. StoreRecovered(e, IndexAt(e, i), e.windowIndex + Step(e, i), Residue(e))
  BY <1>3 DEF RecoverOne
<1>5. IndexAt(e, i) \in Indices /\ e.windowIndex + Step(e, i) \in Nat /\ Residue(e) \in SUBSET Tokens
  BY <1>1, StepFacts, FramesAssumption DEF Solvable, Residue
<1> QED
  BY <1>1, <1>2, <1>4, <1>5, ToldStored

\* A reset leaves nothing on disk.
LEMMA ToldReset == ASSUME TypeOK, Told, Reset PROVE Told'
<1>1. active \in Sessions /\ active' = NoSession
  BY DEF Reset, TypeOK
<1>2. ASSUME NEW r \in Sessions PROVE Retained(r)' = {}
  <2>1. \A i \in Indices : frames'[r][i] = IF r = active THEN NoFile ELSE frames[r][i]
    BY <1>1 DEF Reset, TypeOK
  <2>2. r # active => Retained(r) = {}
    BY <1>1, ConstantsAssumption DEF Told, Tells
  <2> QED
    BY <2>1, <2>2 DEF Retained
<1> QED
  BY <1>1, <1>2 DEF Told

\* reload() counts what a kill has left, if the preference names it.
LEMMA ToldRelaunch ==
  ASSUME TypeOK, Told, ~LosesPref, Crash \/ ResetKilled
  PROVE  Told'
<1>1. active' = active /\ prefActive = active
  BY KillFiles DEF Relaunch
<1>2. ASSUME NEW r \in Sessions, Retained(r) = {} PROVE Retained(r)' = {}
  BY <1>2, KillFiles DEF Retained
<1>3. CASE active = NoSession
  BY <1>1, <1>2, <1>3 DEF Told
<1>4. CASE active # NoSession
  <2>1. active \in Sessions /\ ReloadStats(frames'[active], {EndToken[active]})
    BY <1>1, <1>4, KillFiles DEF Relaunch, TypeOK
  <2>2. \A r \in Sessions : r # active => Retained(r)' = {}
    BY <1>2, <1>4 DEF Told, Tells
  <2>3. Kept(frames'[active]) = Retained(active)'
    BY <1>1 DEF Kept, Retained
  <2>4. total' = Cardinality(Retained(active)')
    BY <2>1, <2>3 DEF ReloadStats
  <2>5. \A w \in Windows : \A wi \in Nat : wi \in windowSeen'[w] <=> FileAt(active, w, wi)'
    BY <1>1, <2>1, <2>3 DEF ReloadStats, Reloaded, FileAt
  <2> QED
    BY <1>1, <1>4, <2>2, <2>4, <2>5 DEF Told, Tells
<1> QED
  BY <1>3, <1>4

LEMMA ToldStep ==
  ASSUME TypeOK, Placed, Filed, Numbered, ~LosesPref, Told, [Next]_vars
  PROVE  Told'
<1>1. CASE UNCHANGED <<frames, active, total, windowSeen>>
  BY <1>1, ToldLeft
<1> QED
  BY <1>1, ToldData, ToldAdopted, ToldBasis, ToldRecovered, ToldReset, ToldRelaunch
     DEF Next, OtherSession, Garbled, RecoverDone, FlushPref, vars, disk, stats

LEMMA FiledLeft ==
  ASSUME Filed, \A s \in Sessions, i \in Indices : frames'[s][i] \in {frames[s][i], NoFile}
  PROVE  Filed'
BY DEF Filed

LEMMA FiledStored ==
  ASSUME TypeOK, Filed, NEW e \in Frames, NEW i \in Indices, NEW wi \in Nat,
         NEW p \in SUBSET Tokens, Puts(e, i, wi),
         frames' = [frames EXCEPT ![e.session][i] = File(e.window, wi, e.windowCount, p)]
  PROVE  Filed'
<1> DEFINE file == File(e.window, wi, e.windowCount, p)
<1>1. file.window = e.window /\ file.windowIndex = wi /\ e.session \in Sessions
  BY FramesAssumption DEF File
<1>2. ASSUME NEW s \in Sessions, NEW j \in Indices, frames'[s][j] # NoFile
      PROVE  \E f \in Frames :
               f.session = s /\ f.window = frames'[s][j].window
               /\ Puts(f, j, frames'[s][j].windowIndex)
  <2>1. CASE s = e.session /\ j = i
    <3>1. frames'[s][j] = file
      BY <1>1, <2>1 DEF TypeOK
    <3> QED
      BY <1>1, <2>1, <3>1
  <2>2. CASE ~(s = e.session /\ j = i)
    <3>1. frames'[s][j] = frames[s][j]
      BY <2>2 DEF TypeOK
    <3> QED
      BY <1>2, <3>1 DEF Filed
  <2> QED
    BY <2>1, <2>2
<1> QED
  BY <1>2 DEF Filed

LEMMA FiledStep ==
  ASSUME TypeOK, Placed, Filed, [Next]_vars
  PROVE  Filed'
<1>1. ASSUME NEW f \in Frames, Data(f) PROVE Filed'
  <2>1. CASE UNCHANGED frames
    BY <2>1, FiledLeft
  <2>2. CASE frames' = [frames EXCEPT ![f.session][f.globalIndex] =
                          File(f.window, f.windowIndex, f.windowCount, f.payload)]
    <3>1. f.globalIndex \in Indices /\ f.windowIndex \in Nat /\ f.payload \in SUBSET Tokens
          /\ Puts(f, f.globalIndex, f.windowIndex)
      BY <1>1, FramesAssumption DEF Data, Puts
    <3> QED
      BY <2>2, <3>1, FiledStored
  <2> QED
    BY <1>1, <2>1, <2>2 DEF Data
<1>2. CASE StoreBasis
  <2> DEFINE i == job.streamId + BasisOf(job.globalIndex)
             wi == job.windowIndex + BasisOf(job.globalIndex)
  <2>1. /\ job \in Frames /\ job.session = active /\ IsBasis(job)
        /\ i \in Indices /\ wi \in Nat
    BY <1>2, BasisPlace DEF StoreBasis
  <2>2. Puts(job, i, wi) /\ job.payload \in SUBSET Tokens
    BY <2>1, FramesAssumption DEF Puts
  <2>3. CASE UNCHANGED frames
    BY <2>3, FiledLeft
  <2>4. CASE StoreRecovered(job, i, wi, job.payload)
    <3>1. frames' = [frames EXCEPT ![job.session][i] =
                       File(job.window, wi, job.windowCount, job.payload)]
      BY <2>4 DEF StoreRecovered
    <3> HIDE DEF i, wi
    <3> QED
      BY <2>1, <2>2, <3>1, FiledStored
  <2> QED
    BY <1>2, <2>3, <2>4 DEF StoreBasis
<1>3. ASSUME NEW e \in Frames, RecoverOne(e) PROVE Filed'
  <2>1. Solvable(e)
    BY <1>3, RecoverOnePlace
  <2>2. PICK i \in Offsets(e) : Absent(e) = {i}
    BY <2>1 DEF Solvable
  <2>3. i = CHOOSE j \in Offsets(e) : Absent(e) = {j}
    BY <2>2
  <2>4. StoreRecovered(e, IndexAt(e, i), e.windowIndex + Step(e, i), Residue(e))
    BY <1>3, <2>3 DEF RecoverOne
  <2>5. /\ IndexAt(e, i) \in Indices /\ e.windowIndex + Step(e, i) \in Nat
        /\ Residue(e) \in SUBSET Tokens
    BY <2>1, StepFacts, FramesAssumption DEF Solvable, Residue
  <2>6. Puts(e, IndexAt(e, i), e.windowIndex + Step(e, i))
    BY <2>1 DEF Solvable, Puts
  <2>7. frames' = [frames EXCEPT ![e.session][IndexAt(e, i)] =
                     File(e.window, e.windowIndex + Step(e, i), e.windowCount, Residue(e))]
    BY <2>4 DEF StoreRecovered
  <2> QED
    BY <2>5, <2>6, <2>7, FiledStored
<1>4. CASE Reset
  <2>1. \A s \in Sessions, i \in Indices : frames'[s][i] \in {frames[s][i], NoFile}
    BY <1>4 DEF Reset, TypeOK
  <2> QED
    BY <2>1, FiledLeft
<1>5. CASE ResetKilled
  <2>1. \A s \in Sessions, i \in Indices : frames'[s][i] \in {frames[s][i], NoFile}
    BY <1>5, KillFiles
  <2> QED
    BY <2>1, FiledLeft
<1>6. CASE UNCHANGED frames
  BY <1>6, FiledLeft
<1> QED
  BY <1>1, <1>2, <1>3, <1>4, <1>5, <1>6, OtherFileStep

LEMMA AlwaysTold ==
  ASSUME ~LosesPref, Numbered
  PROVE  Spec => [](IInv /\ Filed /\ Told)
<1>1. Init => Filed /\ Told
  <2> SUFFICES ASSUME Init PROVE Filed /\ Told
    OBVIOUS
  <2> QED
    BY DEF Init, Filed, Told, Retained
<1>2. IInv /\ Filed /\ Told /\ [Next]_vars => Filed' /\ Told'
  BY FiledStep, ToldStep DEF IInv
<1> QED
  BY <1>1, <1>2, Inductive, PTL DEF Spec

\* Where the preference reaches the disk before a kill does, and a sender numbers
\* a record alike in all its frames, the missing ranges shown are exactly the
\* frames of the window that are not on disk, after recoveries, duplicates,
\* failed writes and kills, those in the middle of a reset included.
THEOREM MissingIsExact ==
  ASSUME ~LosesPref, Numbered
  PROVE  Spec => []MissingExact
<1>1. IInv /\ Told => MissingExact
  <2> SUFFICES ASSUME IInv, Told, active # NoSession, NEW w \in Windows,
                      NEW wi \in 0..(windowExpected[w] - 1)
               PROVE  wi \in windowSeen[w] <=> OnDisk(w, wi)
    BY DEF MissingExact
  <2>1. wi \in Nat
    BY DEF IInv, TypeOK
  <2> QED
    BY <2>1 DEF Told, Tells, FileAt, OnDisk
<1> QED
  BY <1>1, AlwaysTold, PTL

\* Under the same conditions the size shown counts every record on disk once.
THEOREM TotalIsExact ==
  ASSUME ~LosesPref, Numbered
  PROVE  Spec => []TotalExact
<1>1. IInv /\ Told => TotalExact
  BY DEF Told, Tells, TotalExact
<1> QED
  BY <1>1, AlwaysTold, PTL

-----------------------------------------------------------------------------
(* No equation is left that would give a frame.                            *)

\* The camera decodes what a sender shows: a DATA or basis frame carries the
\* record of its place.
Genuine ==
  \A f \in Frames :
    /\ f.kind = "DATA" => f.payload = {f.globalIndex}
    /\ IsBasis(f) => f.payload = {f.streamId + BasisOf(f.globalIndex)}

SettledIn(s) ==
  \A e \in equations[s] :
    e.kind # "PLANE_CODED" /\ Solves(e) => Cardinality(Absent(e)) # 1

\* Only the session under recovery may have such an equation.
Settled ==
  failures = 0 =>
    \A s \in Sessions : SettledIn(s) \/ (s = active /\ pc = "recover")

\* The files of a session and its equations are left alone, or planes added.
LEMMA SettledLeft ==
  ASSUME Placed, NEW s \in Sessions, SettledIn(s), frames'[s] = frames[s],
         \A e \in equations'[s] : e \in equations[s] \/ e.kind = "PLANE_CODED"
  PROVE  SettledIn(s)'
<1> SUFFICES ASSUME NEW e \in equations'[s], e.kind # "PLANE_CODED", Solves(e)
             PROVE  Cardinality(Absent(e)') # 1
  BY DEF SettledIn, Solves
<1>1. e \in equations[s] /\ e.session = s
  BY DEF Placed
<1>2. Absent(e)' = Absent(e)
  BY <1>1 DEF Absent, HasMember
<1> QED
  BY <1>1, <1>2 DEF SettledIn

\* A file that is a member of an equation is the record the equation means.
LEMMA MemberGenuine ==
  ASSUME TypeOK, RetainedAsSent, Filed, Numbered, Genuine, active \in Sessions,
         NEW e \in Frames, e.session = active, e.kind # "PLANE_CODED", Solves(e),
         NEW j \in Offsets(e) \ Absent(e)
  PROVE  Fits(e, j) /\ Member(e, j).payload = {IndexAt(e, j)}
<1> DEFINE i == IndexAt(e, j)
           file == frames[active][i]
<1>1. i \in Indices /\ e.windowIndex + Step(e, j) \in Nat
  BY StepFacts, FramesAssumption
<1>2. file # NoFile /\ Member(e, j) = file
  BY DEF Absent, HasMember, Member
<1>3. file \in Files
  BY <1>1, <1>2 DEF TypeOK
<1>4. file.payload = {i}
  BY <1>1, <1>2 DEF RetainedAsSent, SentPayloads, Genuine
<1>5. PICK g \in Frames : g.session = active /\ g.window = file.window /\ Puts(g, i, file.windowIndex)
  BY <1>1, <1>2 DEF Filed
<1>6. Puts(e, i, e.windowIndex + Step(e, j))
  BY DEF Puts
<1>7. file.window = e.window /\ file.windowIndex = e.windowIndex + Step(e, j)
  BY <1>1, <1>3, <1>5, <1>6 DEF Numbered, Files
<1> QED
  BY <1>2, <1>4, <1>7 DEF Fits

\* An equation with one member missing is solvable, so it is work.
LEMMA OneAbsentSolvable ==
  ASSUME TypeOK, Placed, RetainedAsSent, Filed, Numbered, Genuine, active \in Sessions,
         NEW e \in equations[active], e.kind # "PLANE_CODED", Solves(e),
         Cardinality(Absent(e)) = 1
  PROVE  Solvable(e)
<1>1. e \in Frames /\ e.session = active
  BY DEF TypeOK, Placed
<1>2. PICK i : Absent(e) = {i}
  <2>1. Offsets(e) \subseteq 0..(e.streamId + e.streamOffset + 1)
    BY <1>1, FramesAssumption DEF Offsets
  <2>2. IsFiniteSet(Absent(e))
    <3>1. IsFiniteSet(0..(e.streamId + e.streamOffset + 1))
      BY <1>1, FramesAssumption, FS_Interval
    <3>2. Absent(e) \subseteq 0..(e.streamId + e.streamOffset + 1)
      BY <2>1 DEF Absent
    <3> QED
      BY <3>1, <3>2, FS_Subset
  <2> QED
    BY <2>2, FS_Singleton
<1>3. i \in Offsets(e) /\ frames[e.session][IndexAt(e, i)] = NoFile
  <2>1. i \in Absent(e)
    BY <1>2
  <2> QED
    BY <2>1 DEF Absent, HasMember
<1>4. \A j \in Offsets(e) \ Absent(e) : Fits(e, j) /\ Member(e, j).payload = {IndexAt(e, j)}
  BY <1>1, MemberGenuine
<1>5. e.payload = {IndexAt(e, j) : j \in Offsets(e)}
  BY <1>1, SenderAssumption
<1>6. IndexAt(e, i) \in Residue(e)
  BY <1>1, <1>2, <1>3, ResidueHasAbsent
<1>7. ASSUME NEW t \in Residue(e) PROVE t = IndexAt(e, i)
  <2> DEFINE K == {j \in Offsets(e) \ Absent(e) : t \in Member(e, j).payload}
  <2>1. (t \in e.payload) # (Cardinality(K) % 2 = 1)
    BY DEF Residue
  <2>2. K = {j \in Offsets(e) \ Absent(e) : t = IndexAt(e, j)}
    BY <1>4
  <2>3. SUFFICES ASSUME t # IndexAt(e, i) PROVE FALSE
    OBVIOUS
  <2>4. CASE t \in e.payload
    <3>1. PICK j \in Offsets(e) : t = IndexAt(e, j)
      BY <1>5, <2>4
    <3>2. \A k \in Offsets(e) : t = IndexAt(e, k) => k = j
      BY <1>1, <3>1, StepFacts
    <3>3. K = {j}
      BY <1>2, <2>2, <2>3, <3>1, <3>2
    <3>4. Cardinality(K) = 1
      <4>1. Cardinality({j}) = 1
        BY FS_Singleton
      <4> HIDE DEF K
      <4> QED
        BY <3>3, <4>1
    <3> HIDE DEF K
    <3> QED
      BY <2>1, <2>4, <3>4
  <2>5. CASE t \notin e.payload
    <3>1. K = {}
      BY <1>5, <2>2, <2>5
    <3>2. Cardinality(K) = 0
      <4>1. Cardinality({}) = 0
        BY FS_EmptySet
      <4> HIDE DEF K
      <4> QED
        BY <3>1, <4>1
    <3> HIDE DEF K
    <3> QED
      BY <2>1, <2>5, <3>2
  <2> QED
    BY <2>4, <2>5
<1>8. ValidRecord(Residue(e))
  <2>1. IndexAt(e, i) \in Tokens
    BY <1>1, <1>3, StepFacts, ConstantsAssumption
  <2>2. Residue(e) = {IndexAt(e, i)}
    BY <1>6, <1>7
  <2> QED
    BY <2>1, <2>2 DEF ValidRecord
<1> QED
  BY <1>2, <1>3, <1>4, <1>8 DEF Solvable

\* recoverAvailable() ends with no work left.
LEMMA SettledDone ==
  ASSUME TypeOK, Placed, RetainedAsSent, Filed, Numbered, Genuine, active \in Sessions, Work = {}
  PROVE  SettledIn(active)
<1> SUFFICES ASSUME NEW e \in equations[active], e.kind # "PLANE_CODED", Solves(e),
                    Cardinality(Absent(e)) = 1
             PROVE  FALSE
  BY DEF SettledIn
<1>1. Solvable(e)
  BY OneAbsentSolvable
<1> QED
  BY <1>1, ConstantsAssumption DEF Work

\* A step that adds files or equations to session t alone, and recovers then.
LEMMA SettledBut ==
  ASSUME Placed, Settled, failures = 0, NEW t,
         \A s \in Sessions : s # t =>
           SettledIn(s) /\ frames'[s] = frames[s] /\ equations'[s] = equations[s],
         t \in Sessions => SettledIn(t)' \/ (t = active' /\ pc' = "recover")
  PROVE  Settled'
<1>1. ASSUME NEW s \in Sessions, s # t PROVE SettledIn(s)'
  BY <1>1, SettledLeft
<1> QED
  BY <1>1 DEF Settled

\* A step after which nothing was added but planes.
LEMMA SettledStill ==
  ASSUME Placed, Settled, failures = 0, UNCHANGED frames,
         \A s \in Sessions : \A e \in equations'[s] : e \in equations[s] \/ e.kind = "PLANE_CODED",
         pc = "recover" => UNCHANGED <<active, pc>>
  PROVE  Settled'
<1>1. ASSUME NEW s \in Sessions, SettledIn(s) PROVE SettledIn(s)'
  BY <1>1, SettledLeft
<1> QED
  BY <1>1 DEF Settled

LEMMA SettledData ==
  ASSUME TypeOK, Placed, Settled, failures = 0, failures' = 0, NEW f \in Frames, Data(f)
  PROVE  Settled'
<1>1. pc = "idle" /\ f.session \in Sessions /\ active' = f.session /\ UNCHANGED equations
  BY FramesAssumption DEF Data, Activate
<1>2. CASE UNCHANGED frames
  BY <1>1, <1>2, SettledStill
<1>3. CASE ~UNCHANGED frames
  <2>1. pc' = "recover"
    BY <1>3 DEF Data, Recover
  <2>2. \A s \in Sessions : s # f.session => frames'[s] = frames[s]
    BY <1>1, DataFiles DEF StoresOne, TypeOK
  <2>3. \A s \in Sessions : SettledIn(s)
    BY <1>1 DEF Settled
  <2> QED
    BY <1>1, <2>1, <2>2, <2>3, SettledBut
<1> QED
  BY <1>2, <1>3

LEMMA SettledEquation ==
  ASSUME TypeOK, Placed, Settled, failures = 0, failures' = 0, NEW f \in Frames, Equation(f)
  PROVE  Settled'
<1>1. pc = "idle" /\ f.session \in Sessions /\ active' = f.session /\ UNCHANGED frames
  BY FramesAssumption DEF Equation, Activate
<1>2. CASE UNCHANGED equations
  BY <1>1, <1>2, SettledStill
<1>3. CASE equations' = [equations EXCEPT ![f.session] = @ \cup {f}] /\ IsBasis(f)
  <2>1. \A s \in Sessions : \A e \in equations'[s] : e \in equations[s] \/ e.kind = "PLANE_CODED"
    BY <1>3 DEF IsBasis, TypeOK
  <2> QED
    BY <1>1, <2>1, SettledStill
<1>4. CASE equations' = [equations EXCEPT ![f.session] = @ \cup {f}] /\ Recover
  <2>1. \A s \in Sessions : s # f.session => frames'[s] = frames[s] /\ equations'[s] = equations[s]
    BY <1>1, <1>4 DEF TypeOK
  <2>2. \A s \in Sessions : SettledIn(s)
    BY <1>1 DEF Settled
  <2> QED
    BY <1>1, <1>4, <2>1, <2>2, SettledBut DEF Recover
<1> QED
  BY <1>2, <1>3, <1>4 DEF Equation, KeepEquation

LEMMA SettledBasis ==
  ASSUME TypeOK, Placed, Settled, failures = 0, failures' = 0, StoreBasis
  PROVE  Settled'
<1>1. pc = "basis" /\ active \in Sessions /\ active' = active /\ UNCHANGED equations
  BY BasisPlace DEF StoreBasis
<1>2. CASE UNCHANGED frames
  BY <1>1, <1>2, SettledStill
<1>3. CASE ~UNCHANGED frames
  <2>1. pc' = "recover"
    BY <1>3 DEF StoreBasis, Recover
  <2>2. \A s \in Sessions : s # active => frames'[s] = frames[s]
    BY <1>1, BasisFileStep DEF StoresOne, TypeOK
  <2>3. \A s \in Sessions : SettledIn(s)
    BY <1>1 DEF Settled
  <2> QED
    BY <1>1, <2>1, <2>2, <2>3, SettledBut
<1> QED
  BY <1>2, <1>3

LEMMA SettledRecover ==
  ASSUME TypeOK, Placed, Settled, failures = 0, NEW e \in Frames, RecoverOne(e)
  PROVE  Settled'
<1>1. pc = "recover" /\ active \in Sessions /\ UNCHANGED <<equations, active, pc>>
  BY RecoverOnePlace DEF RecoverOne
<1>2. \A s \in Sessions : s # active => frames'[s] = frames[s]
  BY <1>1, RecoverFileStep DEF StoresOne, TypeOK
<1>3. \A s \in Sessions : s # active => SettledIn(s)
  BY DEF Settled
<1> QED
  BY <1>1, <1>2, <1>3, SettledBut

LEMMA SettledKill ==
  ASSUME TypeOK, Placed, Settled, failures = 0, ~LosesPref, Crash \/ ResetKilled
  PROVE  Settled'
<1>1. Relaunch /\ active' = active /\ prefActive = active
  BY KillFiles DEF Relaunch
<1>2. CASE active = NoSession
  <2>1. UNCHANGED disk /\ pc # "recover"
    BY <1>2 DEF Crash, ResetKilled, Placed
  <2> QED
    BY <2>1, SettledStill DEF disk
<1>3. CASE active # NoSession
  <2>1. pc' = "recover" /\ active \in Sessions
    BY <1>1, <1>3 DEF Relaunch, TypeOK
  <2>2. \A s \in Sessions : s # active => frames'[s] = frames[s] /\ equations'[s] = equations[s]
    BY <2>1 DEF Crash, ResetKilled, disk, TypeOK
  <2>3. \A s \in Sessions : s # active => SettledIn(s)
    BY DEF Settled
  <2> QED
    BY <1>1, <2>1, <2>2, <2>3, SettledBut
<1> QED
  BY <1>2, <1>3

LEMMA SettledReset ==
  ASSUME TypeOK, Placed, Settled, failures = 0, Reset
  PROVE  Settled'
<1>1. active \in Sessions /\ pc = "idle"
  BY DEF Reset, TypeOK
<1>2. \A s \in Sessions : s # active => frames'[s] = frames[s] /\ equations'[s] = equations[s]
  BY <1>1 DEF Reset, TypeOK
<1>3. equations'[active] = {}
  BY <1>1 DEF Reset, TypeOK
<1>4. PICK t : t = active
  OBVIOUS
<1>5. SettledIn(t)'
  BY <1>3, <1>4 DEF SettledIn
<1>6. \A s \in Sessions : SettledIn(s)
  BY <1>1 DEF Settled
<1> QED
  BY <1>1, <1>2, <1>4, <1>5, <1>6, SettledBut

LEMMA FailuresGrow ==
  ASSUME TypeOK, [Next]_vars, failures' = 0
  PROVE  failures = 0
<1> DEFINE Grows == failures' = failures \/ failures' = failures + 1
<1>1. failures \in Nat
  BY DEF TypeOK
<1>2. ASSUME NEW f \in Frames, OtherSession(f) \/ EndWindow(f) PROVE Grows
  BY <1>2 DEF OtherSession, EndWindow
<1>3. ASSUME NEW f \in Frames, Equation(f) PROVE Grows
  BY <1>3 DEF Equation, KeepEquation, WriteFails
<1>4. ASSUME NEW f \in Frames, Data(f) PROVE Grows
  BY <1>4 DEF Data, WriteFails
<1>5. ASSUME NEW e \in Frames, RecoverOne(e) PROVE Grows
  BY <1>5 DEF RecoverOne, StoreRecovered
<1>6. ASSUME StoreBasis PROVE Grows
  BY <1>6 DEF StoreBasis, StoreRecovered, WriteFails
<1>7. ASSUME Garbled \/ RecoverDone \/ Reset \/ FlushPref \/ UNCHANGED vars PROVE Grows
  BY <1>7 DEF Garbled, RecoverDone, Reset, FlushPref, vars, WriteFails
<1>8. ASSUME Crash \/ ResetKilled PROVE Grows
  BY <1>8 DEF Crash, ResetKilled, Relaunch
<1>9. Grows
  BY <1>2, <1>3, <1>4, <1>5, <1>6, <1>7, <1>8 DEF Next
<1> QED
  BY <1>1, <1>9

LEMMA SettledStep ==
  ASSUME IInv, Filed, Numbered, Genuine, ~LosesPref, Settled, [Next]_vars
  PROVE  Settled'
<1> SUFFICES ASSUME failures' = 0 PROVE Settled'
  BY DEF Settled
<1>1. TypeOK /\ Placed /\ RetainedAsSent /\ failures = 0
  BY FailuresGrow DEF IInv
<1>2. ASSUME NEW f \in Frames, OtherSession(f) \/ EndWindow(f) PROVE Settled'
  BY <1>1, <1>2, SettledStill DEF OtherSession, EndWindow, disk
<1>3. CASE RecoverDone
  <2>1. pc = "recover" /\ active \in Sessions /\ UNCHANGED <<frames, equations, active>>
    BY <1>1, <1>3 DEF RecoverDone, disk, Placed, TypeOK
  <2>2. Work = {}
    BY <1>1, <1>3 DEF RecoverDone, WriteFails
  <2>3. PICK t : t = active
    OBVIOUS
  <2>4. SettledIn(t)
    BY <1>1, <2>1, <2>2, <2>3, SettledDone
  <2>5. SettledIn(t)'
    BY <1>1, <2>1, <2>3, <2>4, SettledLeft
  <2>6. \A s \in Sessions : s # t => SettledIn(s)
    BY <1>1, <2>3 DEF Settled
  <2> QED
    BY <1>1, <2>1, <2>3, <2>5, <2>6, SettledBut
<1>4. CASE Garbled \/ FlushPref \/ UNCHANGED vars
  BY <1>1, <1>4, SettledStill DEF Garbled, FlushPref, vars, disk
<1> QED
  BY <1>1, <1>2, <1>3, <1>4, SettledData, SettledEquation, SettledBasis, SettledRecover,
     SettledKill, SettledReset DEF Next

\* Where the preference reaches the disk before a kill does, and for any frames
\* a sender shows: once accept() has returned and no write has failed, no chain
\* or block equation on disk lacks exactly one member.  The recovery loop takes
\* all it can, whatever the order in which frames and equations came.
THEOREM NothingLeftToPeel ==
  ASSUME ~LosesPref, Numbered, Genuine
  PROVE  Spec => []EquationsSettled
<1>1. Init => Settled
  <2> SUFFICES ASSUME Init PROVE Settled
    OBVIOUS
  <2> QED
    BY DEF Init, Settled, SettledIn
<1>2. IInv /\ Filed /\ Settled /\ [Next]_vars => Settled'
  BY SettledStep
<1>3. IInv /\ Settled => EquationsSettled
  <2> SUFFICES ASSUME IInv, Settled, pc = "idle", active # NoSession, failures = 0
               PROVE  SettledIn(active)
    BY DEF EquationsSettled, SettledIn
  <2> QED
    BY DEF Settled, IInv, TypeOK
<1> QED
  BY <1>1, <1>2, <1>3, AlwaysTold, PTL DEF Spec
===============================================================================
