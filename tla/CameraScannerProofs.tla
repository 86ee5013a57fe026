------------------------- MODULE CameraScannerProofs -------------------------
(***************************************************************************)
(* Proofs about CameraScanner, for any number of workers, any screens and  *)
(* any number of presses of Reset and pauses of the camera.                *)
(***************************************************************************)
EXTENDS CameraScanner, FiniteSetTheorems, SequenceTheorems, TLAPS

Task == [stage : Stages, image : setting.images \cup {NoFrame},
         direct : BOOLEAN, queue : Seq(Frames)]

Distinct(q) == \A i, j \in DOMAIN q : q[i] = q[j] => i = j

Detectors == [mode : {"UNKNOWN", "BW", "RGB3"}, session : Sessions \cup {NoSession},
              window : Int, lastEqual : Frames \cup {NoFrame}, streak : Nat]

\* What the workers hold: an image from the screen while they decode, a frame
\* to hand over when they are about to.
Working ==
  /\ task \in [Workers -> Task]
  /\ \A w \in Workers :
       /\ task[w].stage \in {"posted", "decode"} => task[w].image \in setting.images
       /\ At(w, "store") => task[w].queue # <<>>

\* The keys of the delivered frames, oldest first.
Keys ==
  /\ delivered \in Seq(Frames)
  /\ Len(delivered) <= setting.keys
  /\ Distinct(delivered)

Typed ==
  /\ setting \in Settings /\ running \in BOOLEAN
  /\ Working /\ Keys
  /\ late \subseteq Frames
  /\ detector \in Detectors
  /\ active \in Sessions \cup {NoSession} /\ kept \subseteq Frames
  /\ ui \in 0..3 /\ failures \in Nat

\* Between store.reset() and clearLastPayload() of the Reset button (ui = 2)
\* the keys still speak of the frames just deleted; at every other moment a
\* remembered frame the store would take is on disk or on its way there.
Remembers ==
  ui # 2 =>
    \A f \in Elements(delivered) :
      f.kind # "END_WINDOW" /\ Admissible(f) /\ (\A w \in Workers : ~Carries(w, f)) =>
        f \in kept

-----------------------------------------------------------------------------
(* The operators.                                                          *)

Founds == [Channels -> Frames \cup {NoFrame}]

LEMMA UniqueType ==
  ASSUME NEW found \in Founds
  PROVE  Unique(found) \in Seq(Frames)
<1> DEFINE isFirst(c) == found[c] # NoFrame /\ \A d \in 1..(c - 1) : found[d] # found[c]
           pick(c) == IF isFirst(c) THEN <<found[c]>> ELSE <<>>
<1>1. \A c \in Channels : pick(c) \in Seq(Frames)
  BY ScreenAssumption DEF Founds
<1> HIDE DEF pick
<1>2. pick(1) \in Seq(Frames) /\ pick(2) \in Seq(Frames) /\ pick(3) \in Seq(Frames)
  BY <1>1 DEF Channels
<1>3. pick(1) \o pick(2) \in Seq(Frames)
  BY <1>2, ConcatProperties
<1>4. (pick(1) \o pick(2)) \o pick(3) \in Seq(Frames)
  BY <1>2, <1>3, ConcatProperties
<1>5. Unique(found) = pick(1) \o pick(2) \o pick(3)
  BY DEF Unique, pick
<1> QED
  BY <1>4, <1>5

\* The anchor is one of the frames that decoded.
LEMMA AnchorType ==
  ASSUME NEW found \in Founds, Valid(found) # {}
  PROVE  /\ Anchor(found) \in Frames
         /\ Anchor(found).session \in Sessions /\ Anchor(found).window \in Int
         /\ Anchor(found).session # NoSession
<1>1. \E c \in Valid(found) : \A d \in Valid(found) : c <= d
  <2>1. Valid(found) \subseteq {1, 2, 3}
    BY DEF Valid, Channels
  <2> QED
    BY <2>1
<1>2. \E c \in Valid(found) : Anchor(found) = found[c]
  BY <1>1 DEF Anchor
<1>3. Anchor(found) \in Frames
  BY <1>2 DEF Valid, Founds
<1> QED
  BY <1>3, ScreenAssumption

LEMMA NewDetectorType == NewDetector \in Detectors
BY DEF NewDetector, Detectors

LEMMA ClassifiedType ==
  ASSUME NEW d \in Detectors, NEW found \in Founds, Valid(found) # {}
  PROVE  /\ Classified(d, found) \in Detectors
         /\ Classified(d, found).session = d.session
         /\ Classified(d, found).window = d.window
<1> DEFINE f == Anchor(found)
           streak == IF f # d.lastEqual THEN d.streak + 1 ELSE d.streak
<1>1. f \in Frames /\ streak \in Nat
  BY AnchorType DEF Detectors
<1> HIDE DEF f, streak
<1>2. CASE Len(Unique(found)) >= 2
  <2>1. Classified(d, found) = [d EXCEPT !.mode = "RGB3", !.lastEqual = NoFrame, !.streak = 0]
    BY <1>2 DEF Classified
  <2>2. Classified(d, found) =
          [mode |-> "RGB3", session |-> d.session, window |-> d.window,
           lastEqual |-> NoFrame, streak |-> 0]
    BY <2>1 DEF Detectors
  <2>3. d.session \in Sessions \cup {NoSession} /\ d.window \in Int
    BY DEF Detectors
  <2> QED
    BY <2>2, <2>3 DEF Detectors
<1>3. CASE ~(Len(Unique(found)) >= 2) /\ EqualTriple(found)
  <2>1. Classified(d, found) =
          [d EXCEPT !.lastEqual = f, !.streak = streak,
                    !.mode = IF streak >= 2 THEN "BW" ELSE "UNKNOWN"]
    BY <1>3 DEF Classified, f, streak
  <2> QED
    BY <1>1, <2>1 DEF Detectors
<1>4. CASE ~(Len(Unique(found)) >= 2) /\ ~EqualTriple(found)
  BY <1>4 DEF Classified
<1> QED
  BY <1>2, <1>3, <1>4

LEMMA DetectedType ==
  ASSUME NEW d \in Detectors, NEW found \in Founds
  PROVE  Detected(d, found) \in Detectors
<1> DEFINE f == Anchor(found)
           kept0 == IF Moved(d, f) THEN NewDetector ELSE d
           here == [kept0 EXCEPT !.session = f.session, !.window = f.window]
<1>1. CASE Valid(found) = {} \/ \E c \in Valid(found) : found[c].kind = "END_WINDOW"
  BY <1>1, NewDetectorType DEF Detected
<1>2. CASE ~(Valid(found) = {} \/ \E c \in Valid(found) : found[c].kind = "END_WINDOW")
  <2>1. f.session \in Sessions /\ f.window \in Int
    BY <1>2, AnchorType
  <2>2. kept0 \in Detectors
    BY NewDetectorType
  <2>3. here \in Detectors
    BY <2>1, <2>2 DEF Detectors
  <2>4. Classified(here, found) \in Detectors
    BY <1>2, <2>3, ClassifiedType
  <2>5. Detected(d, found) = IF here.mode = "UNKNOWN" THEN Classified(here, found) ELSE here
    BY <1>2 DEF Detected
  <2> QED
    BY <2>3, <2>4, <2>5
<1> QED
  BY <1>1, <1>2

\* markDelivered() of a new key: one more entry, or the eldest one for it.
LEMMA RememberedKeys ==
  ASSUME Keys, setting.keys \in Nat, NEW f \in Frames, f \notin Elements(delivered)
  PROVE  /\ Remembered(f) \in Seq(Frames)
         /\ Len(Remembered(f)) <= setting.keys
         /\ Distinct(Remembered(f))
         /\ Elements(Remembered(f)) \subseteq Elements(delivered) \cup {f}
<1> DEFINE longer == Append(delivered, f)
<1>1. /\ longer \in Seq(Frames) /\ Len(longer) = Len(delivered) + 1
      /\ \A i \in 1..Len(delivered) : longer[i] = delivered[i]
      /\ longer[Len(delivered) + 1] = f
      /\ Len(delivered) \in Nat
  BY DEF Keys
<1>2. \A i \in 1..Len(delivered) : delivered[i] \in Elements(delivered)
  BY DEF Keys, Elements
<1>3. \A i, j \in 1..(Len(delivered) + 1) : longer[i] = longer[j] => i = j
  <2> SUFFICES ASSUME NEW i \in 1..(Len(delivered) + 1), NEW j \in 1..(Len(delivered) + 1),
                      longer[i] = longer[j]
               PROVE  i = j
    OBVIOUS
  <2>1. \A k \in 1..(Len(delivered) + 1) :
          k \in 1..Len(delivered) \/ k = Len(delivered) + 1
    BY <1>1
  <2>2. CASE i \in 1..Len(delivered) /\ j \in 1..Len(delivered)
    <3>1. delivered[i] = delivered[j] /\ DOMAIN delivered = 1..Len(delivered)
      BY <1>1, <2>2 DEF Keys
    <3> QED
      BY <2>2, <3>1 DEF Keys, Distinct
  <2>3. CASE i = Len(delivered) + 1 \/ j = Len(delivered) + 1
    BY <1>1, <1>2, <2>1, <2>3
  <2> QED
    BY <2>1, <2>2, <2>3
<1>4. \A i \in 1..Len(longer) : longer[i] \in Elements(delivered) \cup {f}
  BY <1>1, <1>2
<1> HIDE DEF longer
<1>5. CASE Len(longer) > setting.keys
  <2>1. Remembered(f) = Tail(longer)
    BY <1>5 DEF Remembered, longer
  <2>2. longer # <<>>
    BY <1>1
  <2>3. /\ Tail(longer) \in Seq(Frames) /\ Len(Tail(longer)) = Len(longer) - 1
        /\ \A i \in 1..Len(Tail(longer)) : Tail(longer)[i] = longer[i + 1]
    BY <1>1, <2>2, HeadTailProperties
  <2>4. DOMAIN Tail(longer) = 1..Len(Tail(longer))
    BY <2>3
  <2>5. Len(Tail(longer)) <= setting.keys
    BY <1>1, <2>3 DEF Keys
  <2>6. Distinct(Tail(longer))
    BY <1>1, <1>3, <2>3, <2>4 DEF Distinct
  <2>7. Elements(Tail(longer)) \subseteq Elements(delivered) \cup {f}
    BY <1>1, <1>4, <2>3, <2>4 DEF Elements
  <2> QED
    BY <2>1, <2>3, <2>5, <2>6, <2>7
<1>6. CASE ~(Len(longer) > setting.keys)
  <2>1. Remembered(f) = longer
    BY <1>6 DEF Remembered, longer
  <2>2. DOMAIN longer = 1..Len(longer)
    BY <1>1
  <2>3. Distinct(longer)
    BY <1>1, <1>3, <2>2 DEF Distinct
  <2>4. Elements(longer) \subseteq Elements(delivered) \cup {f}
    BY <1>4, <2>2 DEF Elements
  <2>5. Len(longer) <= setting.keys
    BY <1>1, <1>6
  <2> QED
    BY <1>1, <2>1, <2>3, <2>4, <2>5
<1> QED
  BY <1>5, <1>6

\* As many keys as entries, when no key is there twice.
LEMMA DistinctCount ==
  ASSUME NEW q \in Seq(Frames), Distinct(q)
  PROVE  Cardinality(Elements(q)) = Len(q)
<1>1. DOMAIN q = 1..Len(q) /\ Len(q) \in Nat /\ q \in [1..Len(q) -> Elements(q)]
  BY LenProperties DEF Elements
<1>2. q \in Bijection(1..Len(q), Elements(q))
  BY <1>1 DEF Distinct, Elements, Bijection, Injection, Surjection, IsInjective
<1>3. ExistsBijection(1..Len(q), Elements(q))
  BY <1>2 DEF ExistsBijection
<1> QED
  BY <1>1, <1>3, FS_CountingElements

-----------------------------------------------------------------------------
(* Type correctness.                                                       *)

\* A worker moves on.
LEMMA GoesWorks ==
  ASSUME Working, UNCHANGED setting, NEW w \in Workers, NEW t \in Task, Goes(w, t),
         t.stage \in {"posted", "decode"} => t.image \in setting.images,
         t.stage = "store" => t.queue # <<>>
  PROVE  /\ Working'
         /\ task'[w] = t
         /\ \A v \in Workers : v # w => task'[v] = task[v]
<1>1. /\ task' \in [Workers -> Task]
      /\ task'[w] = t
      /\ \A v \in Workers : v # w => task'[v] = task[v]
  BY DEF Working, Goes
<1>2. Task' = Task
  BY DEF Task, Stages
<1> QED
  BY <1>1, <1>2 DEF Working, At

LEMMA StayWorks ==
  ASSUME Working, UNCHANGED <<setting, task>>
  PROVE  Working'
BY DEF Working, At, Task, Stages

LEMMA IdleTask == Idle \in Task /\ Idle.stage = "idle" /\ Idle.queue = <<>>
BY DEF Idle, Task, Stages

\* SessionStore.accept() of a frame.
LEMMA AcceptType ==
  ASSUME Typed, NEW f \in Frames, Accept(f)
  PROVE  /\ active' \in Sessions \cup {NoSession} /\ kept' \subseteq Frames
         /\ failures' \in Nat
<1>1. f.session \in Sessions /\ Filed(f) \subseteq Frames
  BY ScreenAssumption DEF Filed
<1>2. CASE Admissible(f)
  BY <1>1, <1>2 DEF Accept, Typed
<1>3. CASE ~Admissible(f)
  BY <1>3 DEF Accept, Typed, store
<1> QED
  BY <1>2, <1>3

\* Each action of a worker, of the screen, of the Reset button and of the
\* camera's life cycle keeps the types.
LEMMA WorkTyped ==
  ASSUME Typed, NEW w \in Workers, Work(w)
  PROVE  Typed'
<1> USE DEF Typed
<1>1. task[w] \in Task /\ Working /\ setting.images \subseteq Founds
  BY ScreenAssumption DEF Working, Founds
<1>2. CASE ReadMode(w)
  <2> PICK direct \in {FALSE, detector.mode = "BW"} :
        Goes(w, [task[w] EXCEPT !.stage = "decode", !.direct = direct])
    BY <1>2 DEF ReadMode
  <2> DEFINE t == [task[w] EXCEPT !.stage = "decode", !.direct = direct]
  <2>1. t \in Task /\ t.stage = "decode" /\ t.image = task[w].image
    BY <1>1 DEF Task, Stages
  <2>2. t.image \in setting.images
    BY <1>2, <2>1 DEF Working, ReadMode, At
  <2> HIDE DEF t
  <2>3. Goes(w, t) /\ UNCHANGED setting
    BY <1>2 DEF ReadMode, t
  <2>4. Working'
    BY <1>1, <2>1, <2>2, <2>3, GoesWorks
  <2> QED
    BY <1>2, <2>4 DEF ReadMode, Keys, store, Detectors
<1>3. CASE \E readable \in SUBSET Channels : Detect(w, readable)
  <2> PICK readable \in SUBSET Channels : Detect(w, readable)
    BY <1>3
  <2> DEFINE found == [c \in Channels |-> IF c \in readable THEN task[w].image[c] ELSE NoFrame]
             t == [Idle EXCEPT !.stage = "check", !.queue = Unique(found)]
  <2>1. task[w].image \in Founds
    BY <1>1 DEF Detect, At, Working
  <2>2. found \in Founds
    BY <2>1 DEF Founds
  <2> HIDE DEF found
  <2>3. t \in Task /\ t.stage = "check"
    BY <2>2, UniqueType, IdleTask DEF Task, Stages
  <2> HIDE DEF t
  <2>4. Goes(w, t) /\ UNCHANGED setting /\ detector' = Detected(detector, found)
    BY DEF Detect, t, found
  <2>5. Working'
    BY <1>1, <2>3, <2>4, GoesWorks
  <2>6. detector' \in Detectors
    BY <2>2, <2>4, DetectedType
  <2> QED
    BY <2>5, <2>6 DEF Detect, Keys, store, Detectors
<1>4. CASE Check(w)
  <2> DEFINE t == IF running THEN [task[w] EXCEPT !.stage = "deliver"] ELSE Idle
  <2>1. t \in Task /\ t.stage \in {"deliver", "idle"}
    BY <1>1, IdleTask DEF Task, Stages
  <2> HIDE DEF t
  <2>2. Goes(w, t) /\ UNCHANGED setting
    BY <1>4 DEF Check, t
  <2>3. Working'
    BY <1>1, <2>1, <2>2, GoesWorks
  <2> QED
    BY <1>4, <2>3 DEF Check, Keys, store, Detectors
<1>5. CASE Mark(w)
  <2> DEFINE f == Head(task[w].queue)
  <2>1. /\ task[w].queue \in Seq(Frames) /\ task[w].queue # <<>>
        /\ task[w].stage = "deliver"
    BY <1>1, <1>5 DEF Task, Mark, At
  <2>2. f \in Frames /\ Tail(task[w].queue) \in Seq(Frames)
    BY <2>1, HeadTailProperties
  <2>3. CASE f \in Elements(delivered)
    <3> DEFINE t == [task[w] EXCEPT !.queue = Tail(@)]
    <3>1. t \in Task /\ t.stage = "deliver"
      BY <1>1, <2>1, <2>2 DEF Task
    <3> HIDE DEF t
    <3>2. Goes(w, t) /\ UNCHANGED <<setting, delivered>>
      BY <1>5, <2>3 DEF Mark, t
    <3>3. Working'
      BY <1>1, <3>1, <3>2, GoesWorks
    <3> QED
      BY <1>5, <3>2, <3>3 DEF Mark, Keys, store, Detectors
  <2>4. CASE f \notin Elements(delivered)
    <3> DEFINE t == [task[w] EXCEPT !.stage = "store"]
    <3>1. t \in Task /\ t.stage = "store" /\ t.queue # <<>>
      BY <1>1, <2>1 DEF Task, Stages
    <3> HIDE DEF t
    <3>2. Goes(w, t) /\ UNCHANGED setting /\ delivered' = Remembered(f)
      BY <1>5, <2>4 DEF Mark, t
    <3>3. Working'
      BY <1>1, <3>1, <3>2, GoesWorks
    <3>4. setting.keys \in Nat
      BY ScreenAssumption
    <3>5. Keys'
      BY <2>2, <2>4, <3>2, <3>4, RememberedKeys DEF Keys
    <3> QED
      BY <1>5, <3>3, <3>5 DEF Mark, store, Detectors
  <2> QED
    BY <2>3, <2>4
<1>6. CASE Store(w)
  <2> DEFINE t == [task[w] EXCEPT !.stage = "deliver", !.queue = Tail(@)]
  <2>1. /\ task[w].queue \in Seq(Frames) /\ task[w].queue # <<>>
    BY <1>1, <1>6 DEF Task, Store, Working
  <2>2. Head(task[w].queue) \in Frames /\ Tail(task[w].queue) \in Seq(Frames)
    BY <2>1, HeadTailProperties
  <2>3. t \in Task /\ t.stage = "deliver"
    BY <1>1, <2>2 DEF Task, Stages
  <2> HIDE DEF t
  <2>4. Goes(w, t) /\ UNCHANGED setting
    BY <1>6 DEF Store, t
  <2>5. Working'
    BY <1>1, <2>3, <2>4, GoesWorks
  <2>6. /\ active' \in Sessions \cup {NoSession} /\ kept' \subseteq Frames
        /\ failures' \in Nat
    BY <1>6, <2>2, AcceptType DEF Store
  <2> QED
    BY <1>6, <2>5, <2>6 DEF Store, Keys, Detectors
<1>7. CASE Release(w)
  <2>1. Working'
    BY <1>1, <1>7, IdleTask, GoesWorks DEF Release
  <2> QED
    BY <1>7, <2>1 DEF Release, Keys, store, Detectors
<1> QED
  BY <1>2, <1>3, <1>4, <1>5, <1>6, <1>7 DEF Work

LEMMA OthersTyped ==
  ASSUME Typed,
         \/ \E w \in Workers, img \in setting.images : Submit(w, img)
         \/ PressReset \/ ResetCall \/ Stop \/ Restart
         \/ \E f \in late : StoreLate(f)
         \/ UNCHANGED vars
  PROVE  Typed'
<1> USE DEF Typed
<1>1. Working
  OBVIOUS
<1>2. CASE \E w \in Workers, img \in setting.images : Submit(w, img)
  <2> PICK w \in Workers, img \in setting.images : Submit(w, img)
    BY <1>2
  <2> DEFINE t == [Idle EXCEPT !.stage = "posted", !.image = img]
  <2>1. t \in Task /\ t.stage = "posted" /\ t.image = img
    BY IdleTask DEF Task, Stages
  <2> HIDE DEF t
  <2>2. Goes(w, t) /\ UNCHANGED setting
    BY DEF Submit, t
  <2>3. Working'
    BY <1>1, <2>1, <2>2, GoesWorks
  <2> QED
    BY <2>3 DEF Submit, Keys, store, Detectors
<1>3. CASE PressReset
  BY <1>1, <1>3, StayWorks DEF PressReset, Keys, store, Detectors
<1>4. CASE ResetCall
  <2>1. Working' /\ ui' \in 0..3 /\ UNCHANGED <<setting, running, late>>
    BY <1>1, <1>4, StayWorks DEF ResetCall
  <2>2. CASE ResetOrder[ui] = "store"
    BY <1>4, <2>1, <2>2 DEF ResetCall, Keys, Detectors
  <2>3. CASE ResetOrder[ui] = "clear"
    <3>1. delivered' = <<>> /\ UNCHANGED <<detector, active, kept, failures>>
      BY <1>4, <2>3 DEF ResetCall, store
    <3>2. Keys'
      BY <2>1, <3>1, ScreenAssumption, EmptySeq DEF Keys, Distinct
    <3> QED
      BY <2>1, <3>1, <3>2 DEF Detectors
  <2>4. CASE ResetOrder[ui] \notin {"store", "clear"}
    <3>1. detector' = NewDetector /\ UNCHANGED <<delivered, active, kept, failures>>
      BY <1>4, <2>4 DEF ResetCall, store
    <3> QED
      BY <2>1, <3>1, NewDetectorType DEF Keys, Detectors
  <2> QED
    BY <2>2, <2>3, <2>4
<1>5. CASE Stop
  BY <1>1, <1>5, StayWorks DEF Stop, Keys, store, Detectors
<1>6. CASE Restart
  <2>1. task' = [w \in Workers |-> Idle] /\ UNCHANGED setting
    BY <1>6 DEF Restart
  <2>2. Working'
    BY <1>1, <2>1, IdleTask DEF Working, At, Task, Stages
  <2>3. delivered' = <<>> /\ detector' = NewDetector
    BY <1>6 DEF Restart, KeysOfRestart
  <2>4. Keys'
    BY <2>1, <2>3, ScreenAssumption, EmptySeq DEF Keys, Distinct
  <2>5. \A w \in Workers : Passed(w) \subseteq Frames
    <3>1. \A w \in Workers : task[w].queue \in Seq(Frames)
      BY <1>1 DEF Working, Task
    <3>2. \A q \in Seq(Frames) : Elements(q) \subseteq Frames
      BY DEF Elements
    <3> QED
      BY <3>1, <3>2 DEF Passed
  <2>6. late' \subseteq Frames
    BY <1>6, <2>5 DEF Restart
  <2>7. detector' \in Detectors'
    BY <2>3, NewDetectorType DEF Detectors
  <2> QED
    BY <1>6, <2>2, <2>4, <2>6, <2>7 DEF Restart, store
<1>7. CASE \E f \in late : StoreLate(f)
  <2> PICK f \in late : StoreLate(f)
    BY <1>7
  <2>1. /\ active' \in Sessions \cup {NoSession} /\ kept' \subseteq Frames
        /\ failures' \in Nat
    BY AcceptType DEF StoreLate
  <2>2. Working'
    BY <1>1, StayWorks DEF StoreLate
  <2> QED
    BY <2>1, <2>2 DEF StoreLate, Keys, Detectors
<1>8. CASE UNCHANGED vars
  BY <1>1, <1>8, StayWorks DEF vars, store, Keys, Detectors
<1> QED
  BY <1>2, <1>3, <1>4, <1>5, <1>6, <1>7, <1>8

LEMMA InitTyped == Init => Typed
<1> SUFFICES ASSUME Init PROVE Typed
  OBVIOUS
<1>1. Working
  BY IdleTask DEF Init, Working, At
<1>2. Keys
  BY ScreenAssumption, EmptySeq DEF Init, Keys, Distinct
<1> QED
  BY <1>1, <1>2, NewDetectorType DEF Init, Typed

LEMMA NextTyped == Typed /\ [Next]_vars => Typed'
BY WorkTyped, OthersTyped DEF Next

LEMMA TypedType == Typed => TypeOK
<1> SUFFICES ASSUME Typed PROVE TypeOK
  OBVIOUS
<1>1. \A q \in Seq(Frames) : Elements(q) \subseteq Frames
  BY DEF Elements
<1>2. \A w \in Workers :
        task[w].stage \in Stages /\ task[w].queue \in Seq(Frames)
  BY DEF Typed, Working, Task
<1>3. Cardinality(Elements(delivered)) = Len(delivered)
  BY DistinctCount DEF Typed, Keys
<1>4. detector.mode \in {"UNKNOWN", "BW", "RGB3"}
  BY DEF Typed, Detectors
<1> QED
  BY <1>1, <1>2, <1>3, <1>4 DEF Typed, Working, Keys, TypeOK

\* The cache of delivered keys never outgrows its limit nor holds a key twice,
\* a worker about to store has a frame to store, and all the rest is of its
\* type: for any number of workers and any cache.
THEOREM TypeCorrect == Spec => []TypeOK
BY InitTyped, NextTyped, TypedType, PTL DEF Spec

-----------------------------------------------------------------------------
(* A lock on one channel is backed by the window's own images.             *)

\* The screen shows f on all channels, in window w of session s.
Shown(f, s, w) ==
  \E img \in setting.images :
    EqualTriple(img) /\ Anchor(img) = f /\ f.session = s /\ f.window = w

\* What the detector's state says of the screen.
Backed(d) ==
  /\ d.session = NoSession => d = NewDetector
  /\ d.streak > 0 => Shown(d.lastEqual, d.session, d.window)
  /\ d.streak >= 2 \/ d.mode = "BW" => Repeating(d.session, d.window)

LEMMA NewBacked == Backed(NewDetector)
BY DEF Backed, NewDetector

LEMMA TwoShown ==
  ASSUME NEW f, NEW g, NEW s, NEW w, f # g, Shown(f, s, w), Shown(g, s, w)
  PROVE  Repeating(s, w)
BY DEF Shown, Repeating

\* A second triple counts only if it is of another frame of the same window.
LEMMA ClassifiedBacked ==
  ASSUME setting \in Settings, NEW d \in Detectors, NEW found \in Founds,
         Valid(found) # {}, EqualTriple(found) => found \in setting.images,
         d.session = Anchor(found).session, d.window = Anchor(found).window,
         Backed(d)
  PROVE  Backed(Classified(d, found))
<1> DEFINE f == Anchor(found)
           streak == IF f # d.lastEqual THEN d.streak + 1 ELSE d.streak
           e == Classified(d, found)
<1>1. f.session # NoSession /\ d.session # NoSession /\ d.streak \in Nat
  BY AnchorType DEF Detectors
<1>2. e.session = d.session /\ e.window = d.window
  BY ClassifiedType
<1>3. CASE Len(Unique(found)) >= 2
  <2>1. e = [d EXCEPT !.mode = "RGB3", !.lastEqual = NoFrame, !.streak = 0]
    BY <1>3 DEF Classified
  <2>2. e.mode = "RGB3" /\ e.streak = 0
    BY <2>1 DEF Detectors
  <2> HIDE DEF e
  <2>3. Backed(e)
    BY <1>1, <1>2, <2>2 DEF Backed
  <2> QED
    BY <2>3 DEF e
<1>4. CASE ~(Len(Unique(found)) >= 2) /\ EqualTriple(found)
  <2>1. e = [d EXCEPT !.lastEqual = f, !.streak = streak,
                      !.mode = IF streak >= 2 THEN "BW" ELSE "UNKNOWN"]
    BY <1>4 DEF Classified
  <2>2. /\ e.lastEqual = f /\ e.streak = streak
        /\ e.mode = IF streak >= 2 THEN "BW" ELSE "UNKNOWN"
    BY <2>1 DEF Detectors
  <2>3. Shown(f, d.session, d.window)
    BY <1>4 DEF Shown
  <2> HIDE DEF f
  <2>4. ASSUME streak >= 2 PROVE Repeating(d.session, d.window)
    <3>1. CASE f = d.lastEqual
      BY <2>4, <3>1 DEF Backed
    <3>2. CASE f # d.lastEqual
      <4>1. d.streak > 0
        BY <1>1, <2>4, <3>2
      <4>2. Shown(d.lastEqual, d.session, d.window)
        BY <4>1 DEF Backed
      <4> QED
        BY <2>3, <3>2, <4>2, TwoShown
    <3> QED
      BY <3>1, <3>2
  <2> HIDE DEF e, streak
  <2>5. Backed(e)
    BY <1>1, <1>2, <2>2, <2>3, <2>4 DEF Backed
  <2> QED
    BY <2>5 DEF e
<1>5. CASE ~(Len(Unique(found)) >= 2) /\ ~EqualTriple(found)
  BY <1>5 DEF Classified
<1> QED
  BY <1>3, <1>4, <1>5

LEMMA DetectedBacked ==
  ASSUME setting \in Settings, NEW d \in Detectors, NEW found \in Founds,
         EqualTriple(found) => found \in setting.images, Backed(d)
  PROVE  Backed(Detected(d, found))
<1> DEFINE f == Anchor(found)
           kept0 == IF Moved(d, f) THEN NewDetector ELSE d
           here == [kept0 EXCEPT !.session = f.session, !.window = f.window]
<1>1. CASE Valid(found) = {} \/ \E c \in Valid(found) : found[c].kind = "END_WINDOW"
  BY <1>1, NewBacked DEF Detected
<1>2. CASE ~(Valid(found) = {} \/ \E c \in Valid(found) : found[c].kind = "END_WINDOW")
  <2>1. f.session \in Sessions /\ f.window \in Int /\ f.session # NoSession
    BY <1>2, AnchorType
  <2>2. kept0 \in Detectors
    BY NewDetectorType
  <2>3. /\ here \in Detectors
        /\ here.session = f.session /\ here.window = f.window
        /\ here.mode = kept0.mode /\ here.streak = kept0.streak
        /\ here.lastEqual = kept0.lastEqual
    BY <2>1, <2>2 DEF Detectors
  <2>4. Backed(here)
    <3>1. CASE kept0 = NewDetector
      <4>1. here.mode = "UNKNOWN" /\ here.streak = 0
        BY <2>3, <3>1 DEF NewDetector
      <4> HIDE DEF here
      <4> QED
        BY <2>1, <2>3, <4>1 DEF Backed
    <3>2. CASE kept0 # NewDetector
      <4>1. kept0 = d /\ d.session # NoSession
        BY <3>2 DEF Backed
      <4>2. f.session = d.session /\ f.window = d.window
        BY <3>2, <4>1 DEF Moved
      <4> HIDE DEF here, kept0
      <4> QED
        BY <2>1, <2>3, <4>1, <4>2 DEF Backed
    <3> QED
      BY <3>1, <3>2
  <2>5. Detected(d, found) = IF here.mode = "UNKNOWN" THEN Classified(here, found) ELSE here
    BY <1>2 DEF Detected
  <2> HIDE DEF here
  <2>6. Backed(Classified(here, found))
    BY <1>2, <2>3, <2>4, ClassifiedBacked
  <2> QED
    BY <2>4, <2>5, <2>6
<1> QED
  BY <1>1, <1>2

LEMMA NextBacked ==
  ASSUME Typed, Backed(detector), [Next]_vars
  PROVE  Backed(detector)'
<1>1. UNCHANGED setting
  BY DEF Next, Work, Submit, ReadMode, Detect, Check, Mark, Store, Release, PressReset,
         ResetCall, Stop, Restart, StoreLate, vars
<1>2. CASE UNCHANGED detector
  BY <1>1, <1>2 DEF Backed, Shown, Repeating
<1>3. CASE detector' = NewDetector
  BY <1>3, NewBacked DEF Backed, NewDetector
<1>4. CASE \E w \in Workers : \E readable \in SUBSET Channels : Detect(w, readable)
  <2> PICK w \in Workers, readable \in SUBSET Channels : Detect(w, readable)
    BY <1>4
  <2> DEFINE found == [c \in Channels |-> IF c \in readable THEN task[w].image[c] ELSE NoFrame]
  <2>1. /\ setting \in Settings /\ task[w].image \in setting.images
        /\ task[w].image \in Founds
    BY ScreenAssumption DEF Typed, Working, Detect, At, Founds
  <2>2. found \in Founds
    BY <2>1 DEF Founds
  <2>3. EqualTriple(found) => found = task[w].image
    <3>1. ASSUME EqualTriple(found) PROVE readable = Channels
      BY <3>1 DEF EqualTriple, Valid
    <3> QED
      BY <2>1, <3>1 DEF Founds
  <2> HIDE DEF found
  <2>4. detector' = Detected(detector, found)
    BY DEF Detect, found
  <2>5. Backed(Detected(detector, found))
    BY <2>1, <2>2, <2>3, DetectedBacked DEF Typed
  <2> QED
    BY <1>1, <2>4, <2>5 DEF Backed, Shown, Repeating
<1>5. UNCHANGED detector \/ detector' = NewDetector
      \/ \E w \in Workers : \E readable \in SUBSET Channels : Detect(w, readable)
  BY DEF Next, Work, Submit, ReadMode, Check, Mark, Store, Release, PressReset,
         ResetCall, Stop, Restart, StoreLate, vars
<1> QED
  BY <1>2, <1>3, <1>4, <1>5

\* Whatever the order in which any number of workers report the images of any
\* screen, with Reset and pauses between them, the receiver switches to one
\* channel only in a window that shows two different frames on all channels.
THEOREM LocksBacked == Spec => []LocksItsWindow
<1>1. Init => Typed /\ Backed(detector)
  BY InitTyped, NewBacked DEF Init
<1>2. Typed /\ Backed(detector) /\ [Next]_vars => Typed' /\ Backed(detector)'
  BY NextTyped, NextBacked
<1>3. Backed(detector) => LocksItsWindow
  BY DEF Backed, LocksItsWindow
<1> QED
  BY <1>1, <1>2, <1>3, PTL DEF Spec

-----------------------------------------------------------------------------
(* A remembered frame is on disk.                                          *)

\* Without a failing write, a frame the store takes is kept, and a frame it
\* takes afterwards it would have taken before.
LEMMA AcceptKeeps ==
  ASSUME Typed, MaxFailures = 0, NEW f \in Frames, Accept(f)
  PROVE  /\ kept \subseteq kept'
         /\ Admissible(f) /\ f.kind # "END_WINDOW" => f \in kept'
         /\ \A g \in Frames : g.kind # "END_WINDOW" /\ Admissible(g)' => Admissible(g)
<1>1. CASE ~Admissible(f)
  BY <1>1 DEF Accept, store, Admissible
<1>2. CASE Admissible(f)
  <2>1. active' = f.session /\ kept' = kept \cup Filed(f)
    BY <1>2 DEF Accept, Typed
  <2>2. f.kind # "END_WINDOW" => f \in kept'
    BY <2>1 DEF Filed
  <2>3. ASSUME NEW g \in Frames, g.kind # "END_WINDOW", Admissible(g)'
        PROVE  Admissible(g)
    BY <1>2, <2>1, <2>3 DEF Admissible, Starts
  <2> QED
    BY <2>1, <2>2, <2>3
<1> QED
  BY <1>1, <1>2

\* A step that leaves keys, store and handler alone, and of the frames on
\* their way only those of one worker.
LEMMA RemembersStill ==
  ASSUME Remembers, UNCHANGED <<delivered, active, kept, ui>>,
         \A f \in Frames, w \in Workers : Carries(w, f) => Carries(w, f)',
         delivered \in Seq(Frames)
  PROVE  Remembers'
<1>1. Elements(delivered) \subseteq Frames
  BY DEF Elements
<1> QED
  BY <1>1 DEF Remembers, Admissible

LEMMA WorkRemembers ==
  ASSUME Typed, Remembers, MaxFailures = 0, NEW w \in Workers, Work(w)
  PROVE  Remembers'
<1>1. /\ task \in [Workers -> Task] /\ task[w] \in Task /\ delivered \in Seq(Frames)
      /\ Elements(delivered) \subseteq Frames
  BY DEF Typed, Working, Keys, Elements
<1>2. ASSUME ~At(w, "store"), UNCHANGED <<delivered, active, kept, ui>>,
             \E t : Goes(w, t)
      PROVE  Remembers'
  <2>1. \A v \in Workers : v # w => task'[v] = task[v]
    BY <1>1, <1>2 DEF Goes
  <2> QED
    BY <1>1, <1>2, <2>1, RemembersStill DEF Carries, At
<1>3. CASE ReadMode(w) \/ Check(w) \/ Release(w)
           \/ \E readable \in SUBSET Channels : Detect(w, readable)
  <2>1. ~At(w, "store") /\ UNCHANGED <<delivered, active, kept, ui>>
    BY <1>3 DEF ReadMode, Check, Release, Detect, At, store
  <2>2. \E t : Goes(w, t)
    BY <1>3 DEF ReadMode, Check, Release, Detect
  <2> QED
    BY <1>2, <2>1, <2>2
<1>4. CASE Mark(w)
  <2> PICK f : f = Head(task[w].queue)
    OBVIOUS
  <2>1. ~At(w, "store") /\ UNCHANGED <<active, kept, ui>>
    BY <1>4 DEF Mark, At, store
  <2>2. CASE f \in Elements(delivered)
    BY <1>2, <1>4, <2>1, <2>2 DEF Mark
  <2>3. CASE f \notin Elements(delivered)
    <3>1. /\ task[w].queue \in Seq(Frames) /\ task[w].queue # <<>>
          /\ setting.keys \in Nat /\ Keys
      BY <1>1, <1>4, ScreenAssumption DEF Mark, Task, Typed
    <3>2. f \in Frames
      BY <3>1, HeadTailProperties
    <3>3. Elements(delivered') \subseteq Elements(delivered) \cup {f}
      <4>1. delivered' = Remembered(f)
        BY <1>4, <2>3 DEF Mark
      <4> QED
        BY <2>3, <3>1, <3>2, <4>1, RememberedKeys
    <3>4. Carries(w, f)' /\ \A v \in Workers : v # w => task'[v] = task[v]
      BY <1>1, <1>4, <2>3 DEF Mark, Goes, Carries, At, Task
    <3>5. \A g : Carries(w, g) => FALSE
      BY <2>1 DEF Carries
    <3>6. \A g : \A v \in Workers : Carries(v, g) => Carries(v, g)'
      BY <3>4, <3>5 DEF Carries, At
    <3>7. \A g : Admissible(g)' => Admissible(g)
      BY <2>1 DEF Admissible
    <3> SUFFICES ASSUME ui # 2, NEW g \in Elements(delivered'),
                        g.kind # "END_WINDOW", Admissible(g)',
                        \A v \in Workers : ~Carries(v, g)'
                 PROVE  g \in kept
      BY <2>1 DEF Remembers, Elements
    <3>8. g \in Elements(delivered)
      BY <3>3, <3>4
    <3>9. \A v \in Workers : ~Carries(v, g)
      BY <3>6
    <3> QED
      BY <3>7, <3>8, <3>9 DEF Remembers
  <2> QED
    BY <2>2, <2>3
<1>5. CASE Store(w)
  <2> PICK f : f = Head(task[w].queue)
    OBVIOUS
  <2>1. task[w].queue \in Seq(Frames) /\ task[w].queue # <<>>
    BY <1>1, <1>5 DEF Task, Store, Typed, Working
  <2>2. f \in Frames
    BY <2>1, HeadTailProperties
  <2>3. Accept(f) /\ UNCHANGED <<delivered, ui>>
    BY <1>5 DEF Store
  <2>4. \A v \in Workers : v # w => task'[v] = task[v]
    BY <1>1, <1>5 DEF Store, Goes
  <2>5. /\ kept \subseteq kept'
        /\ Admissible(f) /\ f.kind # "END_WINDOW" => f \in kept'
        /\ \A g \in Frames : g.kind # "END_WINDOW" /\ Admissible(g)' => Admissible(g)
    BY <2>2, <2>3, AcceptKeeps
  <2>6. \A g : g # f => ~Carries(w, g)
    BY DEF Carries
  <2>7. \A g : \A v \in Workers : g # f /\ Carries(v, g) => Carries(v, g)'
    BY <2>4, <2>6 DEF Carries, At
  <2> SUFFICES ASSUME ui # 2, NEW g \in Elements(delivered),
                      g.kind # "END_WINDOW", Admissible(g)',
                      \A v \in Workers : ~Carries(v, g)'
               PROVE  g \in kept'
    BY <2>3 DEF Remembers
  <2>8. g \in Frames /\ Admissible(g)
    BY <1>1, <2>5
  <2>9. CASE g = f
    BY <2>5, <2>8, <2>9
  <2>10. CASE g # f
    <3>1. \A v \in Workers : ~Carries(v, g)
      BY <2>7, <2>10
    <3>2. g \in kept
      BY <2>8, <3>1 DEF Remembers
    <3> QED
      BY <2>5, <3>2
  <2> QED
    BY <2>9, <2>10
<1> QED
  BY <1>3, <1>4, <1>5 DEF Work

LEMMA OthersRemember ==
  ASSUME Typed, Remembers, MaxFailures = 0,
         \/ \E w \in Workers, img \in setting.images : Submit(w, img)
         \/ PressReset \/ ResetCall \/ Stop \/ Restart
         \/ \E f \in late : StoreLate(f)
         \/ UNCHANGED vars
  PROVE  Remembers'
<1>1. /\ task \in [Workers -> Task] /\ delivered \in Seq(Frames)
      /\ Elements(delivered) \subseteq Frames /\ Elements(<<>>) = {}
      /\ ui \in 0..3
  BY DEF Typed, Working, Keys, Elements
<1>2. CASE \E w \in Workers, img \in setting.images : Submit(w, img)
  <2> PICK w \in Workers, img \in setting.images : Submit(w, img)
    BY <1>2
  <2>1. ~At(w, "store") /\ \A v \in Workers : v # w => task'[v] = task[v]
    BY <1>1 DEF Submit, Goes, At
  <2> QED
    BY <1>1, <2>1, RemembersStill DEF Submit, Carries, At, store
<1>3. CASE PressReset
  BY <1>1, <1>3 DEF PressReset, store, Remembers, Admissible, Carries, At
<1>4. CASE ResetCall
  <2>1. CASE ui = 1
    BY <1>4, <2>1 DEF ResetCall, Remembers
  <2>2. CASE ui = 2
    BY <1>1, <1>4, <2>2 DEF ResetCall, ResetOrder, Remembers
  <2>3. CASE ui = 3
    BY <1>4, <2>3 DEF ResetCall, ResetOrder, store, Remembers, Admissible, Carries, At
  <2> QED
    BY <1>1, <1>4, <2>1, <2>2, <2>3 DEF ResetCall
<1>5. CASE Stop
  BY <1>5 DEF Stop, store, Remembers, Admissible, Carries, At
<1>6. CASE Restart
  BY <1>1, <1>6 DEF Restart, KeysOfRestart, Remembers
<1>7. CASE \E f \in late : StoreLate(f)
  <2> PICK f \in late : StoreLate(f)
    BY <1>7
  <2>1. /\ kept \subseteq kept'
        /\ Admissible(f) /\ f.kind # "END_WINDOW" => f \in kept'
        /\ \A g \in Frames : g.kind # "END_WINDOW" /\ Admissible(g)' => Admissible(g)
    BY AcceptKeeps DEF StoreLate, Typed
  <2> QED
    BY <1>1, <2>1 DEF StoreLate, Remembers, Carries, At
<1>8. CASE UNCHANGED vars
  BY <1>8 DEF vars, store, Remembers, Admissible, Carries, At
<1> QED
  BY <1>2, <1>3, <1>4, <1>5, <1>6, <1>7, <1>8

\* Where file writes succeed, a repeat is suppressed only if the store has no
\* use for it: for any number of workers, any screens and cache, and Reset and
\* pauses falling anywhere between their locks.
THEOREM RepeatsNotNeeded ==
  ASSUME MaxFailures = 0
  PROVE  Spec => []DeliveredKept
<1>1. Init => Typed /\ Remembers
  <2>1. Init => Remembers
    BY DEF Init, Remembers, Elements
  <2> QED
    BY <2>1, InitTyped
<1>2. Typed /\ Remembers /\ [Next]_vars => Typed' /\ Remembers'
  BY NextTyped, WorkRemembers, OthersRemember DEF Next
<1>3. Remembers => DeliveredKept
  BY DEF Remembers, DeliveredKept
<1> QED
  BY <1>1, <1>2, <1>3, PTL DEF Spec
==============================================================================
