--------------------------- MODULE CameraScanner ---------------------------
(***************************************************************************)
(* The Android receiver between the camera and the frame store             *)
(* (CameraScanner.java, Rgb3DecoderPolicy.Detector, the Reset button of    *)
(* MainActivity): decode workers take camera images, a shared detector     *)
(* tells monochrome from three-channel transfers, a shared map of frame    *)
(* keys suppresses repeats, and what is left goes to SessionStore.accept().*)
(*                                                                         *)
(* Workers interleave at every lock: the detector's monitor, payloadLock,  *)
(* the store's monitor and the volatile `running`.  Reset takes the same   *)
(* locks one after the other on the UI thread.  The store is seen through  *)
(* its answers: which session it receives, which frames it has kept.       *)
(***************************************************************************)
EXTENDS Integers, Sequences, FiniteSets

CONSTANTS
  Workers,       \* decode workers (1..4 threads)
  Sessions,
  NoSession,     \* no session in the store, or in the detector
  NoFrame,       \* a channel that did not decode
  Frames,        \* DQR1 frames; a frame stands for its FrameKey
  Monochrome,    \* sessions whose sender runs with /BW
  Settings,      \* [images, keys, resets, stops]
  MaxFailures    \* bound on failing file writes

VARIABLES
  setting,       \* images: what one camera image may show, per channel;
                 \* keys: entries kept in deliveredFrames (512 in the code);
                 \* bounds on presses of Reset and on pauses of the camera
  running,       \* CameraScanner.running
  task,          \* per worker: stage, image, direct (BW path), queue of frames
  late,          \* frames an abandoned worker may still hand to the store
  delivered,     \* deliveredFrames, oldest first
  detector,      \* Detector: mode, session, window, lastEqual, streak
  active,        \* SessionStore.active
  kept,          \* frames the store has on disk
  ui,            \* where the Reset button's handler stands
  failures, resets, stops

store == <<active, kept, failures>>
vars == <<setting, running, task, late, delivered, detector, store, ui, resets, stops>>

Channels == 1..3        \* RED, GREEN, BLUE
Green == 2

Idle == [stage |-> "idle", image |-> NoFrame, direct |-> FALSE, queue |-> <<>>]
NewDetector == [mode |-> "UNKNOWN", session |-> NoSession, window |-> -1,
                lastEqual |-> NoFrame, streak |-> 0]

Elements(q) == {q[i] : i \in DOMAIN q}

ASSUME ScreenAssumption ==
  /\ NoFrame \notin Frames /\ NoSession \notin Sessions
  /\ \A f \in Frames : f.session \in Sessions /\ f.window \in Nat
  /\ \A s \in Settings :
       /\ s.images \subseteq [Channels -> Frames \cup {NoFrame}]
       /\ s.keys \in Nat

-----------------------------------------------------------------------------
(* Rgb3DecoderPolicy.                                                      *)

Valid(found) == {c \in Channels : found[c] # NoFrame}

\* parseUnique(): the decoded frames in channel order, each once.
Unique(found) ==
  LET isFirst(c) == found[c] # NoFrame /\ \A d \in 1..(c - 1) : found[d] # found[c]
      pick(c) == IF isFirst(c) THEN <<found[c]>> ELSE <<>>
  IN pick(1) \o pick(2) \o pick(3)

Anchor(found) == found[CHOOSE c \in Valid(found) : \A d \in Valid(found) : c <= d]

\* Mutant of Moved: a new window keeps the old classification.
MovedSession(d, f) == d.session # NoSession /\ f.session # d.session

Moved(d, f) ==
  d.session # NoSession /\ (f.session # d.session \/ f.window # d.window)

EqualTriple(found) ==
  /\ Valid(found) = Channels
  /\ Cardinality({found[c] : c \in Channels}) = 1
  /\ Anchor(found).kind \in {"DATA", "CALIBRATION"}

\* A frame seen by the detector `d`, already at the anchor's window.
Classified(d, found) ==
  LET f == Anchor(found)
      streak == IF f # d.lastEqual THEN d.streak + 1 ELSE d.streak
  IN IF Len(Unique(found)) >= 2
     THEN [d EXCEPT !.mode = "RGB3", !.lastEqual = NoFrame, !.streak = 0]
     ELSE IF EqualTriple(found)
          THEN [d EXCEPT !.lastEqual = f, !.streak = streak,
                         !.mode = IF streak >= 2 THEN "BW" ELSE "UNKNOWN"]
          ELSE d

\* Detector.accept().
Detected(d, found) ==
  LET f == Anchor(found)
      kept0 == IF Moved(d, f) THEN NewDetector ELSE d
      here == [kept0 EXCEPT !.session = f.session, !.window = f.window]
  IN IF Valid(found) = {} THEN d
     ELSE IF \E c \in Valid(found) : found[c].kind = "END_WINDOW" THEN NewDetector
     ELSE IF here.mode = "UNKNOWN" THEN Classified(here, found) ELSE here

-----------------------------------------------------------------------------
(* SessionStore.accept(), as its callers see it.                           *)

Starts(f) == f.kind # "END_WINDOW"

\* A calibration frame is only counted.
Admissible(f) ==
  /\ f.kind # "CALIBRATION"
  /\ \/ active = f.session
     \/ /\ Starts(f)
        /\ active # NoSession => ~\E g \in kept : g.session = active /\ g.kind = "DATA"

\* The files of a frame: END_WINDOW has none.
Filed(f) == IF f.kind = "END_WINDOW" THEN {} ELSE {f}

Accept(f) ==
  IF Admissible(f)
  THEN /\ active' = f.session
       /\ \/ kept' = kept \cup Filed(f) /\ UNCHANGED failures
          \/ /\ Filed(f) \ kept # {} /\ failures < MaxFailures
             /\ failures' = failures + 1
             /\ UNCHANGED kept
  ELSE UNCHANGED store

-----------------------------------------------------------------------------
(* Decode workers.                                                         *)

At(w, stage) == task[w].stage = stage
Goes(w, next) == task' = [task EXCEPT ![w] = next]

\* image(): a free worker takes the image; without one it is dropped.
Submit(w, img) ==
  /\ running /\ At(w, "idle")
  /\ Goes(w, [Idle EXCEPT !.stage = "posted", !.image = img])
  /\ UNCHANGED <<setting, running, late, delivered, detector, store, ui, resets, stops>>

\* decodeFrame() looks at the mode before it decodes anything; decodeGpuFrame()
\* never does.
ReadMode(w) ==
  /\ At(w, "posted")
  /\ \E direct \in {FALSE, detector.mode = "BW"} :
       Goes(w, [task[w] EXCEPT !.stage = "decode", !.direct = direct])
  /\ UNCHANGED <<setting, running, late, delivered, detector, store, ui, resets, stops>>

\* Some channels decode; the detector is told which.
Detect(w, readable) ==
  /\ At(w, "decode")
  /\ task[w].direct => readable \subseteq {Green}
  /\ LET found == [c \in Channels |-> IF c \in readable THEN task[w].image[c] ELSE NoFrame]
     IN /\ detector' = Detected(detector, found)
        /\ Goes(w, [Idle EXCEPT !.stage = "check", !.queue = Unique(found)])
  /\ UNCHANGED <<setting, running, late, delivered, store, ui, resets, stops>>

\* Mutant of Check: the worker is not released when the camera has stopped.
CheckUnreleased(w) ==
  /\ At(w, "check") /\ running
  /\ Goes(w, [task[w] EXCEPT !.stage = "deliver"])
  /\ UNCHANGED <<setting, running, late, delivered, detector, store, ui, resets, stops>>

Check(w) ==
  /\ At(w, "check")
  /\ Goes(w, IF running THEN [task[w] EXCEPT !.stage = "deliver"] ELSE Idle)
  /\ UNCHANGED <<setting, running, late, delivered, detector, store, ui, resets, stops>>

\* Mutant of Remembered: the eldest entry stays.
RememberedForever(f) == Append(delivered, f)

\* deliveredFrames.put() and the removal of the eldest entry.
Remembered(f) ==
  LET longer == Append(delivered, f)
  IN IF Len(longer) > setting.keys THEN Tail(longer) ELSE longer

\* markDelivered() of the next frame.
Mark(w) ==
  /\ At(w, "deliver") /\ task[w].queue # <<>>
  /\ LET f == Head(task[w].queue)
     IN IF f \in Elements(delivered)
        THEN /\ Goes(w, [task[w] EXCEPT !.queue = Tail(@)])
             /\ UNCHANGED delivered
        ELSE /\ Goes(w, [task[w] EXCEPT !.stage = "store"])
             /\ delivered' = Remembered(f)
  /\ UNCHANGED <<setting, running, late, detector, store, ui, resets, stops>>

\* listener.payload(): SessionStore.accept() of the frame just marked.
Store(w) ==
  /\ At(w, "store")
  /\ Accept(Head(task[w].queue))
  /\ Goes(w, [task[w] EXCEPT !.stage = "deliver", !.queue = Tail(@)])
  /\ UNCHANGED <<setting, running, late, delivered, detector, ui, resets, stops>>

Release(w) ==
  /\ At(w, "deliver") /\ task[w].queue = <<>>
  /\ Goes(w, Idle)
  /\ UNCHANGED <<setting, running, late, delivered, detector, store, ui, resets, stops>>

-----------------------------------------------------------------------------
(* The Reset button, and the camera's pause.                               *)

\* Mutant of ResetOrder: the keys are cleared before the store.
ClearedFirst == <<"clear", "store", "detector">>

\* The handler's calls: store.reset(), then clearLastPayload() under two locks.
ResetOrder == <<"store", "clear", "detector">>

\* ui = 0 is no handler running, ui = n the n-th call next.
PressReset ==
  /\ ui = 0 /\ resets < setting.resets
  /\ ui' = 1
  /\ resets' = resets + 1
  /\ UNCHANGED <<setting, running, task, late, delivered, detector, store, stops>>

ResetCall ==
  /\ ui > 0
  /\ ui' = IF ui = 3 THEN 0 ELSE ui + 1
  /\ CASE ResetOrder[ui] = "store" ->
            /\ active' = NoSession
            /\ kept' = {f \in kept : f.session # active}
            /\ UNCHANGED <<delivered, detector, failures>>
       [] ResetOrder[ui] = "clear" ->
            delivered' = <<>> /\ UNCHANGED <<detector, store>>
       [] OTHER ->
            detector' = NewDetector /\ UNCHANGED <<delivered, store>>
  /\ UNCHANGED <<setting, running, task, late, resets, stops>>

\* stop() runs on the UI thread, as Reset does.
Stop ==
  /\ running /\ ui = 0 /\ stops < setting.stops
  /\ running' = FALSE
  /\ stops' = stops + 1
  /\ UNCHANGED <<setting, task, late, delivered, detector, store, ui, resets>>

\* stop() waits a second for each worker, then forgets it: one that is past
\* the check of `running` still delivers its frames.  The next start() makes
\* a new scanner with an empty map and a new detector.
Passed(w) ==
  IF task[w].stage \in {"deliver", "store"} THEN Elements(task[w].queue) ELSE {}

\* Mutant of KeysOfRestart: the keys outlive the scanner.
KeysKept == delivered
KeysOfRestart == <<>>

Restart ==
  /\ ~running /\ ui = 0
  /\ running' = TRUE
  /\ late' = late \cup UNION {Passed(w) : w \in Workers}
  /\ task' = [w \in Workers |-> Idle]
  /\ delivered' = KeysOfRestart
  /\ detector' = NewDetector
  /\ UNCHANGED <<setting, store, ui, resets, stops>>

StoreLate(f) ==
  /\ f \in late
  /\ Accept(f)
  /\ late' = late \ {f}
  /\ UNCHANGED <<setting, running, task, delivered, detector, ui, resets, stops>>

-----------------------------------------------------------------------------
Init ==
  /\ setting \in Settings
  /\ running = TRUE
  /\ task = [w \in Workers |-> Idle]
  /\ late = {}
  /\ delivered = <<>>
  /\ detector = NewDetector
  /\ active = NoSession
  /\ kept = {}
  /\ ui = 0
  /\ failures = 0
  /\ resets = 0
  /\ stops = 0

Work(w) ==
  \/ ReadMode(w)
  \/ \E readable \in SUBSET Channels : Detect(w, readable)
  \/ Check(w)
  \/ Mark(w)
  \/ Store(w)
  \/ Release(w)

Next ==
  \/ \E w \in Workers, img \in setting.images : Submit(w, img)
  \/ \E w \in Workers : Work(w)
  \/ PressReset \/ ResetCall
  \/ Stop \/ Restart
  \/ \E f \in late : StoreLate(f)

Spec == Init /\ [][Next]_vars

\* A posted decode runs to its end on its worker's thread.
FairSpec == Spec /\ \A w \in Workers : WF_vars(Work(w))

-----------------------------------------------------------------------------
(* Properties.                                                             *)

Stages == {"idle", "posted", "decode", "check", "deliver", "store"}

\* Type invariant; deliveredFrames never outgrows its limit nor holds a key twice.
TypeOK ==
  /\ setting \in Settings
  /\ running \in BOOLEAN
  /\ \A w \in Workers :
       /\ task[w].stage \in Stages
       /\ Elements(task[w].queue) \subseteq Frames
       /\ At(w, "store") => task[w].queue # <<>>
  /\ late \subseteq Frames
  /\ Len(delivered) <= setting.keys
  /\ Cardinality(Elements(delivered)) = Len(delivered)
  /\ Elements(delivered) \subseteq Frames
  /\ detector.mode \in {"UNKNOWN", "BW", "RGB3"}
  /\ active \in Sessions \cup {NoSession}
  /\ kept \subseteq Frames
  /\ ui \in 0..3

\* The frame worker w has marked and not yet handed to the store.
Carries(w, f) == At(w, "store") /\ Head(task[w].queue) = f

\* A repeat is suppressed only if the store has no use for it: a frame marked
\* as delivered, which no worker is about to store and which the store would
\* take, is on disk.  It must survive Reset's calls falling between a
\* worker's mark and its store, and the workers overtaking each other.
DeliveredKept ==
  ui = 0 =>
    \A f \in Elements(delivered) :
      f.kind # "END_WINDOW" /\ Admissible(f) /\ (\A w \in Workers : ~Carries(w, f)) =>
        f \in kept

\* The screen shows two different frames of a window, each on all channels.
Repeating(s, w) ==
  \E i, j \in setting.images :
    /\ EqualTriple(i) /\ EqualTriple(j) /\ Anchor(i) # Anchor(j)
    /\ \A img \in {i, j} : Anchor(img).session = s /\ Anchor(img).window = w

\* Whatever the order in which the workers report images of several windows
\* and sessions, Reset and pauses between them, the receiver switches to one
\* channel only in a window that shows two different frames on all channels:
\* never by a tail of this window and one of another, nor by one image twice.
LocksItsWindow ==
  detector.mode = "BW" => Repeating(detector.session, detector.window)

\* Only a /BW transfer switches the receiver to one channel: what the documents
\* say, and false of an RGB3 window that ends in a lone anchor.
OnlyMonochromeLocks == detector.mode = "BW" => detector.session \in Monochrome

\* Every image given to a worker is finished with, also when the camera is
\* paused meanwhile, so the pool never runs dry.
WorkersReturn == \A w \in Workers : ~At(w, "idle") ~> At(w, "idle")
===============================================================================
