---------------------------- MODULE PlanePlayback ----------------------------
(***************************************************************************)
(* The 32-bit sender (dos_sender32/main.c): one loop that produces groups  *)
(* of QR images into the eight pages of the VGA and plays them.            *)
(*                                                                         *)
(* A group is `width` consecutive records, one per bit plane of a page.    *)
(* Playback selects a page and a mask of planes: each plane alone, then    *)
(* all of them, which the palette shows as their XOR, the parity symbol,   *)
(* once plane 0 has been patched for the parity's header.  Records that do *)
(* not fill a group are shown as ordinary DATA, the same on four planes.   *)
(*                                                                         *)
(* The loop is one thread, but the screen is read all the time and the     *)
(* deadline of a symbol passes at any moment: each step that writes the    *)
(* VGA or selects a page is an action of its own.  Encoding a plane takes  *)
(* the code several loops (chunks), here one: the deadline may pass in     *)
(* every loop, so playback overtakes production all the same.              *)
(***************************************************************************)
EXTENDS Integers, FiniteSets, FiniteSetsExt

CONSTANTS
  Transfers,    \* [width, window, total] : /RE:PLANEn, /WINDOW, total_records
  SlotCount,    \* SLOT_COUNT, 8
  ReadsMayFail  \* a file that is shorter than it was when it was opened

\* options() admits two widths and clamps the window; stream_open() counts
\* four records besides DATA; a slot more than the prefill of two.
TransfersAssumption ==
  /\ \A t \in Transfers :
       /\ t.width \in {3, 4}
       /\ t.window \in 4..128
       /\ t.total \in Nat /\ t.total >= 4
  /\ SlotCount \in Nat /\ SlotCount >= 3
ASSUME PlaybackAssumption == TransfersAssumption

Slots == 0..(SlotCount - 1)
None == -1
Planes == 0..3

VARIABLES
  transfer,   \* the options and length of this run
  global,     \* RecordStream.global: records taken from the stream
  history,    \* the last three records: global (and contents), head, count
  slots,      \* PlaneQueue.slots
  queue,      \* PlaneQueue: tail, preparing, ready, ordinal
  worker,     \* WorkMemory: phase, keystream, parity, codewords, previous, raster
  vram,       \* per page and plane: the image stored, the patches XORed in
  screen,     \* page, planes and palette the VGA displays
  reserved,   \* g_reserved_display_slot
  playback,   \* PlaybackState: group (its slot), symbol, active; focus wait
  due,        \* the display deadline has passed
  loop,       \* where main() stands, claimed, tail_pending
  fault,      \* what came from outside: an unreadable file, Esc
  shown       \* records that have been on the screen in one piece

vars == <<transfer, global, history, slots, queue, worker, vram, screen,
          reserved, playback, due, loop, fault, shown>>

Width == transfer.width
Window == transfer.window
Total == transfer.total
Group == 0..(Width - 1)      \* the planes of a group

-----------------------------------------------------------------------------
(* Images.  A basis image is the frame of one record under the group's      *)
(* header and keystream; a patch is the header correction of one group.     *)

Blank == <<"blank">>
Garbage == <<"garbage">>
Data(r) == <<"data", r>>
Basis(start, p, key, rec) == <<"basis", start, p, key, rec>>

Plain(image) == [image |-> image, patches |-> {}]

\* XOR is its own inverse: the same patch applied twice is no patch.
Patched(page, patch) ==
  [page EXCEPT ![0].patches = IF patch \in @ THEN @ \ {patch} ELSE @ \union {patch}]

\* A basis plane as it must be: its own record, its own group's keystream.
Genuine(start, p) == Basis(start, p, start, start + p)

\* The patch a group needs: of its own headers and all its records.
PatchOf(start) == <<start, start..(start + Width - 1)>>

PageGenuine(page, start, corrected) ==
  \A p \in Group :
    page[p] = [image |-> Genuine(start, p),
               patches |-> IF p = 0 /\ corrected THEN {PatchOf(start)} ELSE {}]

\* The planes of symbol s: one plane each, then all of them (parity).
Mask(s) == IF s = Width THEN Group ELSE {s}

-----------------------------------------------------------------------------
(* The record stream and the last three records.                            *)

WindowCount(g) ==
  LET start == (g \div Window) * Window
  IN IF Total - start > Window THEN Window ELSE Total - start

\* DATA records read the file, when there are any; one that has lost a part of
\* its last record is noticed by the record after it.
ReadsFile == Total > 4 /\ global \in 2..(Total - 2)

HistoryIndex(i) == ((IF history.count < 3 THEN 0 ELSE history.head) + i) % 3
HistoryRecord(i) == history.record[HistoryIndex(i)]

\* Mutant of Remembered: the ring's head does not wrap.
RememberedUnwrapped(r) ==
  [record |-> [history.record EXCEPT ![history.head] = r],
   head |-> history.head + 1,
   count |-> IF history.count < 3 THEN history.count + 1 ELSE 3]

Remembered(r) ==
  [record |-> [history.record EXCEPT ![history.head] = r],
   head |-> (history.head + 1) % 3,
   count |-> IF history.count < 3 THEN history.count + 1 ELSE 3]

-----------------------------------------------------------------------------
(* Producer: claiming a slot.                                               *)

FreeSlot == [state |-> "free", start |-> 0, index |-> 0, count |-> 0,
             overlap |-> 0, ordinal |-> 0, stage |-> 0,
             patch |-> <<>>, applied |-> FALSE]

\* A window's short remainder is widened to a group by showing the records
\* before it once more.
Remaining == WindowCount(global) - (global % Window)
Overlap == IF Remaining < Width THEN Width - Remaining ELSE 0
Start == global - Overlap

Available(i) == slots[i].state = "free" /\ i # reserved

\* The first available slot from the tail on; the tail itself if there is none.
ClaimTarget ==
  LET ahead == {i \in Slots : Available((queue.tail + i) % SlotCount)}
  IN (queue.tail + (IF ahead = {} THEN 0 ELSE Min(ahead))) % SlotCount

\* Mutant of Fits: the overlap may reach into the window before.
FitsAcross ==
  IF Overlap > 0
  THEN /\ Overlap <= global
       /\ Overlap <= history.count
       /\ HistoryRecord(history.count - Overlap) = Start
  ELSE global + Width <= Total

\* The group lies in its window, and its overlap is what is remembered.
Fits ==
  IF Overlap > 0
  THEN /\ Overlap <= global
       /\ Overlap <= history.count
       /\ HistoryRecord(history.count - Overlap) = Start
       /\ (Start % Window) + Width <= WindowCount(global)
  ELSE global + Width <= Total

MayClaim == queue.preparing = None /\ queue.ready < SlotCount /\ global < Total

\* Mutant of CanClaim: whatever the tail points at is taken.
CanClaimTail == MayClaim /\ Fits

CanClaim == MayClaim /\ Fits /\ slots[ClaimTarget].state = "free"

\* Mutant of ClearedParity: the parity of the group before is kept.
KeptParity == worker.parity

ClearedParity == {}

ClaimGroup ==
  /\ CanClaim
  /\ slots' = [slots EXCEPT ![ClaimTarget] =
                 [state |-> "filling", start |-> Start, index |-> Start % Window,
                  count |-> WindowCount(global), overlap |-> Overlap,
                  ordinal |-> queue.ordinal + 1, stage |-> 0,
                  patch |-> <<>>, applied |-> FALSE]]
  /\ queue' = [queue EXCEPT !.tail = ClaimTarget, !.preparing = ClaimTarget,
                            !.ordinal = @ + 1]
  /\ worker' = [worker EXCEPT !.phase = "begin", !.parity = ClearedParity]

-----------------------------------------------------------------------------
(* Producer: the steps of a group, in the prefill and in the loop.          *)

filling == slots[queue.preparing]

Producing(phase) ==
  /\ loop.pc \in {"prefill", "step"}
  /\ queue.preparing # None
  /\ filling.stage < Width
  /\ worker.phase = phase

StepDone == loop' = [loop EXCEPT !.pc = IF @ = "prefill" THEN "prefill" ELSE "tail"]

\* A step that fails ends the prefill, where the loop tries it again, or the run.
StepFailed == loop' = [loop EXCEPT !.pc = IF @ = "prefill" THEN "tick" ELSE "failed"]

\* The next record under the group's header; the group's header must fit it.
Encoded(rec, wi, wc) ==
  IF wi = filling.index + filling.stage /\ wc = filling.count
  THEN /\ worker' = [worker EXCEPT
            !.parity = IF rec \in @ THEN @ \ {rec} ELSE @ \union {rec},
            !.keystream = filling.start,
            !.codewords = Basis(filling.start, filling.stage, filling.start, rec),
            !.phase = "encode"]
       /\ StepDone
  ELSE worker' = worker /\ StepFailed

BeginOverlap ==
  /\ Producing("begin")
  /\ filling.stage < filling.overlap
  /\ Encoded(HistoryRecord(history.count - filling.overlap + filling.stage),
             filling.index + filling.stage, filling.count)
  /\ UNCHANGED <<global, history, fault>>

BeginNext ==
  /\ Producing("begin")
  /\ filling.stage >= filling.overlap
  /\ Encoded(global, global % Window, WindowCount(global))
  /\ global' = global + 1
  /\ history' = Remembered(global)
  /\ UNCHANGED fault

ReadFails ==
  /\ Producing("begin")
  /\ filling.stage >= filling.overlap
  /\ ReadsMayFail /\ ReadsFile
  /\ fault' = "read"
  /\ StepFailed
  /\ UNCHANGED <<global, history, worker>>

Begin ==
  /\ BeginOverlap \/ BeginNext \/ ReadFails
  /\ UNCHANGED <<transfer, slots, queue, vram, screen, reserved, playback, due, shown>>

Encode ==
  /\ Producing("encode")
  /\ worker' = [worker EXCEPT !.phase = IF worker.raster = Blank THEN "matrix" ELSE "delta"]
  /\ StepDone
  /\ UNCHANGED <<transfer, global, history, slots, queue, vram, screen, reserved,
                 playback, due, fault, shown>>

\* Only the codewords that differ from the previous ones are redrawn.
Redrawn(image) ==
  IF worker.raster \in {Blank, worker.previous} THEN image ELSE Garbage

Draw ==
  /\ Producing("matrix") \/ Producing("delta")
  /\ worker' = [worker EXCEPT !.raster = Redrawn(worker.codewords),
                              !.previous = worker.codewords, !.phase = "store"]
  /\ StepDone
  /\ UNCHANGED <<transfer, global, history, slots, queue, vram, screen, reserved,
                 playback, due, fault, shown>>

Store ==
  /\ Producing("store")
  /\ vram' = [vram EXCEPT ![queue.preparing][filling.stage] = Plain(worker.raster)]
  /\ slots' = [slots EXCEPT ![queue.preparing].stage = @ + 1]
  /\ worker' = [worker EXCEPT !.phase = "begin"]
  /\ StepDone
  /\ UNCHANGED <<transfer, global, history, queue, screen, reserved, playback,
                 due, fault, shown>>

\* The parity's header against the headers of the planes: the patch.
Correct ==
  /\ loop.pc \in {"prefill", "step"}
  /\ queue.preparing # None
  /\ filling.stage = Width
  /\ slots' = [slots EXCEPT ![queue.preparing].state = "ready",
                            ![queue.preparing].patch = <<filling.start, worker.parity>>]
  /\ queue' = [queue EXCEPT !.ready = @ + 1, !.preparing = None,
                            !.tail = (@ + 1) % SlotCount]
  /\ worker' = [worker EXCEPT !.phase = "begin"]
  /\ StepDone
  /\ UNCHANGED <<transfer, global, history, vram, screen, reserved, playback,
                 due, fault, shown>>

Produce == Begin \/ Encode \/ Draw \/ Store \/ Correct

-----------------------------------------------------------------------------
(* main() before the loop: up to two groups are prepared.                   *)

Goto(pc) == loop' = [loop EXCEPT !.pc = pc]

PrefillClaim ==
  /\ loop.pc = "prefill" /\ queue.preparing = None /\ queue.ready < 2
  /\ ClaimGroup
  /\ UNCHANGED <<transfer, global, history, vram, screen, reserved, playback,
                 due, loop, fault, shown>>

PrefillEnd ==
  /\ loop.pc = "prefill" /\ queue.preparing = None
  /\ queue.ready >= 2 \/ ~CanClaim
  /\ Goto("tick")
  /\ UNCHANGED <<transfer, global, history, slots, queue, worker, vram, screen,
                 reserved, playback, due, fault, shown>>

-----------------------------------------------------------------------------
(* playback_tick().                                                          *)

producer == <<transfer, global, history, worker>>

current == slots[playback.group]

Ready == {i \in Slots : slots[i].state = "ready"}

\* The oldest ready group, after the one that is playing if there is one.
Earliest == CHOOSE i \in Ready : \A j \in Ready : slots[i].ordinal <= slots[j].ordinal
Later == {i \in Ready : slots[i].ordinal > current.ordinal}
NextReady == CHOOSE i \in Later : \A j \in Later : slots[i].ordinal <= slots[j].ordinal

\* Mutant of Drained: the group under way is forgotten.
DrainedEarly == global >= Total \/ loop.tailPending

\* Mutant of Drained: a tail does not count as the end.
DrainedAtEnd == global >= Total /\ queue.preparing = None /\ queue.ready = 0

\* The loop's eof: nothing ready or under way, and no group can follow.
Drained ==
  /\ global >= Total \/ loop.tailPending
  /\ queue.preparing = None /\ queue.ready = 0

\* Select symbol s of a page; a camera may now read the record of its plane.
Show(slot, s) ==
  /\ screen' = [slot |-> slot, mask |-> Mask(s),
                palette |-> IF reserved # None THEN "planes" ELSE screen.palette]
  /\ shown' = LET start == slots[slot].start
              IN shown \union {start + p : p \in {q \in Group \intersect {s} :
                                   vram[slot][q] = Plain(Genuine(start, q))}}

TickIdle ==
  /\ loop.pc = "tick" /\ ~playback.active /\ queue.ready = 0
  /\ Goto("claim")
  /\ UNCHANGED <<producer, slots, queue, vram, screen, reserved, playback, due, fault, shown>>

\* The first group appears; unless /NOFOCUS was given, Enter or Esc is awaited.
Activate ==
  /\ loop.pc = "tick" /\ ~playback.active /\ queue.ready > 0
  /\ slots' = [slots EXCEPT ![Earliest].state = "playing"]
  /\ queue' = [queue EXCEPT !.ready = @ - 1]
  /\ Show(Earliest, 0)
  /\ reserved' = None
  /\ \/ /\ playback' = [group |-> Earliest, symbol |-> 0, active |-> TRUE, focus |-> FALSE]
        /\ Goto("claim")
        /\ UNCHANGED fault
     \/ /\ playback.focus
        /\ playback' = [playback EXCEPT !.group = Earliest, !.symbol = 0]
        /\ fault' = "escape"
        /\ Goto("failed")
  /\ due' = FALSE
  /\ UNCHANGED <<producer, vram>>

TickEarly ==
  /\ loop.pc = "tick" /\ playback.active /\ ~due
  /\ Goto("claim")
  /\ UNCHANGED <<producer, slots, queue, vram, screen, reserved, playback, due, fault, shown>>

Due == loop.pc = "tick" /\ playback.active /\ due

\* The parity is shown with its patch: it was applied while plane 1 was shown.
NextSymbol ==
  /\ Due /\ playback.symbol < Width
  /\ LET s == playback.symbol + 1
     IN /\ playback' = [playback EXCEPT !.symbol = s]
        /\ Show(playback.group, s)
        /\ IF s = Width /\ ~current.applied
           THEN /\ vram' = [vram EXCEPT ![playback.group] = Patched(@, current.patch)]
                /\ slots' = [slots EXCEPT ![playback.group].applied = TRUE]
           ELSE UNCHANGED <<vram, slots>>
  /\ Goto("hidden")
  /\ UNCHANGED <<producer, queue, reserved, due, fault>>

\* Plane 1 is on the screen: patch plane 0 now.
ApplyCorrection ==
  /\ loop.pc = "hidden"
  /\ IF playback.symbol = 1 /\ ~current.applied
     THEN /\ vram' = [vram EXCEPT ![playback.group] = Patched(@, current.patch)]
          /\ slots' = [slots EXCEPT ![playback.group].applied = TRUE]
     ELSE UNCHANGED <<vram, slots>>
  /\ due' = FALSE
  /\ Goto("claim")
  /\ UNCHANGED <<producer, queue, screen, reserved, playback, fault, shown>>

\* A page is given up: its patch is undone, if it was applied.
Released(slot) ==
  vram' = IF slots[slot].applied
          THEN [vram EXCEPT ![slot] = Patched(@, slots[slot].patch)] ELSE vram

\* The next group is selected first ...
Handoff ==
  /\ Due /\ playback.symbol = Width /\ Later # {}
  /\ Show(NextReady, 0)
  /\ reserved' = None
  /\ Goto("handoff")
  /\ UNCHANGED <<producer, slots, queue, vram, playback, due, fault>>

\* ... and then the page behind it is restored and free.
ReleaseGroup ==
  /\ loop.pc = "handoff"
  /\ Released(playback.group)
  /\ slots' = [slots EXCEPT ![playback.group].state = "free",
                            ![playback.group].applied = FALSE,
                            ![NextReady].state = "playing"]
  /\ queue' = [queue EXCEPT !.ready = @ - 1]
  /\ playback' = [playback EXCEPT !.group = NextReady, !.symbol = 0]
  /\ due' = FALSE
  /\ Goto("claim")
  /\ UNCHANGED <<producer, screen, reserved, fault, shown>>

\* The producer is behind: the parity stays for another interval.
Underrun ==
  /\ Due /\ playback.symbol = Width /\ Later = {} /\ ~Drained
  /\ due' = FALSE
  /\ Goto("claim")
  /\ UNCHANGED <<producer, slots, queue, vram, screen, reserved, playback, fault, shown>>

Drain ==
  /\ Due /\ playback.symbol = Width /\ Later = {} /\ Drained
  /\ playback' = [playback EXCEPT !.active = FALSE]
  /\ Goto(IF global >= Total THEN "done" ELSE "claim")
  /\ UNCHANGED <<producer, slots, queue, vram, screen, reserved, due, fault, shown>>

PlaybackTick ==
  \/ TickIdle \/ Activate \/ TickEarly \/ NextSymbol \/ ApplyCorrection
  \/ Handoff \/ ReleaseGroup \/ Underrun \/ Drain

-----------------------------------------------------------------------------
(* The loop after the tick: claim, step, tail.                               *)

LoopClaim ==
  /\ loop.pc = "claim"
  /\ \/ /\ ClaimGroup
        /\ loop' = [pc |-> "step", claimed |-> TRUE, tailPending |-> FALSE]
     \/ /\ MayClaim /\ ~CanClaim
        /\ loop' = [pc |-> "tail", claimed |-> FALSE, tailPending |-> TRUE]
        /\ UNCHANGED <<slots, queue, worker>>
     \/ /\ ~MayClaim
        /\ loop' = [loop EXCEPT !.claimed = FALSE,
                      !.pc = IF queue.preparing = None THEN "tail" ELSE "step"]
        /\ UNCHANGED <<slots, queue, worker>>
  /\ UNCHANGED <<transfer, global, history, vram, screen, reserved, playback,
                 due, fault, shown>>

\* Nothing is playing, ready or under way.
Quiet == ~playback.active /\ queue.ready = 0 /\ queue.preparing = None

TailDue == Quiet /\ global < Total /\ ~loop.claimed

\* choose_tail_slot(): a page that is free and not on the screen.
TailSlots == {i \in Slots : slots[i].state = "free" /\ i # reserved /\ i # playback.group}
TailSlot == IF TailSlots = {} THEN None ELSE Min(TailSlots)

\* The record goes to a hidden page under the palette of ordinary DATA ...
StoreTail ==
  /\ loop.pc = "tail" /\ TailDue /\ TailSlot # None
  /\ global' = global + 1
  /\ history' = Remembered(global)
  /\ worker' = [worker EXCEPT !.codewords = Data(global), !.previous = Data(global),
                              !.raster = Redrawn(Data(global))]
  /\ screen' = [screen EXCEPT !.palette = "data"]
  /\ vram' = [vram EXCEPT ![TailSlot] = [p \in Planes |-> Plain(worker'.raster)]]
  /\ Goto("tail_stored")
  /\ UNCHANGED <<transfer, slots, queue, reserved, playback, due, fault, shown>>

TailFails ==
  /\ loop.pc = "tail" /\ TailDue
  /\ TailSlot # None => ReadsMayFail /\ ReadsFile
  /\ fault' = IF TailSlot = None THEN fault ELSE "read"
  /\ Goto("failed")
  /\ UNCHANGED <<producer, slots, queue, vram, screen, reserved, playback, due, shown>>

\* ... which is then selected ...
ShowTail ==
  /\ loop.pc = "tail_stored"
  /\ screen' = [screen EXCEPT !.slot = TailSlot, !.mask = Planes]
  /\ reserved' = TailSlot
  /\ shown' = IF vram[TailSlot] = [p \in Planes |-> Plain(Data(global - 1))]
              THEN shown \union {global - 1} ELSE shown
  /\ Goto("tail_shown")
  /\ UNCHANGED <<producer, slots, queue, vram, playback, due, fault>>

\* The loop ends when nothing is left to show.
Onward == IF Quiet /\ global >= Total THEN "done" ELSE "tick"

\* ... before the page of the last group is restored and free.
ReleaseTail ==
  /\ loop.pc = "tail_shown"
  /\ IF playback.group # None
     THEN /\ Released(playback.group)
          /\ slots' = [slots EXCEPT ![playback.group].state = "free",
                                    ![playback.group].applied = FALSE]
          /\ playback' = [playback EXCEPT !.group = None]
     ELSE UNCHANGED <<vram, slots, playback>>
  /\ loop' = [loop EXCEPT !.pc = Onward, !.tailPending = FALSE]
  /\ UNCHANGED <<producer, queue, screen, reserved, due, fault, shown>>

NoTail ==
  /\ loop.pc = "tail" /\ ~TailDue
  /\ Goto(Onward)
  /\ UNCHANGED <<producer, slots, queue, vram, screen, reserved, playback, due, fault, shown>>

Tail == StoreTail \/ TailFails \/ ShowTail \/ ReleaseTail \/ NoTail

\* Time passes: the deadline of what is shown is reached.
Deadline ==
  /\ ~due /\ playback.active /\ loop.pc \notin {"done", "failed"}
  /\ due' = TRUE
  /\ UNCHANGED <<producer, slots, queue, vram, screen, reserved, playback,
                 loop, fault, shown>>

-----------------------------------------------------------------------------
Init ==
  /\ transfer \in Transfers
  /\ global = 0
  /\ history = [record |-> [i \in 0..2 |-> 0], head |-> 0, count |-> 0]
  /\ slots = [i \in Slots |-> FreeSlot]
  /\ queue = [tail |-> 0, preparing |-> None, ready |-> 0, ordinal |-> 0]
  /\ worker = [phase |-> "begin", keystream |-> None, parity |-> {},
               codewords |-> Blank, previous |-> Blank, raster |-> Blank]
  /\ vram = [i \in Slots |-> [p \in Planes |-> Plain(Blank)]]
  /\ screen = [slot |-> None, mask |-> {}, palette |-> "planes"]
  /\ reserved = None
  /\ playback \in [group : {None}, symbol : {0}, active : {FALSE}, focus : BOOLEAN]
  /\ due = FALSE
  /\ loop = [pc |-> "prefill", claimed |-> FALSE, tailPending |-> FALSE]
  /\ fault = "none"
  /\ shown = {}

Loop == PrefillClaim \/ PrefillEnd \/ PlaybackTick \/ LoopClaim \/ Produce \/ Tail

Next == Loop \/ Deadline

\* The loop runs on; time passes.
Spec == Init /\ [][Next]_vars
FairSpec == Spec /\ WF_vars(Loop) /\ WF_vars(Deadline)

-----------------------------------------------------------------------------
Records == 0..(Total - 1)

\* Types of the sender's state.
TypeOK ==
  /\ transfer \in Transfers
  /\ global \in 0..Total
  /\ history.record \in [0..2 -> Nat] /\ history.head \in 0..2 /\ history.count \in 0..3
  /\ \A i \in Slots :
       /\ slots[i].state \in {"free", "filling", "ready", "playing"}
       /\ slots[i].start \in Nat /\ slots[i].index \in Nat /\ slots[i].count \in Nat
       /\ slots[i].overlap \in 0..3 /\ slots[i].ordinal \in 0..queue.ordinal
       /\ slots[i].stage \in 0..Width /\ slots[i].applied \in BOOLEAN
  /\ queue.tail \in Slots /\ queue.preparing \in Slots \union {None}
  /\ queue.ready \in 0..SlotCount /\ queue.ordinal \in Nat
  /\ worker.phase \in {"begin", "encode", "matrix", "delta", "store"}
  /\ worker.parity \subseteq Records
  /\ screen.slot \in Slots \union {None} /\ screen.mask \subseteq Planes
  /\ screen.palette \in {"planes", "data"}
  /\ reserved \in Slots \union {None}
  /\ playback.group \in Slots \union {None} /\ playback.symbol \in 0..Width
  /\ playback.active \in BOOLEAN /\ playback.focus \in BOOLEAN
  /\ due \in BOOLEAN
  /\ loop.claimed \in BOOLEAN /\ loop.tailPending \in BOOLEAN
  /\ loop.pc \in {"prefill", "tick", "hidden", "handoff", "claim", "step", "tail",
                  "tail_stored", "tail_shown", "done", "failed"}
  /\ fault \in {"none", "read", "escape"}
  /\ shown \subseteq Records

\* What is on the screen is one whole symbol at every moment, whatever the
\* producer writes meanwhile: plane s of one group without a patch, all of its
\* planes with exactly its own patch (main.c:1051-1055), or a DATA record on all
\* four.  The palette fits, but while show_data_qr() stores a tail.
Legible ==
  screen.slot # None =>
    LET page == vram[screen.slot]
        start == slots[screen.slot].start
    IN IF reserved = screen.slot
       THEN /\ \E r \in Records : page = [p \in Planes |-> Plain(Data(r))]
            /\ screen.palette = "data"
       ELSE /\ \/ screen.mask = Group /\ PageGenuine(page, start, TRUE)
               \/ \E p \in Group : screen.mask = {p} /\ page[p] = Plain(Genuine(start, p))
            /\ loop.pc # "tail_stored" => screen.palette = "planes"

\* Records come onto the screen in the order of the stream, none is left out,
\* and a transfer that ends well has shown them all (main.c:1323-1409).
AllInOrder ==
  /\ shown = {r \in Records : r < Cardinality(shown)}
  /\ loop.pc = "done" => shown = Records

\* A group lies in one window, under the index and count its header announces,
\* the overlapped records included (main.c:604-622).
GroupsInWindow ==
  \A i \in Slots :
    slots[i].state # "free" =>
      /\ slots[i].start \div Window = (slots[i].start + Width - 1) \div Window
      /\ slots[i].index = slots[i].start % Window
      /\ slots[i].count = WindowCount(slots[i].start)
      /\ slots[i].index + Width <= slots[i].count

\* The slots' states, the count of ready ones, the slot under preparation and
\* the one on the screen agree: no slot is lost and none has two owners.
SlotsOwned ==
  /\ queue.ready = Cardinality(Ready)
  /\ {i \in Slots : slots[i].state = "filling"} =
       (IF queue.preparing = None THEN {} ELSE {queue.preparing})
  /\ loop.pc # "handoff" /\ loop.pc # "failed" =>
       {i \in Slots : slots[i].state = "playing"} =
         (IF playback.group = None THEN {} ELSE {playback.group})
  /\ \A i \in Slots : slots[i].applied => slots[i].state = "playing"

\* The sender gives up only for a reason that comes from outside: a file that
\* cannot be read on, or Esc.  Its own checks (a header that does not fit its
\* window, no page for a tail) never stop it.
GivesUpForAReason == loop.pc = "failed" => fault # "none"

\* Every transfer comes to an end: underruns, a full queue and tails do not
\* keep the loop waiting for itself.
Ends == <>(loop.pc \in {"done", "failed"})
=============================================================================
