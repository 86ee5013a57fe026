---------------------------- MODULE StreamSender ----------------------------
(***************************************************************************)
(* The 16-bit sender (dos_sender/src/sender.c): records are streamed       *)
(* forward only, `width` of them at a time, through two slots of video     *)
(* memory.                                                                 *)
(*                                                                         *)
(* One thread prepares a group in the slot that is off the screen, a bit   *)
(* plane per record, then shows each plane alone and all of them, whose    *)
(* XOR is the group's parity.  Four planes need a correction, XORed into   *)
(* plane 3 while the parity is shown, and out of it again once the next    *)
(* group is on the screen.  The records of a window that do not fill a     *)
(* group, its tail, are shown as ordinary DATA on the two pages of the     *)
(* same memory.  The screen is read at every moment: each step that        *)
(* touches what it may show is an action of its own.                       *)
(***************************************************************************)
EXTENDS Integers, Sequences, FiniteSets, SequencesExt

CONSTANT Transfers   \* [width, window, dirs, files: <<[full, part, dirs]>>]

\* validate_config() admits two widths, 2904 bytes of payload and a window of
\* 4 to 128 records.  A file has `full` DATA records of a whole payload, and
\* perhaps a shorter one.  The manifest lists `dirs` directories before its
\* first file, and some after each file.
StreamAssumption ==
  \A t \in Transfers :
    /\ t.width \in {3, 4}
    /\ t.window \in 4..128
    /\ t.dirs \in Nat
    /\ t.files \in Seq([full : Nat, part : 0..1, dirs : Nat])
ASSUME TransfersAssumption == StreamAssumption

VARIABLES
  transfer,   \* the command line and the manifest
  total,      \* PlaneStream.total_records
  global,     \* Producer.global_index: records taken
  stream,     \* PlaneStream: window_id, window_index, window_count
  group,      \* PlaneGroup: slot, header, planes stored, parity, patch, applied
  work,       \* screen_320 and the codewords it was drawn from
  vram,       \* per slot and plane: the image, the patches XORed in
  patches,    \* stream_correction_*: the correction kept for each slot
  screen,     \* what the VGA displays
  page,       \* write_page
  pending,    \* PendingCorrection: a slot, and the hash of its plane 3
  loop,       \* where the thread stands; first, next_slot, plane_active, symbol
  fault,      \* what came from outside: an unreadable file, Esc
  shown       \* records that were on the screen in one piece

vars == <<transfer, total, global, stream, group, work, vram, patches, screen,
          page, pending, loop, fault, shown>>

Slots == 0..1
Nothing == [slot |-> -1, before |-> <<>>]
Width == transfer.width
Group == 0..(Width - 1)
All == 0..3

-----------------------------------------------------------------------------
(* The records of the transfer and their windows.                           *)

\* producer_next(): a directory has one record, a file its begin, DATA, end.
FileKinds(f) ==
  <<"begin">> \o [i \in 1..f.full |-> "data"] \o [i \in 1..f.part |-> "part"] \o <<"end">>
    \o [i \in 1..f.dirs |-> "directory"]
Kinds(t) ==
  <<"session">> \o [i \in 1..t.dirs |-> "directory"]
    \o FlattenSeq([i \in DOMAIN t.files |-> FileKinds(t.files[i])]) \o <<"finish">>

\* The kind of the record that is taken next; none after the last.
Kind(g) == IF g < Len(Kinds(transfer)) THEN Kinds(transfer)[g + 1] ELSE "none"

\* Opening, reading and closing a file may fail.
MayFail(g) == Kind(g) \in {"begin", "data", "part", "end"}

\* The first pass over the manifest: two records a file besides its DATA.
FileRecords(f) == 2 + f.full + f.part + f.dirs
Counted ==
  LET files == transfer.files
      upto[i \in 0..Len(files)] ==
        IF i = 0 THEN 2 + transfer.dirs
        ELSE upto[i - 1] + FileRecords(files[i])
  IN upto[Len(files)]

\* min(remaining, window_frames).
Cut(remaining) == IF remaining > transfer.window THEN transfer.window ELSE remaining

\* Mutant of Committed: the index runs on.
CommittedOn ==
  IF stream.index + 1 < stream.count THEN [stream EXCEPT !.index = @ + 1]
  ELSE [window |-> stream.window + 1, index |-> stream.index + 1,
        count |-> Cut(total - global')]

Committed ==
  IF stream.index + 1 < stream.count THEN [stream EXCEPT !.index = @ + 1]
  ELSE [window |-> stream.window + 1, index |-> 0, count |-> Cut(total - global')]

Left == stream.count - stream.index

-----------------------------------------------------------------------------
(* Images.  A basis plane is a record under its group's header and number,  *)
(* a tail is DATA; the header of both says where in its window it stands.   *)

Blank == <<"blank">>
Garbage == <<"garbage">>
Basis(header, p, record) == <<"basis", header, p, record>>
Data(window, index, count, record) == <<"data", window, index, count, record>>
Correction(patch) == <<"correction", patch>>

Plain(image) == [image |-> image, patches |-> {}]
Patched(plane, patch) ==
  [plane EXCEPT !.patches = IF patch \in @ THEN @ \ {patch} ELSE @ \union {patch}]

\* The images of record r, and the correction of the group that starts with
\* it, as the layout of the transfer asks for them.
Window(r) == r \div transfer.window
Index(r) == r % transfer.window
Count(r) == Cut(Len(Kinds(transfer)) - Window(r) * transfer.window)
Header(start) == [window |-> Window(start), start |-> start,
                  index |-> Index(start), count |-> Count(start)]
Genuine(start, p) == Basis(Header(start), p, start + p)
GenuineData(r) == Data(Window(r), Index(r), Count(r), r)
PatchOf(start) == <<Header(start), start..(start + 3)>>

\* Records that are shorter than a payload: a plane is padded, DATA is not.
Short(r) == Kind(r) # "data"

-----------------------------------------------------------------------------
(* run_plane_stream_transfer(): the start.                                  *)

Goto(pc) == loop' = [loop EXCEPT !.pc = pc]
Abort == loop' = [loop EXCEPT !.pc = "closing", !.result = "failed"]

producer == <<transfer, total, global, stream>>

CountRecords ==
  /\ loop.pc = "start"
  /\ \/ /\ total' = Counted
        /\ stream' = [window |-> 0, index |-> 0, count |-> Cut(Counted)]
        /\ screen' = [mode |-> "blank", slot |-> 0, mask |-> {}]
        /\ Goto("loop")
        /\ UNCHANGED fault
     \/ /\ fault' = "read"
        /\ Goto("failed")
        /\ UNCHANGED <<total, stream, screen>>
  /\ UNCHANGED <<transfer, global, group, work, vram, patches, page, pending,
                 shown>>

-----------------------------------------------------------------------------
(* stream_plane_prepare().                                                   *)

BeginGroup ==
  /\ loop.pc = "loop" /\ stream.count # 0 /\ Left >= Width
  /\ group' = [slot |-> loop.nextSlot, planes |-> 0, parity |-> {}, before |-> <<>>,
               header |-> [window |-> stream.window, start |-> global,
                           index |-> stream.index, count |-> stream.count]]
  /\ Goto("prepare")
  /\ UNCHANGED <<producer, work, vram, patches, screen, page, pending, fault, shown>>

\* vga_plane_store_qr(): drawn in full, or as the difference from what the
\* raster was drawn from.
Drawn(image, delta) ==
  IF delta /\ work.raster # work.codewords THEN Garbage ELSE image

StorePlane ==
  /\ loop.pc = "prepare" /\ group.planes < Width /\ stream.count # 0 /\ Kind(global) # "none"
  /\ global' = global + 1
  /\ LET p == group.planes
         image == Basis(group.header, p, global)
         drawn == Drawn(image, p # 0)
     IN /\ work' = [work EXCEPT !.raster = drawn, !.codewords = image]
        /\ vram' = [vram EXCEPT ![group.slot][p] = Plain(drawn)]
        /\ group' = [group EXCEPT !.planes = p + 1, !.parity = @ \union {global}]
  /\ stream' = Committed
  /\ UNCHANGED <<transfer, total, patches, screen, page, pending, loop, fault, shown>>

\* A file cannot be read on, or there are fewer records than were counted.
TakeFails ==
  /\ \/ loop.pc = "prepare" /\ group.planes < Width
     \/ loop.pc = "tail"
  /\ IF stream.count = 0 \/ Kind(global) = "none" THEN UNCHANGED fault
     ELSE MayFail(global) /\ fault' = "read"
  /\ Abort
  /\ UNCHANGED <<producer, group, work, vram, patches, screen, page, pending, shown>>

\* Mutant of OtherSlot: one slot for all groups.
OneSlot == loop.nextSlot

OtherSlot == 1 - loop.nextSlot

\* Mutant of FirstSymbol: every group is taken for visible.
SecondSymbol == 1

\* first_already_visible: the focus wait shows the first symbol of the first group.
FirstSymbol == IF loop.first THEN 1 ELSE 0

\* Mutant of Buffer: the slots share one.
OneBuffer(slot) == 0

\* stream_correction_offsets, stream_correction_xor: one for each slot.
Buffer(slot) == slot

\* vga_plane_prepare_correction(): what differs from the zero raster is kept
\* for the slot.  Three planes need none.
GroupReady ==
  /\ loop.pc = "prepare" /\ group.planes = Width
  /\ IF Width = 4
     THEN LET patch == <<group.header, group.parity>>
          IN /\ patches' = [patches EXCEPT ![Buffer(group.slot)] = patch]
             /\ work' = [raster |-> Correction(patch), codewords |-> Correction(patch)]
     ELSE UNCHANGED <<patches, work>>
  /\ loop' = [loop EXCEPT !.pc = IF loop.first THEN "focus" ELSE "play",
                          !.symbol = FirstSymbol, !.nextSlot = OtherSlot]
  /\ UNCHANGED <<producer, group, vram, screen, page, pending, fault, shown>>

-----------------------------------------------------------------------------
(* The focus wait and stream_plane_play().                                  *)

\* vga_plane_show_mask(): a camera may now read the record of a plane.
Select(s) ==
  LET mask == IF s = Width THEN Group ELSE {s}
      start == group.header.start
  IN /\ screen' = [mode |-> "plane", slot |-> group.slot, mask |-> mask]
     /\ shown' = shown \union
          {start + p : p \in {q \in mask : s < Width /\
                                vram[group.slot][q] = Plain(Genuine(start, q))}}

\* The first symbol waits for Enter; Esc ends the transfer.
Focus ==
  /\ loop.pc = "focus"
  /\ Select(0)
  /\ \/ /\ loop' = [loop EXCEPT !.pc = "play", !.first = FALSE]
        /\ UNCHANGED fault
     \/ Abort /\ fault' = "escape"
  /\ UNCHANGED <<producer, group, work, vram, patches, page, pending>>

\* vga_plane_apply_correction(): plane 3 is on the screen meanwhile.
ApplyCorrection ==
  /\ loop.pc = "play" /\ loop.symbol = 4
  /\ group' = [group EXCEPT !.before = vram[group.slot][3]]
  /\ vram' = [vram EXCEPT ![group.slot][3] = Patched(@, patches[Buffer(group.slot)])]
  /\ Goto("patched")
  /\ UNCHANGED <<producer, work, patches, screen, page, pending, fault, shown>>

ShowSymbol ==
  /\ \/ loop.pc = "play" /\ loop.symbol < 4
     \/ loop.pc = "patched"
  /\ Select(loop.symbol)
  /\ loop' = [loop EXCEPT !.symbol = @ + 1,
                !.pc = IF loop.symbol = 0 /\ pending # Nothing THEN "restore"
                       ELSE IF loop.symbol = Width THEN "played" ELSE "play"]
  /\ UNCHANGED <<producer, group, work, vram, patches, page, pending, fault>>

\* vga_plane_restore_correction() of the pending slot.
Restored == [vram EXCEPT ![pending.slot][3] = Patched(@, patches[Buffer(pending.slot)])]

\* The group before has left the screen: its correction is taken back, and the
\* plane must then be what it was.
RestoreHidden ==
  /\ loop.pc = "restore"
  /\ vram' = Restored
  /\ IF vram'[pending.slot][3] = pending.before
     THEN pending' = Nothing /\ Goto("play")
     ELSE Abort /\ UNCHANGED pending
  /\ UNCHANGED <<producer, group, work, patches, screen, page, fault, shown>>

GroupPlayed ==
  /\ loop.pc = "played"
  /\ pending' = IF group.before = <<>> THEN pending
                ELSE [slot |-> group.slot, before |-> group.before]
  /\ Goto("loop")
  /\ UNCHANGED <<producer, group, work, vram, patches, screen, page, fault, shown>>

Play ==
  Focus \/ ApplyCorrection \/ ShowSymbol \/ RestoreHidden \/ GroupPlayed

-----------------------------------------------------------------------------
(* Tails, on the two pages of the same memory, and the end.                  *)

\* The planes are left with the last parity on the screen: its correction is
\* taken back, there and at the end of the transfer ...
RestoreShown ==
  /\ \/ loop.pc = "loop" /\ stream.count # 0 /\ Left < Width
     \/ loop.pc = "closing"
  /\ loop.active /\ pending # Nothing
  /\ vram' = Restored
  /\ pending' = Nothing
  /\ UNCHANGED <<producer, group, work, patches, screen, page, loop, fault, shown>>

\* ... and vga_plane_end() shows all planes of that slot at once.
LeavePlanes ==
  /\ loop.pc = "loop" /\ stream.count # 0 /\ Left < Width
  /\ loop.active /\ pending = Nothing
  /\ screen' = [screen EXCEPT !.mode = "mixed", !.mask = All]
  /\ loop' = [loop EXCEPT !.active = FALSE]
  /\ UNCHANGED <<producer, group, work, vram, patches, page, pending, fault, shown>>

BeginTail ==
  /\ loop.pc = "loop" /\ stream.count # 0 /\ Left < Width /\ ~loop.active
  /\ Goto("tail")
  /\ UNCHANGED <<producer, group, work, vram, patches, screen, page, pending,
                 fault, shown>>

\* qr_encode_mask() takes frames of 2952 bytes: DATA of a full payload.
Encodable == ~Short(global)

\* stream_show_tail(): drawn in full, copied to the hidden page and flipped.
ShowTail ==
  /\ loop.pc = "tail" /\ Kind(global) # "none"
  /\ global' = global + 1
  /\ IF Encodable
     THEN LET image == Data(stream.window, stream.index, stream.count, global)
              drawn == [p \in All |-> Plain(image)]
          IN /\ work' = [raster |-> image, codewords |-> image]
             /\ vram' = [vram EXCEPT ![page] = drawn]
             /\ screen' = [mode |-> "page", slot |-> page, mask |-> All]
             /\ page' = 1 - page
             /\ shown' = IF image = GenuineData(global) THEN shown \union {global} ELSE shown
             /\ stream' = Committed
             /\ Goto("tail_shown")
     ELSE /\ Abort
          /\ UNCHANGED <<stream, work, vram, screen, page, shown>>
  /\ UNCHANGED <<transfer, total, group, patches, pending, fault>>

\* Back to the planes, which are all off at first, if the next window has a group.
ReenterPlanes ==
  /\ loop.pc = "tail_shown"
  /\ IF stream.count # 0 /\ Left >= Width
     THEN /\ screen' = [mode |-> "blank", slot |-> 0, mask |-> {}]
          /\ loop' = [loop EXCEPT !.pc = "loop", !.active = TRUE, !.nextSlot = 0]
     ELSE Goto("loop") /\ UNCHANGED screen
  /\ UNCHANGED <<producer, group, work, vram, patches, page, pending, fault, shown>>

\* All windows are through: there must be no record left.
Finish ==
  /\ loop.pc = "loop" /\ stream.count = 0
  /\ loop' = [loop EXCEPT !.pc = "closing",
                          !.result = IF Kind(global) = "none" THEN "done" ELSE "failed"]
  /\ UNCHANGED <<producer, group, work, vram, patches, screen, page, pending,
                 fault, shown>>

\* vga_leave(): text again.
Close ==
  /\ loop.pc = "closing" /\ pending = Nothing
  /\ screen' = [mode |-> "text", slot |-> 0, mask |-> {}]
  /\ Goto(loop.result)
  /\ UNCHANGED <<producer, group, work, vram, patches, page, pending, fault, shown>>

Prepare == BeginGroup \/ StorePlane \/ TakeFails \/ GroupReady
ShowTails == RestoreShown \/ LeavePlanes \/ BeginTail \/ ShowTail \/ ReenterPlanes

Init ==
  /\ transfer \in Transfers
  /\ total = 0 /\ global = 0
  /\ stream = [window |-> 0, index |-> 0, count |-> 0]
  /\ group = [slot |-> 0, planes |-> 0, parity |-> {}, before |-> <<>>,
              header |-> [window |-> 0, start |-> 0, index |-> 0, count |-> 0]]
  /\ work = [raster |-> Blank, codewords |-> Blank]
  /\ vram = [i \in Slots |-> [p \in All |-> Plain(Blank)]]
  /\ patches = [i \in Slots |-> <<>>]
  /\ screen = [mode |-> "text", slot |-> 0, mask |-> {}]
  /\ page = 1
  /\ pending = Nothing
  /\ loop = [pc |-> "start", first |-> TRUE, nextSlot |-> 0, active |-> TRUE,
             symbol |-> 0, result |-> "done"]
  /\ fault = "none"
  /\ shown = {}

Next == CountRecords \/ Prepare \/ Play \/ ShowTails \/ Finish \/ Close

Spec == Init /\ [][Next]_vars

-----------------------------------------------------------------------------
Records == 0..(Len(Kinds(transfer)) - 1)

\* Types of the sender's state.
TypeOK ==
  /\ transfer \in Transfers
  /\ total \in Nat /\ global \in 0..Len(Kinds(transfer))
  /\ stream.window \in Nat /\ stream.count \in 0..transfer.window
  /\ stream.index \in 0..transfer.window - 1
  /\ group.slot \in Slots /\ group.planes \in 0..Width /\ group.parity \subseteq Records
  /\ screen.mode \in {"text", "blank", "plane", "mixed", "page"}
  /\ screen.slot \in Slots /\ screen.mask \subseteq All
  /\ page \in 0..1
  /\ pending.slot \in Slots \union {Nothing.slot}
  /\ loop.pc \in {"start", "loop", "prepare", "focus", "play", "patched", "restore",
                  "played", "tail", "tail_shown", "closing", "done", "failed"}
  /\ loop.symbol \in 0..5 /\ loop.nextSlot \in Slots
  /\ fault \in {"none", "read", "escape"}
  /\ shown \subseteq Records

\* A symbol on the screen is whole for as long as it stays there, whatever is
\* prepared meanwhile (sender.c:1135-1138): a plane of one group under the
\* header its place in the transfer asks for, all of them with exactly their
\* own correction, or a DATA record.  Left out are the moments in which the
\* thread itself works on the displayed slot: the correction of plane 3 before
\* the parity is selected, and its removal when there is no next group.
HeldWhole ==
  LET slot == vram[screen.slot]
      settled == loop.pc # "patched" /\ loop.pc # "closing"
                 /\ ~(loop.pc = "loop" /\ stream.count # 0 /\ Left < Width)
      WholeGroup(start) ==
        \A p \in Group :
          slot[p] = [image |-> Genuine(start, p),
                     patches |-> IF p = 3 THEN {PatchOf(start)} ELSE {}]
  IN /\ screen.mode = "plane" /\ settled =>
          \/ \E p \in Group, start \in Records :
               screen.mask = {p} /\ slot[p] = Plain(Genuine(start, p))
          \/ screen.mask = Group /\ \E start \in Records : WholeGroup(start)
     /\ screen.mode = "page" =>
          \E r \in Records : slot = [p \in All |-> Plain(GenuineData(r))]

\* Records come onto the screen in the order of the stream, none is left out,
\* and the transfer ends well only when all were shown.
AllInOrder ==
  /\ shown = {r \in Records : r < Cardinality(shown)}
  /\ loop.pc = "done" => shown = Records

\* The transfer stops for an unreadable file, for Esc, or for a tail whose
\* record is short, which the encoder refuses: never because the records taken
\* are not those counted, or because a window runs out in a group.
StopsForAReason ==
  loop.pc = "failed" =>
    fault # "none" \/ (loop.active = FALSE /\ Short(global - 1))

\* "PLANE frames are fixed-length V40-L records" (sender.c:493): no frame of
\* the stream is refused for its length.
FixedLength == loop.pc = "failed" => fault # "none"
=============================================================================
