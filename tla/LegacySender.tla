---------------------------- MODULE LegacySender ----------------------------
(***************************************************************************)
(* The 16-bit DOS sender (dos_sender_legacy/src/sender.c, the window of    *)
(* producer.c): run_transfer() cuts the record stream into windows, shows  *)
(* every window as a sequence of QR images (transmit(), transmit_rgb3())   *)
(* and waits for a key with the END_WINDOW symbol on the screen.           *)
(*                                                                         *)
(* An item is one QR symbol: DATA of frame `first`, flagged as repeated    *)
(* after the first pass, or the XOR of the frames first, first + stride,   *)
(* ... of the window.  An image is the set of items visible at once: one   *)
(* in BW, up to three (RED, GREEN, BLUE) in RGB3, where unused channels    *)
(* repeat the last item.                                                   *)
(***************************************************************************)
EXTENDS Integers, Sequences, FiniteSets, SequencesExt

CONSTANTS
  Configs,     \* [rgb3, group, chain, anchor, repeat, size] of the command line
  Lengths,     \* how many frames the selected files may make
  NoFailure,   \* a producer that reads its files to the end
  Failures,    \* frames at which a source file may turn out changed or unreadable
  Entries,     \* what is typed at the M prompt: sets of ranges <<a, b>>
  MaxPauses    \* bound on Esc

VARIABLES
  cfg,         \* Config
  length,      \* frames of the transfer
  failAt,      \* the frame producer_next() fails at, or NoFailure
  phase,       \* where run_transfer() stands
  window,      \* window_id
  base, count, \* current_window: global index of its first frame, w->count
  pass, shown, \* the images of the running transmit(), how many were shown
  selected,    \* selected[]: window indices chosen at the last M
  selecting,   \* have_selection
  screen,      \* the image on the screen, and the window it belongs to
  pauses

sender == <<cfg, length, failAt, phase, window, base, count, pass, shown,
            selected, selecting, screen, pauses>>

\* config_validate() and config_parse_re(): /RE:Ck displaces /RE:n.
ValidConfig(c) ==
  /\ c.rgb3 \in BOOLEAN
  /\ c.size \in Nat /\ c.size >= 4
  /\ c.repeat \in Nat /\ c.repeat >= 1
  /\ c.group \in Nat /\ c.anchor \in Nat /\ c.chain \in Nat
  /\ c.chain % 2 = 0 /\ c.chain \div 2 < c.size
  /\ c.chain > 0 => c.group = 0

ASSUME ConfigAssumption == \A c \in Configs : ValidConfig(c)

ASSUME LengthAssumption == Lengths \subseteq Nat

ASSUME EntryAssumption == \A ranges \in Entries : \A r \in ranges : r \in Int \X Int

ASSUME FailureAssumption == NoFailure \notin Nat

Smaller(a, b) == IF a < b THEN a ELSE b

-----------------------------------------------------------------------------
(* The images of a window.                                                 *)

Item(kind, first, n, stride) ==
  [kind |-> kind, first |-> first, count |-> n, stride |-> stride, repeated |-> FALSE]
Data(i, again) == [Item("DATA", i, 1, 1) EXCEPT !.repeated = again]
EndWindow == Item("END_WINDOW", 0, 0, 1)
Members(item) == {item.first + k * item.stride : k \in 0..(item.count - 1)}

\* The frames sent, in order: all from `from` on, or the selected ones.
Order(S) == [k \in 1..Cardinality(S) |->
               CHOOSE i \in S : Cardinality({j \in S : j < i}) = k - 1]

\* Three items to an image.
Batches(items) ==
  [b \in 1..((Len(items) + 2) \div 3) |->
     {items[k] : k \in (3 * b - 2)..Smaller(3 * b, Len(items))}]

DataBatches(S, again) == Batches([k \in 1..Cardinality(S) |-> Data(Order(S)[k], again)])

\* chain_width: equations of `chain` frames that overlap by half.
Half(c) == c.chain \div 2
Chained(c, n, i) ==
  Half(c) > 0 /\ (i + 1) % Half(c) = 0 /\ i + 1 < n
Chain(c, n, i) ==
  Item(IF c.chain = 2 THEN "CHAIN_XOR" ELSE "BLOCK_XOR", i + 1 - Half(c),
       Smaller(n - (i + 1 - Half(c)), c.chain), 1)

\* redundancy: the group of `group` frames that frame i closes.
Grouped(c, n, i) == c.group > 0 /\ ((i + 1) % c.group = 0 \/ i + 1 = n)
Group(c, i) == Item("BLOCK_XOR", i - (i % c.group), (i % c.group) + 1, 1)

Anchored(c, i) == c.anchor > 0 /\ (i + 1) % c.anchor = 0

\* transmit(): one item to an image, parity as soon as its frames were shown.
MonoPass(c, n, again) ==
  LET images(i) ==
        <<{Data(i, again)}>>
        \o (IF Chained(c, n, i)
            THEN <<{Chain(c, n, i)}>> \o (IF Anchored(c, i) THEN <<{Data(i, FALSE)}>> ELSE <<>>)
            ELSE <<>>)
        \o (IF Grouped(c, n, i) THEN <<{Group(c, i)}>> ELSE <<>>)
  IN FlattenSeq([k \in 1..n |-> images(k - 1)])

\* Mutant of Stripes: the parity of consecutive frames.
ContiguousStripes(from, n, again) ==
  LET stripe(s) ==
        LET end == Smaller(s + 9, n)
            parity(c) == Item("BLOCK_XOR", s + 3 * c, Smaller(3, end - (s + 3 * c)), 1)
        IN DataBatches(s..(end - 1), again)
           \o <<{parity(c) : c \in {d \in 0..2 : s + 3 * d < end}}>>
  IN FlattenSeq([k \in 1..((n - from + 8) \div 9) |-> stripe(from + 9 * (k - 1))])

\* /RE:3 in RGB3: after three images of DATA one of parity, whose channels
\* XOR the frames of their channel; the last of them may be short.
Stripes(from, n, again) ==
  LET stripe(s) ==
        LET end == Smaller(s + 9, n)
            parity(c) == Item("BLOCK_XOR", s + c, (end - (s + c) + 2) \div 3, 3)
        IN DataBatches(s..(end - 1), again)
           \o <<{parity(c) : c \in {d \in 0..2 : s + d < end}}>>
  IN FlattenSeq([k \in 1..((n - from + 8) \div 9) |-> stripe(from + 9 * (k - 1))])

\* Any other redundancy follows the DATA of the window.
Parity(c, n) ==
  LET closing == {i \in 0..(n - 1) : Chained(c, n, i) \/ Grouped(c, n, i)}
      anchors == {i \in 0..(n - 1) : c.chain > 0 /\ Anchored(c, i)}
      equation(i) == IF c.chain > 0 THEN Chain(c, n, i) ELSE Group(c, i)
  IN DataBatches(anchors, TRUE)
     \o Batches([k \in 1..Cardinality(closing) |-> equation(Order(closing)[k])])

ColourPass(c, from, n, again) ==
  IF c.group = 3 THEN Stripes(from, n, again)
  ELSE DataBatches(from..(n - 1), again) \o Parity(c, n)

\* The images of transmit(): c.repeat passes over the n frames of the window,
\* the first of them from frame `from` on.
Transmit(c, from, n) ==
  FlattenSeq([r \in 1..c.repeat |->
    IF c.rgb3 THEN ColourPass(c, IF r = 1 THEN from ELSE 0, n, r > 1)
    ELSE MonoPass(c, n, r > 1)])

\* With a selection: its DATA alone.
TransmitSelected(c, S) ==
  FlattenSeq([r \in 1..c.repeat |->
    IF c.rgb3 THEN DataBatches(S, r > 1)
    ELSE [k \in 1..Cardinality(S) |-> {Data(Order(S)[k], r > 1)}]])

-----------------------------------------------------------------------------
(* run_transfer().                                                         *)

\* Mutant of Fill: a window that is not full is the end of the transfer.
FillWhole(from) ==
  LET end == from + cfg.size
  IN IF end > length \/ failAt \in from..(end - 1) THEN 0 ELSE cfg.size

\* Mutant of Fill: the last window counts as full.
FillPadded(from) ==
  IF from >= length \/ failAt \in from..(from + cfg.size - 1) THEN 0 ELSE cfg.size

\* producer_fill_window(): 0 for a window of no frames, and for a window
\* whose files failed.
Fill(from) ==
  LET end == Smaller(from + cfg.size, length)
  IN IF failAt \in from..(end - 1) THEN 0 ELSE end - from

Geometry == <<cfg, length, failAt>>
Position == <<window, base, count>>
Image(items) == [window |-> window, base |-> base, items |-> items]
Selection == <<selected, selecting>>

\* The first image waits for a key: frames 0, 1 and 2, or frame 0.
Init ==
  /\ cfg \in Configs
  /\ length \in Lengths
  /\ failAt \in Failures \cup {NoFailure}
  /\ window = 0 /\ base = 0
  /\ count = Fill(0) /\ count >= 3
  /\ phase = "first"
  /\ pass = <<>> /\ shown = 0
  /\ selected = {} /\ selecting = FALSE
  /\ screen = Image({Data(i, FALSE) : i \in IF cfg.rgb3 THEN 0..2 ELSE {0}})
  /\ pauses = 0

\* transmit() begins; the image on the screen stays for now.
Begin(images) ==
  /\ pass' = images
  /\ shown' = 0
  /\ phase' = "stream"

\* Frames 0..2 were just visible: the RGB3 stream goes on at frame 2.
FirstData == IF cfg.rgb3 THEN 2 ELSE 0

Start ==
  /\ phase = "first"
  /\ Begin(Transmit(cfg, FirstData, count))
  /\ UNCHANGED <<Geometry, Position, Selection, screen, pauses>>

Show ==
  /\ phase = "stream" /\ shown < Len(pass)
  /\ shown' = shown + 1
  /\ screen' = Image(pass[shown + 1])
  /\ UNCHANGED <<Geometry, Position, Selection, phase, pass, pauses>>

\* show_eow(), then decision_key().
ShowEow ==
  /\ phase = "stream" /\ shown = Len(pass)
  /\ phase' = "prompt"
  /\ screen' = Image({EndWindow})
  /\ UNCHANGED <<Geometry, Position, Selection, pass, shown, pauses>>

Replayed ==
  IF selecting THEN TransmitSelected(cfg, selected) ELSE Transmit(cfg, 0, count)

Replay ==
  /\ phase = "prompt"
  /\ Begin(Replayed)
  /\ UNCHANGED <<Geometry, Position, Selection, screen, pauses>>

\* Mutant of ParseRanges: b is not compared with the window.
ParseUnclipped(ranges, n) ==
  UNION {(IF r[1] < 1 THEN 0 ELSE r[1] - 1)..(r[2] - 1) : r \in ranges}

\* Mutant of ParseRanges: frame numbers taken for indices.
ParseZeroBased(ranges, n) ==
  UNION {(IF r[1] < 1 THEN 1 ELSE r[1])..(Smaller(r[2], n - 1)) : r \in ranges}

\* parse_ranges(): the ranges clipped to the window, as window indices.
ParseRanges(ranges, n) ==
  UNION {(IF r[1] < 1 THEN 0 ELSE r[1] - 1)..(Smaller(r[2], n) - 1) : r \in ranges}

\* M with ranges.  Ranges that name no frame leave selected[] empty, and
\* lead back to the prompt.
MissingRanges(ranges) ==
  /\ phase = "prompt"
  /\ selected' = ParseRanges(ranges, count)
  /\ screen' = Image({})
  /\ IF selected' = {}
     THEN phase' = "stream" /\ UNCHANGED <<pass, shown, selecting>>
     ELSE selecting' = TRUE /\ Begin(TransmitSelected(cfg, selected'))
  /\ UNCHANGED <<Geometry, Position, pauses>>

\* M and a blank line: the whole window.
MissingAll ==
  /\ phase = "prompt"
  /\ selected' = {} /\ selecting' = FALSE
  /\ screen' = Image({})
  /\ Begin(Transmit(cfg, 0, count))
  /\ UNCHANGED <<Geometry, Position, pauses>>

\* Enter commits the window: its buffers are recycled for the next one.
Enter ==
  /\ phase = "prompt"
  /\ LET next == Fill(base + count)
     IN IF next = 0
        THEN /\ phase' = "done"
             /\ screen' = Image({})
             /\ UNCHANGED <<base, count, pass, shown>>
        ELSE /\ base' = base + count
             /\ count' = next
             /\ Begin(Transmit(cfg, 0, next))
             /\ UNCHANGED screen
  /\ window' = window + 1
  /\ selecting' = FALSE
  /\ UNCHANGED selected
  /\ UNCHANGED <<Geometry, pauses>>

\* Esc leaves the graphics screen; C then gives up, any other key goes back.
Pause ==
  /\ phase = "prompt" /\ pauses < MaxPauses
  /\ phase' = "paused"
  /\ screen' = Image({})
  /\ pauses' = pauses + 1
  /\ UNCHANGED <<Geometry, Position, Selection, pass, shown>>

Resume ==
  /\ phase = "paused"
  /\ phase' = "stream"
  /\ UNCHANGED <<Geometry, Position, Selection, pass, shown, screen, pauses>>

Cancel ==
  /\ phase \in {"first", "paused"}
  /\ phase' = "cancelled"
  /\ screen' = Image({})
  /\ UNCHANGED <<Geometry, Position, Selection, pass, shown, pauses>>

Next ==
  \/ Start \/ Show \/ ShowEow
  \/ Replay \/ MissingAll \/ Enter
  \/ \E ranges \in Entries : MissingRanges(ranges)
  \/ Pause \/ Resume \/ Cancel

Spec == Init /\ [][Next]_sender

-----------------------------------------------------------------------------
(* Properties.                                                             *)

Phases == {"first", "stream", "prompt", "paused", "done", "cancelled"}

\* Type invariant: the screen and the window agree, and every symbol on the
\* screen is made of frames of its window.
TypeOK ==
  /\ phase \in Phases
  /\ base \in Nat /\ count \in 1..cfg.size /\ base + count <= length
  /\ base = window * cfg.size \/ phase = "done"
  /\ shown \in 0..Len(pass)
  /\ selected \subseteq 0..(cfg.size - 1)
  /\ selecting \in BOOLEAN
  /\ \A item \in screen.items : \A i \in Members(item) : screen.base + i < length
  /\ \A k \in 1..Len(pass) :
       pass[k] # {} /\ \A item \in pass[k] : Members(item) \subseteq 0..(count - 1)

\* What can be worked out from the items: peeling, the receiver's recovery.
DataOf(items) == {i.first : i \in {j \in items : j.kind = "DATA"}}
Equations(items) == {Members(i) : i \in {j \in items : j.kind \in {"BLOCK_XOR", "CHAIN_XOR"}}}
Peeled(known, equations, n) ==
  LET peel(S) == S \cup {i \in 0..(n - 1) : \E e \in equations : e \ S = {i}}
      step[k \in 0..n] == IF k = 0 THEN known ELSE UNION {peel(S) : S \in {step[k - 1]}}
  IN step[n]

\* The redundancies that promise to make up for one image of DATA.
Protects(c, n) ==
  \/ c.rgb3 /\ c.group = 3
  \/ ~c.rgb3 /\ (c.group > 0 \/ (c.chain > 0 /\ n > Half(c)))

\* "Losing one whole DATA image therefore removes exactly one member from
\* each equation" (RGB3_IMPLEMENTATION.md): whatever image of DATA of a full
\* pass is not seen, the rest of the pass makes up for it, also at the short
\* end of a window.
OneLossSolvable ==
  phase = "stream" /\ Protects(cfg, count) /\ pass = Transmit(cfg, 0, count) =>
    \A lost \in {k \in 1..Len(pass) : DataOf(pass[k]) # {}} :
      LET rest == UNION {pass[k] : k \in (1..Len(pass)) \ {lost}}
      IN Peeled(DataOf(rest), Equations(rest), count) = 0..(count - 1)
===============================================================================
