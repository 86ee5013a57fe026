------------------------ MODULE PlanePlaybackProofs ------------------------
(***************************************************************************)
(* Theorems about the slots and the producer of the 32-bit sender, for     *)
(* every number of slots, every window and length, and any deadline and    *)
(* failing read.                                                           *)
(***************************************************************************)
EXTENDS PlanePlayback, TLAPS, FiniteSetTheorems, WellFoundedInduction

-----------------------------------------------------------------------------
(* The inductive invariant.                                                *)

\* A record with the fields of a slot, whatever its patch.
IsSlot(r) ==
  r \in [state : {"free", "filling", "ready", "playing"}, start : Nat, index : Nat,
         count : Nat, overlap : Nat, ordinal : Nat, stage : Nat, patch : {r.patch},
         applied : BOOLEAN]

HistoryType == [record : [0..2 -> Nat], head : 0..2, count : 0..3]
QueueType == [tail : Slots, preparing : Slots \union {None}, ready : Nat, ordinal : Nat]
PlaybackType == [group : Slots \union {None}, symbol : Nat, active : BOOLEAN, focus : BOOLEAN]
LoopType ==
  [pc : {"prefill", "tick", "hidden", "handoff", "claim", "step", "tail",
         "tail_stored", "tail_shown", "done", "failed"},
   claimed : BOOLEAN, tailPending : BOOLEAN]
USE DEF HistoryType, QueueType, PlaybackType, LoopType

Typed ==
  /\ transfer \in Transfers
  /\ global \in Nat
  /\ history \in HistoryType
  /\ slots = [i \in Slots |-> slots[i]] /\ \A i \in Slots : IsSlot(slots[i])
  /\ queue \in QueueType
  /\ playback \in PlaybackType
  /\ loop \in LoopType

Filling == {i \in Slots : slots[i].state = "filling"}
Playing == {i \in Slots : slots[i].state = "playing"}

\* SlotsOwned, at every moment.
Owned ==
  /\ queue.ready = Cardinality(Ready)
  /\ Filling = (IF queue.preparing = None THEN {} ELSE {queue.preparing})
  /\ Playing = (IF playback.group = None THEN {} ELSE {playback.group})
  /\ \A i \in Slots : slots[i].applied => slots[i].state = "playing"

\* The ring holds the last three records, in order.
HistoryKept ==
  /\ history.count = IF global < 3 THEN global ELSE 3
  /\ history.count < 3 => history.head = history.count
  /\ \A k \in 1..3 : k <= history.count =>
       history.record[(history.head + (3 - k)) % 3] = global - k

\* The window under way is the last, and too short for a group: there will be
\* none any more.
LastShort == Total - (global \div Window) * Window < Width
Exhausted == global < Total => LastShort

\* Where the loop stands, and what it then knows of the queue.  A drained group
\* keeps its slot until a tail is shown; no other may begin to play before.
Staged ==
  /\ playback.active => playback.group # None
  /\ loop.pc \in {"hidden", "handoff"} => playback.active
  /\ loop.pc = "handoff" => Later # {}
  /\ loop.pc = "prefill" => playback.group = None /\ ~loop.tailPending
  /\ loop.pc \in {"tail_stored", "tail_shown"} => Quiet
  /\ loop.tailPending => queue.preparing = None
  /\ loop.pc = "step" => ~loop.tailPending
  /\ loop.pc \in {"tick", "tail", "tail_stored", "tail_shown"} /\ loop.tailPending
        /\ queue.ready = 0 => Exhausted
  /\ loop.pc # "failed" /\ ~playback.active /\ playback.group # None =>
        queue.ready = 0 /\ queue.preparing = None /\ Exhausted

IInv == Typed /\ Owned /\ HistoryKept /\ Staged /\ GroupsInWindow

-----------------------------------------------------------------------------
(* Arithmetic.                                                             *)

\* A set of naturals has a least element.
LEMMA Least ==
  ASSUME NEW S, S \subseteq Nat, S # {}
  PROVE  \E x \in S : \A y \in S : x <= y
<1>1. PICK x \in S : \A y \in S : <<y, x>> \notin OpToRel(<, Nat)
  BY WFMin, NatLessThanWellFounded, Zenon
<1>2. \A y \in S : <<y, x>> \in OpToRel(<, Nat) <=> y < x
  BY Zenon DEF OpToRel
<1>3. \A y \in S : ~(y < x)
  BY <1>1, <1>2
<1>4. QED
  BY <1>3

\* Quotient and remainder.
LEMMA Division ==
  ASSUME NEW a \in Nat, NEW n \in Nat, n > 0
  PROVE  /\ a \div n \in Nat
         /\ a % n \in 0..(n - 1)
         /\ a = (a \div n) * n + (a % n)
<1> DEFINE p == a \div n
<1>1. p \in Nat /\ a % n \in 0..(n - 1)
  OBVIOUS
<1>2. a = n * p + (a % n)
  OBVIOUS
<1> HIDE DEF p
<1>3. n * p = p * n
  BY <1>1
<1>4. a = p * n + (a % n)
  BY <1>1, <1>2, <1>3
<1>5. QED
  BY <1>1, <1>4, Zenon DEF p

\* They are what they are by their sum alone.
LEMMA Quotient ==
  ASSUME NEW q \in Nat, NEW n \in Nat, NEW r \in 0..(n - 1), NEW a \in Nat, a = q * n + r
  PROVE  a \div n = q /\ a % n = r
<1> DEFINE p == a \div n
           s == a % n
<1>1. p \in Nat /\ s \in 0..(n - 1) /\ a = p * n + s
  BY Division
<1> HIDE DEF p, s
<1>2. ASSUME NEW x \in Nat, NEW y \in Nat, x < y
      PROVE  x * n + n <= y * n
  <2>1. PICK d \in Nat : y = x + 1 + d
    <3>1. y - x - 1 \in Nat /\ y = x + 1 + (y - x - 1)
      BY <1>2
    <3>2. QED
      BY <3>1
  <2>2. y * n = x * n + n + d * n
    BY <2>1
  <2>3. d * n \in Nat /\ x * n \in Nat /\ y * n \in Nat
    OBVIOUS
  <2>4. QED
    BY <2>2, <2>3
<1>3. p * n \in Nat /\ q * n \in Nat
  BY <1>1
<1>4. ~(p < q) /\ ~(q < p)
  BY <1>1, <1>2, <1>3
<1>5. p = q
  BY <1>1, <1>4
<1>6. QED
  BY <1>1, <1>3, <1>5 DEF p, s

-----------------------------------------------------------------------------
(* Windows and groups.                                                     *)

\* The options in use.
LEMMA Options ==
  ASSUME Typed
  PROVE  /\ Width \in {3, 4} /\ Window \in Nat /\ Window >= 4
         /\ Total \in Nat
         /\ SlotCount \in Nat /\ SlotCount >= 3
  BY PlaybackAssumption DEF Typed, TransfersAssumption, Width, Window, Total

\* The place of a record in its window, which ends within the transfer.
LEMMA Place ==
  ASSUME Typed, NEW g \in Nat, g < Total
  PROVE  \E q \in Nat, r \in Nat :
           /\ g \div Window = q /\ g % Window = r
           /\ q * Window \in Nat
           /\ g = q * Window + r
           /\ r < Window
           /\ WindowCount(g) = IF Total - q * Window > Window THEN Window ELSE Total - q * Window
           /\ WindowCount(g) \in Nat /\ r < WindowCount(g)
<1>1. Window \in Nat /\ Window > 0 /\ Total \in Nat
  BY Options
<1> DEFINE q == g \div Window
           r == g % Window
           b == q * Window
<1>2. q \in Nat /\ r \in 0..(Window - 1) /\ g = q * Window + r
  BY <1>1, Division
<1>3. WindowCount(g) = IF Total - b > Window THEN Window ELSE Total - b
  BY DEF WindowCount
<1> HIDE DEF q, r
<1>4. b \in Nat
  BY <1>1, <1>2
<1>5. g = b + r
  BY <1>2
<1> HIDE DEF b
<1>6. r \in Nat /\ r < Window /\ WindowCount(g) \in Nat /\ r < WindowCount(g)
  BY <1>1, <1>2, <1>3, <1>4, <1>5
<1>7. QED
  BY <1>2, <1>3, <1>4, <1>5, <1>6 DEF q, r, b

\* A record at r of the window that starts at q * Window.
LEMMA PlaceOf ==
  ASSUME Typed, NEW q \in Nat, NEW r \in Nat, r < Window, NEW g \in Nat,
         g = q * Window + r
  PROVE  g \div Window = q /\ g % Window = r
<1>1. Window \in Nat /\ r \in 0..(Window - 1)
  BY Options
<1>2. QED
  BY <1>1, Quotient

\* What a claim is made of, in these terms.
LEMMA Claimable ==
  ASSUME Typed, global < Total
  PROVE  \E q \in Nat, r \in Nat, c \in Nat :
           /\ global \div Window = q /\ global % Window = r
           /\ q * Window \in Nat
           /\ global = q * Window + r
           /\ r < Window /\ r < c
           /\ c = WindowCount(global)
           /\ c = IF Total - q * Window > Window THEN Window ELSE Total - q * Window
           /\ Remaining = c - r
           /\ Overlap = IF c - r < Width THEN Width - (c - r) ELSE 0
           /\ Start = global - Overlap
<1>1. global \in Nat
  BY DEF Typed
<1>2. PICK q \in Nat, r \in Nat :
           /\ global \div Window = q /\ global % Window = r
           /\ q * Window \in Nat
           /\ global = q * Window + r
           /\ r < Window
           /\ WindowCount(global) = IF Total - q * Window > Window THEN Window ELSE Total - q * Window
           /\ WindowCount(global) \in Nat /\ r < WindowCount(global)
  BY <1>1, Place
<1>3. Remaining = WindowCount(global) - r
  BY <1>2 DEF Remaining
<1>4. Overlap = IF WindowCount(global) - r < Width THEN Width - (WindowCount(global) - r) ELSE 0
  BY <1>3 DEF Overlap
<1>5. Start = global - Overlap
  BY DEF Start
<1>6. QED
  BY <1>2, <1>3, <1>4, <1>5

\* A group that is claimed lies in the window under way.
LEMMA GroupFits ==
  ASSUME Typed, global < Total, Fits
  PROVE  /\ Start \in Nat /\ Overlap \in Nat
         /\ Start \div Window = (Start + Width - 1) \div Window
         /\ WindowCount(Start) = WindowCount(global)
         /\ Start % Window \in Nat
         /\ WindowCount(global) \in Nat
         /\ (Start % Window) + Width <= WindowCount(global)
<1>1. Width \in {3, 4} /\ Window \in Nat /\ Window >= 4 /\ Total \in Nat
  BY Options
<1>2. PICK q \in Nat, r \in Nat, c \in Nat :
           /\ global \div Window = q /\ global % Window = r
           /\ q * Window \in Nat
           /\ global = q * Window + r
           /\ r < Window /\ r < c
           /\ c = WindowCount(global)
           /\ c = IF Total - q * Window > Window THEN Window ELSE Total - q * Window
           /\ Remaining = c - r
           /\ Overlap = IF c - r < Width THEN Width - (c - r) ELSE 0
           /\ Start = global - Overlap
  BY Claimable
<1>3. Start \in Nat /\ Overlap \in Nat /\ global \in Nat /\ c <= Window
  <2>1. Overlap > 0 => Overlap <= global
    BY DEF Fits
  <2>2. global \in Nat
    BY DEF Typed
  <2>3. QED
    BY <1>1, <1>2, <2>1, <2>2
<1>4. PICK t \in Nat : Start = q * Window + t /\ t + Width <= c
  <2>1. CASE Overlap = 0
    BY <1>1, <1>2, <1>3, <2>1
  <2>2. CASE Overlap > 0 /\ Overlap <= r
    <3>1. r - Overlap \in Nat
      BY <1>3, <2>2
    <3>0. Start = q * Window + (r - Overlap)
      BY <1>2, <1>3
    <3>2. (r - Overlap) + Width <= c
      BY <1>1, <1>2, <1>3, <2>2
    <3>3. QED
      BY <3>0, <3>1, <3>2
  <2>3. CASE Overlap > 0 /\ Overlap > r
    \* The group would begin in an earlier window, and reach beyond its end.
    <3>1. Start < q * Window /\ Start + Width >= q * Window + c
      BY <1>1, <1>2, <1>3, <2>3
    <3>2. Start < Total
      BY <1>1, <1>2, <1>3
    <3>3. PICK p \in Nat, s \in Nat :
            p * Window \in Nat /\ Start = p * Window + s /\ Start % Window = s
      BY <1>3, <3>2, Place
    <3>4. s + Width <= c
      BY <1>2, <2>3, <3>3 DEF Fits
    <3>5. p * Window + Window > q * Window
      BY <1>1, <1>2, <1>3, <3>1, <3>3, <3>4
    <3>6. p >= q
      <4>1. SUFFICES ASSUME p < q PROVE FALSE
        OBVIOUS
      <4>2. PICK d \in Nat : q = p + 1 + d
        <5>1. q - p - 1 \in Nat /\ q = p + 1 + (q - p - 1)
          BY <4>1
        <5>2. QED
          BY <5>1
      <4>3. q * Window = p * Window + Window + d * Window
        BY <1>1, <4>2
      <4>4. d * Window \in Nat
        BY <1>1
      <4>5. QED
        BY <1>1, <1>2, <3>3, <3>5, <4>3, <4>4
    <3>7. PICK d \in Nat : p = q + d
      <4>1. p - q \in Nat /\ p = q + (p - q)
        BY <3>6
      <4>2. QED
        BY <4>1
    <3>8. p * Window = q * Window + d * Window /\ d * Window \in Nat
      BY <1>1, <3>7
    <3>9. QED
      BY <1>2, <3>1, <3>3, <3>8
  <2>4. QED
    BY <1>2, <1>3, <2>1, <2>2, <2>3
<1>5. Start \div Window = q /\ Start % Window = t
  <2>1. t < Window
    BY <1>1, <1>2, <1>3, <1>4
  <2>2. QED
    BY <1>3, <1>4, <2>1, PlaceOf
<1>6. (Start + Width - 1) \div Window = q
  <2>1. (t + Width) - 1 \in Nat /\ (t + Width) - 1 < Window
    BY <1>1, <1>2, <1>3, <1>4
  <2>2. Start + Width - 1 \in Nat /\ Start + Width - 1 = q * Window + ((t + Width) - 1)
    BY <1>1, <1>2, <1>3, <1>4
  <2>3. QED
    BY <2>1, <2>2, PlaceOf
<1>7. WindowCount(Start) = WindowCount(global)
  BY <1>2, <1>5 DEF WindowCount
<1>8. QED
  BY <1>2, <1>3, <1>4, <1>5, <1>6, <1>7

\* What is remembered is the record that many steps back.
LEMMA Recalled ==
  ASSUME Typed, HistoryKept, NEW k \in 1..3, k <= history.count
  PROVE  HistoryRecord(history.count - k) = global - k
<1>1. history.head \in 0..2 /\ history.count \in 0..3
  BY DEF Typed
<1>2. HistoryIndex(history.count - k) = (history.head + (3 - k)) % 3
  BY <1>1 DEF HistoryKept, HistoryIndex
<1>3. QED
  BY <1>2 DEF HistoryKept, HistoryRecord

\* A window that has no group for its rest is the last, and too short.
LEMMA NoFitIsLast ==
  ASSUME Typed, HistoryKept, global < Total, ~Fits
  PROVE  LastShort
<1>1. Width \in {3, 4} /\ Window \in Nat /\ Window >= 4 /\ Total \in Nat
  BY Options
<1>2. PICK q \in Nat, r \in Nat, c \in Nat :
           /\ global \div Window = q /\ global % Window = r
           /\ q * Window \in Nat
           /\ global = q * Window + r
           /\ r < Window /\ r < c
           /\ c = WindowCount(global)
           /\ c = IF Total - q * Window > Window THEN Window ELSE Total - q * Window
           /\ Remaining = c - r
           /\ Overlap = IF c - r < Width THEN Width - (c - r) ELSE 0
           /\ Start = global - Overlap
  BY Claimable
<1>3. global \in Nat
  BY DEF Typed
<1>4. CASE Overlap = 0
  BY <1>1, <1>2, <1>3, <1>4 DEF Fits
<1>5. CASE Overlap > r
  BY <1>1, <1>2, <1>3, <1>5 DEF LastShort
<1>6. CASE Overlap > 0 /\ Overlap <= r
  <2>1. Overlap \in 1..3 /\ Overlap <= global /\ Overlap <= history.count
    BY <1>1, <1>2, <1>3, <1>6 DEF HistoryKept
  <2>2. HistoryRecord(history.count - Overlap) = Start
    BY <1>2, <2>1, Recalled
  <2>3. r - Overlap \in Nat /\ Start \in Nat /\ Start = q * Window + (r - Overlap)
    BY <1>1, <1>2, <1>3, <1>6, <2>1
  <2>4. Start % Window = r - Overlap
    <3>1. r - Overlap < Window
      BY <1>1, <1>2, <2>1
    <3>2. QED
      BY <2>3, <3>1, PlaceOf
  <2>5. (Start % Window) + Width <= WindowCount(global)
    BY <1>1, <1>2, <1>6, <2>1, <2>4
  <2>6. QED
    BY <1>6, <2>1, <2>2, <2>5 DEF Fits
<1>7. QED
  BY <1>1, <1>2, <1>4, <1>5, <1>6

\* In such a window there is never room for a group ...
LEMMA LastNeverFits ==
  ASSUME Typed, global < Total, LastShort
  PROVE  ~Fits
<1>1. Width \in {3, 4} /\ Window \in Nat /\ Window >= 4 /\ Total \in Nat
  BY Options
<1>2. PICK q \in Nat, r \in Nat, c \in Nat :
           /\ global \div Window = q /\ global % Window = r
           /\ q * Window \in Nat
           /\ global = q * Window + r
           /\ r < Window /\ r < c
           /\ c = WindowCount(global)
           /\ c = IF Total - q * Window > Window THEN Window ELSE Total - q * Window
           /\ Remaining = c - r
           /\ Overlap = IF c - r < Width THEN Width - (c - r) ELSE 0
           /\ Start = global - Overlap
  BY Claimable
<1>3. c < Width
  BY <1>1, <1>2 DEF LastShort
<1>4. SUFFICES ASSUME Fits PROVE FALSE
  OBVIOUS
<1>5. Start % Window \in Nat /\ (Start % Window) + Width <= c
  BY <1>2, <1>4, GroupFits
<1>6. QED
  BY <1>1, <1>3, <1>5

\* ... and it lasts to the end.
LEMMA LastStays ==
  ASSUME Typed, global < Total, LastShort, transfer' = transfer, global' = global + 1
  PROVE  Exhausted'
<1>1. Width \in {3, 4} /\ Window \in Nat /\ Window >= 4 /\ Total \in Nat
  BY Options
<1>2. PICK q \in Nat, r \in Nat, c \in Nat :
           /\ global \div Window = q
           /\ q * Window \in Nat
           /\ global = q * Window + r
           /\ r < Window /\ r < c
           /\ c = IF Total - q * Window > Window THEN Window ELSE Total - q * Window
  BY Claimable
<1>3. Total - q * Window < Width
  BY <1>2 DEF LastShort
<1>4. Width' = Width /\ Window' = Window /\ Total' = Total
  BY DEF Width, Window, Total
<1>5. CASE global + 1 < Total
  <2>1. r + 1 \in Nat /\ r + 1 < Window /\ global + 1 = q * Window + (r + 1) /\ global + 1 \in Nat
    BY <1>1, <1>2, <1>3, <1>5 DEF Typed
  <2>2. (global + 1) \div Window = q
    BY <2>1, PlaceOf
  <2>3. QED
    BY <1>3, <1>4, <2>2 DEF Exhausted, LastShort
<1>6. CASE ~(global + 1 < Total)
  BY <1>4, <1>6 DEF Exhausted
<1>7. QED
  BY <1>5, <1>6

\* Taking a record keeps the ring in order.
LEMMA HistoryStep ==
  ASSUME Typed, HistoryKept, history' = Remembered(global), global' = global + 1
  PROVE  /\ HistoryKept'
         /\ history' \in HistoryType
<1> DEFINE h == history.head
           n == history.count
           m == history.record
<1>1. h \in 0..2 /\ n \in 0..3 /\ m \in [0..2 -> Nat] /\ global \in Nat
  BY DEF Typed
<1>2. /\ history'.record = [m EXCEPT ![h] = global]
      /\ history'.head = (h + 1) % 3
      /\ history'.count = IF n < 3 THEN n + 1 ELSE 3
  BY DEF Remembered
<1>3. /\ n = (IF global < 3 THEN global ELSE 3) /\ (n < 3 => h = n)
      /\ \A k \in 1..3 : k <= n => m[(h + (3 - k)) % 3] = global - k
  BY DEF HistoryKept
<1> HIDE DEF h, n, m
<1> DEFINE hh == history'.head
           nn == history'.count
           mm == history'.record
<1>4. hh \in 0..2 /\ nn \in 0..3 /\ mm \in [0..2 -> Nat]
  BY <1>1, <1>2
<1>5. nn = (IF global + 1 < 3 THEN global + 1 ELSE 3) /\ (nn < 3 => hh = nn)
  BY <1>1, <1>2, <1>3
<1>6. ASSUME NEW k \in 1..3, k <= nn
      PROVE  mm[(hh + (3 - k)) % 3] = (global + 1) - k
  <2>1. CASE k = 1
    <3>1. (hh + (3 - k)) % 3 = h
      BY <1>1, <1>2, <2>1
    <3>2. QED
      BY <1>1, <1>2, <2>1, <3>1
  <2>2. CASE k \in 2..3
    <3>1. k - 1 \in 1..3 /\ k - 1 <= n
      BY <1>1, <1>2, <1>6, <2>2
    <3>2. (hh + (3 - k)) % 3 = (h + (3 - (k - 1))) % 3
      BY <1>1, <1>2, <2>2
    <3>3. (hh + (3 - k)) % 3 # h /\ (hh + (3 - k)) % 3 \in 0..2
      BY <1>1, <1>2, <2>2
    <3>4. m[(h + (3 - (k - 1))) % 3] = global - (k - 1)
      BY <1>3, <3>1
    <3>5. global - (k - 1) = (global + 1) - k
      BY <1>1
    <3>6. mm[(hh + (3 - k)) % 3] = m[(hh + (3 - k)) % 3]
      BY <1>1, <1>2, <3>3
    <3>7. QED
      BY <3>2, <3>4, <3>5, <3>6
  <2>3. QED
    BY <2>1, <2>2
<1>7. history' \in HistoryType
  BY <1>1, <1>4 DEF Remembered
<1>8. HistoryKept'
  BY <1>5, <1>6 DEF HistoryKept
<1>9. QED
  BY <1>7, <1>8

-----------------------------------------------------------------------------
(* Slots that are chosen.                                                  *)

LEMMA SlotsFinite ==
  ASSUME Typed, NEW S, S \subseteq Slots
  PROVE  IsFiniteSet(S) /\ Cardinality(S) \in Nat /\ (Cardinality(S) = 0 <=> S = {})
<1>1. SlotCount \in Nat /\ 0 \in Int /\ SlotCount - 1 \in Int
  BY Options
<1>2. IsFiniteSet(Slots)
  BY <1>1, FS_Interval DEF Slots
<1>3. IsFiniteSet(S)
  BY <1>2, FS_Subset
<1>4. QED
  BY <1>3, FS_CardinalityType, FS_EmptySet

\* A set of slots has one of the lowest ordinal.
LEMMA LowestOrdinal ==
  ASSUME Typed, NEW S, S \subseteq Slots, S # {}
  PROVE  LET n == CHOOSE i \in S : \A j \in S : slots[i].ordinal <= slots[j].ordinal
         IN n \in S /\ \A j \in S : slots[n].ordinal <= slots[j].ordinal
<1> DEFINE O == {slots[i].ordinal : i \in S}
<1>1. O \subseteq Nat /\ O # {}
  <2>1. \A i \in S : slots[i].ordinal \in Nat
    BY DEF Typed, IsSlot
  <2>2. QED
    BY <2>1
<1>2. PICK x \in O : \A y \in O : x <= y
  <2> HIDE DEF O
  <2>1. QED
    BY <1>1, Least
<1>3. PICK i \in S : x = slots[i].ordinal
  BY <1>2
<1>4. \A j \in S : slots[i].ordinal <= slots[j].ordinal
  BY <1>2, <1>3
<1>5. QED
  BY <1>4

\* A group to play is a ready one.
LEMMA EarliestReady ==
  ASSUME Typed, Owned, queue.ready > 0
  PROVE  Earliest \in Ready /\ Earliest \in Slots
<1>1. Ready \subseteq Slots /\ Ready # {}
  <2>1. Ready \subseteq Slots
    BY DEF Ready
  <2>2. Cardinality(Ready) # 0
    BY DEF Owned
  <2>3. QED
    BY <2>1, <2>2, SlotsFinite
<1>2. QED
  BY <1>1, LowestOrdinal DEF Earliest

LEMMA NextReadyReady ==
  ASSUME Typed, Later # {}
  PROVE  NextReady \in Ready /\ NextReady \in Slots
<1>1. Later \subseteq Slots /\ Later \subseteq Ready
  BY DEF Later, Ready
<1>2. NextReady \in Later
  BY <1>1, LowestOrdinal DEF NextReady
<1>3. QED
  BY <1>1, <1>2

\* The slots that may be claimed, counted from the tail on.
Ahead == {i \in Slots : Available((queue.tail + i) % SlotCount)}

LEMMA Wrapped ==
  ASSUME Typed, NEW i \in Nat
  PROVE  (queue.tail + i) % SlotCount \in Slots
<1>1. SlotCount \in Nat /\ SlotCount > 0 /\ queue.tail \in Nat
  BY Options DEF Typed, Slots
<1>2. queue.tail + i \in Nat
  BY <1>1
<1>3. (queue.tail + i) % SlotCount \in 0..(SlotCount - 1)
  BY <1>1, <1>2, Division
<1>4. QED
  BY <1>3 DEF Slots

LEMMA MinAhead ==
  ASSUME Typed, Ahead # {}
  PROVE  Min(Ahead) \in Ahead
<1>1. Ahead \subseteq Nat
  BY Options DEF Ahead, Slots
<1>2. PICK x \in Ahead : \A y \in Ahead : x <= y
  BY <1>1, Least
<1>3. QED
  BY <1>2 DEF Min

LEMMA TargetIsSlot ==
  ASSUME Typed
  PROVE  ClaimTarget \in Slots
<1>1. CASE Ahead = {}
  BY <1>1, Wrapped DEF ClaimTarget, Ahead
<1>2. CASE Ahead # {}
  <2>1. Min(Ahead) \in Nat
    BY <1>2, MinAhead, Options DEF Ahead, Slots
  <2>2. ClaimTarget = (queue.tail + Min(Ahead)) % SlotCount
    BY <1>2 DEF ClaimTarget, Ahead
  <2>3. QED
    BY <2>1, <2>2, Wrapped
<1>3. QED
  BY <1>1, <1>2

\* Every slot comes, counted from the tail on.
LEMMA Reached ==
  ASSUME Typed, NEW j \in Slots
  PROVE  \E i \in Slots : (queue.tail + i) % SlotCount = j
<1>1. SlotCount \in Nat /\ SlotCount > 0 /\ queue.tail \in 0..(SlotCount - 1) /\ j \in 0..(SlotCount - 1)
  BY Options DEF Typed, Slots
<1>2. CASE j >= queue.tail
  <2>1. j - queue.tail \in Slots /\ queue.tail + (j - queue.tail) = j
    BY <1>1, <1>2 DEF Slots
  <2>2. j % SlotCount = j
    BY <1>1
  <2>3. QED
    BY <2>1, <2>2
<1>3. CASE j < queue.tail
  <2>1. /\ (j + SlotCount) - queue.tail \in Slots
        /\ queue.tail + ((j + SlotCount) - queue.tail) = j + SlotCount
    BY <1>1, <1>3 DEF Slots
  <2>2. (j + SlotCount) % SlotCount = j
    BY <1>1
  <2>3. QED
    BY <2>1, <2>2
<1>4. QED
  BY <1>1, <1>2, <1>3

\* With nothing ready or under way, only the screen keeps slots: at most two
\* of three.
LEMMA FreeTarget ==
  ASSUME Typed, Owned, queue.ready = 0, queue.preparing = None
  PROVE  slots[ClaimTarget].state = "free" /\ Available(ClaimTarget)
<1>1. \A i \in Slots : slots[i].state # "free" => i = playback.group
  <2>1. Ready = {}
    <3>1. Ready \subseteq Slots /\ Cardinality(Ready) = 0
      BY DEF Ready, Owned
    <3>2. QED
      BY <3>1, SlotsFinite
  <2>2. Filling = {}
    BY DEF Owned
  <2>3. \A i \in Playing : i = playback.group
    BY DEF Owned
  <2>4. QED
    BY <2>1, <2>2, <2>3 DEF Ready, Filling, Playing, Typed, IsSlot
<1>2. PICK j \in Slots : j # playback.group /\ j # reserved
  <2>1. 0 \in Slots /\ 1 \in Slots /\ 2 \in Slots
    BY Options DEF Slots
  <2>2. QED
    BY <2>1
<1>3. Available(j)
  BY <1>1, <1>2 DEF Available
<1>4. Ahead # {}
  BY <1>3, Reached DEF Ahead
<1>5. Min(Ahead) \in Ahead
  BY <1>4, MinAhead
<1>6. ClaimTarget = (queue.tail + Min(Ahead)) % SlotCount
  BY <1>4 DEF ClaimTarget, Ahead
<1>7. QED
  BY <1>5, <1>6 DEF Ahead, Available

\* So a claim that is refused then is refused for want of records.
LEMMA RefusedIsExhausted ==
  ASSUME Typed, Owned, HistoryKept, queue.ready = 0, queue.preparing = None, ~CanClaim
  PROVE  Exhausted
<1>1. SUFFICES ASSUME global < Total PROVE LastShort
  BY DEF Exhausted
<1>2. MayClaim
  BY <1>1, Options DEF MayClaim
<1>3. ~Fits
  BY <1>2, FreeTarget DEF CanClaim
<1>4. QED
  BY <1>1, <1>3, NoFitIsLast

-----------------------------------------------------------------------------
(* What a step leaves alone.                                               *)

LEMMA HistoryLeft ==
  ASSUME HistoryKept, UNCHANGED <<global, history>>
  PROVE  HistoryKept'
BY DEF HistoryKept

LEMMA ExhaustedLeft ==
  ASSUME UNCHANGED <<transfer, global>>
  PROVE  Exhausted' = Exhausted
BY DEF Exhausted, LastShort, Total, Window, Width

\* Groups that are not replaced stay in their windows.
LEMMA GroupsLeft ==
  ASSUME GroupsInWindow, transfer' = transfer,
         \A i \in Slots : slots'[i].state # "free" =>
           /\ slots[i].state # "free"
           /\ slots'[i].start = slots[i].start
           /\ slots'[i].index = slots[i].index
           /\ slots'[i].count = slots[i].count
  PROVE  GroupsInWindow'
<1>1. Width' = Width /\ Window' = Window /\ Total' = Total
  BY DEF Width, Window, Total
<1>2. SUFFICES ASSUME NEW i \in Slots, slots'[i].state # "free"
               PROVE  /\ slots'[i].start \div Window = (slots'[i].start + Width - 1) \div Window
                      /\ slots'[i].index = slots'[i].start % Window
                      /\ slots'[i].count = WindowCount(slots'[i].start)
                      /\ slots'[i].index + Width <= slots'[i].count
  <2> HIDE DEF Window, Width, Total
  <2>1. QED
    BY <1>1 DEF GroupsInWindow, WindowCount
<1>3. QED
  BY <1>2 DEF GroupsInWindow

\* So do owners, while no slot changes its state.
LEMMA OwnersLeft ==
  ASSUME Owned, queue' = queue, playback'.group = playback.group,
         \A i \in Slots : /\ slots'[i].state = slots[i].state
                          /\ slots'[i].applied => slots[i].state = "playing"
  PROVE  Owned'
<1>1. Ready' = Ready /\ Filling' = Filling /\ Playing' = Playing
  BY DEF Ready, Filling, Playing
<1>2. QED
  BY <1>1 DEF Owned

\* A step that only moves the loop, or the mark of what plays.
LEMMA LoopMoves ==
  ASSUME IInv, UNCHANGED <<transfer, global, history, slots, queue>>,
         playback'.group = playback.group,
         playback' \in PlaybackType,
         loop' \in LoopType,
         Staged'
  PROVE  IInv'
<1>1. Typed'
  BY DEF IInv, Typed
<1>2. Owned'
  BY OwnersLeft DEF IInv, Owned
<1>3. HistoryKept'
  BY HistoryLeft DEF IInv
<1>4. GroupsInWindow'
  BY GroupsLeft DEF IInv
<1>5. QED
  BY <1>1, <1>2, <1>3, <1>4 DEF IInv

\* What Staged rests on.
LEMMA StagesLeft ==
  ASSUME UNCHANGED <<transfer, global, slots, queue>>, playback'.group = playback.group
  PROVE  Exhausted' = Exhausted /\ Later' = Later
BY ExhaustedLeft DEF Later, Ready, current

-----------------------------------------------------------------------------
(* Steps that move the loop.                                               *)

LEMMA PrefillEndStep == ASSUME IInv, PrefillEnd PROVE IInv'
<1>1. Staged'
  BY StagesLeft DEF IInv, Typed, Staged, PrefillEnd, Goto, Quiet
<1>2. QED
  BY <1>1, LoopMoves DEF IInv, Typed, PrefillEnd, Goto

LEMMA TickIdleStep == ASSUME IInv, TickIdle PROVE IInv'
<1>1. Staged'
  BY StagesLeft DEF IInv, Typed, Staged, TickIdle, Goto, Quiet, producer
<1>2. QED
  BY <1>1, LoopMoves DEF IInv, Typed, TickIdle, Goto, producer

LEMMA TickEarlyStep == ASSUME IInv, TickEarly PROVE IInv'
<1>1. Staged'
  BY StagesLeft DEF IInv, Typed, Staged, TickEarly, Goto, Quiet, producer
<1>2. QED
  BY <1>1, LoopMoves DEF IInv, Typed, TickEarly, Goto, producer

LEMMA HandoffStep == ASSUME IInv, Handoff PROVE IInv'
<1>1. Staged'
  BY StagesLeft DEF IInv, Typed, Staged, Handoff, Due, Goto, Quiet, producer
<1>2. QED
  BY <1>1, LoopMoves DEF IInv, Typed, Handoff, Goto, producer

LEMMA UnderrunStep == ASSUME IInv, Underrun PROVE IInv'
<1>1. Staged'
  BY StagesLeft DEF IInv, Typed, Staged, Underrun, Due, Goto, Quiet, producer
<1>2. QED
  BY <1>1, LoopMoves DEF IInv, Typed, Underrun, Goto, producer

\* The last group has played: nothing is ready, and no group can follow.
LEMMA DrainStep == ASSUME IInv, Drain PROVE IInv'
<1>1. queue.ready = 0 /\ queue.preparing = None /\ Exhausted
  <2>1. global \in Nat /\ Total \in Nat
    BY Options DEF IInv, Typed
  <2>2. QED
    BY <2>1 DEF IInv, Staged, Drain, Drained, Due, Exhausted
<1>2. /\ playback' = [playback EXCEPT !.active = FALSE]
      /\ loop' = [loop EXCEPT !.pc = IF global >= Total THEN "done" ELSE "claim"]
      /\ UNCHANGED <<transfer, global, history, slots, queue>>
  BY DEF Drain, Goto, producer
<1>3. /\ playback' \in PlaybackType
      /\ playback'.group = playback.group /\ ~playback'.active
      /\ loop' \in [pc : {"claim", "done"}, claimed : BOOLEAN, tailPending : BOOLEAN]
      /\ loop'.tailPending = loop.tailPending
  BY <1>2 DEF IInv, Typed
<1>4. Exhausted' = Exhausted
  BY <1>2, ExhaustedLeft
<1>5. Staged'
  BY <1>1, <1>2, <1>3, <1>4 DEF IInv, Staged
<1>6. QED
  BY <1>2, <1>3, <1>5, LoopMoves

LEMMA TailFailsStep == ASSUME IInv, TailFails PROVE IInv'
<1>1. Staged'
  BY StagesLeft DEF IInv, Typed, Staged, TailFails, Goto, Quiet, producer
<1>2. QED
  BY <1>1, LoopMoves DEF IInv, Typed, TailFails, Goto, producer

LEMMA ShowTailStep == ASSUME IInv, ShowTail PROVE IInv'
<1>1. Staged'
  BY StagesLeft DEF IInv, Typed, Staged, ShowTail, Goto, Quiet, producer
<1>2. QED
  BY <1>1, LoopMoves DEF IInv, Typed, ShowTail, Goto, producer

LEMMA NoTailStep == ASSUME IInv, NoTail PROVE IInv'
<1>1. Staged'
  BY StagesLeft DEF IInv, Typed, Staged, NoTail, Goto, Onward, Quiet, producer
<1>2. QED
  BY <1>1, LoopMoves DEF IInv, Typed, NoTail, Goto, Onward, producer

LEMMA DeadlineStep == ASSUME IInv, Deadline PROVE IInv'
<1>1. Staged'
  BY StagesLeft DEF IInv, Typed, Staged, Deadline, Quiet, producer
<1>2. QED
  BY <1>1, LoopMoves DEF IInv, Typed, Deadline, producer

\* A step of the producer that succeeds or fails leaves the prefill or the step.
LEMMA ProducerMoves ==
  ASSUME IInv, loop.pc \in {"prefill", "step"}, StepDone \/ StepFailed,
         playback' = playback, UNCHANGED <<transfer, global, history, slots, queue>>
  PROVE  IInv'
<1>1. Staged'
  BY StagesLeft DEF IInv, Typed, Staged, StepDone, StepFailed, Quiet
<1>2. QED
  BY <1>1, LoopMoves DEF IInv, Typed, StepDone, StepFailed

LEMMA BeginOverlapStep ==
  ASSUME IInv, Begin, BeginOverlap PROVE IInv'
BY ProducerMoves DEF Begin, BeginOverlap, Producing, Encoded

LEMMA ReadFailsStep ==
  ASSUME IInv, Begin, ReadFails PROVE IInv'
BY ProducerMoves DEF Begin, ReadFails, Producing

LEMMA EncodeStep == ASSUME IInv, Encode PROVE IInv'
BY ProducerMoves DEF Encode, Producing

LEMMA DrawStep == ASSUME IInv, Draw PROVE IInv'
BY ProducerMoves DEF Draw, Producing

-----------------------------------------------------------------------------
(* Steps that take a record.                                               *)

\* A record may be taken while a group is made, or when no group can follow.
LEMMA RecordTaken ==
  ASSUME IInv, history' = Remembered(global), global' = global + 1,
         UNCHANGED <<transfer, slots, queue, playback>>,
         loop' \in LoopType,
         Staged'
  PROVE  IInv'
<1>1. HistoryKept' /\ history' \in HistoryType
  BY HistoryStep DEF IInv
<1>2. Typed'
  <2>1. global' \in Nat
    BY DEF IInv, Typed
  <2>2. QED
    BY <1>1, <2>1 DEF IInv, Typed
<1>3. Owned'
  BY OwnersLeft DEF IInv, Owned
<1>4. GroupsInWindow'
  BY GroupsLeft DEF IInv
<1>5. QED
  BY <1>1, <1>2, <1>3, <1>4 DEF IInv

LEMMA BeginNextStep == ASSUME IInv, Begin, BeginNext PROVE IInv'
<1>1. /\ loop.pc \in {"prefill", "step"} /\ queue.preparing # None
      /\ StepDone \/ StepFailed
      /\ UNCHANGED <<transfer, slots, queue, playback>>
      /\ history' = Remembered(global) /\ global' = global + 1
  BY DEF Begin, BeginNext, Producing, Encoded
<1>2. /\ loop' \in [pc : {"prefill", "tick", "tail", "failed"}, claimed : BOOLEAN,
                    tailPending : BOOLEAN]
      /\ loop'.tailPending = loop.tailPending
      /\ loop'.pc = "prefill" => loop.pc = "prefill"
  BY <1>1 DEF IInv, Typed, StepDone, StepFailed
<1>3. ~loop.tailPending
  BY <1>1 DEF IInv, Staged
<1>4. Staged'
  BY <1>1, <1>2, <1>3 DEF IInv, Staged
<1>5. QED
  BY <1>1, <1>2, <1>4, RecordTaken

LEMMA StoreTailStep == ASSUME IInv, StoreTail PROVE IInv'
<1>1. /\ loop.pc = "tail" /\ TailDue
      /\ UNCHANGED <<transfer, slots, queue, playback>>
      /\ history' = Remembered(global) /\ global' = global + 1
      /\ loop' = [loop EXCEPT !.pc = "tail_stored"]
  BY DEF StoreTail, Goto
<1>2. /\ loop' \in [pc : {"tail_stored"}, claimed : BOOLEAN, tailPending : BOOLEAN]
      /\ loop'.tailPending = loop.tailPending
  BY <1>1 DEF IInv, Typed
<1>3. Quiet /\ Quiet' /\ global < Total
  BY <1>1 DEF TailDue, Quiet
<1>4. Exhausted => Exhausted'
  BY <1>1, <1>3, LastStays DEF IInv, Exhausted
<1>5. Staged'
  BY <1>1, <1>2, <1>3, <1>4 DEF IInv, Staged, Quiet
<1>6. QED
  BY <1>1, <1>2, <1>5, RecordTaken

-----------------------------------------------------------------------------
(* Steps that change a slot.                                               *)

\* A slot is replaced by another.
LEMMA SlotReplaced ==
  ASSUME Typed, NEW i \in Slots, NEW c, IsSlot(c), slots' = [slots EXCEPT ![i] = c]
  PROVE  /\ slots' = [j \in Slots |-> slots'[j]]
         /\ \A j \in Slots : IsSlot(slots'[j])
         /\ \A j \in Slots : j # i => slots'[j] = slots[j]
         /\ slots'[i] = c
<1>1. slots = [j \in Slots |-> slots[j]] /\ \A j \in Slots : IsSlot(slots[j])
  BY DEF Typed
<1>2. slots' = [j \in Slots |-> IF j = i THEN c ELSE slots[j]]
  BY <1>1
<1>3. QED
  BY <1>1, <1>2

\* One more ready slot, or one less.
LEMMA ReadyMore ==
  ASSUME Typed, NEW i \in Slots, i \notin Ready, queue.ready = Cardinality(Ready)
  PROVE  queue.ready + 1 = Cardinality(Ready \union {i})
<1>1. IsFiniteSet(Ready)
  BY SlotsFinite DEF Ready
<1>2. QED
  BY <1>1, FS_AddElement

LEMMA ReadyLess ==
  ASSUME Typed, NEW i \in Ready, queue.ready = Cardinality(Ready)
  PROVE  queue.ready - 1 = Cardinality(Ready \ {i}) /\ queue.ready > 0
<1>1. IsFiniteSet(Ready) /\ Cardinality(Ready) \in Nat /\ (Cardinality(Ready) = 0 <=> Ready = {})
  BY SlotsFinite DEF Ready
<1>2. Cardinality(Ready \ {i}) = Cardinality(Ready) - 1
  BY <1>1, FS_RemoveElement
<1>3. QED
  BY <1>1, <1>2

LEMMA StoreStep == ASSUME IInv, Store PROVE IInv'
<1> DEFINE p == queue.preparing
           c == [slots[p] EXCEPT !.stage = @ + 1]
<1>1. /\ loop.pc \in {"prefill", "step"} /\ p # None
      /\ slots' = [slots EXCEPT ![p].stage = @ + 1]
      /\ StepDone
      /\ UNCHANGED <<transfer, global, history, queue, playback>>
  BY DEF Store, Producing
<1>2. p \in Slots /\ IsSlot(slots[p]) /\ Typed
  BY <1>1 DEF IInv, Typed
<1>3. slots' = [slots EXCEPT ![p] = c]
  BY <1>1
<1>4. /\ IsSlot(c)
      /\ c.state = slots[p].state /\ c.applied = slots[p].applied
      /\ c.start = slots[p].start /\ c.index = slots[p].index /\ c.count = slots[p].count
  BY <1>2 DEF IsSlot
<1>5. /\ loop' \in [pc : {"prefill", "tail"}, claimed : BOOLEAN, tailPending : BOOLEAN]
      /\ loop'.tailPending = loop.tailPending
      /\ loop'.pc = "prefill" => loop.pc = "prefill"
  BY <1>1 DEF IInv, Typed, StepDone
<1>6. Staged'
  BY <1>1, <1>5, ExhaustedLeft DEF IInv, Staged
<1> HIDE DEF p, c
<1>7. /\ slots' = [j \in Slots |-> slots'[j]]
      /\ \A j \in Slots : IsSlot(slots'[j])
      /\ \A j \in Slots : j # p => slots'[j] = slots[j]
      /\ slots'[p] = c
  BY <1>2, <1>3, <1>4, SlotReplaced
<1>8. Typed'
  BY <1>1, <1>5, <1>7 DEF IInv, Typed
<1>9. Owned'
  BY <1>1, <1>2, <1>4, <1>7, OwnersLeft DEF IInv, Owned
<1>10. HistoryKept'
  BY <1>1, HistoryLeft DEF IInv
<1>11. GroupsInWindow'
  BY <1>1, <1>4, <1>7, GroupsLeft DEF IInv
<1>12. QED
  BY <1>6, <1>8, <1>9, <1>10, <1>11 DEF IInv

\* The slot under preparation becomes ready.
LEMMA CorrectStep == ASSUME IInv, Correct PROVE IInv'
<1> DEFINE p == queue.preparing
           patch == <<filling.start, worker.parity>>
           c == [slots[p] EXCEPT !.state = "ready", !.patch = patch]
<1>1. /\ loop.pc \in {"prefill", "step"} /\ p # None
      /\ slots' = [slots EXCEPT ![p].state = "ready", ![p].patch = patch]
      /\ queue' = [queue EXCEPT !.ready = @ + 1, !.preparing = None,
                                !.tail = (@ + 1) % SlotCount]
      /\ StepDone
      /\ UNCHANGED <<transfer, global, history, playback>>
  BY DEF Correct
<1>2. p \in Slots /\ IsSlot(slots[p]) /\ Typed
  BY <1>1 DEF IInv, Typed
<1> HIDE DEF patch
<1>3. slots' = [slots EXCEPT ![p] = c]
  BY <1>1, <1>2 DEF Typed
<1>4. /\ IsSlot(c)
      /\ c.state = "ready" /\ c.applied = slots[p].applied
      /\ c.start = slots[p].start /\ c.index = slots[p].index /\ c.count = slots[p].count
  BY <1>2 DEF IsSlot
<1>5. /\ loop' \in [pc : {"prefill", "tail"}, claimed : BOOLEAN, tailPending : BOOLEAN]
      /\ loop'.tailPending = loop.tailPending
      /\ loop'.pc = "prefill" => loop.pc = "prefill"
  BY <1>1 DEF IInv, Typed, StepDone
<1>6. /\ queue' \in QueueType
      /\ queue'.ready = queue.ready + 1 /\ queue'.preparing = None
  <2> DEFINE t == (queue.tail + 1) % SlotCount
  <2>1. t \in Slots
    BY <1>2, Wrapped
  <2>2. queue' = [queue EXCEPT !.ready = queue.ready + 1, !.preparing = None, !.tail = t]
    BY <1>1
  <2>3. queue \in QueueType
    BY <1>2 DEF Typed
  <2> HIDE DEF t
  <2>4. queue' = [tail |-> t, preparing |-> None, ready |-> queue.ready + 1,
                  ordinal |-> queue.ordinal]
    BY <2>2, <2>3
  <2>5. QED
    BY <2>1, <2>3, <2>4
<1>7. Staged'
  BY <1>1, <1>5, ExhaustedLeft DEF IInv, Staged
<1>8. slots[p].state = "filling" /\ Filling = {p}
  BY <1>1 DEF IInv, Owned, Filling
<1> HIDE DEF p, c
<1>9. /\ slots' = [j \in Slots |-> slots'[j]]
      /\ \A j \in Slots : IsSlot(slots'[j])
      /\ \A j \in Slots : j # p => slots'[j] = slots[j]
      /\ slots'[p] = c
  BY <1>2, <1>3, <1>4, SlotReplaced
<1>10. Typed'
  BY <1>1, <1>5, <1>6, <1>9 DEF IInv, Typed
<1>11. Owned'
  <2>1. Ready' = Ready \union {p} /\ p \notin Ready
    BY <1>2, <1>4, <1>8, <1>9 DEF Ready
  <2>2. queue'.ready = Cardinality(Ready')
    BY <1>2, <1>6, <2>1, ReadyMore DEF IInv, Owned
  <2>3. Filling' = {}
    BY <1>4, <1>8, <1>9 DEF Filling
  <2>4. Playing' = Playing
    BY <1>4, <1>8, <1>9 DEF Playing
  <2>5. \A i \in Slots : slots'[i].applied => slots'[i].state = "playing"
    BY <1>2, <1>4, <1>8, <1>9 DEF IInv, Owned
  <2>6. QED
    BY <1>1, <1>6, <2>2, <2>3, <2>4, <2>5 DEF IInv, Owned
<1>12. HistoryKept'
  BY <1>1, HistoryLeft DEF IInv
<1>13. GroupsInWindow'
  BY <1>1, <1>2, <1>4, <1>8, <1>9, GroupsLeft DEF IInv
<1>14. QED
  BY <1>7, <1>10, <1>11, <1>12, <1>13 DEF IInv

\* Nothing was playing, and one ready group begins to.
LEMMA ActivateStep == ASSUME IInv, Activate PROVE IInv'
<1> DEFINE e == Earliest
           c == [slots[e] EXCEPT !.state = "playing"]
<1>1. /\ loop.pc = "tick" /\ ~playback.active /\ queue.ready > 0
      /\ slots' = [slots EXCEPT ![e].state = "playing"]
      /\ queue' = [queue EXCEPT !.ready = @ - 1]
      /\ UNCHANGED <<transfer, global, history>>
      /\ \/ /\ playback' = [group |-> e, symbol |-> 0, active |-> TRUE, focus |-> FALSE]
            /\ loop' = [loop EXCEPT !.pc = "claim"]
         \/ /\ playback' = [playback EXCEPT !.group = e, !.symbol = 0]
            /\ loop' = [loop EXCEPT !.pc = "failed"]
  BY DEF Activate, Goto, producer
<1>2. e \in Slots /\ e \in Ready /\ Typed
  BY <1>1, EarliestReady DEF IInv
<1>3. slots' = [slots EXCEPT ![e] = c]
  BY <1>1
<1> HIDE DEF e
<1>4. IsSlot(slots[e]) /\ slots[e].state = "ready"
  BY <1>2 DEF Typed, Ready
<1>5. /\ IsSlot(c)
      /\ c.state = "playing"
      /\ c.start = slots[e].start /\ c.index = slots[e].index /\ c.count = slots[e].count
  BY <1>4 DEF IsSlot
<1> HIDE DEF c
<1>6. /\ slots' = [j \in Slots |-> slots'[j]]
      /\ \A j \in Slots : IsSlot(slots'[j])
      /\ \A j \in Slots : j # e => slots'[j] = slots[j]
      /\ slots'[e] = c
  BY <1>2, <1>3, <1>5, SlotReplaced
<1>7. /\ playback' \in PlaybackType
      /\ playback'.group = e /\ e # None
      /\ loop' \in [pc : {"claim", "failed"}, claimed : BOOLEAN, tailPending : BOOLEAN]
      /\ loop'.tailPending = loop.tailPending
      /\ playback'.active \/ loop'.pc = "failed"
  <2>1. /\ e # None
        /\ playback \in PlaybackType
        /\ loop \in LoopType
    BY <1>2, Options DEF Typed, Slots, None
  <2>2. CASE /\ playback' = [group |-> e, symbol |-> 0, active |-> TRUE, focus |-> FALSE]
             /\ loop' = [loop EXCEPT !.pc = "claim"]
    BY <1>2, <2>1, <2>2
  <2>3. CASE /\ playback' = [playback EXCEPT !.group = e, !.symbol = 0]
             /\ loop' = [loop EXCEPT !.pc = "failed"]
    BY <1>2, <2>1, <2>3
  <2>4. QED
    BY <1>1, <2>2, <2>3
<1>8. queue.ready - 1 = Cardinality(Ready \ {e}) /\ queue.ready > 0
  BY <1>2, ReadyLess DEF IInv, Owned
<1>9. /\ queue' \in QueueType
      /\ queue'.ready = queue.ready - 1 /\ queue'.preparing = queue.preparing
  BY <1>1, <1>2, <1>8 DEF Typed
<1>10. Typed'
  BY <1>1, <1>6, <1>7, <1>9 DEF Typed, IInv
<1>11. playback.group = None /\ Playing = {}
  BY <1>1, <1>8 DEF IInv, Staged, Owned
<1>12. Owned'
  <2>1. Ready' = Ready \ {e}
    BY <1>2, <1>5, <1>6 DEF Ready
  <2>2. queue'.ready = Cardinality(Ready')
    BY <1>8, <1>9, <2>1
  <2>3. Filling' = Filling
    BY <1>2, <1>4, <1>5, <1>6 DEF Filling
  <2>4. Playing' = {e}
    BY <1>2, <1>5, <1>6, <1>11 DEF Playing
  <2>5. \A i \in Slots : slots'[i].applied => slots'[i].state = "playing"
    BY <1>2, <1>5, <1>6 DEF IInv, Owned
  <2>6. QED
    BY <1>7, <1>9, <2>2, <2>3, <2>4, <2>5 DEF IInv, Owned
<1>13. HistoryKept'
  BY <1>1, HistoryLeft DEF IInv
<1>14. GroupsInWindow'
  BY <1>1, <1>2, <1>4, <1>5, <1>6, GroupsLeft DEF IInv
<1>15. Staged'
  BY <1>7, <1>9 DEF IInv, Staged
<1>16. QED
  BY <1>10, <1>12, <1>13, <1>14, <1>15 DEF IInv

\* The patch of the group that plays is noted.
LEMMA PatchNoted ==
  ASSUME IInv, playback.active, slots' = [slots EXCEPT ![playback.group].applied = TRUE],
         UNCHANGED <<transfer, global, history, queue>>
  PROVE  /\ slots' = [j \in Slots |-> slots'[j]]
         /\ \A j \in Slots : IsSlot(slots'[j])
         /\ playback'.group = playback.group => Owned'
         /\ HistoryKept' /\ GroupsInWindow'
<1> DEFINE g == playback.group
           c == [slots[g] EXCEPT !.applied = TRUE]
<1>1. g \in Slots /\ Typed
  BY DEF IInv, Typed, Staged
<1>2. slots' = [slots EXCEPT ![g] = c]
  OBVIOUS
<1>3. slots[g].state = "playing"
  BY <1>1 DEF IInv, Staged, Owned, Playing
<1> HIDE DEF g
<1>4. IsSlot(slots[g])
  BY <1>1 DEF Typed
<1>5. /\ IsSlot(c)
      /\ c.state = "playing"
      /\ c.start = slots[g].start /\ c.index = slots[g].index /\ c.count = slots[g].count
  BY <1>3, <1>4 DEF IsSlot
<1> HIDE DEF c
<1>6. /\ slots' = [j \in Slots |-> slots'[j]]
      /\ \A j \in Slots : IsSlot(slots'[j])
      /\ \A j \in Slots : j # g => slots'[j] = slots[j]
      /\ slots'[g] = c
  BY <1>1, <1>2, <1>5, SlotReplaced
<1>7. playback'.group = playback.group => Owned'
  BY <1>1, <1>3, <1>5, <1>6, OwnersLeft DEF IInv, Owned
<1>8. HistoryKept'
  BY HistoryLeft DEF IInv
<1>9. GroupsInWindow'
  BY <1>1, <1>3, <1>5, <1>6, GroupsLeft DEF IInv
<1>10. QED
  BY <1>6, <1>7, <1>8, <1>9

LEMMA NextSymbolStep == ASSUME IInv, NextSymbol PROVE IInv'
<1>1. /\ playback.active /\ loop.pc = "tick"
      /\ playback' = [playback EXCEPT !.symbol = playback.symbol + 1]
      /\ loop' = [loop EXCEPT !.pc = "hidden"]
      /\ UNCHANGED <<transfer, global, history, queue>>
      /\ \/ slots' = [slots EXCEPT ![playback.group].applied = TRUE]
         \/ slots' = slots
  BY DEF NextSymbol, Due, Goto, producer
<1>2. /\ playback' \in PlaybackType
      /\ playback'.group = playback.group /\ playback'.active
      /\ loop' \in [pc : {"hidden"}, claimed : BOOLEAN, tailPending : BOOLEAN]
      /\ loop'.tailPending = loop.tailPending
  BY <1>1 DEF IInv, Typed
<1>3. Staged'
  BY <1>1, <1>2 DEF IInv, Staged
<1>4. CASE slots' = slots
  BY <1>1, <1>2, <1>3, <1>4, LoopMoves
<1>5. CASE slots' = [slots EXCEPT ![playback.group].applied = TRUE]
  <2>1. /\ slots' = [j \in Slots |-> slots'[j]]
        /\ \A j \in Slots : IsSlot(slots'[j])
        /\ Owned' /\ HistoryKept' /\ GroupsInWindow'
    BY <1>1, <1>2, <1>5, PatchNoted
  <2>2. Typed'
    BY <1>1, <1>2, <2>1 DEF IInv, Typed
  <2>3. QED
    BY <1>3, <2>1, <2>2 DEF IInv
<1>6. QED
  BY <1>1, <1>4, <1>5

LEMMA ApplyCorrectionStep == ASSUME IInv, ApplyCorrection PROVE IInv'
<1>1. /\ loop.pc = "hidden"
      /\ loop' = [loop EXCEPT !.pc = "claim"]
      /\ UNCHANGED <<transfer, global, history, queue, playback>>
      /\ \/ slots' = [slots EXCEPT ![playback.group].applied = TRUE]
         \/ slots' = slots
  BY DEF ApplyCorrection, Goto, producer
<1>2. /\ playback.active
      /\ loop' \in [pc : {"claim"}, claimed : BOOLEAN, tailPending : BOOLEAN]
      /\ loop'.tailPending = loop.tailPending
  BY <1>1 DEF IInv, Typed, Staged
<1>3. Staged'
  BY <1>1, <1>2 DEF IInv, Staged
<1>4. CASE slots' = slots
  BY <1>1, <1>2, <1>3, <1>4, LoopMoves DEF IInv, Typed
<1>5. CASE slots' = [slots EXCEPT ![playback.group].applied = TRUE]
  <2>1. /\ slots' = [j \in Slots |-> slots'[j]]
        /\ \A j \in Slots : IsSlot(slots'[j])
        /\ Owned' /\ HistoryKept' /\ GroupsInWindow'
    BY <1>1, <1>2, <1>5, PatchNoted
  <2>2. Typed'
    BY <1>1, <1>2, <2>1 DEF IInv, Typed
  <2>3. QED
    BY <1>3, <2>1, <2>2 DEF IInv
<1>6. QED
  BY <1>1, <1>4, <1>5

\* The group that played is released; the next one plays.
LEMMA ReleaseGroupStep == ASSUME IInv, ReleaseGroup PROVE IInv'
<1> DEFINE g == playback.group
           n == NextReady
           c == [slots[g] EXCEPT !.state = "free", !.applied = FALSE]
           d == [slots[n] EXCEPT !.state = "playing"]
<1>1. /\ loop.pc = "handoff"
      /\ slots' = [slots EXCEPT ![g].state = "free", ![g].applied = FALSE,
                                ![n].state = "playing"]
      /\ queue' = [queue EXCEPT !.ready = @ - 1]
      /\ playback' = [playback EXCEPT !.group = n, !.symbol = 0]
      /\ loop' = [loop EXCEPT !.pc = "claim"]
      /\ UNCHANGED <<transfer, global, history>>
  BY DEF ReleaseGroup, Goto, producer
<1>2. /\ playback.active /\ g # None /\ g \in Slots /\ Typed
      /\ n \in Slots /\ n \in Ready
  <2>1. playback.active /\ g # None /\ Later # {} /\ Typed
    BY <1>1 DEF IInv, Staged
  <2>2. QED
    BY <2>1, NextReadyReady DEF Typed
<1> HIDE DEF n
<1>3. slots[g].state = "playing" /\ Playing = {g}
  BY <1>2 DEF IInv, Owned, Playing
<1>4. slots[n].state = "ready" /\ n # g
  BY <1>2, <1>3 DEF Ready
<1> HIDE DEF g
<1>5. slots' = [[slots EXCEPT ![g] = c] EXCEPT ![n] = d]
  BY <1>1, <1>2, <1>4 DEF Typed
<1>6. IsSlot(slots[g]) /\ IsSlot(slots[n])
  BY <1>2 DEF Typed
<1>7. IsSlot(c) /\ c.state = "free" /\ ~c.applied
  BY <1>6 DEF IsSlot
<1>8. /\ IsSlot(d) /\ d.state = "playing"
      /\ d.start = slots[n].start /\ d.index = slots[n].index /\ d.count = slots[n].count
  BY <1>6 DEF IsSlot
<1> HIDE DEF c, d
<1>9. /\ slots' = [j \in Slots |-> slots'[j]]
      /\ \A j \in Slots : IsSlot(slots'[j])
      /\ \A j \in Slots : j # g /\ j # n => slots'[j] = slots[j]
      /\ slots'[g] = c /\ slots'[n] = d
  <2>1. slots = [j \in Slots |-> slots[j]] /\ \A j \in Slots : IsSlot(slots[j])
    BY <1>2 DEF Typed
  <2>2. slots' = [j \in Slots |-> IF j = n THEN d ELSE IF j = g THEN c ELSE slots[j]]
    BY <1>4, <1>5, <2>1
  <2>3. QED
    BY <1>2, <1>4, <1>7, <1>8, <2>1, <2>2
<1>10. /\ playback' \in PlaybackType
       /\ playback'.group = n /\ n # None /\ playback'.active
       /\ loop' \in [pc : {"claim"}, claimed : BOOLEAN, tailPending : BOOLEAN]
       /\ loop'.tailPending = loop.tailPending
  <2>1. /\ n # None
        /\ playback \in PlaybackType
        /\ loop \in LoopType
    BY <1>2, Options DEF Typed, Slots, None
  <2>2. QED
    BY <1>1, <1>2, <2>1
<1>11. queue.ready - 1 = Cardinality(Ready \ {n}) /\ queue.ready > 0
  BY <1>2, ReadyLess DEF IInv, Owned
<1>12. /\ queue' \in QueueType
       /\ queue'.ready = queue.ready - 1 /\ queue'.preparing = queue.preparing
  BY <1>1, <1>2, <1>11 DEF Typed
<1>13. Typed'
  BY <1>1, <1>2, <1>9, <1>10, <1>12 DEF Typed
<1>14. Owned'
  <2>1. Ready' = Ready \ {n}
    BY <1>2, <1>3, <1>7, <1>8, <1>9 DEF Ready
  <2>2. queue'.ready = Cardinality(Ready')
    BY <1>11, <1>12, <2>1
  <2>3. Filling' = Filling
    BY <1>2, <1>3, <1>4, <1>7, <1>8, <1>9 DEF Filling
  <2>4. Playing' = {n}
    <3>1. \A i \in Slots : slots[i].state = "playing" => i = g
      BY <1>3 DEF Playing
    <3>2. QED
      BY <1>2, <1>4, <1>7, <1>8, <1>9, <3>1 DEF Playing
  <2>5. \A i \in Slots : slots'[i].applied => slots'[i].state = "playing"
    BY <1>2, <1>7, <1>8, <1>9 DEF IInv, Owned
  <2>6. QED
    BY <1>10, <1>12, <2>2, <2>3, <2>4, <2>5 DEF IInv, Owned
<1>15. HistoryKept'
  BY <1>1, HistoryLeft DEF IInv
<1>16. GroupsInWindow'
  BY <1>1, <1>2, <1>4, <1>7, <1>8, <1>9, GroupsLeft DEF IInv
<1>17. Staged'
  BY <1>10, <1>12 DEF IInv, Staged
<1>18. QED
  BY <1>13, <1>14, <1>15, <1>16, <1>17 DEF IInv

\* The page of the last group is released behind a tail.
LEMMA ReleaseTailStep == ASSUME IInv, ReleaseTail PROVE IInv'
<1> DEFINE g == playback.group
           c == [slots[g] EXCEPT !.state = "free", !.applied = FALSE]
<1>1. /\ loop.pc = "tail_shown"
      /\ loop' = [loop EXCEPT !.pc = Onward, !.tailPending = FALSE]
      /\ UNCHANGED <<transfer, global, history, queue>>
      /\ \/ /\ g = None /\ UNCHANGED <<slots, playback>>
         \/ /\ g # None
            /\ slots' = [slots EXCEPT ![g].state = "free", ![g].applied = FALSE]
            /\ playback' = [playback EXCEPT !.group = None]
  BY DEF ReleaseTail, producer
<1>2. /\ loop' \in [pc : {"tick", "done"}, claimed : BOOLEAN, tailPending : BOOLEAN]
      /\ ~loop'.tailPending
  BY <1>1 DEF IInv, Typed, Onward
<1>3. Typed /\ ~playback.active
  BY <1>1 DEF IInv, Staged, Quiet
<1>4. CASE g = None /\ UNCHANGED <<slots, playback>>
  <2>1. Staged'
    BY <1>2, <1>3, <1>4 DEF Staged
  <2>2. QED
    BY <1>1, <1>2, <1>3, <1>4, <2>1, LoopMoves DEF Typed
<1>5. CASE /\ g # None
           /\ slots' = [slots EXCEPT ![g].state = "free", ![g].applied = FALSE]
           /\ playback' = [playback EXCEPT !.group = None]
  <2>1. /\ playback' \in PlaybackType
        /\ playback'.group = None /\ ~playback'.active
    BY <1>3, <1>5 DEF Typed
  <2>2. g \in Slots /\ IsSlot(slots[g])
    BY <1>3, <1>5 DEF Typed
  <2>3. slots' = [slots EXCEPT ![g] = c]
    BY <1>3, <1>5, <2>2 DEF Typed
  <2>4. slots[g].state = "playing" /\ Playing = {g}
    BY <1>5, <2>2 DEF IInv, Owned, Playing
  <2> HIDE DEF g
  <2>5. IsSlot(c) /\ c.state = "free" /\ ~c.applied
    BY <2>2 DEF IsSlot
  <2> HIDE DEF c
  <2>6. /\ slots' = [j \in Slots |-> slots'[j]]
        /\ \A j \in Slots : IsSlot(slots'[j])
        /\ \A j \in Slots : j # g => slots'[j] = slots[j]
        /\ slots'[g] = c
    BY <1>3, <2>2, <2>3, <2>5, SlotReplaced
  <2>7. Typed'
    BY <1>1, <1>2, <1>3, <2>1, <2>6 DEF Typed
  <2>8. Owned'
    <3>1. Ready' = Ready
      BY <2>2, <2>4, <2>5, <2>6 DEF Ready
    <3>2. Filling' = Filling
      BY <2>2, <2>4, <2>5, <2>6 DEF Filling
    <3>3. Playing' = {}
      <4>1. \A i \in Slots : slots[i].state = "playing" => i = g
        BY <2>4 DEF Playing
      <4>2. QED
        BY <2>2, <2>5, <2>6, <4>1 DEF Playing
    <3>4. \A i \in Slots : slots'[i].applied => slots'[i].state = "playing"
      BY <2>2, <2>5, <2>6 DEF IInv, Owned
    <3>5. QED
      BY <1>1, <2>1, <3>1, <3>2, <3>3, <3>4 DEF IInv, Owned
  <2>9. HistoryKept'
    BY <1>1, HistoryLeft DEF IInv
  <2>10. GroupsInWindow'
    BY <1>1, <2>2, <2>4, <2>5, <2>6, GroupsLeft DEF IInv
  <2>11. Staged'
    BY <1>2, <2>1 DEF Staged
  <2>12. QED
    BY <2>7, <2>8, <2>9, <2>10, <2>11 DEF IInv
<1>6. QED
  BY <1>1, <1>4, <1>5

-----------------------------------------------------------------------------
(* Claims.                                                                 *)

\* A claim fills a free slot with a group that lies in its window.
LEMMA GroupClaimed ==
  ASSUME IInv, ClaimGroup, UNCHANGED <<transfer, global, history, playback>>,
         loop' \in LoopType,
         Staged'
  PROVE  IInv'
<1> DEFINE t == ClaimTarget
           c == [state |-> "filling", start |-> Start, index |-> Start % Window,
                 count |-> WindowCount(global), overlap |-> Overlap,
                 ordinal |-> queue.ordinal + 1, stage |-> 0,
                 patch |-> <<>>, applied |-> FALSE]
<1>1. /\ MayClaim /\ Fits /\ slots[t].state = "free"
      /\ slots' = [slots EXCEPT ![t] = c]
      /\ queue' = [queue EXCEPT !.tail = t, !.preparing = t, !.ordinal = @ + 1]
  BY DEF ClaimGroup, CanClaim
<1>2. Typed /\ t \in Slots /\ queue.preparing = None /\ global < Total
  BY <1>1, TargetIsSlot DEF IInv, MayClaim
<1>3. /\ Start \in Nat /\ Overlap \in Nat
      /\ Start \div Window = (Start + Width - 1) \div Window
      /\ WindowCount(Start) = WindowCount(global)
      /\ Start % Window \in Nat
      /\ WindowCount(global) \in Nat
      /\ (Start % Window) + Width <= WindowCount(global)
  BY <1>1, <1>2, GroupFits
<1>4. queue.ordinal + 1 \in Nat
  BY <1>2 DEF Typed
<1>5. IsSlot(c) /\ c.state = "filling" /\ ~c.applied
  BY <1>3, <1>4 DEF IsSlot
<1>6. /\ c.start \div Window = (c.start + Width - 1) \div Window
      /\ c.index = c.start % Window
      /\ c.count = WindowCount(c.start)
      /\ c.index + Width <= c.count
  BY <1>3
<1> HIDE DEF c, t
<1>7. /\ slots' = [j \in Slots |-> slots'[j]]
      /\ \A j \in Slots : IsSlot(slots'[j])
      /\ \A j \in Slots : j # t => slots'[j] = slots[j]
      /\ slots'[t] = c
  BY <1>1, <1>2, <1>5, SlotReplaced
<1>8. /\ queue' \in QueueType
      /\ queue'.ready = queue.ready /\ queue'.preparing = t /\ t # None
  <2>1. queue' = [queue EXCEPT !.tail = t, !.preparing = t, !.ordinal = queue.ordinal + 1]
    BY <1>1
  <2>2. queue \in QueueType
    BY <1>2 DEF Typed
  <2>3. queue' = [tail |-> t, preparing |-> t, ready |-> queue.ready,
                  ordinal |-> queue.ordinal + 1]
    BY <2>1, <2>2
  <2>4. t # None
    BY <1>2, Options DEF Slots, None
  <2>5. QED
    BY <1>2, <1>4, <2>2, <2>3, <2>4
<1>9. Typed'
  BY <1>2, <1>7, <1>8 DEF Typed
<1>10. Owned'
  <2>1. Ready' = Ready
    BY <1>1, <1>2, <1>5, <1>7 DEF Ready
  <2>2. Filling = {}
    BY <1>2 DEF IInv, Owned
  <2>3. Filling' = {t}
    BY <1>2, <1>5, <1>7, <2>2 DEF Filling
  <2>4. Playing' = Playing
    BY <1>1, <1>2, <1>5, <1>7 DEF Playing
  <2>5. \A i \in Slots : slots'[i].applied => slots'[i].state = "playing"
    BY <1>2, <1>5, <1>7 DEF IInv, Owned
  <2>6. QED
    BY <1>8, <2>1, <2>3, <2>4, <2>5 DEF IInv, Owned
<1>11. HistoryKept'
  BY HistoryLeft DEF IInv
<1>12. GroupsInWindow'
  <2>1. Width' = Width /\ Window' = Window /\ Total' = Total
    BY DEF Width, Window, Total
  <2>2. SUFFICES ASSUME NEW i \in Slots, slots'[i].state # "free"
                 PROVE  /\ slots'[i].start \div Window = (slots'[i].start + Width - 1) \div Window
                        /\ slots'[i].index = slots'[i].start % Window
                        /\ slots'[i].count = WindowCount(slots'[i].start)
                        /\ slots'[i].index + Width <= slots'[i].count
    BY <2>1 DEF GroupsInWindow, WindowCount
  <2>3. CASE i = t
    BY <1>6, <1>7, <2>3
  <2>4. CASE i # t
    BY <1>7, <2>2, <2>4 DEF IInv, GroupsInWindow
  <2>5. QED
    BY <2>3, <2>4
<1>13. QED
  BY <1>9, <1>10, <1>11, <1>12 DEF IInv

\* While a drained group keeps its slot there is nothing to claim.
LEMMA ClaimLeavesNoDrained ==
  ASSUME IInv, ClaimGroup, loop.pc # "failed"
  PROVE  playback.active \/ playback.group = None
<1>1. SUFFICES ASSUME ~playback.active, playback.group # None PROVE FALSE
  OBVIOUS
<1>2. Exhausted
  BY <1>1 DEF IInv, Staged
<1>3. Fits /\ global < Total
  BY DEF ClaimGroup, CanClaim, MayClaim
<1>4. QED
  BY <1>2, <1>3, LastNeverFits DEF IInv, Exhausted

LEMMA PrefillClaimStep == ASSUME IInv, PrefillClaim PROVE IInv'
<1>1. /\ loop.pc = "prefill" /\ ClaimGroup
      /\ UNCHANGED <<transfer, global, history, playback, loop>>
  BY DEF PrefillClaim
<1>2. playback.group = None /\ ~loop.tailPending
  BY <1>1 DEF IInv, Staged
<1>3. Staged'
  BY <1>1, <1>2 DEF IInv, Staged
<1>4. QED
  BY <1>1, <1>3, GroupClaimed DEF IInv, Typed

LEMMA LoopClaimStep == ASSUME IInv, LoopClaim PROVE IInv'
<1>1. loop.pc = "claim" /\ UNCHANGED <<transfer, global, history, playback>>
  BY DEF LoopClaim
<1>2. CASE /\ ClaimGroup
           /\ loop' = [pc |-> "step", claimed |-> TRUE, tailPending |-> FALSE]
  <2>1. playback.active \/ playback.group = None
    BY <1>1, <1>2, ClaimLeavesNoDrained
  <2>2. Staged'
    BY <1>1, <1>2, <2>1 DEF IInv, Staged
  <2>3. QED
    BY <1>1, <1>2, <2>2, GroupClaimed
<1>3. CASE /\ MayClaim /\ ~CanClaim
           /\ loop' = [pc |-> "tail", claimed |-> FALSE, tailPending |-> TRUE]
           /\ UNCHANGED <<slots, queue, worker>>
  <2>1. queue.preparing = None
    BY <1>3 DEF MayClaim
  <2>2. queue.ready = 0 => Exhausted
    BY <1>3, <2>1, RefusedIsExhausted DEF IInv
  <2>3. Exhausted' = Exhausted
    BY <1>1, ExhaustedLeft
  <2>4. Staged'
    BY <1>1, <1>3, <2>1, <2>2, <2>3 DEF IInv, Staged
  <2>5. QED
    BY <1>1, <1>3, <2>4, LoopMoves DEF IInv, Typed
<1>4. CASE /\ ~MayClaim
           /\ loop' = [loop EXCEPT !.claimed = FALSE,
                         !.pc = IF queue.preparing = None THEN "tail" ELSE "step"]
           /\ UNCHANGED <<slots, queue, worker>>
  <2>1. /\ loop' \in [pc : {"tail", "step"}, claimed : BOOLEAN, tailPending : BOOLEAN]
        /\ loop'.tailPending = loop.tailPending
        /\ loop'.pc = "step" => queue.preparing # None
    BY <1>4 DEF IInv, Typed
  <2>2. loop'.pc = "tail" /\ queue.ready = 0 => Exhausted
    <3>1. SlotCount \in Nat /\ SlotCount >= 3
      BY Options DEF IInv
    <3>2. queue.preparing = None /\ queue.ready = 0 => ~(global < Total)
      BY <1>4, <3>1 DEF MayClaim
    <3>3. loop'.pc = "tail" => queue.preparing = None
      BY <1>4 DEF IInv, Typed
    <3>4. QED
      BY <3>2, <3>3 DEF Exhausted
  <2>3. Exhausted' = Exhausted
    BY <1>1, ExhaustedLeft
  <2>4. Staged'
    BY <1>1, <1>4, <2>1, <2>2, <2>3 DEF IInv, Staged
  <2>5. QED
    BY <1>1, <1>4, <2>1, <2>4, LoopMoves DEF IInv, Typed
<1>5. QED
  BY <1>2, <1>3, <1>4 DEF LoopClaim

-----------------------------------------------------------------------------
(* The invariant, and what it shows.                                       *)

LEMMA InitIInv == ASSUME Init PROVE IInv
<1>1. transfer \in Transfers /\ SlotCount \in Nat /\ SlotCount >= 3 /\ Total \in Nat
  BY PlaybackAssumption DEF Init, TransfersAssumption, Total
<1>2. /\ \A i \in Slots : slots[i] = FreeSlot
      /\ slots = [i \in Slots |-> slots[i]]
      /\ IsSlot(FreeSlot) /\ FreeSlot.state = "free" /\ ~FreeSlot.applied
  BY DEF Init, FreeSlot, IsSlot
<1>3. 0 \in Slots /\ None \notin Slots
  BY <1>1 DEF Slots, None
<1>4. Typed
  <2>1. history \in HistoryType
    BY DEF Init
  <2>2. queue \in QueueType
    BY <1>3 DEF Init
  <2>3. playback \in PlaybackType
    <3>1. playback \in [group : {None}, symbol : {0}, active : {FALSE}, focus : BOOLEAN]
      BY DEF Init
    <3>2. {None} \subseteq Slots \union {None} /\ {0} \subseteq Nat /\ {FALSE} \subseteq BOOLEAN
      OBVIOUS
    <3>3. QED
      BY <3>1, <3>2, Zenon
  <2>4. loop \in LoopType
    BY DEF Init
  <2>5. transfer \in Transfers /\ global \in Nat
    BY DEF Init
  <2>6. \A i \in Slots : IsSlot(slots[i])
    BY <1>2
  <2>7. QED
    BY <1>2, <2>1, <2>2, <2>3, <2>4, <2>5, <2>6 DEF Typed
<1>5. Ready = {} /\ Filling = {} /\ Playing = {}
  BY <1>2 DEF Ready, Filling, Playing
<1>6. Owned
  <2>1. Cardinality({}) = 0
    BY FS_EmptySet
  <2>2. queue.ready = 0 /\ queue.preparing = None /\ playback.group = None
    BY DEF Init
  <2>3. QED
    BY <1>2, <1>5, <2>1, <2>2 DEF Owned
<1>7. HistoryKept
  BY DEF Init, HistoryKept
<1>8. Staged
  BY DEF Init, Staged, Quiet
<1>9. GroupsInWindow
  BY <1>2 DEF GroupsInWindow
<1>10. QED
  BY <1>4, <1>6, <1>7, <1>8, <1>9 DEF IInv

LEMMA NextIInv == ASSUME IInv, [Next]_vars PROVE IInv'
<1>1. CASE PlaybackTick
  BY <1>1, TickIdleStep, ActivateStep, TickEarlyStep, NextSymbolStep, ApplyCorrectionStep,
     HandoffStep, ReleaseGroupStep, UnderrunStep, DrainStep DEF PlaybackTick
<1>2. CASE Produce
  <2>1. CASE Begin
    BY <2>1, BeginOverlapStep, BeginNextStep, ReadFailsStep DEF Begin
  <2>2. QED
    BY <1>2, <2>1, EncodeStep, DrawStep, StoreStep, CorrectStep DEF Produce
<1>3. CASE Tail
  BY <1>3, StoreTailStep, TailFailsStep, ShowTailStep, ReleaseTailStep, NoTailStep DEF Tail
<1>4. CASE UNCHANGED vars
  <2>1. Staged'
    BY <1>4, StagesLeft DEF vars, IInv, Staged, Quiet
  <2>2. QED
    BY <1>4, <2>1, LoopMoves DEF vars, IInv, Typed
<1>5. QED
  BY <1>1, <1>2, <1>3, <1>4, PrefillClaimStep, PrefillEndStep, LoopClaimStep, DeadlineStep
  DEF Next, Loop

LEMMA Invariance == Spec => []IInv
<1>1. Init => IInv
  BY InitIInv
<1>2. IInv /\ [Next]_vars => IInv'
  BY NextIInv
<1>3. QED
  BY <1>1, <1>2, PTL DEF Spec

\* The states of the slots, the count of the ready ones, the slot under
\* preparation and the one on the screen agree at every moment (main.c:575-1086).
THEOREM SlotsOwnedHolds == Spec => []SlotsOwned
<1>1. IInv => SlotsOwned
  BY DEF IInv, Owned, SlotsOwned, Filling, Playing
<1>2. QED
  BY <1>1, Invariance, PTL

\* Every group lies in one window under the index and count its header
\* announces, the records it repeats included (main.c:604-622).
THEOREM GroupsInWindowHolds == Spec => []GroupsInWindow
<1>1. IInv => GroupsInWindow
  BY DEF IInv
<1>2. QED
  BY <1>1, Invariance, PTL

\* No group can follow a group that has drained: a claim that is refused while
\* nothing is ready or under way is refused for good (main.c:1323-1409).
THEOREM DrainedIsLast ==
  Spec => [](loop.pc # "failed" /\ ~playback.active /\ playback.group # None => ~CanClaim)
<1>1. ASSUME IInv, loop.pc # "failed", ~playback.active, playback.group # None
      PROVE  ~CanClaim
  <2>1. Exhausted
    BY <1>1 DEF IInv, Staged
  <2>2. CanClaim => Fits /\ global < Total
    BY DEF CanClaim, MayClaim
  <2>3. QED
    BY <1>1, <2>1, <2>2, LastNeverFits DEF IInv, Exhausted
<1>2. IInv => (loop.pc # "failed" /\ ~playback.active /\ playback.group # None => ~CanClaim)
  BY <1>1
<1>3. QED
  BY <1>2, Invariance, PTL

-----------------------------------------------------------------------------
(* The group under preparation, and why the sender's own checks hold: it   *)
(* follows the record stream.                                              *)

USE DEF HistoryType, QueueType, PlaybackType, LoopType

\* The planes whose record has been taken: the one being encoded counts.
Begun == slots[queue.preparing].stage + (IF worker.phase = "begin" THEN 0 ELSE 1)

\* The next record of the stream follows the last one of the group that was not
\* shown before.
InStep ==
  queue.preparing # None =>
    /\ Begun <= Width
    /\ global = slots[queue.preparing].start +
                  (IF Begun < slots[queue.preparing].overlap
                   THEN slots[queue.preparing].overlap ELSE Begun)

\* A record with the fields of the work memory, whatever they hold.
WorkerKept ==
  worker \in [phase : {worker.phase}, keystream : {worker.keystream},
              parity : {worker.parity}, codewords : {worker.codewords},
              previous : {worker.previous}, raster : {worker.raster}]

PInv == WorkerKept /\ InStep /\ GivesUpForAReason

\* The slot under preparation is no other's.
LEMMA PreparingAlone ==
  ASSUME IInv, queue.preparing # None
  PROVE  /\ queue.preparing \in Slots
         /\ slots[queue.preparing].state = "filling"
         /\ IsSlot(slots[queue.preparing])
<1>1. queue.preparing \in Slots /\ Filling = {queue.preparing}
  BY DEF IInv, Typed, Owned
<1>2. QED
  BY <1>1 DEF Filling, IInv, Typed

\* A step that neither takes a record nor makes a plane.
LEMMA ProducerLeft ==
  ASSUME IInv, PInv, UNCHANGED <<transfer, global>>,
         worker' = worker,
         queue'.preparing = queue.preparing,
         queue.preparing # None => slots'[queue.preparing] = slots[queue.preparing],
         loop'.pc = "failed" => fault' # "none"
  PROVE  PInv'
<1>1. WorkerKept'
  BY DEF PInv, WorkerKept
<1>2. InStep'
  BY DEF PInv, InStep, Begun, Width
<1>3. QED
  BY <1>1, <1>2 DEF PInv, GivesUpForAReason

\* A group that is claimed has begun nothing yet.
LEMMA ClaimInStep ==
  ASSUME IInv, PInv, ClaimGroup, UNCHANGED <<transfer, global>>, loop'.pc # "failed"
  PROVE  PInv'
<1> DEFINE t == ClaimTarget
           c == [state |-> "filling", start |-> Start, index |-> Start % Window,
                 count |-> WindowCount(global), overlap |-> Overlap,
                 ordinal |-> queue.ordinal + 1, stage |-> 0,
                 patch |-> <<>>, applied |-> FALSE]
<1>1. /\ Fits /\ global < Total /\ Typed
      /\ slots' = [slots EXCEPT ![t] = c]
      /\ queue' = [queue EXCEPT !.tail = t, !.preparing = t, !.ordinal = @ + 1]
      /\ worker' = [worker EXCEPT !.phase = "begin", !.parity = ClearedParity]
  BY DEF ClaimGroup, CanClaim, MayClaim, IInv
<1>2. t \in Slots
  BY <1>1, TargetIsSlot
<1>3. Start \in Nat /\ Overlap \in Nat /\ global \in Nat /\ Width \in {3, 4} /\ Start = global - Overlap
  BY <1>1, GroupFits, Options DEF Typed, Start
<1>4. c.stage = 0 /\ c.start = Start /\ c.overlap = Overlap
  OBVIOUS
<1> HIDE DEF t, c
<1>5. slots'[t] = c /\ queue'.preparing = t
  BY <1>1, <1>2 DEF Typed
<1>6. WorkerKept' /\ worker'.phase = "begin"
  BY <1>1 DEF PInv, WorkerKept
<1>7. InStep'
  <2>1. Begun' = 0 /\ Width' = Width
    BY <1>4, <1>5, <1>6 DEF Begun, Width
  <2>2. QED
    BY <1>3, <1>4, <1>5, <2>1 DEF InStep
<1>8. QED
  BY <1>6, <1>7 DEF PInv, GivesUpForAReason

\* The header of a group fits each of its records: the check of Encoded() never
\* refuses one.
LEMMA HeaderFits ==
  ASSUME IInv, PInv, queue.preparing # None, worker.phase = "begin",
         filling.stage < Width, filling.stage >= filling.overlap
  PROVE  /\ global % Window = filling.index + filling.stage
         /\ WindowCount(global) = filling.count
<1> DEFINE f == slots[queue.preparing]
           s == f.start
           n == f.stage
<1>1. /\ s \in Nat /\ n \in Nat /\ f.overlap \in Nat /\ f.index \in Nat /\ f.count \in Nat
      /\ s \div Window = (s + Width - 1) \div Window
      /\ f.index = s % Window
      /\ f.count = WindowCount(s)
      /\ f.index + Width <= f.count
  BY PreparingAlone DEF IInv, GroupsInWindow, IsSlot
<1>2. global = s + n /\ n < Width
  BY <1>1 DEF PInv, InStep, Begun, filling
<1>3. Width \in {3, 4} /\ Window \in Nat /\ Window > 0 /\ Total \in Nat /\ Typed
  BY Options DEF IInv
<1> DEFINE q == s \div Window
           b == q * Window
           r == f.index + n
<1> HIDE DEF n, s
<1>4. q \in Nat /\ s = q * Window + f.index
  BY <1>1, <1>3, Division
<1> HIDE DEF q
<1>5. b \in Nat /\ s = b + f.index
  BY <1>3, <1>4
<1>6. f.count = IF Total - b > Window THEN Window ELSE Total - b
  BY <1>1 DEF WindowCount, q
<1> HIDE DEF b
<1>7. r \in Nat /\ r < Window /\ global \in Nat /\ global = b + r
  BY <1>1, <1>2, <1>3, <1>5, <1>6
<1>8. global \div Window = q /\ global % Window = r
  <2> HIDE DEF f, r
  <2>1. \A x, y \in Nat : y < Window /\ global = x * Window + y =>
          global \div Window = x /\ global % Window = y
    BY <1>3, <1>7, PlaceOf
  <2>2. global = q * Window + r
    BY <1>7 DEF b
  <2>3. QED
    BY <1>4, <1>7, <2>1, <2>2
<1>9. WindowCount(global) = WindowCount(s)
  BY <1>8 DEF WindowCount, q
<1>10. QED
  BY <1>1, <1>8, <1>9 DEF filling, n

\* A plane is begun: its record is taken, from the stream or from the last three.
LEMMA BeginInStep == ASSUME IInv, PInv, Begin PROVE PInv'
<1> DEFINE f == slots[queue.preparing]
<1>1. /\ queue.preparing # None /\ worker.phase = "begin" /\ f.stage < Width
      /\ loop.pc \in {"prefill", "step"}
      /\ UNCHANGED <<transfer, slots, queue>>
  BY DEF Begin, BeginOverlap, BeginNext, ReadFails, Producing, filling
<1>2. f.stage \in Nat /\ f.overlap \in Nat /\ f.start \in Nat /\ global \in Nat /\ loop \in LoopType
      /\ Width \in {3, 4}
  BY <1>1, PreparingAlone, Options DEF IsSlot, IInv, Typed
<1>3. global = f.start + (IF f.stage < f.overlap THEN f.overlap ELSE f.stage)
  BY <1>1, <1>2 DEF PInv, InStep, Begun
<1>4. CASE ReadFails
  BY <1>1, <1>4, ProducerLeft DEF ReadFails, Begin
<1>5. ASSUME NEW r, worker' = [worker EXCEPT
                !.parity = IF r \in @ THEN @ \ {r} ELSE @ \union {r},
                !.keystream = filling.start,
                !.codewords = Basis(filling.start, filling.stage, filling.start, r),
                !.phase = "encode"],
             StepDone,
             global' = IF f.stage < f.overlap THEN global ELSE global + 1
      PROVE  PInv'
  <2>1. WorkerKept' /\ worker'.phase = "encode"
    BY <1>5 DEF PInv, WorkerKept
  <2>2. Begun' = f.stage + 1 /\ Width' = Width
    BY <1>1, <2>1 DEF Begun, Width
  <2>3. InStep'
    <3> HIDE DEF f
    <3>1. slots'[queue'.preparing] = f
      BY <1>1 DEF f
    <3>2. Begun' <= Width'
      BY <1>1, <1>2, <2>2 DEF f
    <3>3. global' = f.start + (IF f.stage + 1 < f.overlap THEN f.overlap ELSE f.stage + 1)
      BY <1>2, <1>3, <1>5
    <3>4. QED
      BY <2>2, <3>1, <3>2, <3>3 DEF InStep
  <2>4. loop'.pc # "failed"
    BY <1>1, <1>2, <1>5 DEF StepDone
  <2>5. QED
    BY <2>1, <2>3, <2>4 DEF PInv, GivesUpForAReason
<1>6. CASE BeginOverlap
  <2>1. f.stage < f.overlap /\ global' = global
    BY <1>6 DEF BeginOverlap, filling
  <2>2. Encoded(HistoryRecord(history.count - filling.overlap + filling.stage),
                filling.index + filling.stage, filling.count)
    BY <1>6 DEF BeginOverlap
  <2>3. QED
    BY <1>5, <2>1, <2>2 DEF Encoded
<1>7. CASE BeginNext
  <2>1. ~(f.stage < f.overlap) /\ global' = global + 1
    BY <1>2, <1>7 DEF BeginNext, filling
  <2>2. Encoded(global, global % Window, WindowCount(global))
    BY <1>7 DEF BeginNext
  <2>3. global % Window = filling.index + filling.stage /\ WindowCount(global) = filling.count
    BY <1>1, <1>2, <2>1, HeaderFits DEF filling
  <2>4. QED
    BY <1>5, <2>1, <2>2, <2>3 DEF Encoded
<1>8. QED
  BY <1>4, <1>6, <1>7 DEF Begin

\* A plane that is encoded and drawn is the same one.
LEMMA PlaneInStep == ASSUME IInv, PInv, Encode \/ Draw PROVE PInv'
<1>1. /\ worker.phase # "begin" /\ loop.pc \in {"prefill", "step"} /\ StepDone
      /\ UNCHANGED <<transfer, global, slots, queue>>
  BY DEF Encode, Draw, Producing
<1>2. WorkerKept' /\ worker'.phase # "begin"
  BY DEF PInv, WorkerKept, Encode, Draw
<1>3. Begun' = Begun /\ Width' = Width
  BY <1>1, <1>2 DEF Begun, Width
<1>4. InStep'
  BY <1>1, <1>3 DEF PInv, InStep
<1>5. loop'.pc # "failed"
  BY <1>1 DEF StepDone, IInv, Typed
<1>6. QED
  BY <1>2, <1>4, <1>5 DEF PInv, GivesUpForAReason

LEMMA StoreInStep == ASSUME IInv, PInv, Store PROVE PInv'
<1> DEFINE p == queue.preparing
<1>1. /\ p # None /\ worker.phase = "store" /\ loop.pc \in {"prefill", "step"} /\ StepDone
      /\ slots' = [slots EXCEPT ![p].stage = @ + 1]
      /\ worker' = [worker EXCEPT !.phase = "begin"]
      /\ UNCHANGED <<transfer, global, queue>>
  BY DEF Store, Producing
<1>2. p \in Slots /\ IsSlot(slots[p])
  BY <1>1, PreparingAlone
<1>3. WorkerKept' /\ worker'.phase = "begin"
  BY <1>1 DEF PInv, WorkerKept
<1>4. slots'[p] = [slots[p] EXCEPT !.stage = @ + 1]
  BY <1>1, <1>2 DEF IInv, Typed
<1>5. /\ slots'[p].stage = slots[p].stage + 1 /\ slots'[p].start = slots[p].start
      /\ slots'[p].overlap = slots[p].overlap /\ slots[p].stage \in Nat
  BY <1>2, <1>4 DEF IsSlot
<1>6. Begun' = Begun /\ Width' = Width
  BY <1>1, <1>3, <1>5 DEF Begun, Width
<1>7. InStep'
  BY <1>1, <1>5, <1>6 DEF PInv, InStep
<1>8. loop'.pc # "failed"
  BY <1>1 DEF StepDone, IInv, Typed
<1>9. QED
  BY <1>3, <1>7, <1>8 DEF PInv, GivesUpForAReason

LEMMA CorrectInStep == ASSUME IInv, PInv, Correct PROVE PInv'
<1>1. /\ loop.pc \in {"prefill", "step"} /\ StepDone
      /\ worker' = [worker EXCEPT !.phase = "begin"]
      /\ queue' = [queue EXCEPT !.ready = @ + 1, !.preparing = None,
                                !.tail = (@ + 1) % SlotCount]
  BY DEF Correct
<1>2. WorkerKept'
  BY <1>1 DEF PInv, WorkerKept
<1>3. queue'.preparing = None
  <2>1. queue \in QueueType
    BY DEF IInv, Typed
  <2>2. QED
    BY <1>1, <2>1
<1>4. loop'.pc # "failed"
  BY <1>1 DEF StepDone, IInv, Typed
<1>5. QED
  BY <1>2, <1>3, <1>4 DEF PInv, InStep, GivesUpForAReason

\* There is always a page for a tail.
LEMMA PageForTail ==
  ASSUME IInv, Quiet
  PROVE  TailSlot # None
<1>1. slots[ClaimTarget].state = "free"
  BY FreeTarget DEF IInv, Quiet
<1>2. \A i \in Slots : slots[i].state # "free" => i = playback.group
  <2>1. Ready = {}
    <3>1. Ready \subseteq Slots /\ Cardinality(Ready) = 0 /\ Typed
      BY DEF Ready, Owned, IInv, Quiet
    <3>2. QED
      BY <3>1, SlotsFinite
  <2>2. Filling = {} /\ \A i \in Playing : i = playback.group
    BY DEF Owned, IInv, Quiet
  <2>3. QED
    BY <2>1, <2>2 DEF Ready, Filling, Playing, IInv, Typed, IsSlot
<1>3. TailSlots # {}
  <2>1. 0 \in Slots /\ 1 \in Slots /\ 2 \in Slots
    BY Options DEF Slots, IInv
  <2>2. PICK j \in Slots : j # playback.group /\ j # reserved
    BY <2>1
  <2>3. QED
    BY <1>2, <2>2 DEF TailSlots
<1>4. TailSlots \subseteq Nat
  BY Options DEF TailSlots, Slots, IInv
<1>5. PICK x \in TailSlots : \A y \in TailSlots : x <= y
  BY <1>3, <1>4, Least
<1>6. Min(TailSlots) \in TailSlots
  BY <1>5 DEF Min
<1>7. QED
  BY <1>3, <1>4, <1>6 DEF TailSlot, None

\* A slot that plays, or is to play, is not under preparation.
LEMMA NotPreparing ==
  ASSUME IInv, NEW i, i \in Ready \/ (i = playback.group /\ i # None)
  PROVE  i # queue.preparing
<1>1. CASE i \in Ready
  BY <1>1, PreparingAlone, Options DEF Ready, IInv, Slots, None
<1>2. CASE i = playback.group /\ i # None
  <2>1. i \in Playing
    BY <1>2 DEF IInv, Owned
  <2>2. QED
    BY <2>1, PreparingAlone, Options DEF Playing, IInv, Slots, None
<1>3. QED
  BY <1>1, <1>2

LEMMA StoreTailInStep == ASSUME IInv, PInv, StoreTail PROVE PInv'
<1>1. /\ queue' = queue /\ queue.preparing = None /\ loop.pc = "tail"
      /\ worker' = [worker EXCEPT !.codewords = Data(global), !.previous = Data(global),
                                  !.raster = Redrawn(Data(global))]
      /\ loop' = [loop EXCEPT !.pc = "tail_stored"]
  BY DEF StoreTail, TailDue, Quiet, Goto
<1>2. WorkerKept'
  BY <1>1 DEF PInv, WorkerKept
<1>3. loop'.pc # "failed"
  BY <1>1 DEF IInv, Typed
<1>4. QED
  BY <1>1, <1>2, <1>3 DEF PInv, InStep, GivesUpForAReason

\* A tail fails only when its record cannot be read.
LEMMA TailFailsInStep == ASSUME IInv, PInv, TailFails PROVE PInv'
<1>1. TailSlot # None
  BY PageForTail DEF TailFails, TailDue
<1>2. fault' = "read"
  BY <1>1 DEF TailFails
<1>3. QED
  BY <1>2, ProducerLeft DEF TailFails, producer

LEMMA ActivateInStep == ASSUME IInv, PInv, Activate PROVE PInv'
<1>1. Earliest # queue.preparing
  BY EarliestReady, NotPreparing DEF Activate, IInv
<1>2. queue.preparing # None => slots'[queue.preparing] = slots[queue.preparing]
  BY <1>1, PreparingAlone DEF Activate, IInv, Typed
<1>3. queue'.preparing = queue.preparing
  BY DEF Activate, IInv, Typed
<1>4. loop'.pc = "failed" => fault' # "none"
  BY DEF Activate, Goto, IInv, Typed
<1>5. QED
  BY <1>2, <1>3, <1>4, ProducerLeft DEF Activate, producer

\* A patch is noted in the slot that plays.
LEMMA PatchInStep ==
  ASSUME IInv, PInv, playback.active, loop.pc # "failed",
         slots' = slots \/ slots' = [slots EXCEPT ![playback.group].applied = TRUE],
         UNCHANGED <<transfer, global, worker, queue>>, loop'.pc # "failed"
  PROVE  PInv'
<1>1. playback.group # queue.preparing
  BY NotPreparing DEF IInv, Staged
<1>2. queue.preparing # None => slots'[queue.preparing] = slots[queue.preparing]
  BY <1>1, PreparingAlone DEF IInv, Typed
<1>3. QED
  BY <1>2, ProducerLeft

LEMMA NextSymbolInStep == ASSUME IInv, PInv, NextSymbol PROVE PInv'
<1>1. /\ playback.active /\ loop.pc = "tick"
      /\ slots' = slots \/ slots' = [slots EXCEPT ![playback.group].applied = TRUE]
      /\ UNCHANGED <<transfer, global, worker, queue>>
      /\ loop' = [loop EXCEPT !.pc = "hidden"]
  BY DEF NextSymbol, Due, Goto, producer
<1>2. loop'.pc # "failed"
  BY <1>1 DEF IInv, Typed
<1>3. QED
  BY <1>1, <1>2, PatchInStep

LEMMA ApplyCorrectionInStep == ASSUME IInv, PInv, ApplyCorrection PROVE PInv'
<1>1. /\ loop.pc = "hidden"
      /\ slots' = slots \/ slots' = [slots EXCEPT ![playback.group].applied = TRUE]
      /\ UNCHANGED <<transfer, global, worker, queue>>
      /\ loop' = [loop EXCEPT !.pc = "claim"]
  BY DEF ApplyCorrection, Goto, producer
<1>2. playback.active /\ loop'.pc # "failed"
  BY <1>1 DEF IInv, Typed, Staged
<1>3. QED
  BY <1>1, <1>2, PatchInStep

LEMMA ReleaseGroupInStep == ASSUME IInv, PInv, ReleaseGroup PROVE PInv'
<1>1. playback.group # None /\ NextReady \in Ready
  BY NextReadyReady DEF ReleaseGroup, IInv, Staged
<1>2. playback.group # queue.preparing /\ NextReady # queue.preparing
  BY <1>1, NotPreparing
<1>3. queue.preparing # None => slots'[queue.preparing] = slots[queue.preparing]
  BY <1>2, PreparingAlone DEF ReleaseGroup, IInv, Typed
<1>4. queue'.preparing = queue.preparing
  BY DEF ReleaseGroup, IInv, Typed
<1>5. loop'.pc # "failed"
  BY DEF ReleaseGroup, Goto, IInv, Typed
<1>6. QED
  BY <1>3, <1>4, <1>5, ProducerLeft DEF ReleaseGroup, producer

LEMMA ReleaseTailInStep == ASSUME IInv, PInv, ReleaseTail PROVE PInv'
<1>1. queue.preparing = None
  BY DEF ReleaseTail, IInv, Staged, Quiet
<1>2. loop'.pc # "failed"
  BY DEF ReleaseTail, Onward, IInv, Typed
<1>3. QED
  BY <1>1, <1>2, ProducerLeft DEF ReleaseTail, producer

LEMMA ClaimsInStep == ASSUME IInv, PInv, PrefillClaim \/ LoopClaim PROVE PInv'
<1>1. UNCHANGED <<transfer, global>> /\ loop'.pc # "failed"
  <2>1. CASE PrefillClaim
    BY <2>1 DEF PrefillClaim
  <2>2. CASE LoopClaim
    <3> DEFINE pc == IF queue.preparing = None THEN "tail" ELSE "step"
    <3>1. CASE loop' = [loop EXCEPT !.claimed = FALSE, !.pc = pc]
      <4>1. pc # "failed" /\ loop \in LoopType
        BY DEF IInv, Typed
      <4> HIDE DEF pc
      <4>2. QED
        BY <2>2, <3>1, <4>1 DEF LoopClaim
    <3>2. CASE \/ loop' = [pc |-> "step", claimed |-> TRUE, tailPending |-> FALSE]
               \/ loop' = [pc |-> "tail", claimed |-> FALSE, tailPending |-> TRUE]
      BY <2>2, <3>2 DEF LoopClaim
    <3>3. QED
      BY <2>2, <3>1, <3>2 DEF LoopClaim
  <2>3. QED
    BY <2>1, <2>2
<1>2. CASE ClaimGroup
  BY <1>1, <1>2, ClaimInStep
<1>3. CASE UNCHANGED <<slots, queue, worker>>
  BY <1>1, <1>3, ProducerLeft
<1>4. QED
  BY <1>2, <1>3 DEF PrefillClaim, LoopClaim

\* Steps that leave the producer and its slots alone.
LEMMA OthersInStep ==
  ASSUME IInv, PInv,
         \/ PrefillEnd \/ TickIdle \/ TickEarly \/ Handoff \/ Underrun \/ Drain
         \/ ShowTail \/ NoTail \/ Deadline
  PROVE  PInv'
<1>1. UNCHANGED <<transfer, global, worker, slots, queue>>
  BY DEF PrefillEnd, TickIdle, TickEarly, Handoff, Underrun, Drain, ShowTail, NoTail,
     Deadline, producer
<1>2. loop'.pc # "failed"
  BY DEF PrefillEnd, TickIdle, TickEarly, Handoff, Underrun, Drain, ShowTail, NoTail,
     Deadline, Goto, Onward, IInv, Typed
<1>3. QED
  BY <1>1, <1>2, ProducerLeft

LEMMA InitPInv == ASSUME Init PROVE PInv
BY DEF Init, PInv, WorkerKept, InStep, GivesUpForAReason

LEMMA NextPInv == ASSUME IInv, PInv, [Next]_vars PROVE PInv'
<1>1. CASE PlaybackTick
  BY <1>1, OthersInStep, ActivateInStep, NextSymbolInStep, ApplyCorrectionInStep,
     ReleaseGroupInStep DEF PlaybackTick
<1>2. CASE Produce
  BY <1>2, BeginInStep, PlaneInStep, StoreInStep, CorrectInStep DEF Produce
<1>3. CASE Tail
  BY <1>3, OthersInStep, StoreTailInStep, TailFailsInStep, ReleaseTailInStep DEF Tail
<1>4. CASE UNCHANGED vars
  BY <1>4, ProducerLeft DEF vars, PInv, GivesUpForAReason
<1>5. QED
  BY <1>1, <1>2, <1>3, <1>4, ClaimsInStep, OthersInStep DEF Next, Loop

\* The sender gives up only when a file cannot be read on or Esc is pressed: the
\* check of a group's header against its window, and the search for a page for a
\* tail, never fail (main.c:575-1086, 1323-1409).
THEOREM GivesUpForAReasonHolds == Spec => []GivesUpForAReason
<1>1. Init => PInv
  BY InitPInv
<1>2. IInv /\ PInv /\ [Next]_vars => PInv'
  BY NextPInv
<1>3. PInv => GivesUpForAReason
  BY DEF PInv
<1>4. QED
  BY <1>1, <1>2, <1>3, Invariance, PTL DEF Spec


-----------------------------------------------------------------------------
(* What the pages hold.                                                    *)

\* The image of plane p of a group of w planes that starts at a record, and what
\* is XORed into it.
PlaneOf(w, start, p, applied) ==
  [image |-> <<"basis", start, p, start, start + p>>,
   patches |-> IF p = 0 /\ applied THEN {<<start, start..(start + w - 1)>>} ELSE {}]

\* The planes a slot under preparation has stored, and those of a finished one.
Made(w, s, page) ==
  /\ s.state = "filling" =>
       \A p \in 0..(w - 1) : p < s.stage => page[p] = PlaneOf(w, s.start, p, FALSE)
  /\ s.state \in {"ready", "playing"} =>
       /\ s.patch = <<s.start, s.start..(s.start + w - 1)>>
       /\ \A p \in 0..(w - 1) : page[p] = PlaneOf(w, s.start, p, s.applied)

Pages ==
  /\ vram = [i \in Slots |-> vram[i]]
  /\ \A i \in Slots : vram[i] = [p \in Planes |-> vram[i][p]]
  /\ \A i \in Slots : Made(Width, slots[i], vram[i])

\* The plane in the work memory is the next one of the group.
Work ==
  /\ worker.phase \in {"begin", "encode", "matrix", "delta", "store"}
  /\ worker.raster = worker.previous
  /\ queue.preparing # None =>
       /\ slots[queue.preparing].overlap <= 3
       /\ worker.parity =
            slots[queue.preparing].start..(slots[queue.preparing].start + Begun - 1)
       /\ worker.phase # "begin" =>
            worker.codewords = Genuine(slots[queue.preparing].start, slots[queue.preparing].stage)
       /\ worker.phase = "store" => worker.raster = worker.codewords

\* The patch is in for the parity symbol, and never for the first plane.
Corrected ==
  playback.group # None =>
    /\ playback.symbol \in 0..Width
    /\ slots[playback.group].applied => playback.symbol > 0
    /\ playback.symbol = Width => slots[playback.group].applied

QInv == Pages /\ Work /\ Corrected

-----------------------------------------------------------------------------
(* What a step leaves alone.                                               *)

LEMMA Widths ==
  ASSUME IInv
  PROVE  Width \in {3, 4} /\ Width \in Nat
BY Options DEF IInv

LEMMA WidthLeft == ASSUME transfer' = transfer PROVE Width' = Width
BY DEF Width

\* Pages whose slot is free, or which are left alone with their slot, are as
\* they must be.
LEMMA PagesLeft ==
  ASSUME Pages, transfer' = transfer, vram' = vram,
         \A i \in Slots : slots'[i] = slots[i] \/ slots'[i].state = "free"
  PROVE  Pages'
<1>1. Width' = Width
  BY WidthLeft
<1>2. ASSUME NEW i \in Slots PROVE Made(Width, slots'[i], vram'[i])
  <2>1. CASE slots'[i] = slots[i]
    BY <2>1 DEF Pages
  <2>2. CASE slots'[i].state = "free"
    BY <2>2 DEF Made
  <2>3. QED
    BY <2>1, <2>2
<1>3. QED
  BY <1>1, <1>2 DEF Pages

LEMMA WorkLeft ==
  ASSUME Work, transfer' = transfer, worker' = worker, queue'.preparing = queue.preparing,
         queue.preparing # None => slots'[queue.preparing] = slots[queue.preparing]
  PROVE  Work'
BY DEF Work, Begun

LEMMA CorrectedLeft ==
  ASSUME Corrected, transfer' = transfer, playback'.group = playback.group,
         playback'.symbol = playback.symbol,
         playback.group # None => slots'[playback.group] = slots[playback.group]
  PROVE  Corrected'
BY WidthLeft DEF Corrected

-----------------------------------------------------------------------------
(* The steps of the producer.                                              *)

\* A claimed slot holds nothing yet.
LEMMA ClaimPages ==
  ASSUME IInv, PInv, QInv, ClaimGroup, UNCHANGED <<transfer, global, vram, playback>>
  PROVE  QInv'
<1> DEFINE t == ClaimTarget
           c == [state |-> "filling", start |-> Start, index |-> Start % Window,
                 count |-> WindowCount(global), overlap |-> Overlap,
                 ordinal |-> queue.ordinal + 1, stage |-> 0,
                 patch |-> <<>>, applied |-> FALSE]
<1>1. /\ Fits /\ global < Total /\ Typed /\ slots[t].state = "free"
      /\ slots' = [slots EXCEPT ![t] = c]
      /\ queue' = [queue EXCEPT !.tail = t, !.preparing = t, !.ordinal = @ + 1]
      /\ worker' = [worker EXCEPT !.phase = "begin", !.parity = {}]
  BY DEF ClaimGroup, CanClaim, MayClaim, IInv, ClearedParity
<1>2. t \in Slots
  BY <1>1, TargetIsSlot
<1>3. Start \in Nat /\ Overlap \in Nat /\ history.count \in 0..3
  BY <1>1, GroupFits DEF Typed
<1>4. Overlap <= 3
  BY <1>1, <1>3 DEF Fits
<1>5. /\ c.stage = 0 /\ c.start = Start /\ c.overlap = Overlap /\ c.state = "filling"
  OBVIOUS
<1>6. Width \in Nat
  BY Widths
<1> HIDE DEF t, c
<1>7. /\ slots'[t] = c /\ queue'.preparing = t
      /\ \A i \in Slots : i # t => slots'[i] = slots[i]
  BY <1>1, <1>2 DEF Typed
<1>8. /\ worker'.phase = "begin" /\ worker'.parity = {}
      /\ worker'.raster = worker.raster /\ worker'.previous = worker.previous
  BY <1>1 DEF PInv, WorkerKept
<1>9. Pages'
  <2>1. Width' = Width
    BY WidthLeft
  <2>2. ASSUME NEW i \in Slots PROVE Made(Width, slots'[i], vram[i])
    <3>1. CASE i = t
      <4>1. slots'[i].state = "filling" /\ slots'[i].stage = 0
        BY <1>5, <1>7, <3>1
      <4>2. \A p \in 0..(Width - 1) : ~(p < 0)
        BY <1>6
      <4>3. QED
        BY <4>1, <4>2 DEF Made
    <3>2. CASE i # t
      BY <1>7, <3>2 DEF QInv, Pages
    <3>3. QED
      BY <3>1, <3>2
  <2>3. QED
    BY <2>1, <2>2 DEF QInv, Pages
<1>10. Work'
  <2>1. Begun' = 0
    BY <1>5, <1>7, <1>8 DEF Begun
  <2>2. {} = c.start..(c.start + 0 - 1)
    BY <1>3, <1>5
  <2>3. QED
    BY <1>4, <1>5, <1>7, <1>8, <2>1, <2>2 DEF QInv, Work
<1>11. Corrected'
  <2>1. playback.group # t \/ playback.group = None
    BY <1>1, <1>2 DEF IInv, Owned, Playing
  <2>2. playback.group # None => slots'[playback.group] = slots[playback.group]
    BY <1>7, <2>1 DEF IInv, Typed
  <2>3. QED
    BY <2>2, CorrectedLeft DEF QInv
<1>12. QED
  BY <1>9, <1>10, <1>11 DEF QInv

\* The record that is encoded is the next of the group, also when it is taken from
\* the last three.
LEMMA BeginWork ==
  ASSUME IInv, PInv, QInv, Begin
  PROVE  Work'
<1> DEFINE f == slots[queue.preparing]
<1>1. /\ queue.preparing # None /\ worker.phase = "begin" /\ f.stage < Width
      /\ UNCHANGED <<transfer, slots, queue>>
  BY DEF Begin, BeginOverlap, BeginNext, ReadFails, Producing, filling
<1>2. f.stage \in Nat /\ f.overlap \in Nat /\ f.start \in Nat /\ global \in Nat
      /\ history.count = (IF global < 3 THEN global ELSE 3) /\ Typed /\ HistoryKept
  BY <1>1, PreparingAlone DEF IsSlot, IInv, Typed, HistoryKept
<1>3. global = f.start + (IF f.stage < f.overlap THEN f.overlap ELSE f.stage)
  BY <1>1, <1>2 DEF PInv, InStep, Begun
<1>4. /\ f.overlap <= 3 /\ worker.parity = f.start..(f.start + f.stage - 1)
      /\ worker.raster = worker.previous
  BY <1>1, <1>2 DEF QInv, Work, Begun
<1>5. CASE worker' = worker
  BY <1>1, <1>5, WorkLeft DEF QInv
<1>6. CASE worker' = [worker EXCEPT
             !.parity = IF f.start + f.stage \in @ THEN @ \ {f.start + f.stage}
                                                   ELSE @ \union {f.start + f.stage},
             !.keystream = f.start,
             !.codewords = Basis(f.start, f.stage, f.start, f.start + f.stage),
             !.phase = "encode"]
  <2>1. /\ worker'.phase = "encode" /\ worker'.raster = worker.raster
        /\ worker'.previous = worker.previous
        /\ worker'.codewords = Basis(f.start, f.stage, f.start, f.start + f.stage)
        /\ worker'.parity = IF f.start + f.stage \in worker.parity
                            THEN worker.parity \ {f.start + f.stage}
                            ELSE worker.parity \union {f.start + f.stage}
    <3> HIDE DEF f
    <3>1. QED
      BY <1>6 DEF PInv, WorkerKept
  <2>2. worker'.parity = f.start..(f.start + (f.stage + 1) - 1)
    <3> HIDE DEF f
    <3>1. f.start + f.stage \notin worker.parity
      BY <1>2, <1>4
    <3>2. worker'.parity = worker.parity \union {f.start + f.stage}
      BY <2>1, <3>1
    <3>3. QED
      BY <1>2, <1>4, <3>2
  <2>3. Begun' = f.stage + 1
    BY <1>1, <2>1 DEF Begun
  <2>4. worker'.codewords = Genuine(f.start, f.stage)
    BY <2>1 DEF Genuine
  <2>5. QED
    BY <1>1, <1>4, <2>1, <2>2, <2>3, <2>4 DEF Work, Genuine, Basis
<1>7. CASE BeginOverlap
  <2>1. f.stage < f.overlap
    BY <1>7 DEF BeginOverlap, filling
  <2>2. HistoryRecord(history.count - (f.overlap - f.stage)) = f.start + f.stage
    <3> DEFINE k == f.overlap - f.stage
    <3>1. k \in 1..3 /\ k <= history.count /\ global - k = f.start + f.stage
      <4> HIDE DEF f
      <4>1. QED
        BY <1>2, <1>3, <1>4, <2>1
    <3> HIDE DEF k
    <3>2. HistoryRecord(history.count - k) = global - k
      BY <1>2, <3>1, Recalled
    <3>3. QED
      BY <3>1, <3>2 DEF k
  <2>3. history.count - f.overlap + f.stage = history.count - (f.overlap - f.stage)
    <3> HIDE DEF f
    <3>1. QED
      BY <1>2
  <2>4. Encoded(f.start + f.stage, f.index + f.stage, f.count)
    BY <1>7, <2>2, <2>3 DEF BeginOverlap, filling
  <2>5. QED
    BY <1>5, <1>6, <2>4 DEF Encoded, filling
<1>8. CASE BeginNext
  <2>1. ~(f.stage < f.overlap)
    BY <1>2, <1>8 DEF BeginNext, filling
  <2>2. global = f.start + f.stage
    BY <1>3, <2>1
  <2>3. Encoded(f.start + f.stage, global % Window, WindowCount(global))
    BY <1>8, <2>2 DEF BeginNext
  <2>4. QED
    BY <1>5, <1>6, <2>3 DEF Encoded, filling
<1>9. CASE ReadFails
  BY <1>5, <1>9 DEF ReadFails
<1>10. QED
  BY <1>7, <1>8, <1>9 DEF Begin

LEMMA BeginPages == ASSUME IInv, PInv, QInv, Begin PROVE QInv'
<1>1. UNCHANGED <<transfer, slots, queue, vram, playback>>
  BY DEF Begin
<1>2. Pages'
  BY <1>1, PagesLeft DEF QInv
<1>3. Corrected'
  BY <1>1, CorrectedLeft DEF QInv
<1>4. QED
  BY <1>2, <1>3, BeginWork DEF QInv

\* What is drawn is what was encoded: the raster holds the codewords before.
LEMMA DrawPages == ASSUME IInv, PInv, QInv, Encode \/ Draw PROVE QInv'
<1>1. /\ UNCHANGED <<transfer, slots, queue, vram, playback>>
      /\ worker.phase # "begin"
  BY DEF Encode, Draw, Producing
<1>2. Pages' /\ Corrected'
  BY <1>1, PagesLeft, CorrectedLeft DEF QInv
<1>3. worker.raster = worker.previous
  BY DEF QInv, Work
<1>4. CASE Encode
  <2>1. /\ worker'.phase \in {"matrix", "delta"} /\ worker'.raster = worker.raster
        /\ worker'.previous = worker.previous /\ worker'.codewords = worker.codewords
        /\ worker'.parity = worker.parity
    BY <1>4 DEF Encode, PInv, WorkerKept
  <2>2. Begun' = Begun
    BY <1>1, <2>1 DEF Begun
  <2>3. Work'
    BY <1>1, <1>3, <2>1, <2>2 DEF QInv, Work, Genuine, Basis
  <2>4. QED
    BY <1>2, <2>3 DEF QInv
<1>5. CASE Draw
  <2>1. /\ worker'.phase = "store" /\ worker'.raster = worker.codewords
        /\ worker'.previous = worker.codewords /\ worker'.codewords = worker.codewords
        /\ worker'.parity = worker.parity
    BY <1>3, <1>5 DEF Draw, Redrawn, PInv, WorkerKept
  <2>2. Begun' = Begun
    BY <1>1, <2>1 DEF Begun
  <2>3. Work'
    BY <1>1, <2>1, <2>2 DEF QInv, Work, Genuine, Basis
  <2>4. QED
    BY <1>2, <2>3 DEF QInv
<1>6. QED
  BY <1>4, <1>5

\* A plane is stored in the page of its own slot.
LEMMA StorePages == ASSUME IInv, PInv, QInv, Store PROVE QInv'
<1> DEFINE p == queue.preparing
           f == slots[p]
           n == f.stage
<1>1. /\ p # None /\ worker.phase = "store" /\ n < Width
      /\ slots' = [slots EXCEPT ![p].stage = @ + 1]
      /\ worker' = [worker EXCEPT !.phase = "begin"]
      /\ vram' = [vram EXCEPT ![p][n] = Plain(worker.raster)]
      /\ UNCHANGED <<transfer, queue, playback>>
  BY DEF Store, Producing, filling
<1>2. p \in Slots /\ f.state = "filling" /\ IsSlot(f)
  BY <1>1, PreparingAlone
<1>3. worker.raster = Genuine(f.start, n)
  BY <1>1 DEF QInv, Work
<1>4. /\ worker'.phase = "begin" /\ worker'.raster = worker.raster
      /\ worker'.previous = worker.previous /\ worker'.parity = worker.parity
  BY <1>1 DEF PInv, WorkerKept
<1>5. slots'[p] = [f EXCEPT !.stage = @ + 1] /\ \A i \in Slots : i # p => slots'[i] = slots[i]
  BY <1>1, <1>2 DEF IInv, Typed
<1>6. n \in Nat /\ Width \in {3, 4} /\ n \in Planes
  BY <1>1, <1>2, Widths DEF IsSlot, Planes
<1>7. /\ vram'[p] = [vram[p] EXCEPT ![n] = Plain(worker.raster)]
      /\ vram' = [i \in Slots |-> vram'[i]]
      /\ \A i \in Slots : i # p => vram'[i] = vram[i]
  <2> HIDE DEF p, n
  <2>1. QED
    BY <1>1, <1>2 DEF QInv, Pages
<1> HIDE DEF f
<1>8. /\ slots'[p].stage = n + 1 /\ slots'[p].start = f.start /\ slots'[p].state = "filling"
      /\ slots'[p].overlap = f.overlap /\ f.start \in Nat
  BY <1>2, <1>5 DEF IsSlot
<1>9. vram'[p] = [x \in Planes |-> IF x = n THEN Plain(worker.raster) ELSE vram[p][x]]
  <2>1. vram[p] = [x \in Planes |-> vram[p][x]]
    BY <1>2 DEF QInv, Pages
  <2> HIDE DEF p, n
  <2>2. QED
    BY <1>6, <1>7, <2>1
<1> HIDE DEF n
<1>10. Pages'
  <2>1. Width' = Width
    BY <1>1, WidthLeft
  <2>2. ASSUME NEW x \in 0..(Width - 1), x < n + 1
        PROVE  vram'[p][x] = PlaneOf(Width, f.start, x, FALSE)
    <3>1. x \in Planes
      BY <1>6 DEF Planes
    <3>2. CASE x = n
      <4>1. vram'[p][x] = Plain(Genuine(f.start, n))
        BY <1>3, <1>9, <3>1, <3>2
      <4>2. QED
        BY <3>2, <4>1 DEF Plain, Genuine, Basis, PlaneOf
    <3>3. CASE x # n
      <4>1. x < n
        BY <1>6, <2>2, <3>3
      <4>2. vram[p][x] = PlaneOf(Width, f.start, x, FALSE)
        BY <1>2, <4>1 DEF QInv, Pages, Made, f, n
      <4>3. QED
        BY <1>9, <3>1, <3>3, <4>2
    <3>4. QED
      BY <3>2, <3>3
  <2>3. ASSUME NEW i \in Slots PROVE Made(Width, slots'[i], vram'[i])
    <3>1. CASE i = p
      BY <1>8, <2>2, <3>1 DEF Made
    <3>2. CASE i # p
      BY <1>5, <1>7, <3>2 DEF QInv, Pages
    <3>3. QED
      BY <3>1, <3>2
  <2>4. \A i \in Slots : vram'[i] = [x \in Planes |-> vram'[i][x]]
    <3>1. vram'[p] = [x \in Planes |-> vram'[p][x]]
      BY <1>9
    <3>2. QED
      BY <1>7, <3>1 DEF QInv, Pages
  <2>5. QED
    BY <1>7, <2>1, <2>3, <2>4 DEF Pages
<1>11. Work'
  <2>1. Begun' = Begun
    BY <1>1, <1>4, <1>6, <1>8 DEF Begun, p, f, n
  <2>2. QED
    BY <1>1, <1>4, <1>8, <2>1 DEF QInv, Work, p, f, n
<1>12. Corrected'
  <2>1. playback.group # p \/ playback.group = None
    BY <1>2 DEF IInv, Owned, Playing, f
  <2>2. playback.group # None => slots'[playback.group] = slots[playback.group]
    BY <1>5, <2>1 DEF IInv, Typed
  <2>3. QED
    BY <1>1, <2>2, CorrectedLeft DEF QInv
<1>13. QED
  BY <1>10, <1>11, <1>12 DEF QInv

\* A slot that becomes ready holds all its planes and the patch they need.
LEMMA CorrectPages == ASSUME IInv, PInv, QInv, Correct PROVE QInv'
<1> DEFINE p == queue.preparing
           f == slots[p]
           patch == <<f.start, worker.parity>>
<1>1. /\ p # None /\ f.stage = Width
      /\ slots' = [slots EXCEPT ![p].state = "ready", ![p].patch = patch]
      /\ worker' = [worker EXCEPT !.phase = "begin"]
      /\ queue' = [queue EXCEPT !.ready = @ + 1, !.preparing = None,
                                !.tail = (@ + 1) % SlotCount]
      /\ UNCHANGED <<transfer, playback, vram>>
  BY DEF Correct, filling
<1>2. p \in Slots /\ f.state = "filling" /\ IsSlot(f)
  BY <1>1, PreparingAlone
<1>3. Width \in {3, 4} /\ Width \in Nat
  BY Widths
<1>4. Begun = Width
  BY <1>1, <1>3 DEF PInv, InStep, Begun
<1>5. worker.parity = f.start..(f.start + Width - 1)
  BY <1>1, <1>4 DEF QInv, Work
<1>6. ~f.applied
  BY <1>2 DEF IInv, Owned
<1>7. \A x \in 0..(Width - 1) : vram[p][x] = PlaneOf(Width, f.start, x, FALSE)
  <2>1. Made(Width, f, vram[p])
    BY <1>2 DEF QInv, Pages
  <2> HIDE DEF f, p
  <2>2. \A x \in 0..(Width - 1) : x < f.stage
    BY <1>1, <1>3
  <2>3. QED
    BY <1>2, <2>1, <2>2 DEF Made
<1>8. slots'[p] = [f EXCEPT !.state = "ready", !.patch = patch]
      /\ \A i \in Slots : i # p => slots'[i] = slots[i]
  <2> HIDE DEF patch
  <2>1. QED
    BY <1>1, <1>2 DEF IInv, Typed
<1> HIDE DEF p, f, patch
<1>9. /\ slots'[p].state = "ready" /\ slots'[p].patch = patch
      /\ slots'[p].start = f.start /\ slots'[p].applied = FALSE
  BY <1>2, <1>6, <1>8 DEF IsSlot
<1>10. Pages'
  <2>1. Width' = Width
    BY <1>1, WidthLeft
  <2>2. ASSUME NEW i \in Slots PROVE Made(Width, slots'[i], vram[i])
    <3>1. CASE i = p
      BY <1>5, <1>7, <1>9, <3>1 DEF Made, patch
    <3>2. CASE i # p
      BY <1>8, <3>2 DEF QInv, Pages
    <3>3. QED
      BY <3>1, <3>2
  <2>3. QED
    BY <1>1, <2>1, <2>2 DEF QInv, Pages
<1>11. Work'
  <2>1. queue'.preparing = None
    <3>1. queue \in QueueType
      BY DEF IInv, Typed
    <3>2. QED
      BY <1>1, <3>1
  <2>2. worker'.phase = "begin" /\ worker'.raster = worker.raster
        /\ worker'.previous = worker.previous
    BY <1>1 DEF PInv, WorkerKept
  <2>3. QED
    BY <2>1, <2>2 DEF QInv, Work
<1>12. Corrected'
  <2>1. playback.group # p \/ playback.group = None
    BY <1>2 DEF IInv, Owned, Playing, f
  <2>2. playback.group # None => slots'[playback.group] = slots[playback.group]
    BY <1>8, <2>1 DEF IInv, Typed
  <2>3. QED
    BY <1>1, <2>2, CorrectedLeft DEF QInv
<1>13. QED
  BY <1>10, <1>11, <1>12 DEF QInv

-----------------------------------------------------------------------------
(* The steps of playback and of the tail.                                  *)

\* A slot with pages of its own is not the one a tail is stored in.
LEMMA TailPage ==
  ASSUME IInv, Quiet
  PROVE  /\ TailSlot \in Slots /\ slots[TailSlot].state = "free"
         /\ TailSlot # reserved /\ TailSlot # playback.group
<1>1. TailSlot # None
  BY PageForTail
<1>2. TailSlots # {} /\ TailSlot = Min(TailSlots)
  BY <1>1 DEF TailSlot
<1>3. TailSlots \subseteq Nat
  BY Options DEF TailSlots, Slots, IInv
<1>4. PICK x \in TailSlots : \A y \in TailSlots : x <= y
  BY <1>2, <1>3, Least
<1>5. Min(TailSlots) \in TailSlots
  BY <1>4 DEF Min
<1>6. QED
  BY <1>2, <1>5 DEF TailSlots

LEMMA StoreTailPages == ASSUME IInv, PInv, QInv, StoreTail PROVE QInv'
<1> DEFINE t == TailSlot
           page == [p \in Planes |-> Plain(worker'.raster)]
<1>1. /\ Quiet /\ UNCHANGED <<transfer, slots, queue, playback>>
      /\ worker' = [worker EXCEPT !.codewords = Data(global), !.previous = Data(global),
                                  !.raster = Redrawn(Data(global))]
      /\ vram' = [vram EXCEPT ![t] = page]
  BY DEF StoreTail, TailDue
<1>2. t \in Slots /\ slots[t].state = "free"
  BY <1>1, TailPage
<1>3. page = [p \in Planes |-> page[p]]
  OBVIOUS
<1> HIDE DEF t, page
<1>4. vram'[t] = page /\ vram' = [i \in Slots |-> vram'[i]]
      /\ \A i \in Slots : i # t => vram'[i] = vram[i]
  BY <1>1, <1>2 DEF QInv, Pages
<1>5. Pages'
  <2>1. Width' = Width
    BY <1>1, WidthLeft
  <2>2. ASSUME NEW i \in Slots PROVE Made(Width, slots[i], vram'[i])
    <3>1. CASE i = t
      BY <1>2, <3>1 DEF Made
    <3>2. CASE i # t
      BY <1>4, <3>2 DEF QInv, Pages
    <3>3. QED
      BY <3>1, <3>2
  <2>3. \A i \in Slots : vram'[i] = [x \in Planes |-> vram'[i][x]]
    BY <1>3, <1>4 DEF QInv, Pages
  <2>4. QED
    BY <1>1, <1>4, <2>1, <2>2, <2>3 DEF Pages
<1>6. Work'
  <2>1. worker.raster = worker.previous /\ queue.preparing = None
    BY <1>1 DEF QInv, Work, Quiet
  <2>2. worker'.raster = Data(global) /\ worker'.previous = Data(global)
        /\ worker'.phase = worker.phase
    BY <1>1, <2>1 DEF PInv, WorkerKept, Redrawn
  <2>3. QED
    BY <1>1, <2>1, <2>2 DEF QInv, Work
<1>7. Corrected'
  BY <1>1, CorrectedLeft DEF QInv
<1>8. QED
  BY <1>5, <1>6, <1>7 DEF QInv

LEMMA ActivatePages == ASSUME IInv, PInv, QInv, Activate PROVE QInv'
<1> DEFINE e == Earliest
<1>1. /\ slots' = [slots EXCEPT ![e].state = "playing"]
      /\ UNCHANGED <<transfer, worker, vram>>
      /\ playback'.group = e /\ playback'.symbol = 0
      /\ queue'.preparing = queue.preparing
      /\ queue.ready > 0
  <2>1. queue \in QueueType /\ playback \in PlaybackType
    BY DEF IInv, Typed
  <2>2. playback'.group = e /\ playback'.symbol = 0
    <3>1. \/ playback' = [group |-> e, symbol |-> 0, active |-> TRUE, focus |-> FALSE]
          \/ playback' = [playback EXCEPT !.group = e, !.symbol = 0]
      BY DEF Activate
    <3> HIDE DEF e
    <3>2. CASE playback' = [group |-> e, symbol |-> 0, active |-> TRUE, focus |-> FALSE]
      BY <3>2
    <3>3. CASE playback' = [playback EXCEPT !.group = e, !.symbol = 0]
      BY <2>1, <3>3
    <3>4. QED
      BY <3>1, <3>2, <3>3
  <2>3. QED
    BY <2>1, <2>2 DEF Activate, producer
<1>2. e \in Slots /\ e \in Ready /\ slots[e].state = "ready" /\ IsSlot(slots[e])
  BY <1>1, EarliestReady DEF Ready, IInv, Typed
<1>3. e # queue.preparing
  BY <1>2, NotPreparing
<1> HIDE DEF e
<1>4. slots'[e] = [slots[e] EXCEPT !.state = "playing"]
      /\ \A i \in Slots : i # e => slots'[i] = slots[i]
  BY <1>1, <1>2 DEF IInv, Typed
<1>5. /\ slots'[e].state = "playing" /\ slots'[e].patch = slots[e].patch
      /\ slots'[e].start = slots[e].start /\ slots'[e].applied = slots[e].applied
  BY <1>2, <1>4 DEF IsSlot
<1>6. Pages'
  <2>1. Width' = Width
    BY <1>1, WidthLeft
  <2>2. ASSUME NEW i \in Slots PROVE Made(Width, slots'[i], vram[i])
    <3>1. CASE i = e
      <4>1. Made(Width, slots[e], vram[e])
        BY <1>2 DEF QInv, Pages
      <4>2. QED
        BY <1>2, <1>5, <3>1, <4>1 DEF Made
    <3>2. CASE i # e
      BY <1>4, <3>2 DEF QInv, Pages
    <3>3. QED
      BY <3>1, <3>2
  <2>3. QED
    BY <1>1, <2>1, <2>2 DEF QInv, Pages
<1>7. Work'
  BY <1>1, <1>3, <1>4, WorkLeft, PreparingAlone DEF QInv
<1>8. Corrected'
  <2>1. ~slots[e].applied
    BY <1>2 DEF IInv, Owned
  <2>2. Width' = Width /\ Width \in {3, 4}
    BY <1>1, WidthLeft, Widths
  <2>3. QED
    BY <1>1, <1>5, <2>1, <2>2 DEF Corrected
<1>9. QED
  BY <1>6, <1>7, <1>8 DEF QInv

\* The patch of the group that plays goes in, once.
LEMMA PatchApplied ==
  ASSUME IInv, PInv, QInv, playback.group # None,
         ~slots[playback.group].applied,
         vram' = [vram EXCEPT ![playback.group] = Patched(@, slots[playback.group].patch)],
         slots' = [slots EXCEPT ![playback.group].applied = TRUE],
         UNCHANGED <<transfer, worker, queue>>
  PROVE  Pages' /\ Work' /\ slots'[playback.group].applied
<1> DEFINE g == playback.group
           f == slots[g]
<1>1. g \in Slots /\ f.state = "playing" /\ IsSlot(f) /\ g # queue.preparing
  BY NotPreparing DEF IInv, Typed, Owned, Playing
<1>2. Width \in {3, 4} /\ Width \in Nat
  BY Widths
<1>3. slots'[g] = [f EXCEPT !.applied = TRUE] /\ \A i \in Slots : i # g => slots'[i] = slots[i]
  BY <1>1 DEF IInv, Typed
<1>4. /\ f.patch = <<f.start, f.start..(f.start + Width - 1)>>
      /\ \A x \in 0..(Width - 1) : vram[g][x] = PlaneOf(Width, f.start, x, FALSE)
  <2>1. Made(Width, f, vram[g]) /\ ~f.applied
    BY <1>1 DEF QInv, Pages
  <2>2. f.applied = FALSE
    BY <1>1, <2>1 DEF IsSlot
  <2> HIDE DEF f, g
  <2>3. QED
    BY <1>1, <2>1, <2>2 DEF Made
<1>5. vram' = [vram EXCEPT ![g] = Patched(vram[g], f.patch)]
  OBVIOUS
<1> HIDE DEF g, f
<1>6. vram'[g] = Patched(vram[g], f.patch) /\ vram' = [i \in Slots |-> vram'[i]]
      /\ \A i \in Slots : i # g => vram'[i] = vram[i]
  <2> DEFINE page == Patched(vram[g], f.patch)
  <2>1. vram' = [vram EXCEPT ![g] = page]
    BY <1>5
  <2> HIDE DEF page
  <2>2. vram'[g] = page /\ vram' = [i \in Slots |-> vram'[i]]
        /\ \A i \in Slots : i # g => vram'[i] = vram[i]
    BY <1>1, <2>1 DEF QInv, Pages
  <2>3. QED
    BY <2>2 DEF page
<1>7. 0 \in Planes /\ 0 \in 0..(Width - 1) /\ vram[g] = [x \in Planes |-> vram[g][x]]
  BY <1>1, <1>2 DEF Planes, QInv, Pages
<1>8. vram[g][0] = [image |-> <<"basis", f.start, 0, f.start, f.start + 0>>, patches |-> {}]
  BY <1>4, <1>7 DEF PlaneOf
<1>9. /\ vram'[g] = [x \in Planes |-> vram'[g][x]]
      /\ \A x \in Planes : x # 0 => vram'[g][x] = vram[g][x]
      /\ vram'[g][0] = [image |-> <<"basis", f.start, 0, f.start, f.start + 0>>,
                        patches |-> {f.patch}]
  <2> DEFINE old == vram[g]
             new == [old[0] EXCEPT !.patches = IF f.patch \in @ THEN @ \ {f.patch}
                                               ELSE @ \union {f.patch}]
  <2>1. new = [image |-> <<"basis", f.start, 0, f.start, f.start + 0>>, patches |-> {f.patch}]
    <3> DEFINE r == old[0]
               image == <<"basis", f.start, 0, f.start, f.start + 0>>
    <3>1. r \in [image : {image}, patches : {{}}]
      BY <1>8
    <3>2. new = [r EXCEPT !.patches = {f.patch}]
      <4>1. f.patch \notin r.patches /\ r.patches \union {f.patch} = {f.patch}
        BY <1>8
      <4>2. QED
        BY <4>1
    <3> HIDE DEF r, image, new
    <3>3. new \in [image : {image}, patches : {{f.patch}}]
      BY <3>1, <3>2
    <3>4. QED
      BY <3>3 DEF image
  <2>2. vram'[g] = [old EXCEPT ![0] = new]
    BY <1>6, <1>7 DEF Patched
  <2> HIDE DEF new
  <2>3. QED
    BY <1>7, <2>1, <2>2
<1>10. slots'[g].state = "playing" /\ slots'[g].patch = f.patch
       /\ slots'[g].start = f.start /\ slots'[g].applied = TRUE
  BY <1>1, <1>3 DEF IsSlot
<1>11. Pages'
  <2>1. Width' = Width
    BY WidthLeft
  <2>2. ASSUME NEW x \in 0..(Width - 1)
        PROVE  vram'[g][x] = PlaneOf(Width, f.start, x, TRUE)
    <3>1. CASE x = 0
      BY <1>4, <1>9, <3>1 DEF PlaneOf
    <3>2. CASE x # 0
      <4>1. x \in Planes
        BY <1>2 DEF Planes
      <4>2. vram'[g][x] = PlaneOf(Width, f.start, x, FALSE)
        BY <1>4, <1>9, <3>2, <4>1
      <4>3. QED
        BY <3>2, <4>2 DEF PlaneOf
    <3>3. QED
      BY <3>1, <3>2
  <2>3. ASSUME NEW i \in Slots PROVE Made(Width, slots'[i], vram'[i])
    <3>1. CASE i = g
      BY <1>4, <1>10, <2>2, <3>1 DEF Made
    <3>2. CASE i # g
      BY <1>3, <1>6, <3>2 DEF QInv, Pages
    <3>3. QED
      BY <3>1, <3>2
  <2>4. \A i \in Slots : vram'[i] = [x \in Planes |-> vram'[i][x]]
    BY <1>6, <1>9 DEF QInv, Pages
  <2>5. QED
    BY <1>6, <2>1, <2>3, <2>4 DEF Pages
<1>12. Work'
  BY <1>1, <1>3, WorkLeft, PreparingAlone DEF QInv
<1>13. QED
  BY <1>10, <1>11, <1>12 DEF g

LEMMA NextSymbolPages == ASSUME IInv, PInv, QInv, NextSymbol PROVE QInv'
<1> DEFINE g == playback.group
           s == playback.symbol + 1
<1>1. /\ playback.active /\ playback.symbol < Width
      /\ playback' = [playback EXCEPT !.symbol = s]
      /\ UNCHANGED <<transfer, worker, queue>>
      /\ IF s = Width /\ ~slots[g].applied
         THEN /\ vram' = [vram EXCEPT ![g] = Patched(@, slots[g].patch)]
              /\ slots' = [slots EXCEPT ![g].applied = TRUE]
         ELSE UNCHANGED <<vram, slots>>
  BY DEF NextSymbol, Due, producer, current
<1>2. g # None /\ playback.symbol \in 0..Width /\ Width \in {3, 4} /\ Width' = Width
  BY <1>1, Widths, WidthLeft DEF IInv, Staged, QInv, Corrected
<1>3. playback'.group = g /\ playback'.symbol = s
  BY <1>1 DEF IInv, Typed
<1>4. CASE s = Width /\ ~slots[g].applied
  <2>1. Pages' /\ Work' /\ slots'[g].applied
    BY <1>1, <1>2, <1>4, PatchApplied
  <2>2. QED
    BY <1>2, <1>3, <1>4, <2>1 DEF QInv, Corrected
<1>5. CASE ~(s = Width /\ ~slots[g].applied)
  <2>1. UNCHANGED <<vram, slots>>
    BY <1>1, <1>5
  <2>2. Pages' /\ Work'
    BY <1>1, <2>1, PagesLeft, WorkLeft DEF QInv
  <2>3. s \in 0..Width /\ s > 0
    BY <1>1, <1>2
  <2>4. QED
    BY <1>2, <1>3, <1>5, <2>1, <2>2, <2>3 DEF QInv, Corrected
<1>6. QED
  BY <1>4, <1>5

LEMMA ApplyCorrectionPages == ASSUME IInv, PInv, QInv, ApplyCorrection PROVE QInv'
<1> DEFINE g == playback.group
<1>1. /\ loop.pc = "hidden"
      /\ UNCHANGED <<transfer, worker, queue, playback>>
      /\ IF playback.symbol = 1 /\ ~slots[g].applied
         THEN /\ vram' = [vram EXCEPT ![g] = Patched(@, slots[g].patch)]
              /\ slots' = [slots EXCEPT ![g].applied = TRUE]
         ELSE UNCHANGED <<vram, slots>>
  BY DEF ApplyCorrection, producer, current
<1>2. g # None /\ Width \in {3, 4} /\ Width' = Width
  BY <1>1, Widths, WidthLeft DEF IInv, Staged
<1>3. CASE playback.symbol = 1 /\ ~slots[g].applied
  <2>1. Pages' /\ Work' /\ slots'[g].applied
    BY <1>1, <1>2, <1>3, PatchApplied
  <2>2. QED
    BY <1>1, <1>2, <1>3, <2>1 DEF QInv, Corrected
<1>4. CASE ~(playback.symbol = 1 /\ ~slots[g].applied)
  BY <1>1, <1>4, PagesLeft, WorkLeft, CorrectedLeft DEF QInv
<1>5. QED
  BY <1>3, <1>4

\* A page that is given up keeps its shape; the other pages are left alone.
LEMMA PageReleased ==
  ASSUME Pages, NEW g \in Slots, Released(g)
  PROVE  /\ vram' = [i \in Slots |-> vram'[i]]
         /\ \A i \in Slots : vram'[i] = [x \in Planes |-> vram'[i][x]]
         /\ \A i \in Slots : i # g => vram'[i] = vram[i]
<1> DEFINE page == Patched(vram[g], slots[g].patch)
<1>1. CASE vram' = vram
  BY <1>1 DEF Pages
<1>2. CASE vram' = [vram EXCEPT ![g] = page]
  <2>1. page = [x \in Planes |-> page[x]]
    <3>1. vram[g] = [x \in Planes |-> vram[g][x]]
      BY DEF Pages
    <3> DEFINE new == [vram[g][0] EXCEPT !.patches =
                         IF slots[g].patch \in @ THEN @ \ {slots[g].patch}
                         ELSE @ \union {slots[g].patch}]
    <3>2. page = [vram[g] EXCEPT ![0] = new]
      BY DEF Patched
    <3> HIDE DEF new, page
    <3>3. QED
      BY <3>1, <3>2
  <2> HIDE DEF page
  <2>2. QED
    BY <1>2, <2>1 DEF Pages
<1>3. QED
  BY <1>1, <1>2 DEF Released

LEMMA ReleaseGroupPages == ASSUME IInv, PInv, QInv, ReleaseGroup PROVE QInv'
<1> DEFINE g == playback.group
           n == NextReady
<1>1. /\ loop.pc = "handoff" /\ Released(g)
      /\ slots' = [slots EXCEPT ![g].state = "free", ![g].applied = FALSE,
                                ![n].state = "playing"]
      /\ UNCHANGED <<transfer, worker>>
      /\ queue'.preparing = queue.preparing
      /\ playback' = [playback EXCEPT !.group = n, !.symbol = 0]
  BY DEF ReleaseGroup, producer, IInv, Typed
<1>2. /\ g \in Slots /\ g # None /\ g # queue.preparing /\ IsSlot(slots[g])
      /\ n \in Slots /\ n \in Ready /\ n # queue.preparing /\ IsSlot(slots[n])
      /\ slots[n].state = "ready" /\ slots[g].state = "playing" /\ n # g
  <2>1. g # None /\ Later # {}
    BY <1>1 DEF IInv, Staged
  <2>2. g \in Slots /\ slots[g].state = "playing" /\ IsSlot(slots[g])
    BY <2>1 DEF IInv, Typed, Owned, Playing
  <2>3. n \in Slots /\ n \in Ready /\ slots[n].state = "ready" /\ IsSlot(slots[n])
    BY <2>1, NextReadyReady DEF IInv, Typed, Ready
  <2>4. QED
    BY <2>1, <2>2, <2>3, NotPreparing
<1>3. playback'.group = n /\ playback'.symbol = 0
  <2>1. playback \in PlaybackType
    BY DEF IInv, Typed
  <2> HIDE DEF n
  <2>2. QED
    BY <1>1, <2>1
<1>4. ~slots[n].applied
  BY <1>2 DEF IInv, Owned
<1> HIDE DEF g, n
<1>5. /\ slots'[g] = [slots[g] EXCEPT !.state = "free", !.applied = FALSE]
      /\ slots'[n] = [slots[n] EXCEPT !.state = "playing"]
      /\ \A i \in Slots : i # g /\ i # n => slots'[i] = slots[i]
  BY <1>1, <1>2 DEF IInv, Typed
<1>6. /\ slots'[n].state = "playing" /\ slots'[n].patch = slots[n].patch
      /\ slots'[n].start = slots[n].start /\ slots'[n].applied = slots[n].applied
      /\ slots'[g].state = "free"
  BY <1>2, <1>5 DEF IsSlot
<1>7. /\ vram' = [i \in Slots |-> vram'[i]]
      /\ \A i \in Slots : vram'[i] = [x \in Planes |-> vram'[i][x]]
      /\ \A i \in Slots : i # g => vram'[i] = vram[i]
  BY <1>1, <1>2, PageReleased DEF QInv
<1>8. Width' = Width /\ Width \in {3, 4}
  BY <1>1, WidthLeft, Widths
<1>9. ASSUME NEW i \in Slots PROVE Made(Width, slots'[i], vram'[i])
  <2>1. CASE i = g
    BY <1>6, <2>1 DEF Made
  <2>2. CASE i = n
    <3>1. Made(Width, slots[n], vram[n])
      BY <1>2 DEF QInv, Pages
    <3>2. QED
      BY <1>2, <1>6, <1>7, <2>2, <3>1 DEF Made
  <2>3. CASE i # g /\ i # n
    BY <1>5, <1>7, <2>3 DEF QInv, Pages
  <2>4. QED
    BY <2>1, <2>2, <2>3
<1>10. Pages'
  BY <1>7, <1>8, <1>9 DEF Pages
<1>11. Work'
  BY <1>1, <1>2, <1>5, WorkLeft, PreparingAlone DEF QInv
<1>12. Corrected'
  BY <1>3, <1>4, <1>6, <1>8 DEF Corrected
<1>13. QED
  BY <1>10, <1>11, <1>12 DEF QInv

LEMMA ReleaseTailPages == ASSUME IInv, PInv, QInv, ReleaseTail PROVE QInv'
<1> DEFINE g == playback.group
<1>1. /\ Quiet /\ UNCHANGED <<transfer, worker, queue>>
      /\ \/ /\ g = None /\ UNCHANGED <<vram, slots, playback>>
         \/ /\ g # None /\ Released(g)
            /\ slots' = [slots EXCEPT ![g].state = "free", ![g].applied = FALSE]
            /\ playback' = [playback EXCEPT !.group = None]
  BY DEF ReleaseTail, producer, IInv, Staged
<1>2. Work'
  BY <1>1 DEF QInv, Work, Quiet
<1>3. CASE g = None /\ UNCHANGED <<vram, slots, playback>>
  BY <1>1, <1>2, <1>3, PagesLeft, CorrectedLeft DEF QInv
<1>4. CASE /\ g # None /\ Released(g)
           /\ slots' = [slots EXCEPT ![g].state = "free", ![g].applied = FALSE]
           /\ playback' = [playback EXCEPT !.group = None]
  <2>1. g \in Slots /\ IsSlot(slots[g])
    BY <1>4 DEF IInv, Typed
  <2>2. playback'.group = None
    BY <1>4 DEF IInv, Typed
  <2> HIDE DEF g
  <2>3. /\ slots'[g] = [slots[g] EXCEPT !.state = "free", !.applied = FALSE]
        /\ \A i \in Slots : i # g => slots'[i] = slots[i]
    BY <1>4, <2>1 DEF IInv, Typed
  <2>4. slots'[g].state = "free"
    BY <2>1, <2>3 DEF IsSlot
  <2>5. /\ vram' = [i \in Slots |-> vram'[i]]
        /\ \A i \in Slots : vram'[i] = [x \in Planes |-> vram'[i][x]]
        /\ \A i \in Slots : i # g => vram'[i] = vram[i]
    BY <1>4, <2>1, PageReleased DEF QInv
  <2>6. ASSUME NEW i \in Slots PROVE Made(Width, slots'[i], vram'[i])
    <3>1. CASE i = g
      BY <2>4, <3>1 DEF Made
    <3>2. CASE i # g
      BY <2>3, <2>5, <3>2 DEF QInv, Pages
    <3>3. QED
      BY <3>1, <3>2
  <2>7. Pages'
    BY <1>1, <2>5, <2>6, WidthLeft DEF Pages
  <2>8. QED
    BY <1>2, <2>2, <2>7 DEF QInv, Corrected
<1>5. QED
  BY <1>1, <1>3, <1>4

\* Steps that leave the pages and the slots alone.
LEMMA OtherPages ==
  ASSUME IInv, PInv, QInv,
         UNCHANGED <<transfer, worker, slots, queue, vram>>,
         playback'.group = playback.group, playback'.symbol = playback.symbol
  PROVE  QInv'
BY PagesLeft, WorkLeft, CorrectedLeft DEF QInv

LEMMA InitQInv == ASSUME Init PROVE QInv
<1>1. \A i \in Slots : slots[i].state = "free"
  BY DEF Init, FreeSlot
<1>2. Pages
  <2>1. vram = [i \in Slots |-> [p \in Planes |-> Plain(Blank)]]
    BY DEF Init
  <2>2. QED
    BY <1>1, <2>1 DEF Pages, Made
<1>3. Work
  BY DEF Init, Work
<1>4. Corrected
  BY DEF Init, Corrected
<1>5. QED
  BY <1>2, <1>3, <1>4 DEF QInv

LEMMA NextQInv == ASSUME IInv, PInv, QInv, [Next]_vars PROVE QInv'
<1>1. CASE PlaybackTick
  <2>1. CASE TickIdle \/ TickEarly \/ Handoff \/ Underrun
    BY <2>1, OtherPages DEF TickIdle, TickEarly, Handoff, Underrun, producer
  <2>2. CASE Drain
    <3>1. playback'.group = playback.group /\ playback'.symbol = playback.symbol
      BY <2>2 DEF Drain, IInv, Typed
    <3>2. QED
      BY <2>2, <3>1, OtherPages DEF Drain, producer
  <2>3. QED
    BY <1>1, <2>1, <2>2, ActivatePages, NextSymbolPages, ApplyCorrectionPages,
       ReleaseGroupPages DEF PlaybackTick
<1>2. CASE Produce
  BY <1>2, BeginPages, DrawPages, StorePages, CorrectPages DEF Produce
<1>3. CASE Tail
  <2>1. CASE TailFails \/ ShowTail \/ NoTail
    BY <2>1, OtherPages DEF TailFails, ShowTail, NoTail, producer
  <2>2. QED
    BY <1>3, <2>1, StoreTailPages, ReleaseTailPages DEF Tail
<1>4. CASE PrefillClaim \/ LoopClaim
  <2>1. UNCHANGED <<transfer, global, vram, playback>>
    BY <1>4 DEF PrefillClaim, LoopClaim
  <2>2. ClaimGroup \/ UNCHANGED <<slots, queue, worker>>
    BY <1>4 DEF PrefillClaim, LoopClaim
  <2>3. QED
    BY <2>1, <2>2, ClaimPages, OtherPages
<1>5. CASE PrefillEnd \/ Deadline \/ UNCHANGED vars
  BY <1>5, OtherPages DEF PrefillEnd, Deadline, producer, vars
<1>6. QED
  BY <1>1, <1>2, <1>3, <1>4, <1>5 DEF Next, Loop

-----------------------------------------------------------------------------
(* What the screen shows.                                                  *)

\* The slot that plays next, and the page for a tail, as functions of the slots.
NextOf(table, group) ==
  LET later == {i \in {j \in Slots : table[j].state = "ready"} :
                  table[i].ordinal > table[group].ordinal}
  IN CHOOSE i \in later : \A j \in later : table[i].ordinal <= table[j].ordinal

TailOf(table, kept, group) ==
  LET hidden == {i \in Slots : table[i].state = "free" /\ i # kept /\ i # group}
  IN IF hidden = {} THEN None ELSE Min(hidden)

MaskOf(w, s) == IF s = w THEN 0..(w - 1) ELSE {s}

\* The same record on all planes.
DataPage(total, page) ==
  \E r \in 0..(total - 1) : page = [p \in Planes |-> Plain(Data(r))]

\* Which page is on the screen in which stage of playback, and that a record
\* of a tail keeps its page until a group is shown again.
Screen ==
  /\ screen \in [slot : {screen.slot}, mask : {screen.mask}, palette : {screen.palette}]
  /\ reserved \in Slots \union {None}
  /\ playback.active => reserved = None
  /\ reserved = None /\ playback.group # None /\ loop.pc # "handoff" =>
       screen.slot = playback.group /\ screen.mask = MaskOf(Width, playback.symbol)
  /\ loop.pc = "handoff" =>
       screen.slot = NextOf(slots, playback.group) /\ screen.mask = MaskOf(Width, 0)
  /\ reserved = None /\ playback.group = None => screen.slot = None
  /\ reserved # None =>
       /\ screen.slot = reserved /\ slots[reserved].state = "free"
       /\ screen.palette = "data" /\ DataPage(Total, vram[reserved])
  /\ reserved = None /\ loop.pc # "tail_stored" => screen.palette = "planes"
  /\ loop.pc = "tail_stored" =>
       /\ screen.palette = "data"
       /\ DataPage(Total, vram[TailOf(slots, reserved, playback.group)])
  /\ loop.pc = "tail_shown" => reserved # None
  /\ loop.pc = "claim" /\ reserved # None => queue.ready = 0
  /\ loop.pc = "prefill" => reserved = None

LEMMA Names ==
  /\ NextReady = NextOf(slots, playback.group)
  /\ TailSlot = TailOf(slots, reserved, playback.group)
  /\ \A s : Mask(s) = MaskOf(Width, s)
BY DEF NextReady, Later, Ready, current, NextOf, TailSlot, TailSlots, TailOf, Mask, MaskOf, Group

LEMMA TotalLeft == ASSUME transfer' = transfer PROVE Total' = Total /\ Width' = Width
BY DEF Total, Width

\* A step that does not touch what is shown, nor what a tail waits for.
LEMMA ScreenLeft ==
  ASSUME Screen, UNCHANGED <<transfer, screen, reserved>>,
         playback'.group = playback.group, playback'.symbol = playback.symbol,
         playback'.active => playback.active,
         reserved # None => /\ slots'[reserved].state = slots[reserved].state
                            /\ vram'[reserved] = vram[reserved],
         loop.pc \notin {"handoff", "tail_stored", "tail_shown"},
         loop'.pc \notin {"handoff", "tail_stored", "tail_shown"},
         loop'.pc = "prefill" => loop.pc = "prefill",
         loop'.pc = "claim" /\ reserved # None => queue'.ready = 0
  PROVE  Screen'
BY TotalLeft DEF Screen

\* The page of a tail is no slot of the queue.
LEMMA TailAlone ==
  ASSUME IInv, Screen, reserved # None
  PROVE  /\ reserved # queue.preparing /\ reserved # playback.group
         /\ reserved \notin Ready
<1>1. reserved \in Slots /\ slots[reserved].state = "free"
  BY DEF Screen
<1>2. QED
  BY <1>1, PreparingAlone DEF IInv, Owned, Playing, Ready

LEMMA ProduceScreen == ASSUME IInv, QInv, Screen, Produce PROVE Screen'
<1>1. /\ loop.pc \in {"prefill", "step"} /\ UNCHANGED <<transfer, screen, reserved, playback>>
      /\ StepDone \/ StepFailed
      /\ queue.preparing # None
  BY DEF Produce, Begin, BeginOverlap, BeginNext, ReadFails, Encoded, Encode, Draw, Store,
     Correct, Producing
<1>2. /\ loop'.pc \in {"prefill", "tick", "tail", "failed"}
      /\ loop'.pc = "prefill" => loop.pc = "prefill"
  BY <1>1 DEF StepDone, StepFailed, IInv, Typed
<1>3. queue.preparing \in Slots
  BY <1>1, PreparingAlone
<1>4. \/ slots' = slots
      \/ slots' = [slots EXCEPT ![queue.preparing].stage = @ + 1]
      \/ slots' = [slots EXCEPT ![queue.preparing].state = "ready",
                     ![queue.preparing].patch = <<filling.start, worker.parity>>]
  BY DEF Produce, Begin, Encode, Draw, Store, Correct
<1>5. \A i \in Slots : i # queue.preparing => slots'[i] = slots[i]
  BY <1>3, <1>4 DEF IInv, Typed
<1>6. \/ vram' = vram
      \/ vram' = [vram EXCEPT ![queue.preparing][filling.stage] = Plain(worker.raster)]
  BY DEF Produce, Begin, Encode, Draw, Store, Correct
<1>7. \A i \in Slots : i # queue.preparing => vram'[i] = vram[i]
  BY <1>3, <1>6 DEF QInv, Pages
<1>8. reserved # None => reserved \in Slots /\ reserved # queue.preparing
  BY TailAlone DEF Screen
<1>9. QED
  BY <1>1, <1>2, <1>5, <1>7, <1>8, ScreenLeft

\* A claim leaves the page of a tail alone while it is on the screen.
LEMMA ClaimScreen == ASSUME IInv, Screen, PrefillClaim \/ LoopClaim PROVE Screen'
<1>1. /\ loop.pc \in {"prefill", "claim"}
      /\ UNCHANGED <<transfer, screen, reserved, playback, vram>>
  BY DEF PrefillClaim, LoopClaim
<1>2. /\ loop'.pc \in {"prefill", "step", "tail"}
      /\ loop'.pc = "prefill" => loop.pc = "prefill"
  <2>1. CASE PrefillClaim
    BY <2>1 DEF PrefillClaim
  <2>2. CASE LoopClaim
    <3> DEFINE pc == IF queue.preparing = None THEN "tail" ELSE "step"
    <3>1. CASE loop' = [loop EXCEPT !.claimed = FALSE, !.pc = pc]
      <4>1. pc \in {"tail", "step"} /\ loop \in LoopType
        BY DEF IInv, Typed
      <4> HIDE DEF pc
      <4>2. QED
        BY <3>1, <4>1
    <3>2. CASE \/ loop' = [pc |-> "step", claimed |-> TRUE, tailPending |-> FALSE]
               \/ loop' = [pc |-> "tail", claimed |-> FALSE, tailPending |-> TRUE]
      BY <3>2
    <3>3. QED
      BY <2>2, <3>1, <3>2 DEF LoopClaim
  <2>3. QED
    BY <2>1, <2>2
<1>3. CASE slots' = slots
  BY <1>1, <1>2, <1>3, ScreenLeft
<1>4. CASE ClaimGroup
  <2>1. reserved # None => ClaimTarget # reserved
    <3>1. SUFFICES ASSUME reserved # None PROVE ClaimTarget # reserved
      OBVIOUS
    <3>2. queue.ready = 0 /\ queue.preparing = None
      BY <1>1, <1>4, <3>1 DEF Screen, ClaimGroup, CanClaim, MayClaim
    <3>3. Available(ClaimTarget)
      BY <3>2, FreeTarget DEF IInv
    <3>4. QED
      BY <3>3 DEF Available
  <2>2. \E c : slots' = [slots EXCEPT ![ClaimTarget] = c]
    BY <1>4 DEF ClaimGroup
  <2>3. \A i \in Slots : i # ClaimTarget => slots'[i] = slots[i]
    BY <2>2 DEF IInv, Typed
  <2>4. reserved # None => reserved \in Slots
    BY DEF Screen
  <2>5. QED
    BY <1>1, <1>2, <2>1, <2>3, <2>4, ScreenLeft
<1>5. QED
  BY <1>3, <1>4 DEF PrefillClaim, LoopClaim

\* Steps that leave the slots and what is shown alone.
LEMMA OtherScreen ==
  ASSUME IInv, Screen,
         PrefillEnd \/ TickIdle \/ TickEarly \/ Underrun \/ Drain \/ TailFails \/ NoTail
  PROVE  Screen'
<1>1. UNCHANGED <<transfer, screen, reserved, slots, vram, queue>>
  BY DEF PrefillEnd, TickIdle, TickEarly, Underrun, Drain, TailFails, NoTail, producer
<1>2. loop.pc \in {"prefill", "tick", "tail"} /\ loop'.pc \in {"tick", "claim", "done", "failed"}
  BY DEF PrefillEnd, TickIdle, TickEarly, Underrun, Drain, Due, TailFails, NoTail, Goto,
     Onward, IInv, Typed
<1>3. /\ playback'.group = playback.group /\ playback'.symbol = playback.symbol
      /\ playback'.active => playback.active
  BY DEF PrefillEnd, TickIdle, TickEarly, Underrun, Drain, TailFails, NoTail, IInv, Typed
<1>4. loop'.pc = "claim" => playback.active \/ queue.ready = 0
  BY DEF PrefillEnd, TickIdle, TickEarly, Underrun, Drain, Due, TailFails, NoTail, Goto,
     Onward, IInv, Typed
<1>5. loop'.pc = "claim" /\ reserved # None => queue'.ready = 0
  BY <1>1, <1>4 DEF Screen
<1>6. QED
  BY <1>1, <1>2, <1>3, <1>5, ScreenLeft

\* Only time passes.
LEMMA StillScreen ==
  ASSUME Screen,
         UNCHANGED <<transfer, screen, reserved, slots, vram, queue, playback, loop>>
  PROVE  Screen'
<1>1. Total' = Total /\ Width' = Width
  BY TotalLeft
<1>2. /\ NextOf(slots', playback'.group) = NextOf(slots, playback.group)
      /\ TailOf(slots', reserved', playback'.group) = TailOf(slots, reserved, playback.group)
  OBVIOUS
<1>3. QED
  BY <1>1, <1>2 DEF Screen

LEMMA ActivateScreen == ASSUME IInv, Screen, Activate PROVE Screen'
<1> DEFINE e == Earliest
<1>1. /\ loop.pc = "tick" /\ queue.ready > 0
      /\ screen' = [slot |-> e, mask |-> Mask(0),
                    palette |-> IF reserved # None THEN "planes" ELSE screen.palette]
      /\ reserved' = None
      /\ transfer' = transfer
  BY DEF Activate, Show, producer
<1>2. e \in Slots /\ e # None
  BY <1>1, EarliestReady, Options DEF IInv, Slots, None
<1>3. /\ playback'.group = e /\ playback'.symbol = 0
      /\ loop'.pc \in {"claim", "failed"}
  <2>1. loop \in LoopType /\ playback \in PlaybackType
    BY DEF IInv, Typed
  <2>2. CASE /\ playback' = [group |-> e, symbol |-> 0, active |-> TRUE, focus |-> FALSE]
             /\ loop' = [loop EXCEPT !.pc = "claim"]
    BY <2>1, <2>2
  <2>3. CASE /\ playback' = [playback EXCEPT !.group = e, !.symbol = 0]
             /\ loop' = [loop EXCEPT !.pc = "failed"]
    BY <2>1, <2>3
  <2>4. QED
    BY <2>2, <2>3 DEF Activate, Goto
<1> HIDE DEF e
<1>4. screen'.palette = "planes" /\ screen'.slot = e /\ screen'.mask = MaskOf(Width, 0)
  BY <1>1, Names DEF Screen
<1>5. Width' = Width
  BY <1>1, TotalLeft
<1>6. screen' \in [slot : {screen'.slot}, mask : {screen'.mask}, palette : {screen'.palette}]
  BY <1>1
<1>7. QED
  BY <1>1, <1>2, <1>3, <1>4, <1>5, <1>6 DEF Screen

LEMMA NextSymbolScreen == ASSUME IInv, Screen, NextSymbol PROVE Screen'
<1> DEFINE s == playback.symbol + 1
<1>1. /\ playback.active /\ loop.pc = "tick"
      /\ screen' = [slot |-> playback.group, mask |-> Mask(s),
                    palette |-> IF reserved # None THEN "planes" ELSE screen.palette]
      /\ playback' = [playback EXCEPT !.symbol = s]
      /\ loop' = [loop EXCEPT !.pc = "hidden"]
      /\ UNCHANGED <<transfer, reserved>>
  BY DEF NextSymbol, Due, Show, Goto, producer
<1>2. reserved = None /\ playback.group # None
  BY <1>1 DEF Screen, IInv, Staged
<1>3. playback'.group = playback.group /\ playback'.symbol = s /\ loop'.pc = "hidden"
  BY <1>1 DEF IInv, Typed
<1> HIDE DEF s
<1>4. screen'.palette = "planes" /\ screen'.slot = playback.group
      /\ screen'.mask = MaskOf(Width, s)
  BY <1>1, <1>2, Names DEF Screen
<1>5. Width' = Width
  BY <1>1, TotalLeft
<1>6. screen' \in [slot : {screen'.slot}, mask : {screen'.mask}, palette : {screen'.palette}]
  BY <1>1
<1>7. QED
  BY <1>1, <1>2, <1>3, <1>4, <1>5, <1>6 DEF Screen

LEMMA ApplyCorrectionScreen == ASSUME IInv, Screen, ApplyCorrection PROVE Screen'
<1>1. /\ loop.pc = "hidden" /\ UNCHANGED <<transfer, screen, reserved, playback>>
      /\ loop' = [loop EXCEPT !.pc = "claim"]
  BY DEF ApplyCorrection, Goto, producer
<1>2. reserved = None /\ loop'.pc = "claim"
  BY <1>1 DEF Screen, IInv, Staged, Typed
<1>3. QED
  BY <1>1, <1>2, ScreenLeft

LEMMA HandoffScreen == ASSUME IInv, Screen, Handoff PROVE Screen'
<1>1. /\ playback.active /\ loop.pc = "tick"
      /\ screen' = [slot |-> NextReady, mask |-> Mask(0),
                    palette |-> IF reserved # None THEN "planes" ELSE screen.palette]
      /\ reserved' = None
      /\ loop' = [loop EXCEPT !.pc = "handoff"]
      /\ UNCHANGED <<transfer, slots, playback>>
  BY DEF Handoff, Due, Show, Goto, producer
<1>2. reserved = None /\ playback.group # None
  BY <1>1 DEF Screen, IInv, Staged
<1>3. loop'.pc = "handoff"
  BY <1>1 DEF IInv, Typed
<1>4. screen'.palette = "planes" /\ screen'.slot = NextOf(slots, playback.group)
      /\ screen'.mask = MaskOf(Width, 0)
  BY <1>1, <1>2, Names DEF Screen
<1>5. Width' = Width /\ NextOf(slots', playback'.group) = NextOf(slots, playback.group)
  BY <1>1, TotalLeft
<1>6. screen' \in [slot : {screen'.slot}, mask : {screen'.mask}, palette : {screen'.palette}]
  BY <1>1
<1>7. QED
  BY <1>1, <1>2, <1>3, <1>4, <1>5, <1>6 DEF Screen

LEMMA ReleaseGroupScreen == ASSUME IInv, Screen, ReleaseGroup PROVE Screen'
<1> DEFINE n == NextReady
<1>1. /\ loop.pc = "handoff"
      /\ playback' = [playback EXCEPT !.group = n, !.symbol = 0]
      /\ loop' = [loop EXCEPT !.pc = "claim"]
      /\ UNCHANGED <<transfer, screen, reserved>>
  BY DEF ReleaseGroup, Goto, producer
<1>2. reserved = None /\ n # None
  BY <1>1, NextReadyReady, Options DEF Screen, IInv, Staged, Slots, None
<1>3. screen.slot = n /\ screen.mask = MaskOf(Width, 0)
  BY <1>1, Names DEF Screen
<1> HIDE DEF n
<1>4. playback'.group = n /\ playback'.symbol = 0 /\ loop'.pc = "claim"
  <2>1. loop \in LoopType /\ playback \in PlaybackType
    BY DEF IInv, Typed
  <2>2. QED
    BY <1>1, <2>1
<1>5. Width' = Width
  BY <1>1, TotalLeft
<1>6. QED
  BY <1>1, <1>2, <1>3, <1>4, <1>5 DEF Screen

\* The record of a tail is stored in a page that is not on the screen.
LEMMA StoreTailScreen == ASSUME IInv, QInv, PInv, Screen, StoreTail PROVE Screen'
<1> DEFINE t == TailSlot
           page == [p \in Planes |-> Plain(worker'.raster)]
<1>1. /\ Quiet /\ global < Total /\ loop.pc = "tail"
      /\ worker' = [worker EXCEPT !.codewords = Data(global), !.previous = Data(global),
                                  !.raster = Redrawn(Data(global))]
      /\ screen' = [screen EXCEPT !.palette = "data"]
      /\ vram' = [vram EXCEPT ![t] = page]
      /\ loop' = [loop EXCEPT !.pc = "tail_stored"]
      /\ UNCHANGED <<transfer, slots, reserved, playback>>
  BY DEF StoreTail, TailDue, Goto
<1>2. t \in Slots /\ t # reserved
  BY <1>1, TailPage
<1>3. worker'.raster = Data(global)
  BY <1>1 DEF QInv, Work, PInv, WorkerKept, Redrawn
<1>4. DataPage(Total, page)
  <2>1. global \in 0..(Total - 1)
    BY <1>1, Options DEF IInv, Typed
  <2>2. QED
    BY <1>3, <2>1 DEF DataPage
<1>5. t = TailOf(slots', reserved', playback'.group)
  BY <1>1, Names
<1> HIDE DEF t, page
<1>6. vram'[t] = page /\ \A i \in Slots : i # t => vram'[i] = vram[i]
  BY <1>1, <1>2 DEF QInv, Pages
<1>7. /\ screen'.slot = screen.slot /\ screen'.mask = screen.mask /\ screen'.palette = "data"
      /\ screen' \in [slot : {screen'.slot}, mask : {screen'.mask}, palette : {screen'.palette}]
  BY <1>1 DEF Screen
<1>8. loop'.pc = "tail_stored"
  BY <1>1 DEF IInv, Typed
<1>9. Width' = Width /\ Total' = Total
  BY <1>1, TotalLeft
<1>10. QED
  BY <1>1, <1>2, <1>4, <1>5, <1>6, <1>7, <1>8, <1>9 DEF Screen

LEMMA ShowTailScreen == ASSUME IInv, Screen, ShowTail PROVE Screen'
<1> DEFINE t == TailSlot
<1>1. /\ loop.pc = "tail_stored"
      /\ screen' = [screen EXCEPT !.slot = t, !.mask = Planes]
      /\ reserved' = t
      /\ loop' = [loop EXCEPT !.pc = "tail_shown"]
      /\ UNCHANGED <<transfer, slots, vram, playback>>
  BY DEF ShowTail, Goto, producer
<1>2. Quiet /\ ~playback.active
  BY <1>1 DEF IInv, Staged, Quiet
<1>3. t \in Slots /\ slots[t].state = "free" /\ t # None
  BY <1>2, TailPage, PageForTail
<1>4. screen.palette = "data" /\ DataPage(Total, vram[t])
  BY <1>1, Names DEF Screen
<1> HIDE DEF t
<1>5. /\ screen'.slot = t /\ screen'.palette = "data"
      /\ screen' \in [slot : {screen'.slot}, mask : {screen'.mask}, palette : {screen'.palette}]
  <2> DEFINE mask == Planes
  <2>1. screen' = [screen EXCEPT !.slot = t, !.mask = mask]
    BY <1>1
  <2> HIDE DEF mask
  <2>2. screen' = [slot |-> t, mask |-> mask, palette |-> screen.palette]
    BY <2>1 DEF Screen
  <2>3. QED
    BY <1>4, <2>2
<1>6. loop'.pc = "tail_shown"
  BY <1>1 DEF IInv, Typed
<1>7. Total' = Total
  BY <1>1, TotalLeft
<1>8. QED
  BY <1>1, <1>2, <1>3, <1>4, <1>5, <1>6, <1>7 DEF Screen

LEMMA ReleaseTailScreen == ASSUME IInv, QInv, Screen, ReleaseTail PROVE Screen'
<1> DEFINE g == playback.group
<1>1. /\ loop.pc = "tail_shown" /\ UNCHANGED <<transfer, screen, reserved>>
      /\ \/ /\ g = None /\ UNCHANGED <<vram, slots, playback>>
         \/ /\ g # None /\ Released(g)
            /\ slots' = [slots EXCEPT ![g].state = "free", ![g].applied = FALSE]
            /\ playback' = [playback EXCEPT !.group = None]
  BY DEF ReleaseTail, producer
<1>2. loop'.pc \in {"tick", "done"}
  BY DEF ReleaseTail, Onward, IInv, Typed
<1>3. reserved # None /\ reserved \in Slots /\ reserved # g
  BY <1>1, TailAlone DEF Screen
<1>4. slots'[reserved] = slots[reserved] /\ vram'[reserved] = vram[reserved]
  <2>1. CASE g = None /\ UNCHANGED <<vram, slots, playback>>
    BY <2>1
  <2>2. CASE /\ g # None /\ Released(g)
             /\ slots' = [slots EXCEPT ![g].state = "free", ![g].applied = FALSE]
    <3>1. g \in Slots
      BY <2>2 DEF IInv, Typed
    <3>2. vram'[reserved] = vram[reserved]
      BY <1>3, <2>2, <3>1, PageReleased DEF QInv
    <3> HIDE DEF g
    <3>3. slots'[reserved] = slots[reserved]
      BY <1>3, <2>2, <3>1 DEF IInv, Typed
    <3>4. QED
      BY <3>2, <3>3
  <2>3. QED
    BY <1>1, <2>1, <2>2
<1>5. ~playback'.active
  <2>1. ~playback.active /\ playback \in PlaybackType
    BY <1>1 DEF IInv, Typed, Staged, Quiet
  <2>2. QED
    BY <1>1, <2>1
<1>6. Total' = Total
  BY <1>1, TotalLeft
<1>7. QED
  BY <1>1, <1>2, <1>3, <1>4, <1>5, <1>6 DEF Screen

LEMMA InitScreen == ASSUME Init PROVE Screen
BY DEF Init, Screen

LEMMA NextScreen == ASSUME IInv, PInv, QInv, Screen, [Next]_vars PROVE Screen'
<1>1. CASE PlaybackTick
  BY <1>1, OtherScreen, ActivateScreen, NextSymbolScreen, ApplyCorrectionScreen,
     HandoffScreen, ReleaseGroupScreen DEF PlaybackTick
<1>2. CASE Tail
  BY <1>2, OtherScreen, StoreTailScreen, ShowTailScreen, ReleaseTailScreen DEF Tail
<1>3. CASE Deadline \/ UNCHANGED vars
  BY <1>3, StillScreen DEF Deadline, producer, vars
<1>4. QED
  BY <1>1, <1>2, <1>3, ProduceScreen, ClaimScreen, OtherScreen DEF Next, Loop

-----------------------------------------------------------------------------
\* What is on the screen is one whole symbol at every moment, whatever the
\* producer writes meanwhile and whenever the deadline passes: one plane of a
\* group without a patch, all of its planes with exactly its own, or one record on
\* all four; and the palette is the one it needs (main.c:914-1086, 1323-1409).
THEOREM LegibleHolds == Spec => []Legible
<1>1. Init => IInv /\ PInv /\ QInv /\ Screen
  BY InitIInv, InitPInv, InitQInv, InitScreen
<1>2. IInv /\ PInv /\ QInv /\ Screen /\ [Next]_vars => (IInv /\ PInv /\ QInv /\ Screen)'
  BY NextIInv, NextPInv, NextQInv, NextScreen
<1>3. ASSUME IInv, QInv, Screen, screen.slot # None
      PROVE  LET page == vram[screen.slot]
                 start == slots[screen.slot].start
             IN IF reserved = screen.slot
                THEN /\ \E r \in Records : page = [p \in Planes |-> Plain(Data(r))]
                     /\ screen.palette = "data"
                ELSE /\ \/ screen.mask = Group /\ PageGenuine(page, start, TRUE)
                        \/ \E p \in Group : screen.mask = {p} /\ page[p] = Plain(Genuine(start, p))
                     /\ loop.pc # "tail_stored" => screen.palette = "planes"
  <2> DEFINE i == screen.slot
             f == slots[i]
  <2>1. CASE reserved = i
    BY <1>3, <2>1 DEF Screen, DataPage, Records
  <2>2. CASE reserved # i
    <3>1. reserved = None
      BY <1>3, <2>2 DEF Screen
    <3>2. loop.pc # "tail_stored" => screen.palette = "planes"
      BY <1>3, <3>1 DEF Screen
    <3>3. Width \in {3, 4} /\ Width \in Nat
      BY <1>3, Widths
    <3>4. CASE loop.pc = "handoff"
      <4>1. i = NextReady /\ screen.mask = MaskOf(Width, 0)
        BY <1>3, <3>4, Names DEF Screen
      <4>2. i \in Slots /\ f.state = "ready"
        BY <1>3, <3>4, <4>1, NextReadyReady DEF IInv, Staged, Ready
      <4>3. Made(Width, f, vram[i])
        BY <1>3, <4>2 DEF QInv, Pages
      <4>4. ~f.applied
        BY <1>3, <4>2 DEF IInv, Owned
      <4> HIDE DEF i, f
      <4>5. vram[i][0] = PlaneOf(Width, f.start, 0, f.applied) /\ 0 \in Group
        BY <3>3, <4>2, <4>3 DEF Made, Group
      <4>6. vram[i][0] = Plain(Genuine(f.start, 0))
        BY <4>4, <4>5 DEF PlaneOf, Plain, Genuine, Basis
      <4>7. screen.mask = {0}
        BY <3>3, <4>1 DEF MaskOf
      <4>8. QED
        BY <2>2, <3>2, <4>5, <4>6, <4>7 DEF i, f
    <3>5. CASE loop.pc # "handoff"
      <4>1. i = playback.group /\ screen.mask = MaskOf(Width, playback.symbol)
        BY <1>3, <3>1, <3>5 DEF Screen
      <4>2. i \in Slots /\ f.state = "playing"
        BY <1>3, <4>1 DEF IInv, Typed, Owned, Playing
      <4>3. Made(Width, f, vram[i]) /\ f.applied \in BOOLEAN
        BY <1>3, <4>2 DEF QInv, Pages, IInv, Typed, IsSlot
      <4>4. /\ playback.symbol \in 0..Width
            /\ f.applied => playback.symbol > 0
            /\ playback.symbol = Width => f.applied
        BY <1>3, <4>1 DEF QInv, Corrected
      <4> HIDE DEF i, f
      <4>5. \A p \in Group : vram[i][p] = PlaneOf(Width, f.start, p, f.applied)
        BY <4>2, <4>3 DEF Made, Group
      <4>6. CASE playback.symbol = Width
        <5>1. screen.mask = Group
          BY <4>1, <4>6 DEF MaskOf, Group
        <5>2. f.applied = TRUE
          BY <4>3, <4>4, <4>6
        <5>3. PageGenuine(vram[i], f.start, TRUE)
          BY <4>5, <5>2 DEF PageGenuine, PlaneOf, Genuine, Basis, PatchOf
        <5>4. QED
          BY <2>2, <3>2, <5>1, <5>3 DEF i, f
      <4>7. CASE playback.symbol # Width
        <5> DEFINE p == playback.symbol
        <5>1. p \in Group /\ screen.mask = {p}
          BY <3>3, <4>1, <4>4, <4>7 DEF MaskOf, Group
        <5>2. ~(p = 0 /\ f.applied)
          BY <4>4
        <5>3. vram[i][p] = Plain(Genuine(f.start, p))
          <6>1. vram[i][p] = PlaneOf(Width, f.start, p, f.applied)
            BY <4>5, <5>1
          <6> HIDE DEF p
          <6>2. QED
            BY <5>2, <6>1 DEF PlaneOf, Plain, Genuine, Basis
        <5>4. QED
          BY <2>2, <3>2, <5>1, <5>3 DEF i, f
      <4>8. QED
        BY <4>6, <4>7
    <3>6. QED
      BY <3>4, <3>5
  <2>3. QED
    BY <2>1, <2>2
<1>4. IInv /\ QInv /\ Screen => Legible
  BY <1>3 DEF Legible
<1>5. QED
  BY <1>1, <1>2, <1>4, PTL DEF Spec

-----------------------------------------------------------------------------
(* The groups in the queue.                                                *)

\* A group shows the records From(i)..(End(i) - 1) for the first time.
From(i) == slots[i].start + slots[i].overlap
End(i) == slots[i].start + Width

Live == {i \in Slots : slots[i].state # "free"}
Pending == {i \in Slots : slots[i].state \in {"ready", "filling"}}

\* Groups are numbered in the order of their records.
Sorted ==
  /\ global <= Total
  /\ \A i \in Live : From(i) < End(i) /\ slots[i].ordinal <= queue.ordinal
  /\ \A i, j \in Live : i # j => slots[i].ordinal # slots[j].ordinal
  /\ \A i, j \in Live : slots[i].ordinal < slots[j].ordinal => End(i) <= From(j)
  /\ \A i \in Live : slots[i].state # "filling" => End(i) <= global
  /\ queue.preparing # None => slots[queue.preparing].ordinal = queue.ordinal
  /\ playback.group # None =>
       \A i \in Pending : slots[playback.group].ordinal < slots[i].ordinal

LEMMA SlotNumbers ==
  ASSUME Typed, NEW i \in Slots
  PROVE  /\ slots[i].start \in Nat /\ slots[i].overlap \in Nat /\ slots[i].ordinal \in Nat
         /\ slots[i].stage \in Nat /\ From(i) \in Nat /\ End(i) \in Nat
<1>1. IsSlot(slots[i]) /\ Width \in Nat
  BY Options DEF Typed
<1>2. QED
  BY <1>1 DEF IsSlot, From, End

\* A group lies within the transfer.
LEMMA EndFits ==
  ASSUME IInv, NEW i \in Slots, slots[i].state # "free"
  PROVE  End(i) <= Total
<1> DEFINE s == slots[i].start
           c == slots[i].count
           x == slots[i].index
           b == (s \div Window) * Window
<1>1. s \in Nat /\ c \in Nat /\ x \in Nat
  BY DEF IInv, Typed, IsSlot
<1>2. Width \in Nat /\ Window \in Nat /\ Window > 0 /\ Total \in Nat
  BY Options DEF IInv
<1>3. x = s % Window /\ c = WindowCount(s) /\ x + Width <= c
  BY DEF IInv, GroupsInWindow
<1>4. c = IF Total - b > Window THEN Window ELSE Total - b
  BY <1>3 DEF WindowCount
<1>5. s \div Window \in Nat /\ s = b + x
  BY <1>1, <1>2, <1>3, Division
<1>6. b \in Nat
  BY <1>2, <1>5
<1> HIDE DEF s, c, x, b
<1>7. s + Width <= Total
  BY <1>1, <1>2, <1>3, <1>4, <1>5, <1>6
<1>8. QED
  BY <1>7 DEF End, s

\* A group that begins its next record of the stream is not at its end.
LEMMA TakenFits ==
  ASSUME IInv, PInv, queue.preparing # None, worker.phase = "begin",
         filling.stage < Width, filling.stage >= filling.overlap
  PROVE  /\ global < Total
         /\ From(queue.preparing) <= global /\ global < End(queue.preparing)
<1> DEFINE p == queue.preparing
<1>1. p \in Slots /\ slots[p].state = "filling"
  BY PreparingAlone
<1>2. global = slots[p].start + slots[p].stage
  <2>1. slots[p].start \in Nat /\ slots[p].overlap \in Nat /\ slots[p].stage \in Nat
    BY <1>1, SlotNumbers DEF IInv
  <2>2. QED
    BY <2>1 DEF PInv, InStep, Begun, filling
<1>3. slots[p].start \in Nat /\ slots[p].overlap \in Nat /\ slots[p].stage \in Nat
  BY <1>1, SlotNumbers DEF IInv
<1>4. Width \in Nat /\ Total \in Nat
  BY Options DEF IInv
<1>5. From(p) <= global /\ global < End(p)
  BY <1>2, <1>3, <1>4 DEF From, End, filling
<1>6. End(p) <= Total
  BY <1>1, EndFits
<1>7. End(p) \in Nat
  BY <1>1, SlotNumbers DEF IInv
<1>8. QED
  BY <1>2, <1>3, <1>4, <1>5, <1>6, <1>7

-----------------------------------------------------------------------------
(* Sorted is kept.                                                         *)

\* A step that claims, finishes and starts no group.
LEMMA SortedLeft ==
  ASSUME IInv, Sorted, transfer' = transfer,
         global' \in Nat, global <= global', global' <= Total,
         queue'.ordinal = queue.ordinal,
         queue'.preparing = queue.preparing,
         playback'.group \in {playback.group, None},
         \A i \in Slots :
           /\ slots'[i].start = slots[i].start
           /\ slots'[i].overlap = slots[i].overlap
           /\ slots'[i].ordinal = slots[i].ordinal
           /\ slots'[i].state # "free" => slots'[i].state = slots[i].state
  PROVE  Sorted'
<1>1. Total' = Total /\ Width' = Width
  BY TotalLeft
<1>2. Live' \subseteq Live /\ Pending' \subseteq Pending
  BY DEF Live, Pending
<1>3. \A i \in Live : From(i)' = From(i) /\ End(i)' = End(i)
  BY <1>1 DEF From, End, Live
<1>4. \A i \in Live : End(i) \in Nat
  BY SlotNumbers DEF Live, IInv
<1>5. global \in Nat /\ Total \in Nat
  BY Options DEF IInv, Typed
<1>6. ASSUME NEW i \in Live', slots'[i].state # "filling" PROVE End(i)' <= global'
  <2>1. i \in Live /\ slots'[i].state = slots[i].state
    BY <1>2, <1>6 DEF Live
  <2>2. End(i) <= global
    BY <1>6, <2>1 DEF Sorted
  <2>3. QED
    BY <1>3, <1>4, <1>5, <2>1, <2>2
<1>7. queue'.preparing # None => slots'[queue'.preparing].ordinal = queue'.ordinal
  BY PreparingAlone DEF Sorted
<1>8. playback'.group # None =>
        \A i \in Pending' : slots'[playback'.group].ordinal < slots'[i].ordinal
  <2>1. playback.group # None => playback.group \in Slots
    BY DEF IInv, Typed
  <2>2. QED
    BY <1>2, <2>1 DEF Sorted, Pending
<1>9. \A i \in Live' : From(i)' < End(i)' /\ slots'[i].ordinal <= queue'.ordinal
  BY <1>2, <1>3 DEF Sorted, Live
<1>10. \A i, j \in Live' :
         /\ i # j => slots'[i].ordinal # slots'[j].ordinal
         /\ slots'[i].ordinal < slots'[j].ordinal => End(i)' <= From(j)'
  <2>1. \A i \in Live' : i \in Live /\ slots'[i].ordinal = slots[i].ordinal
    BY <1>2 DEF Live
  <2>2. QED
    BY <1>3, <2>1 DEF Sorted
<1>11. QED
  BY <1>1, <1>6, <1>7, <1>8, <1>9, <1>10 DEF Sorted

\* A group that is claimed comes after all the others.
LEMMA ClaimSorted ==
  ASSUME IInv, Sorted, ClaimGroup, UNCHANGED <<transfer, global, playback>>
  PROVE  /\ Sorted'
         /\ \E t \in Slots :
              /\ slots[t].state = "free" /\ slots'[t].state = "filling"
              /\ \A i \in Slots : i # t => slots'[i] = slots[i]
              /\ From(t)' = global
<1> DEFINE c == [state |-> "filling", start |-> Start, index |-> Start % Window,
                 count |-> WindowCount(global), overlap |-> Overlap,
                 ordinal |-> queue.ordinal + 1, stage |-> 0,
                 patch |-> <<>>, applied |-> FALSE]
<1>1. PICK t \in Slots : t = ClaimTarget
  BY TargetIsSlot DEF IInv
<1>2. /\ Fits /\ global < Total /\ Typed /\ slots[t].state = "free" /\ queue.preparing = None
      /\ slots' = [slots EXCEPT ![t] = c]
      /\ queue' = [queue EXCEPT !.tail = t, !.preparing = t, !.ordinal = @ + 1]
  BY <1>1 DEF ClaimGroup, CanClaim, MayClaim, IInv
<1>3. /\ Start \in Nat /\ Overlap \in Nat /\ Start = global - Overlap
      /\ global \in Nat /\ Total \in Nat /\ Width \in Nat
  <2>1. Start \in Nat /\ Overlap \in Nat
    BY <1>1, <1>2, GroupFits
  <2>2. Total \in Nat /\ Width \in Nat
    BY <1>1, <1>2, Options
  <2>3. QED
    BY <1>1, <1>2, <2>1, <2>2 DEF Typed, Start
<1>4. Overlap < Width
  <2>1. PICK r \in Nat, d \in Nat :
           r < d /\ Overlap = IF d - r < Width THEN Width - (d - r) ELSE 0
    BY <1>1, <1>2, Claimable
  <2>2. Width > 0
    BY <1>1, <1>2, Options
  <2>3. QED
    BY <1>3, <2>1, <2>2
<1>5. c.state = "filling" /\ c.start = Start /\ c.overlap = Overlap /\ c.ordinal = queue.ordinal + 1
  OBVIOUS
<1> HIDE DEF c
<1>6. /\ slots'[t] = c /\ queue'.preparing = t /\ queue'.ordinal = queue.ordinal + 1
      /\ queue.ordinal \in Nat
      /\ \A i \in Slots : i # t => slots'[i] = slots[i]
  BY <1>1, <1>2 DEF Typed
<1>7. Total' = Total /\ Width' = Width
  BY TotalLeft
<1>8. From(t)' = global /\ From(t)' < End(t)'
  BY <1>3, <1>4, <1>5, <1>6, <1>7 DEF From, End
<1>9. \A i \in Slots : i # t => From(i)' = From(i) /\ End(i)' = End(i)
  BY <1>6, <1>7 DEF From, End
<1>10. \A i \in Live : i # t
  BY <1>1, <1>2 DEF Live
<1>11. Live' = Live \union {t} /\ Pending' = Pending \union {t}
  BY <1>1, <1>2, <1>5, <1>6 DEF Live, Pending
<1>12. Pending \subseteq Live /\ Live \subseteq Slots
  BY DEF Pending, Live
<1>13. \A i \in Live : slots[i].ordinal \in Nat /\ slots[i].ordinal < slots'[t].ordinal
                       /\ slots'[i] = slots[i] /\ From(i)' = From(i) /\ End(i)' = End(i)
  <2>1. \A i \in Live : slots[i].ordinal \in Nat
    BY <1>1, <1>2, <1>12, SlotNumbers
  <2>2. QED
    BY <1>5, <1>6, <1>9, <1>10, <1>12, <2>1 DEF Sorted
<1>14. \A i \in Live : End(i) <= global
  <2>1. \A i \in Live : slots[i].state # "filling"
    BY <1>1, <1>2, <1>12 DEF IInv, Owned, Filling
  <2>2. QED
    BY <2>1 DEF Sorted
<1>15. \A i \in Live' : From(i)' < End(i)' /\ slots'[i].ordinal <= queue'.ordinal
  BY <1>5, <1>6, <1>8, <1>11, <1>13 DEF Sorted
<1>16. \A i, j \in Live' :
         /\ i # j => slots'[i].ordinal # slots'[j].ordinal
         /\ slots'[i].ordinal < slots'[j].ordinal => End(i)' <= From(j)'
  <2>1. ASSUME NEW i \in Live', NEW j \in Live'
        PROVE  /\ i # j => slots'[i].ordinal # slots'[j].ordinal
               /\ slots'[i].ordinal < slots'[j].ordinal => End(i)' <= From(j)'
    <3>1. CASE i = t /\ j = t
      BY <1>5, <1>6, <3>1
    <3>2. CASE i = t /\ j \in Live
      BY <1>5, <1>6, <1>10, <1>13, <3>2
    <3>3. CASE i \in Live /\ j = t
      BY <1>8, <1>10, <1>13, <1>14, <3>3
    <3>4. CASE i \in Live /\ j \in Live
      BY <1>13, <3>4 DEF Sorted
    <3>5. QED
      BY <1>11, <3>1, <3>2, <3>3, <3>4
  <2>2. QED
    BY <2>1
<1>17. \A i \in Live' : slots'[i].state # "filling" => End(i)' <= global'
  BY <1>5, <1>6, <1>11, <1>13, <1>14
<1>18. playback'.group # None =>
         \A i \in Pending' : slots'[playback'.group].ordinal < slots'[i].ordinal
  <2>1. SUFFICES ASSUME playback.group # None, NEW i \in Pending'
                 PROVE  slots'[playback.group].ordinal < slots'[i].ordinal
    OBVIOUS
  <2>2. playback.group \in Live
    BY <2>1 DEF IInv, Typed, Owned, Playing, Live
  <2>3. CASE i = t
    BY <1>13, <2>2, <2>3
  <2>4. CASE i \in Pending
    BY <1>12, <1>13, <2>1, <2>2, <2>4 DEF Sorted
  <2>5. QED
    BY <1>11, <2>3, <2>4
<1>19. Sorted'
  BY <1>1, <1>2, <1>3, <1>5, <1>6, <1>7, <1>15, <1>16, <1>17, <1>18 DEF Sorted
<1>20. QED
  BY <1>1, <1>2, <1>5, <1>6, <1>8, <1>19

\* A group that is finished is the last record of the stream so far.
LEMMA CorrectSorted == ASSUME IInv, PInv, Sorted, Correct PROVE Sorted'
<1> DEFINE p == queue.preparing
<1>1. /\ p # None /\ slots[p].stage = Width
      /\ slots' = [slots EXCEPT ![p].state = "ready",
                                ![p].patch = <<slots[p].start, worker.parity>>]
      /\ queue'.preparing = None /\ queue'.ordinal = queue.ordinal
      /\ UNCHANGED <<transfer, global, playback>>
  BY DEF Correct, filling, IInv, Typed
<1>2. p \in Slots /\ slots[p].state = "filling"
  BY <1>1, PreparingAlone
<1>3. slots = [i \in Slots |-> slots[i]] /\ IsSlot(slots[p])
  BY <1>2 DEF IInv, Typed
<1>4. \A i \in Slots :
        /\ slots'[i].start = slots[i].start
        /\ slots'[i].overlap = slots[i].overlap
        /\ slots'[i].ordinal = slots[i].ordinal
        /\ slots'[i].state = IF i = p THEN "ready" ELSE slots[i].state
  <2> HIDE DEF p
  <2>1. QED
    BY <1>1, <1>2, <1>3 DEF IsSlot
<1>5. Total' = Total /\ Width' = Width
  BY <1>1, TotalLeft
<1>6. Live' = Live /\ Pending' = Pending
  BY <1>2, <1>4 DEF Live, Pending
<1>7. \A i \in Slots : From(i)' = From(i) /\ End(i)' = End(i)
  BY <1>4, <1>5 DEF From, End
<1>8. End(p) <= global
  <2>1. slots[p].start \in Nat /\ slots[p].overlap \in Nat /\ Width \in Nat /\ From(p) < End(p)
    BY <1>2, SlotNumbers, Options DEF IInv, Sorted, Live
  <2>2. Begun = Width
    BY <1>1, <2>1 DEF PInv, InStep, Begun
  <2>3. global = slots[p].start + Width
    BY <1>1, <2>1, <2>2 DEF PInv, InStep, From, End
  <2>4. QED
    BY <2>1, <2>3 DEF End
<1>9. playback.group # None => playback.group \in Slots
  BY DEF IInv, Typed
<1>10. Live \subseteq Slots /\ Pending \subseteq Slots
  BY DEF Live, Pending
<1> HIDE DEF p
<1>11. \A i \in Live' : slots'[i].state # "filling" => End(i)' <= global'
  BY <1>1, <1>4, <1>6, <1>7, <1>8, <1>10 DEF Sorted
<1>12. playback'.group # None =>
         \A i \in Pending' : slots'[playback'.group].ordinal < slots'[i].ordinal
  BY <1>1, <1>4, <1>6, <1>9, <1>10 DEF Sorted
<1>13. /\ \A i \in Live' : From(i)' < End(i)' /\ slots'[i].ordinal <= queue'.ordinal
       /\ \A i, j \in Live' :
            /\ i # j => slots'[i].ordinal # slots'[j].ordinal
            /\ slots'[i].ordinal < slots'[j].ordinal => End(i)' <= From(j)'
  <2>1. \A i \in Live' : /\ i \in Live /\ slots'[i].ordinal = slots[i].ordinal
                         /\ From(i)' = From(i) /\ End(i)' = End(i)
    BY <1>4, <1>6, <1>7, <1>10
  <2>2. \A i \in Live' : From(i)' < End(i)' /\ slots'[i].ordinal <= queue'.ordinal
    BY <1>1, <2>1 DEF Sorted
  <2>3. QED
    BY <2>1, <2>2 DEF Sorted
<1>14. QED
  BY <1>1, <1>5, <1>11, <1>12, <1>13 DEF Sorted

\* A step that plays the group that was the first in the queue: the one before
\* is free or was none.
LEMMA PlaySorted ==
  ASSUME IInv, Sorted, UNCHANGED <<transfer, global>>, NEW n \in Ready,
         \A j \in Ready : slots[n].ordinal <= slots[j].ordinal,
         playback'.group = n,
         queue'.ordinal = queue.ordinal, queue'.preparing = queue.preparing,
         slots'[n].state = "playing",
         \A i \in Slots :
           /\ slots'[i].start = slots[i].start
           /\ slots'[i].overlap = slots[i].overlap
           /\ slots'[i].ordinal = slots[i].ordinal
           /\ i # n => slots'[i].state \in {slots[i].state, "free"}
  PROVE  Sorted'
<1>1. Total' = Total /\ Width' = Width
  BY TotalLeft
<1>2. n \in Slots /\ slots[n].state = "ready" /\ n \in Live
  BY DEF Ready, Live
<1>3. Live' \subseteq Live /\ Live \subseteq Slots /\ Pending' \subseteq Pending \ {n}
  BY <1>2 DEF Live, Pending
<1>4. \A i \in Live' : /\ i \in Live /\ slots'[i].ordinal = slots[i].ordinal
                       /\ From(i)' = From(i) /\ End(i)' = End(i)
  BY <1>1, <1>3 DEF From, End
<1>5. \A i \in Live' : slots'[i].state # "filling" => End(i)' <= global'
  <2>1. \A i \in Live' : slots'[i].state # "filling" => slots[i].state # "filling"
    BY <1>2 DEF Live
  <2>2. QED
    BY <1>4, <2>1 DEF Sorted
<1>6. \A i \in Pending' : slots'[n].ordinal < slots'[i].ordinal
  <2>1. SUFFICES ASSUME NEW i \in Pending' PROVE slots[n].ordinal < slots[i].ordinal
    BY <1>2, <1>3 DEF Pending
  <2>2. i \in Pending /\ i # n /\ i \in Slots /\ i \in Live
    BY <1>3, <2>1 DEF Pending, Live
  <2>3. slots[n].ordinal # slots[i].ordinal
    BY <1>2, <2>2 DEF Sorted
  <2>4. slots[n].ordinal \in Nat /\ slots[i].ordinal \in Nat
    BY <1>2, <2>2, SlotNumbers DEF IInv
  <2>5. CASE slots[i].state = "ready"
    BY <2>2, <2>3, <2>4, <2>5 DEF Ready
  <2>6. CASE slots[i].state = "filling"
    <3>1. i = queue.preparing /\ queue.preparing # None
      BY <2>2, <2>6 DEF IInv, Owned, Filling
    <3>2. slots[i].ordinal = queue.ordinal /\ slots[n].ordinal <= queue.ordinal
      BY <1>2, <3>1 DEF Sorted
    <3>3. QED
      BY <2>3, <2>4, <3>2
  <2>7. QED
    BY <2>2, <2>5, <2>6 DEF Pending
<1>7. queue'.preparing # None => slots'[queue'.preparing].ordinal = queue'.ordinal
  BY PreparingAlone DEF Sorted
<1>8. \A i \in Live' : From(i)' < End(i)' /\ slots'[i].ordinal <= queue'.ordinal
  BY <1>4 DEF Sorted
<1>9. \A i, j \in Live' :
        /\ i # j => slots'[i].ordinal # slots'[j].ordinal
        /\ slots'[i].ordinal < slots'[j].ordinal => End(i)' <= From(j)'
  BY <1>4 DEF Sorted
<1>10. QED
  BY <1>1, <1>5, <1>6, <1>7, <1>8, <1>9 DEF Sorted

\* The group that is played next is the first in the queue.
LEMMA EarliestFirst ==
  ASSUME Typed, Owned, queue.ready > 0
  PROVE  Earliest \in Ready /\ \A j \in Ready : slots[Earliest].ordinal <= slots[j].ordinal
<1>1. Ready \subseteq Slots /\ Ready # {}
  BY EarliestReady DEF Ready
<1>2. QED
  BY <1>1, LowestOrdinal DEF Earliest

LEMMA NextReadyFirst ==
  ASSUME IInv, Sorted, Later # {}, playback.group # None
  PROVE  NextReady \in Ready /\ \A j \in Ready : slots[NextReady].ordinal <= slots[j].ordinal
<1>1. Later = Ready /\ Ready \subseteq Slots
  BY DEF Later, Ready, Pending, Sorted, current
<1>2. QED
  BY <1>1, LowestOrdinal DEF NextReady, IInv

-----------------------------------------------------------------------------
(* Sorted holds.                                                           *)

\* A step that leaves the slots, or only plays the next symbol of a group.
LEMMA QueueSorted ==
  ASSUME IInv, Sorted, UNCHANGED <<transfer, global>>,
         queue' = queue, playback'.group = playback.group,
         \A i \in Slots :
           /\ slots'[i].start = slots[i].start
           /\ slots'[i].overlap = slots[i].overlap
           /\ slots'[i].ordinal = slots[i].ordinal
           /\ slots'[i].state = slots[i].state
  PROVE  Sorted'
<1>1. global \in Nat /\ global <= Total
  BY DEF IInv, Typed, Sorted
<1>2. QED
  BY <1>1, SortedLeft

LEMMA TakenSorted ==
  ASSUME IInv, PInv, Sorted, Begin
  PROVE  Sorted'
<1>1. UNCHANGED <<transfer, slots, queue, playback>> /\ global \in Nat /\ Total \in Nat
  BY Options DEF Begin, IInv, Typed
<1>2. global' \in {global, global + 1} /\ global <= Total
  BY DEF Begin, BeginOverlap, BeginNext, ReadFails, Sorted
<1>3. global' # global => global < Total
  <2>1. SUFFICES ASSUME global' # global PROVE global < Total
    OBVIOUS
  <2>2. BeginNext
    BY <2>1 DEF Begin, BeginOverlap, ReadFails
  <2>3. QED
    BY <2>2, TakenFits DEF BeginNext, Producing
<1>4. global' \in Nat /\ global <= global' /\ global' <= Total
  BY <1>1, <1>2, <1>3
<1>5. QED
  BY <1>1, <1>4, SortedLeft

LEMMA ActivateSorted == ASSUME IInv, Sorted, Activate PROVE Sorted'
<1>1. Typed /\ Owned /\ queue.ready > 0 /\ slots = [i \in Slots |-> slots[i]]
  <2>1. queue.ready \in Nat
    BY DEF IInv, Typed
  <2>2. QED
    BY <2>1 DEF IInv, Typed, Activate
<1>2. PICK n \in Ready : n = Earliest /\ \A j \in Ready : slots[n].ordinal <= slots[j].ordinal
  BY <1>1, EarliestFirst
<1>3. n \in Slots /\ IsSlot(slots[n])
  BY <1>1, <1>2 DEF Ready, Typed
<1>4. /\ slots' = [slots EXCEPT ![n].state = "playing"]
      /\ queue'.ordinal = queue.ordinal /\ queue'.preparing = queue.preparing
      /\ playback'.group = n
      /\ UNCHANGED <<transfer, global>>
  <2>1. /\ slots' = [slots EXCEPT ![n].state = "playing"]
        /\ queue' = [queue EXCEPT !.ready = @ - 1]
        /\ UNCHANGED <<transfer, global>>
    BY <1>2 DEF Activate, producer
  <2>2. playback' = [group |-> n, symbol |-> 0, active |-> TRUE, focus |-> FALSE]
          \/ playback' = [playback EXCEPT !.group = n, !.symbol = 0]
    BY <1>2 DEF Activate
  <2>3. playback'.group = n
    <3>1. playback \in PlaybackType
      BY <1>1 DEF Typed
    <3>2. CASE playback' = [group |-> n, symbol |-> 0, active |-> TRUE, focus |-> FALSE]
      BY <3>2
    <3>3. CASE playback' = [playback EXCEPT !.group = n, !.symbol = 0]
      BY <3>1, <3>3
    <3>4. QED
      BY <2>2, <3>2, <3>3
  <2>4. queue'.ordinal = queue.ordinal /\ queue'.preparing = queue.preparing
    BY <1>1, <2>1 DEF Typed
  <2>5. QED
    BY <2>1, <2>3, <2>4
<1>5. \A i \in Slots : slots'[i] = IF i = n THEN [slots[n] EXCEPT !.state = "playing"] ELSE slots[i]
  BY <1>1, <1>3, <1>4
<1>6. /\ slots'[n].state = "playing"
      /\ slots'[n].start = slots[n].start /\ slots'[n].overlap = slots[n].overlap
      /\ slots'[n].ordinal = slots[n].ordinal
  BY <1>3, <1>5 DEF IsSlot
<1>7. QED
  BY <1>2, <1>4, <1>5, <1>6, PlaySorted

LEMMA ReleaseSorted == ASSUME IInv, Sorted, ReleaseGroup PROVE Sorted'
<1> DEFINE g == playback.group
<1>1. loop.pc = "handoff" /\ g # None /\ Later # {} /\ g \in Slots /\ slots[g].state = "playing"
  BY DEF ReleaseGroup, IInv, Staged, Typed, Owned, Playing
<1>2. PICK n \in Ready : n = NextReady /\ \A j \in Ready : slots[n].ordinal <= slots[j].ordinal
  BY <1>1, NextReadyFirst
<1>3. n \in Slots /\ IsSlot(slots[n]) /\ IsSlot(slots[g]) /\ slots[n].state = "ready" /\ n # g
  BY <1>1, <1>2 DEF Ready, IInv, Typed
<1>4. /\ slots' = [slots EXCEPT ![g].state = "free", ![g].applied = FALSE,
                                ![n].state = "playing"]
      /\ queue' = [queue EXCEPT !.ready = @ - 1]
      /\ playback' = [playback EXCEPT !.group = n, !.symbol = 0]
      /\ UNCHANGED <<transfer, global>>
  BY <1>2 DEF ReleaseGroup, producer
<1>5. /\ queue'.ordinal = queue.ordinal /\ queue'.preparing = queue.preparing
      /\ playback'.group = n
  <2>1. queue'.ordinal = queue.ordinal /\ queue'.preparing = queue.preparing
    BY <1>4 DEF IInv, Typed
  <2>2. playback'.group = n
    BY <1>4 DEF IInv, Typed
  <2>3. QED
    BY <2>1, <2>2
<1> HIDE DEF g
<1>6. slots'[g] = [slots[g] EXCEPT !.state = "free", !.applied = FALSE]
      /\ slots'[n] = [slots[n] EXCEPT !.state = "playing"]
      /\ \A i \in Slots : i # g /\ i # n => slots'[i] = slots[i]
  BY <1>1, <1>3, <1>4 DEF IInv, Typed
<1>7. /\ slots'[n].start = slots[n].start
      /\ slots'[n].overlap = slots[n].overlap
      /\ slots'[n].ordinal = slots[n].ordinal
  BY <1>3, <1>6 DEF IsSlot
<1>8. /\ slots'[g].start = slots[g].start
      /\ slots'[g].overlap = slots[g].overlap
      /\ slots'[g].ordinal = slots[g].ordinal
  BY <1>3, <1>6 DEF IsSlot
<1>9. slots'[n].state = "playing" /\ slots'[g].state = "free"
  <2>1. slots'[n].state = "playing"
    BY <1>3, <1>6 DEF IsSlot
  <2>2. slots'[g].state = "free"
    BY <1>3, <1>6 DEF IsSlot
  <2>3. QED
    BY <2>1, <2>2
<1>10. \A i \in Slots :
        /\ slots'[i].start = slots[i].start
        /\ slots'[i].overlap = slots[i].overlap
        /\ slots'[i].ordinal = slots[i].ordinal
        /\ i # n => slots'[i].state \in {slots[i].state, "free"}
  BY <1>6, <1>7, <1>8, <1>9
<1>11. QED
  BY <1>2, <1>4, <1>5, <1>9, <1>10, PlaySorted

\* A step that applies the patch of a group.
LEMMA PatchSorted ==
  ASSUME IInv, Sorted, NextSymbol \/ ApplyCorrection
  PROVE  Sorted'
<1> DEFINE g == playback.group
<1>1. /\ UNCHANGED <<transfer, global, queue>>
      /\ slots' = slots \/ slots' = [slots EXCEPT ![g].applied = TRUE]
      /\ playback' = playback \/ playback' = [playback EXCEPT !.symbol = playback.symbol + 1]
  BY DEF NextSymbol, ApplyCorrection, producer
<1>2. playback'.group = playback.group
  BY <1>1 DEF IInv, Typed
<1>3. \A i \in Slots :
        /\ slots'[i].start = slots[i].start
        /\ slots'[i].overlap = slots[i].overlap
        /\ slots'[i].ordinal = slots[i].ordinal
        /\ slots'[i].state = slots[i].state
  <2>1. CASE slots' = slots
    BY <2>1
  <2>2. CASE slots' = [slots EXCEPT ![g].applied = TRUE]
    <3>1. ASSUME NEW i \in Slots
          PROVE  slots'[i] = IF i = g THEN [slots[i] EXCEPT !.applied = TRUE] ELSE slots[i]
      BY <2>2 DEF IInv, Typed
    <3>2. \A i \in Slots : IsSlot(slots[i])
      BY DEF IInv, Typed
    <3> HIDE DEF g
    <3>3. QED
      BY <3>1, <3>2 DEF IsSlot
  <2>3. QED
    BY <1>1, <2>1, <2>2
<1>4. QED
  BY <1>1, <1>2, <1>3, QueueSorted

LEMMA StoreSorted == ASSUME IInv, Sorted, Store PROVE Sorted'
<1> DEFINE p == queue.preparing
<1>1. UNCHANGED <<transfer, global, queue, playback>> /\ slots' = [slots EXCEPT ![p].stage = @ + 1]
  BY DEF Store
<1>2. \A i \in Slots :
        /\ slots'[i].start = slots[i].start
        /\ slots'[i].overlap = slots[i].overlap
        /\ slots'[i].ordinal = slots[i].ordinal
        /\ slots'[i].state = slots[i].state
  <2>1. ASSUME NEW i \in Slots
        PROVE  slots'[i] = IF i = p THEN [slots[i] EXCEPT !.stage = @ + 1] ELSE slots[i]
    BY <1>1 DEF IInv, Typed
  <2>2. \A i \in Slots : IsSlot(slots[i])
    BY DEF IInv, Typed
  <2> HIDE DEF p
  <2>3. QED
    BY <2>1, <2>2 DEF IsSlot
<1>3. QED
  BY <1>1, <1>2, QueueSorted

LEMMA StoreTailSorted == ASSUME IInv, Sorted, StoreTail PROVE Sorted'
<1>1. /\ UNCHANGED <<transfer, slots, queue, playback>> /\ global' = global + 1
      /\ global \in Nat /\ Total \in Nat /\ global < Total
  BY Options DEF StoreTail, TailDue, IInv, Typed
<1>2. global' \in Nat /\ global <= global' /\ global' <= Total
  BY <1>1
<1>3. QED
  BY <1>1, <1>2, SortedLeft

LEMMA ReleaseTailSorted == ASSUME IInv, Sorted, ReleaseTail PROVE Sorted'
<1> DEFINE g == playback.group
<1>1. UNCHANGED <<transfer, global, queue>> /\ global \in Nat /\ global <= Total
  BY DEF ReleaseTail, producer, Sorted, IInv, Typed
<1>2. CASE g # None
  <2>1. /\ slots' = [slots EXCEPT ![g].state = "free", ![g].applied = FALSE]
        /\ playback' = [playback EXCEPT !.group = None]
    BY <1>2 DEF ReleaseTail
  <2>2. playback'.group = None
    BY <2>1 DEF IInv, Typed
  <2>3. \A i \in Slots :
          /\ slots'[i].start = slots[i].start
          /\ slots'[i].overlap = slots[i].overlap
          /\ slots'[i].ordinal = slots[i].ordinal
          /\ slots'[i].state # "free" => slots'[i].state = slots[i].state
    <3>1. ASSUME NEW i \in Slots
          PROVE  slots'[i] = IF i = g THEN [slots[i] EXCEPT !.state = "free", !.applied = FALSE]
                                      ELSE slots[i]
      BY <2>1 DEF IInv, Typed
    <3>2. \A i \in Slots : IsSlot(slots[i])
      BY DEF IInv, Typed
    <3> HIDE DEF g
    <3>3. QED
      BY <3>1, <3>2 DEF IsSlot
  <2>4. QED
    BY <1>1, <2>2, <2>3, SortedLeft
<1>3. CASE g = None
  BY <1>1, <1>3, QueueSorted DEF ReleaseTail
<1>4. QED
  BY <1>2, <1>3

LEMMA NextSorted == ASSUME IInv, PInv, Sorted, [Next]_vars PROVE Sorted'
<1>1. CASE PlaybackTick
  <2>1. CASE TickIdle \/ TickEarly \/ Handoff \/ Underrun \/ Drain
    <3>1. UNCHANGED <<transfer, global, slots, queue>> /\ playback'.group = playback.group
      BY <2>1 DEF TickIdle, TickEarly, Handoff, Underrun, Drain, producer, IInv, Typed
    <3>2. QED
      BY <3>1, QueueSorted
  <2>2. QED
    BY <1>1, <2>1, ActivateSorted, ReleaseSorted, PatchSorted DEF PlaybackTick
<1>2. CASE Produce
  <2>1. CASE Encode \/ Draw
    BY <2>1, QueueSorted DEF Encode, Draw
  <2>2. QED
    BY <1>2, <2>1, TakenSorted, StoreSorted, CorrectSorted DEF Produce
<1>3. CASE Tail
  <2>1. CASE TailFails \/ ShowTail \/ NoTail
    BY <2>1, QueueSorted DEF TailFails, ShowTail, NoTail, producer
  <2>2. QED
    BY <1>3, <2>1, StoreTailSorted, ReleaseTailSorted DEF Tail
<1>4. CASE PrefillClaim \/ LoopClaim
  <2>1. UNCHANGED <<transfer, global, playback>>
    BY <1>4 DEF PrefillClaim, LoopClaim
  <2>2. ClaimGroup \/ UNCHANGED <<slots, queue>>
    BY <1>4 DEF PrefillClaim, LoopClaim
  <2>3. QED
    BY <2>1, <2>2, ClaimSorted, QueueSorted
<1>5. CASE PrefillEnd \/ Deadline \/ UNCHANGED vars
  BY <1>5, QueueSorted DEF PrefillEnd, Deadline, producer, vars
<1>6. QED
  BY <1>1, <1>2, <1>3, <1>4, <1>5 DEF Next, Loop

LEMMA InitSorted == ASSUME Init PROVE Sorted
<1>1. Live = {} /\ Pending = {}
  BY DEF Init, Live, Pending, FreeSlot
<1>2. global <= Total
  <2>1. Typed
    BY InitIInv DEF IInv
  <2>2. Total \in Nat /\ global = 0
    BY <2>1, Options DEF Init
  <2>3. QED
    BY <2>2
<1>3. QED
  BY <1>1, <1>2 DEF Init, Sorted

-----------------------------------------------------------------------------
(* What is still to come.                                                  *)

\* The groups in the queue show the records n..(global - 1), and no others.
Covers(n) ==
  /\ n <= global
  /\ \A i \in Pending : n <= From(i)
  /\ \A r \in n..(global - 1) : \E i \in Pending : From(i) <= r /\ r < End(i)

\* A step that leaves the queue as it is.
LEMMA CoversLeft ==
  ASSUME UNCHANGED <<transfer, global>>,
         \A i \in Slots :
           /\ slots'[i].start = slots[i].start
           /\ slots'[i].overlap = slots[i].overlap
           /\ slots'[i].state \in {"ready", "filling"} <=> slots[i].state \in {"ready", "filling"}
  PROVE  \A n \in Nat : Covers(n) => Covers(n)'
<1>1. Pending' = Pending
  BY DEF Pending
<1>2. Width' = Width
  BY TotalLeft
<1>3. \A i \in Pending : From(i)' = From(i) /\ End(i)' = End(i)
  BY <1>2 DEF From, End, Pending
<1>4. QED
  BY <1>1, <1>3 DEF Covers

LEMMA NothingPending ==
  ASSUME IInv, queue.ready = 0, queue.preparing = None
  PROVE  Pending = {}
<1>1. Ready = {}
  <2>1. Ready \subseteq Slots /\ Cardinality(Ready) = 0
    BY DEF Ready, IInv, Owned
  <2>2. QED
    BY <2>1, SlotsFinite DEF IInv
<1>2. Filling = {}
  BY DEF IInv, Owned
<1>3. QED
  BY <1>1, <1>2 DEF Ready, Filling, Pending

\* With an empty queue nothing is still to come.
LEMMA CoversAll ==
  ASSUME IInv, queue.ready = 0, queue.preparing = None, NEW n \in Nat, Covers(n)
  PROVE  n = global
<1>1. n <= global /\ global \in Nat
  BY DEF Covers, IInv, Typed
<1>2. ~(n < global)
  <2>1. SUFFICES ASSUME n < global PROVE FALSE
    OBVIOUS
  <2>2. n \in n..(global - 1)
    BY <1>1, <2>1
  <2>3. QED
    BY <2>2, NothingPending DEF Covers
<1>3. QED
  BY <1>1, <1>2

\* A group that is claimed is still to come ...
LEMMA CoversClaim ==
  ASSUME IInv, Sorted, ClaimGroup, UNCHANGED <<transfer, global, playback>>
  PROVE  \A n \in Nat : Covers(n) => Covers(n)'
<1>1. PICK t \in Slots :
              /\ slots[t].state = "free" /\ slots'[t].state = "filling"
              /\ \A i \in Slots : i # t => slots'[i] = slots[i]
              /\ From(t)' = global
  BY ClaimSorted
<1>2. Width' = Width
  BY TotalLeft
<1>3. Pending' = Pending \union {t} /\ t \notin Pending /\ Pending \subseteq Slots
  BY <1>1 DEF Pending
<1>4. \A i \in Pending : From(i)' = From(i) /\ End(i)' = End(i)
  BY <1>1, <1>2, <1>3 DEF From, End
<1>5. QED
  BY <1>1, <1>3, <1>4 DEF Covers

\* ... and so is each record it takes.
LEMMA CoversTaken ==
  ASSUME IInv, PInv, Sorted, Begin
  PROVE  \A n \in Nat : Covers(n) => Covers(n)'
<1>1. UNCHANGED <<transfer, slots, queue, playback>> /\ global \in Nat
  BY DEF Begin, IInv, Typed
<1>2. CASE global' = global
  BY <1>1, <1>2, CoversLeft
<1>3. CASE global' # global
  <2> DEFINE p == queue.preparing
  <2>1. BeginNext
    BY <1>3 DEF Begin, BeginOverlap, ReadFails
  <2>2. p # None /\ global' = global + 1 /\ From(p) <= global /\ global < End(p)
    BY <2>1, TakenFits DEF BeginNext, Producing
  <2>3. p \in Pending
    BY <2>2, PreparingAlone DEF Pending
  <2>4. Pending' = Pending /\ Width' = Width
    BY <1>1, TotalLeft DEF Pending
  <2>5. \A i \in Pending : From(i)' = From(i) /\ End(i)' = End(i)
    BY <1>1, <2>4 DEF From, End
  <2> HIDE DEF p
  <2>6. ASSUME NEW n \in Nat, Covers(n) PROVE Covers(n)'
    <3>1. n <= global'
      BY <1>1, <2>2, <2>6 DEF Covers
    <3>2. \A i \in Pending' : n <= From(i)'
      BY <2>4, <2>5, <2>6 DEF Covers
    <3>3. ASSUME NEW r \in n..(global' - 1)
          PROVE  \E i \in Pending' : From(i)' <= r /\ r < End(i)'
      <4>1. CASE r = global
        BY <2>2, <2>3, <2>4, <2>5, <4>1
      <4>2. CASE r # global
        <5>1. r \in n..(global - 1)
          BY <1>1, <2>2, <4>2
        <5>2. QED
          BY <2>4, <2>5, <2>6, <5>1 DEF Covers
      <4>3. QED
        BY <4>1, <4>2
    <3>4. QED
      BY <3>1, <3>2, <3>3 DEF Covers
  <2>7. QED
    BY <2>6
<1>4. QED
  BY <1>2, <1>3

\* The first group of the queue begins with what is still to come ...
LEMMA FirstFrom ==
  ASSUME IInv, Sorted, NEW n \in Nat, Covers(n), NEW f \in Ready,
         \A j \in Ready : slots[f].ordinal <= slots[j].ordinal
  PROVE  /\ From(f) = n
         /\ \A i \in Pending : i # f => End(f) <= From(i)
<1>1. f \in Slots /\ f \in Pending /\ f \in Live /\ slots[f].state = "ready"
  BY DEF Ready, Pending, Live
<1>2. Pending \subseteq Slots /\ Pending \subseteq Live
  BY DEF Pending, Live
<1>3. \A i \in Pending : From(i) \in Nat /\ End(i) \in Nat /\ slots[i].ordinal \in Nat
  BY <1>2, SlotNumbers DEF IInv
<1>4. \A i \in Pending : i # f => slots[f].ordinal < slots[i].ordinal
  <2>1. SUFFICES ASSUME NEW i \in Pending, i # f PROVE slots[f].ordinal < slots[i].ordinal
    OBVIOUS
  <2>2. slots[f].ordinal # slots[i].ordinal
    BY <1>1, <1>2, <2>1 DEF Sorted
  <2>3. CASE slots[i].state = "ready"
    BY <1>1, <1>3, <2>2, <2>3 DEF Ready, Pending
  <2>4. CASE slots[i].state = "filling"
    <3>1. i = queue.preparing /\ queue.preparing # None
      BY <1>2, <2>4 DEF IInv, Owned, Filling
    <3>2. slots[i].ordinal = queue.ordinal /\ slots[f].ordinal <= queue.ordinal
      BY <1>1, <3>1 DEF Sorted
    <3>3. QED
      BY <1>1, <1>3, <2>2, <3>2
  <2>5. QED
    BY <2>3, <2>4 DEF Pending
<1>5. \A i \in Pending : i # f => End(f) <= From(i)
  BY <1>1, <1>2, <1>4 DEF Sorted
<1>6. From(f) < End(f) /\ End(f) <= global /\ global \in Nat
  BY <1>1 DEF Sorted, IInv, Typed
<1>7. n <= From(f)
  BY <1>1 DEF Covers
<1>8. n \in n..(global - 1)
  BY <1>1, <1>3, <1>6, <1>7
<1>9. PICK i \in Pending : From(i) <= n /\ n < End(i)
  BY <1>8 DEF Covers
<1>10. i = f
  BY <1>1, <1>3, <1>5, <1>6, <1>7, <1>9
<1>11. QED
  BY <1>1, <1>3, <1>5, <1>7, <1>9, <1>10

\* ... and once it plays the rest is to come.
LEMMA CoversPlay ==
  ASSUME IInv, Sorted, NEW n \in Nat, Covers(n), NEW f \in Ready,
         \A j \in Ready : slots[f].ordinal <= slots[j].ordinal,
         UNCHANGED <<transfer, global>>,
         slots'[f].state = "playing",
         \A i \in Slots :
           /\ slots'[i].start = slots[i].start
           /\ slots'[i].overlap = slots[i].overlap
           /\ i # f => (slots'[i].state \in {"ready", "filling"}
                          <=> slots[i].state \in {"ready", "filling"})
  PROVE  \A m \in Nat : m = End(f) => Covers(m)'
<1>1. f \in Slots /\ f \in Pending /\ f \in Live /\ slots[f].state = "ready"
  BY DEF Ready, Pending, Live
<1>2. Pending \subseteq Slots
  BY DEF Pending
<1>3. \A i \in Pending : From(i) \in Nat /\ End(i) \in Nat
  BY <1>2, SlotNumbers DEF IInv
<1>4. From(f) = n /\ \A i \in Pending : i # f => End(f) <= From(i)
  BY FirstFrom
<1>5. From(f) < End(f) /\ End(f) <= global /\ global \in Nat
  BY <1>1 DEF Sorted, IInv, Typed
<1>6. Pending' = Pending \ {f}
  BY <1>1 DEF Pending
<1>7. \A i \in Pending : From(i)' = From(i) /\ End(i)' = End(i)
  BY <1>2, TotalLeft DEF From, End
<1>8. ASSUME NEW m \in Nat, m = End(f) PROVE Covers(m)'
  <2>1. m <= global' /\ \A i \in Pending' : m <= From(i)'
    BY <1>4, <1>5, <1>6, <1>7, <1>8
  <2>2. ASSUME NEW r \in m..(global' - 1)
        PROVE  \E i \in Pending' : From(i)' <= r /\ r < End(i)'
    <3>1. r \in n..(global - 1)
      BY <1>1, <1>3, <1>4, <1>5, <1>8
    <3>2. PICK i \in Pending : From(i) <= r /\ r < End(i)
      BY <3>1 DEF Covers
    <3>3. i # f
      BY <1>1, <1>3, <1>8, <3>2
    <3>4. QED
      BY <1>6, <1>7, <3>2, <3>3
  <2>3. QED
    BY <2>1, <2>2 DEF Covers
<1>9. QED
  BY <1>8

-----------------------------------------------------------------------------
(* What has been shown.                                                    *)

ShownTo(n) == shown = 0..(n - 1)

\* The records up to here have been shown, once s planes of a group have.
Turn(i, s) ==
  IF From(i) < slots[i].start + s THEN slots[i].start + s ELSE From(i)

\* The planes of the group on the screen that have been shown.
Seen == IF playback.symbol < Width THEN playback.symbol + 1 ELSE Width

Ordered ==
  /\ loop.pc = "handoff" =>
       \A n \in Ready : (\A j \in Ready : slots[n].ordinal <= slots[j].ordinal) =>
         ShownTo(Turn(n, 1))
  /\ playback.active /\ loop.pc # "handoff" => ShownTo(Turn(playback.group, Seen))
  /\ playback.active => \A n \in Nat : n = End(playback.group) => Covers(n)
  /\ ~playback.active /\ loop.pc \notin {"failed", "tail_stored"} =>
       \E n \in Nat : ShownTo(n) /\ Covers(n)
  /\ loop.pc = "tail_stored" =>
       /\ global > 0 /\ ShownTo(global - 1)
       /\ vram[TailOf(slots, reserved, playback.group)] =
            [p \in Planes |-> Plain(Data(global - 1))]
  /\ \E n \in 0..Total : ShownTo(n)
  /\ loop.pc = "done" => shown = Records

\* A step that shows nothing.
LEMMA OrderedLeft ==
  ASSUME IInv, Ordered, UNCHANGED <<transfer, shown>>,
         playback'.group = playback.group, playback'.symbol = playback.symbol,
         playback'.active = playback.active,
         playback.active => /\ slots'[playback.group].start = slots[playback.group].start
                            /\ slots'[playback.group].overlap = slots[playback.group].overlap,
         loop.pc \notin {"handoff", "tail_stored"},
         loop'.pc \notin {"handoff", "tail_stored"},
         loop.pc = "failed" => loop'.pc = "failed",
         loop'.pc = "done" => shown = Records,
         \A n \in Nat : Covers(n) => Covers(n)'
  PROVE  Ordered'
<1>1. Total' = Total /\ Width' = Width
  BY TotalLeft
<1>2. playback.active => /\ Turn(playback.group, Seen)' = Turn(playback.group, Seen)
                         /\ End(playback.group)' = End(playback.group)
  BY <1>1 DEF Turn, Seen, From, End
<1>3. playback'.active /\ loop'.pc # "handoff" => ShownTo(Turn(playback.group, Seen))'
  BY <1>2 DEF Ordered, ShownTo
<1>4. playback'.active => \A n \in Nat : n = End(playback.group)' => Covers(n)'
  BY <1>2 DEF Ordered
<1>5. ~playback'.active /\ loop'.pc \notin {"failed", "tail_stored"} =>
        \E n \in Nat : ShownTo(n)' /\ Covers(n)'
  BY DEF Ordered, ShownTo
<1>6. \E n \in 0..Total' : ShownTo(n)'
  BY <1>1 DEF Ordered, ShownTo
<1>7. loop'.pc = "done" => shown' = Records'
  BY <1>1 DEF Records
<1>8. QED
  BY <1>3, <1>4, <1>5, <1>6, <1>7 DEF Ordered

\* The pages of a group that is shown are those of its records.
LEMMA PlaneSeen ==
  ASSUME IInv, QInv, NEW i \in Slots, NEW s \in Group,
         \/ slots[i].state = "ready"
         \/ slots[i].state = "playing" /\ s > 0
  PROVE  vram[i][s] = Plain(Genuine(slots[i].start, s))
<1>1. Width \in Nat /\ Made(Width, slots[i], vram[i])
  BY Widths DEF QInv, Pages
<1>2. vram[i][s] = PlaneOf(Width, slots[i].start, s, slots[i].applied)
  BY <1>1 DEF Made, Group
<1>3. ~(s = 0 /\ slots[i].applied)
  <2>1. slots[i].state = "ready" => ~slots[i].applied
    BY DEF IInv, Owned
  <2>2. QED
    BY <1>1, <2>1 DEF Group
<1>4. QED
  BY <1>2, <1>3 DEF PlaneOf, Plain, Genuine, Basis

\* So a plane that is selected adds its record.
LEMMA ShowAdds ==
  ASSUME IInv, QInv, NEW i \in Slots, NEW s \in 0..Width, Show(i, s),
         \/ slots[i].state = "ready"
         \/ slots[i].state = "playing" /\ s > 0
  PROVE  shown' = shown \union (IF s < Width THEN {slots[i].start + s} ELSE {})
<1>1. Width \in Nat
  BY Widths
<1>2. shown' = shown \union {slots[i].start + p : p \in {q \in Group \intersect {s} :
                                vram[i][q] = Plain(Genuine(slots[i].start, q))}}
  BY DEF Show
<1>3. CASE s < Width
  <2>1. s \in Group
    BY <1>1, <1>3 DEF Group
  <2>2. vram[i][s] = Plain(Genuine(slots[i].start, s))
    BY <2>1, PlaneSeen
  <2>3. {q \in Group \intersect {s} : vram[i][q] = Plain(Genuine(slots[i].start, q))} = {s}
    BY <2>1, <2>2
  <2>4. QED
    BY <1>2, <1>3, <2>3
<1>4. CASE ~(s < Width)
  <2>1. Group \intersect {s} = {}
    BY <1>1, <1>4 DEF Group
  <2>2. QED
    BY <1>2, <1>4, <2>1
<1>5. QED
  BY <1>3, <1>4

LEMMA OneMore ==
  ASSUME NEW a \in Nat
  PROVE  (0..(a - 1)) \union {a} = 0..((a + 1) - 1)
OBVIOUS

\* The turn of the next plane.
LEMMA TurnNext ==
  ASSUME IInv, NEW i \in Slots, NEW s \in Nat, ShownTo(Turn(i, s)),
         shown' = shown \union {slots[i].start + s}
  PROVE  shown' = 0..(Turn(i, s + 1) - 1)
<1>1. slots[i].start \in Nat /\ From(i) \in Nat /\ From(i) = slots[i].start + slots[i].overlap
      /\ slots[i].overlap \in Nat
  BY SlotNumbers DEF IInv, From
<1>2. CASE From(i) < slots[i].start + s + 1
  <2>1. Turn(i, s) = slots[i].start + s /\ Turn(i, s + 1) = slots[i].start + s + 1
    BY <1>1, <1>2 DEF Turn
  <2> DEFINE a == slots[i].start + s
  <2>2. a \in Nat /\ Turn(i, s + 1) = a + 1 /\ shown' = (0..(a - 1)) \union {a}
    BY <1>1, <2>1 DEF ShownTo
  <2> HIDE DEF a
  <2>3. QED
    BY <2>2, OneMore
<1>3. CASE ~(From(i) < slots[i].start + s + 1)
  <2>1. Turn(i, s) = From(i) /\ Turn(i, s + 1) = From(i)
    BY <1>1, <1>3 DEF Turn
  <2>2. slots[i].start + s \in 0..(From(i) - 1)
    BY <1>1, <1>3
  <2>3. QED
    BY <2>1, <2>2 DEF ShownTo
<1>4. QED
  BY <1>2, <1>3

\* The turn of a group starts where it begins and ends at its end.
LEMMA TurnBounds ==
  ASSUME IInv, Sorted, NEW i \in Slots, slots[i].state # "free"
  PROVE  /\ Turn(i, 0) = From(i) /\ Turn(i, Width) = End(i)
         /\ \A s \in 0..Width : Turn(i, s) \in 0..Total
<1>1. /\ slots[i].start \in Nat /\ From(i) \in Nat /\ End(i) \in Nat
      /\ slots[i].overlap \in Nat /\ Width \in Nat /\ Total \in Nat
  BY SlotNumbers, Options DEF IInv
<1>2. From(i) = slots[i].start + slots[i].overlap /\ End(i) = slots[i].start + Width
  BY DEF From, End
<1>3. From(i) < End(i) /\ End(i) <= Total
  BY EndFits DEF Sorted, Live
<1>4. QED
  BY <1>1, <1>2, <1>3 DEF Turn

-----------------------------------------------------------------------------
(* Ordered is kept.                                                        *)

\* A group that plays shows its next plane.
LEMMA TurnTaken ==
  ASSUME IInv, QInv, Sorted, NEW i \in Slots, NEW s \in 0..Width, Show(i, s),
         \/ slots[i].state = "ready"
         \/ slots[i].state = "playing" /\ s > 0,
         ShownTo(Turn(i, s))
  PROVE  shown' = 0..(Turn(i, IF s < Width THEN s + 1 ELSE Width) - 1)
<1>1. Width \in Nat /\ s \in Nat
  BY Widths
<1>2. shown' = shown \union (IF s < Width THEN {slots[i].start + s} ELSE {})
  BY ShowAdds
<1>3. CASE s < Width
  BY <1>1, <1>2, <1>3, TurnNext
<1>4. CASE ~(s < Width)
  <2>1. s = Width /\ shown' = shown
    BY <1>1, <1>2, <1>4
  <2>2. QED
    BY <1>4, <2>1 DEF ShownTo
<1>5. QED
  BY <1>3, <1>4

LEMMA NextSymbolOrdered ==
  ASSUME IInv, QInv, Sorted, Ordered, NextSymbol
  PROVE  Ordered'
<1> DEFINE g == playback.group
           s == playback.symbol + 1
<1>1. /\ playback.active /\ playback.symbol < Width /\ loop.pc = "tick"
      /\ playback' = [playback EXCEPT !.symbol = s]
      /\ Show(g, s)
      /\ loop' = [loop EXCEPT !.pc = "hidden"]
      /\ slots' = slots \/ slots' = [slots EXCEPT ![g].applied = TRUE]
      /\ UNCHANGED <<transfer, global, queue>>
  BY DEF NextSymbol, Due, Goto, producer
<1>2. g \in Slots /\ g # None /\ slots[g].state = "playing" /\ s \in 0..Width /\ s > 0
  <2>1. g # None
    BY <1>1 DEF IInv, Staged
  <2>2. playback.symbol \in 0..Width /\ Width \in Nat
    BY <2>1, Widths DEF QInv, Corrected
  <2>3. g \in Slots /\ slots[g].state = "playing"
    BY <2>1 DEF IInv, Typed, Owned, Playing
  <2>4. s \in 0..Width /\ s > 0
    BY <1>1, <2>2
  <2>5. QED
    BY <2>1, <2>3, <2>4
<1>3. playback'.group = g /\ playback'.symbol = s /\ playback'.active /\ loop'.pc = "hidden"
  <2>1. loop \in LoopType /\ playback \in PlaybackType
    BY DEF IInv, Typed
  <2> HIDE DEF s
  <2>2. QED
    BY <1>1, <2>1
<1>4. ShownTo(Turn(g, s))
  BY <1>1 DEF Ordered, Seen
<1>5. shown' = 0..(Turn(g, IF s < Width THEN s + 1 ELSE Width) - 1)
  BY <1>1, <1>2, <1>4, TurnTaken
<1>6. \A i \in Slots :
        /\ slots'[i].start = slots[i].start
        /\ slots'[i].overlap = slots[i].overlap
        /\ slots'[i].state = slots[i].state
  <2>1. CASE slots' = slots
    BY <2>1
  <2>2. CASE slots' = [slots EXCEPT ![g].applied = TRUE]
    <3>1. ASSUME NEW i \in Slots
          PROVE  slots'[i] = IF i = g THEN [slots[i] EXCEPT !.applied = TRUE] ELSE slots[i]
      BY <2>2 DEF IInv, Typed
    <3>2. \A i \in Slots : IsSlot(slots[i])
      BY DEF IInv, Typed
    <3> HIDE DEF g
    <3>3. QED
      BY <3>1, <3>2 DEF IsSlot
  <2>3. QED
    BY <1>1, <2>1, <2>2
<1>7. Width' = Width /\ Total' = Total
  BY <1>1, TotalLeft
<1>8. \A n \in Nat : n = End(g) => Covers(n)'
  BY <1>1, <1>6, CoversLeft DEF Ordered
<1> DEFINE d == IF s < Width THEN s + 1 ELSE Width
<1>9. d \in 0..Width /\ Seen' = d
  <2>1. Width \in Nat
    BY Widths
  <2>2. d \in 0..Width
    BY <1>2, <2>1
  <2>3. Seen' = d
    BY <1>3, <1>7 DEF Seen
  <2>4. QED
    BY <2>2, <2>3
<1> HIDE DEF d, s
<1>10. Turn(g, d) \in 0..Total
  BY <1>2, <1>9, TurnBounds
<1>11. \E n \in 0..Total' : ShownTo(n)'
  BY <1>5, <1>7, <1>10 DEF ShownTo, d
<1>12. ShownTo(Turn(playback.group, Seen))'
  <2>1. Turn(playback.group, Seen)' = Turn(g, d)
    BY <1>2, <1>3, <1>6, <1>9 DEF Turn, From
  <2>2. QED
    BY <1>5, <2>1 DEF ShownTo, d
<1>13. End(playback.group)' = End(g)
  BY <1>2, <1>3, <1>6, <1>7 DEF End
<1>14. QED
  BY <1>3, <1>8, <1>11, <1>12, <1>13 DEF Ordered

\* The next group is shown before the one before it is given up.
LEMMA HandoffOrdered ==
  ASSUME IInv, QInv, Sorted, Ordered, Handoff
  PROVE  Ordered'
<1> DEFINE g == playback.group
<1>1. /\ playback.active /\ playback.symbol = Width /\ Later # {} /\ loop.pc = "tick"
      /\ Show(NextReady, 0)
      /\ loop' = [loop EXCEPT !.pc = "handoff"]
      /\ UNCHANGED <<transfer, global, slots, queue, playback>>
  BY DEF Handoff, Due, Goto, producer
<1>2. g \in Slots /\ g # None /\ slots[g].state = "playing"
  BY <1>1 DEF IInv, Staged, Typed, Owned, Playing
<1>3. PICK f \in Ready : f = NextReady /\ \A j \in Ready : slots[f].ordinal <= slots[j].ordinal
  BY <1>1, <1>2, NextReadyFirst
<1>4. f \in Slots /\ slots[f].state = "ready" /\ f \in Live
  BY <1>3 DEF Ready, Live
<1>5. loop'.pc = "handoff"
  BY <1>1 DEF IInv, Typed
<1>6. Width \in Nat /\ Width > 0
  BY Widths
<1>7. ShownTo(End(g)) /\ End(g) \in Nat
  <2>1. Seen = Width
    BY <1>1, <1>6 DEF Seen
  <2>2. QED
    BY <1>1, <1>2, <2>1, TurnBounds, SlotNumbers DEF Ordered, IInv
<1>8. From(f) = End(g)
  <2>1. Covers(End(g))
    BY <1>1, <1>7 DEF Ordered
  <2>2. QED
    BY <1>3, <1>4, <1>7, <2>1, FirstFrom
<1>9. ShownTo(Turn(f, 0)) /\ 0 \in 0..Width
  BY <1>4, <1>6, <1>7, <1>8, TurnBounds
<1>10. shown' = 0..(Turn(f, 1) - 1)
  <2>1. shown' = 0..(Turn(f, IF 0 < Width THEN 0 + 1 ELSE Width) - 1)
    BY <1>1, <1>3, <1>4, <1>9, TurnTaken
  <2>2. QED
    BY <1>6, <2>1
<1>11. Turn(f, 1) \in 0..Total
  <2>1. 1 \in 0..Width
    BY <1>6
  <2>2. QED
    BY <1>4, <2>1, TurnBounds
<1>12. Width' = Width /\ Total' = Total
  BY <1>1, TotalLeft
<1>13. \A n \in Ready : (\A j \in Ready : slots[n].ordinal <= slots[j].ordinal) => n = f
  <2>1. SUFFICES ASSUME NEW n \in Ready, \A j \in Ready : slots[n].ordinal <= slots[j].ordinal
                 PROVE  n = f
    OBVIOUS
  <2>2. n \in Slots /\ n \in Live
    BY DEF Ready, Live
  <2>3. slots[n].ordinal \in Nat /\ slots[f].ordinal \in Nat
    BY <1>4, <2>2, SlotNumbers DEF IInv
  <2>4. slots[n].ordinal <= slots[f].ordinal /\ slots[f].ordinal <= slots[n].ordinal
    BY <1>3, <2>1
  <2>5. QED
    BY <1>4, <2>2, <2>3, <2>4 DEF Sorted
<1>14. \A n \in Slots : Turn(n, 1)' = Turn(n, 1) /\ End(n)' = End(n)
  BY <1>1, <1>12 DEF Turn, From, End
<1>15. Ready' = Ready
  BY <1>1 DEF Ready
<1>16. \A n \in Ready' : (\A j \in Ready' : slots'[n].ordinal <= slots'[j].ordinal) =>
         ShownTo(Turn(n, 1))'
  BY <1>1, <1>4, <1>10, <1>13, <1>14, <1>15 DEF ShownTo
<1>17. \A n \in Nat : n = End(g) => Covers(n)'
  BY <1>1, CoversLeft DEF Ordered
<1>18. \E n \in 0..Total' : ShownTo(n)'
  BY <1>10, <1>11, <1>12 DEF ShownTo
<1>19. QED
  BY <1>1, <1>2, <1>5, <1>14, <1>16, <1>17, <1>18 DEF Ordered

\* The first group appears, or Esc ends the run with it on the screen.
LEMMA ActivateOrdered ==
  ASSUME IInv, QInv, Sorted, Ordered, Activate
  PROVE  Ordered'
<1>1. /\ loop.pc = "tick" /\ ~playback.active /\ queue.ready > 0
      /\ slots' = [slots EXCEPT ![Earliest].state = "playing"]
      /\ Show(Earliest, 0)
      /\ UNCHANGED <<transfer, global>>
      /\ \/ /\ playback' = [group |-> Earliest, symbol |-> 0, active |-> TRUE, focus |-> FALSE]
            /\ loop' = [loop EXCEPT !.pc = "claim"]
         \/ /\ playback' = [playback EXCEPT !.group = Earliest, !.symbol = 0]
            /\ loop' = [loop EXCEPT !.pc = "failed"]
  BY DEF Activate, Goto, producer
<1>2. PICK f \in Ready : f = Earliest /\ \A j \in Ready : slots[f].ordinal <= slots[j].ordinal
  BY <1>1, EarliestFirst DEF IInv
<1>3. f \in Slots /\ slots[f].state = "ready" /\ IsSlot(slots[f])
  BY <1>2 DEF Ready, IInv, Typed
<1>4. PICK n \in Nat : ShownTo(n) /\ Covers(n)
  BY <1>1 DEF Ordered
<1>5. From(f) = n
  BY <1>2, <1>4, FirstFrom
<1>6. Width \in Nat /\ Width > 0
  BY Widths
<1>7. ShownTo(Turn(f, 0)) /\ 0 \in 0..Width
  BY <1>3, <1>4, <1>5, <1>6, TurnBounds
<1>8. shown' = 0..(Turn(f, 1) - 1)
  <2>1. shown' = 0..(Turn(f, IF 0 < Width THEN 0 + 1 ELSE Width) - 1)
    BY <1>1, <1>2, <1>3, <1>7, TurnTaken
  <2>2. QED
    BY <1>6, <2>1
<1>9. Turn(f, 1) \in 0..Total
  <2>1. 1 \in 0..Width
    BY <1>6
  <2>2. QED
    BY <1>3, <2>1, TurnBounds
<1>10. Width' = Width /\ Total' = Total
  BY <1>1, TotalLeft
<1>11. \A i \in Slots : slots'[i] = IF i = f THEN [slots[f] EXCEPT !.state = "playing"] ELSE slots[i]
  BY <1>1, <1>2, <1>3 DEF IInv, Typed
<1>12. /\ slots'[f].state = "playing"
       /\ slots'[f].start = slots[f].start /\ slots'[f].overlap = slots[f].overlap
  BY <1>3, <1>11 DEF IsSlot
<1>13. \A m \in Nat : m = End(f) => Covers(m)'
  BY <1>1, <1>2, <1>4, <1>11, <1>12, CoversPlay
<1>14. \E m \in 0..Total' : ShownTo(m)'
  BY <1>8, <1>9, <1>10 DEF ShownTo
<1>15. Turn(f, 1)' = Turn(f, 1) /\ End(f)' = End(f)
  BY <1>10, <1>12 DEF Turn, From, End
<1>16. CASE /\ playback' = [group |-> f, symbol |-> 0, active |-> TRUE, focus |-> FALSE]
            /\ loop' = [loop EXCEPT !.pc = "claim"]
  <2>1. playback'.group = f /\ playback'.symbol = 0 /\ playback'.active
    BY <1>16
  <2>2. loop'.pc = "claim"
    BY <1>16 DEF IInv, Typed
  <2>3. Seen' = 1
    BY <1>6, <1>10, <2>1 DEF Seen
  <2>4. ShownTo(Turn(playback.group, Seen))'
    <3>1. Turn(playback.group, Seen)' = Turn(f, 1)
      BY <1>12, <2>1, <2>3 DEF Turn, From
    <3>2. QED
      BY <1>8, <3>1 DEF ShownTo
  <2>5. End(playback.group)' = End(f)
    BY <1>10, <1>12, <2>1 DEF End
  <2>6. QED
    BY <1>13, <1>14, <2>1, <2>2, <2>4, <2>5 DEF Ordered
<1>17. CASE /\ playback' = [playback EXCEPT !.group = f, !.symbol = 0]
            /\ loop' = [loop EXCEPT !.pc = "failed"]
  <2>1. ~playback'.active
    BY <1>1, <1>17 DEF IInv, Typed
  <2>2. loop'.pc = "failed"
    BY <1>17 DEF IInv, Typed
  <2>3. QED
    BY <1>14, <2>1, <2>2 DEF Ordered
<1>18. QED
  BY <1>1, <1>2, <1>16, <1>17

\* The group that is on the screen already becomes the one that plays.
LEMMA ReleaseGroupOrdered ==
  ASSUME IInv, QInv, Sorted, Ordered, ReleaseGroup
  PROVE  Ordered'
<1> DEFINE g == playback.group
<1>1. /\ loop.pc = "handoff" /\ g # None /\ Later # {} /\ playback.active
      /\ g \in Slots /\ slots[g].state = "playing" /\ IsSlot(slots[g])
  BY DEF ReleaseGroup, IInv, Staged, Typed, Owned, Playing
<1>2. PICK f \in Ready : f = NextReady /\ \A j \in Ready : slots[f].ordinal <= slots[j].ordinal
  BY <1>1, NextReadyFirst
<1>3. f \in Slots /\ slots[f].state = "ready" /\ IsSlot(slots[f]) /\ f # g
  BY <1>1, <1>2 DEF Ready, IInv, Typed
<1>4. /\ slots' = [slots EXCEPT ![g].state = "free", ![g].applied = FALSE,
                                ![f].state = "playing"]
      /\ playback' = [playback EXCEPT !.group = f, !.symbol = 0]
      /\ loop' = [loop EXCEPT !.pc = "claim"]
      /\ UNCHANGED <<transfer, global, shown>>
  BY <1>2 DEF ReleaseGroup, Goto, producer
<1>5. playback'.group = f /\ playback'.symbol = 0 /\ playback'.active /\ loop'.pc = "claim"
  <2>1. loop \in LoopType /\ playback \in PlaybackType
    BY DEF IInv, Typed
  <2>2. QED
    BY <1>1, <1>4, <2>1
<1>6. End(g) \in Nat /\ Width \in Nat /\ Width > 0
  BY <1>1, SlotNumbers, Widths DEF IInv
<1>7. Covers(End(g))
  BY <1>1, <1>6 DEF Ordered
<1>8. shown = 0..(Turn(f, 1) - 1)
  BY <1>1, <1>2 DEF Ordered, ShownTo
<1> HIDE DEF g
<1>9. /\ slots'[g] = [slots[g] EXCEPT !.state = "free", !.applied = FALSE]
      /\ slots'[f] = [slots[f] EXCEPT !.state = "playing"]
      /\ \A i \in Slots : i # g /\ i # f => slots'[i] = slots[i]
  BY <1>1, <1>3, <1>4 DEF IInv, Typed
<1>10. /\ slots'[f].state = "playing"
       /\ slots'[f].start = slots[f].start /\ slots'[f].overlap = slots[f].overlap
  BY <1>3, <1>9 DEF IsSlot
<1>11. /\ slots'[g].state = "free"
       /\ slots'[g].start = slots[g].start /\ slots'[g].overlap = slots[g].overlap
  BY <1>1, <1>9 DEF IsSlot
<1>12. \A i \in Slots :
         /\ slots'[i].start = slots[i].start
         /\ slots'[i].overlap = slots[i].overlap
         /\ i # f => (slots'[i].state \in {"ready", "filling"}
                        <=> slots[i].state \in {"ready", "filling"})
  BY <1>1, <1>9, <1>10, <1>11
<1>13. \A m \in Nat : m = End(f) => Covers(m)'
  BY <1>2, <1>4, <1>6, <1>7, <1>10, <1>12, CoversPlay
<1>14. Width' = Width /\ Total' = Total
  BY <1>4, TotalLeft
<1>15. Seen' = 1
  BY <1>5, <1>6, <1>14 DEF Seen
<1>16. ShownTo(Turn(playback.group, Seen))'
  <2>1. Turn(playback.group, Seen)' = Turn(f, 1)
    BY <1>5, <1>10, <1>15 DEF Turn, From
  <2>2. QED
    BY <1>4, <1>8, <2>1 DEF ShownTo
<1>17. End(playback.group)' = End(f)
  BY <1>5, <1>10, <1>14 DEF End
<1>18. \E n \in 0..Total' : ShownTo(n)'
  BY <1>4, <1>14 DEF Ordered, ShownTo
<1>19. QED
  BY <1>5, <1>13, <1>16, <1>17, <1>18 DEF Ordered

LEMMA ApplyCorrectionOrdered ==
  ASSUME IInv, Ordered, ApplyCorrection
  PROVE  Ordered'
<1> DEFINE g == playback.group
<1>1. /\ loop.pc = "hidden"
      /\ loop' = [loop EXCEPT !.pc = "claim"]
      /\ slots' = slots \/ slots' = [slots EXCEPT ![g].applied = TRUE]
      /\ UNCHANGED <<transfer, global, queue, playback, shown>>
  BY DEF ApplyCorrection, Goto, producer
<1>2. loop'.pc = "claim"
  BY <1>1 DEF IInv, Typed
<1>3. \A i \in Slots :
        /\ slots'[i].start = slots[i].start
        /\ slots'[i].overlap = slots[i].overlap
        /\ slots'[i].state = slots[i].state
  <2>1. CASE slots' = slots
    BY <2>1
  <2>2. CASE slots' = [slots EXCEPT ![g].applied = TRUE]
    <3>1. ASSUME NEW i \in Slots
          PROVE  slots'[i] = IF i = g THEN [slots[i] EXCEPT !.applied = TRUE] ELSE slots[i]
      BY <2>2 DEF IInv, Typed
    <3>2. \A i \in Slots : IsSlot(slots[i])
      BY DEF IInv, Typed
    <3> HIDE DEF g
    <3>3. QED
      BY <3>1, <3>2 DEF IsSlot
  <2>3. QED
    BY <1>1, <2>1, <2>2
<1>4. playback.active => g \in Slots
  BY DEF IInv, Staged, Typed
<1>5. \A n \in Nat : Covers(n) => Covers(n)'
  BY <1>1, <1>3, CoversLeft
<1>6. QED
  BY <1>1, <1>2, <1>3, <1>4, <1>5, OrderedLeft

\* The last group has been shown to its end.
LEMMA DrainOrdered ==
  ASSUME IInv, Sorted, Ordered, Drain
  PROVE  Ordered'
<1> DEFINE g == playback.group
<1>1. /\ playback.active /\ playback.symbol = Width /\ loop.pc = "tick"
      /\ queue.ready = 0 /\ queue.preparing = None
      /\ playback' = [playback EXCEPT !.active = FALSE]
      /\ loop' = [loop EXCEPT !.pc = IF global >= Total THEN "done" ELSE "claim"]
      /\ UNCHANGED <<transfer, global, slots, queue, shown>>
  BY DEF Drain, Drained, Due, Goto, producer
<1>2. g \in Slots /\ g # None /\ slots[g].state = "playing"
  BY <1>1 DEF IInv, Staged, Typed, Owned, Playing
<1>3. ~playback'.active /\ loop'.pc = IF global >= Total THEN "done" ELSE "claim"
  <2>1. loop \in LoopType /\ playback \in PlaybackType
    BY DEF IInv, Typed
  <2>2. QED
    BY <1>1, <2>1
<1>4. End(g) \in Nat /\ Width \in Nat /\ global \in Nat /\ Total \in Nat /\ global <= Total
  BY <1>2, SlotNumbers, Widths, Options DEF IInv, Typed, Sorted
<1>5. ShownTo(End(g)) /\ Covers(End(g))
  <2>1. Seen = Width
    BY <1>1, <1>4 DEF Seen
  <2>2. QED
    BY <1>1, <1>2, <1>4, <2>1, TurnBounds DEF Ordered
<1>6. End(g) = global
  BY <1>1, <1>4, <1>5, CoversAll
<1>7. Total' = Total /\ Width' = Width
  BY <1>1, TotalLeft
<1>8. \A n \in Nat : Covers(n) => Covers(n)'
  BY <1>1, CoversLeft
<1>9. \E n \in Nat : ShownTo(n)' /\ Covers(n)'
  BY <1>1, <1>4, <1>5, <1>8 DEF ShownTo
<1>10. \E n \in 0..Total' : ShownTo(n)'
  BY <1>1, <1>7 DEF Ordered, ShownTo
<1>11. loop'.pc = "done" => shown' = Records'
  BY <1>1, <1>3, <1>4, <1>5, <1>6, <1>7 DEF ShownTo, Records
<1>12. QED
  BY <1>3, <1>9, <1>10, <1>11 DEF Ordered

\* The record of a tail is stored in a hidden page ...
LEMMA StoreTailOrdered ==
  ASSUME IInv, PInv, QInv, Sorted, Ordered, StoreTail
  PROVE  Ordered'
<1> DEFINE t == TailSlot
           page == [p \in Planes |-> Plain(worker'.raster)]
<1>1. /\ Quiet /\ global < Total /\ loop.pc = "tail" /\ global' = global + 1
      /\ worker' = [worker EXCEPT !.codewords = Data(global), !.previous = Data(global),
                                  !.raster = Redrawn(Data(global))]
      /\ vram' = [vram EXCEPT ![t] = page]
      /\ loop' = [loop EXCEPT !.pc = "tail_stored"]
      /\ UNCHANGED <<transfer, slots, queue, reserved, playback, shown>>
  BY DEF StoreTail, TailDue, Goto
<1>2. t \in Slots
  BY <1>1, TailPage
<1>3. worker'.raster = Data(global)
  BY <1>1 DEF QInv, Work, PInv, WorkerKept, Redrawn
<1>4. ~playback.active /\ queue.ready = 0 /\ queue.preparing = None /\ global \in Nat
  BY <1>1 DEF Quiet, IInv, Typed
<1>5. ShownTo(global)
  <2>1. PICK n \in Nat : ShownTo(n) /\ Covers(n)
    BY <1>1, <1>4 DEF Ordered
  <2>2. n = global
    BY <1>4, <2>1, CoversAll
  <2>3. QED
    BY <2>1, <2>2
<1>6. t = TailOf(slots', reserved', playback'.group)
  BY <1>1, Names
<1>7. vram'[t] = [p \in Planes |-> Plain(Data(global))]
  BY <1>1, <1>2, <1>3 DEF QInv, Pages
<1> HIDE DEF t
<1>8. global' > 0 /\ global' - 1 = global
  BY <1>1, <1>4
<1>9. loop'.pc = "tail_stored" /\ ~playback'.active
  BY <1>1, <1>4 DEF IInv, Typed
<1>10. \E n \in 0..Total' : ShownTo(n)'
  BY <1>1, TotalLeft DEF Ordered, ShownTo
<1>11. ShownTo(global - 1)'
  BY <1>1, <1>5, <1>8 DEF ShownTo
<1>12. QED
  BY <1>6, <1>7, <1>8, <1>9, <1>10, <1>11 DEF Ordered

\* ... which is then shown: the next one.
LEMMA ShowTailOrdered ==
  ASSUME IInv, Sorted, Ordered, ShowTail
  PROVE  Ordered'
<1> DEFINE t == TailSlot
           page == [p \in Planes |-> Plain(Data(global - 1))]
<1>1. /\ loop.pc = "tail_stored"
      /\ shown' = IF vram[t] = page THEN shown \union {global - 1} ELSE shown
      /\ loop' = [loop EXCEPT !.pc = "tail_shown"]
      /\ UNCHANGED <<transfer, global, slots, queue, vram, playback>>
  BY DEF ShowTail, Goto, producer
<1>2. /\ ~playback.active /\ queue.ready = 0 /\ queue.preparing = None
      /\ global \in Nat /\ global <= Total /\ Total \in Nat
  BY <1>1, Options DEF IInv, Staged, Quiet, Typed, Sorted
<1>3. global > 0 /\ ShownTo(global - 1) /\ vram[t] = page
  BY <1>1, Names DEF Ordered
<1>4. shown' = 0..(global - 1)
  <2>1. shown' = (0..((global - 1) - 1)) \union {global - 1}
    BY <1>1, <1>3 DEF ShownTo
  <2> DEFINE a == global - 1
  <2>2. a \in Nat /\ (a + 1) - 1 = global - 1
    BY <1>2, <1>3
  <2>3. (0..(a - 1)) \union {a} = 0..((a + 1) - 1)
    BY <2>2, OneMore
  <2>4. QED
    BY <2>1, <2>2, <2>3
<1> HIDE DEF t, page
<1>5. loop'.pc = "tail_shown" /\ ~playback'.active
  BY <1>1, <1>2 DEF IInv, Typed
<1>6. Pending = {}
  BY <1>2, NothingPending
<1>7. Covers(global)
  BY <1>2, <1>6 DEF Covers
<1>8. Total' = Total
  BY <1>1, TotalLeft
<1>9. \E n \in Nat : ShownTo(n)' /\ Covers(n)'
  <2>1. \A n \in Nat : Covers(n) => Covers(n)'
    BY <1>1, CoversLeft
  <2>2. QED
    BY <1>2, <1>4, <1>7, <2>1 DEF ShownTo
<1>10. \E n \in 0..Total' : ShownTo(n)'
  <2>1. global \in 0..Total'
    BY <1>2, <1>8
  <2>2. QED
    BY <1>4, <2>1 DEF ShownTo
<1>11. QED
  BY <1>5, <1>9, <1>10 DEF Ordered

\* A loop that ends with nothing playing, ready or under way has shown all.
LEMMA DoneShown ==
  ASSUME IInv, Sorted, Ordered, Quiet, global >= Total,
         loop.pc \notin {"failed", "tail_stored"}
  PROVE  shown = Records
<1>1. ~playback.active /\ queue.ready = 0 /\ queue.preparing = None
  BY DEF Quiet
<1>2. PICK n \in Nat : ShownTo(n) /\ Covers(n)
  BY <1>1 DEF Ordered
<1>3. n = global
  BY <1>1, <1>2, CoversAll
<1>4. global = Total
  BY Options DEF Sorted, IInv, Typed
<1>5. QED
  BY <1>2, <1>3, <1>4 DEF ShownTo, Records

LEMMA ReleaseTailOrdered ==
  ASSUME IInv, Sorted, Ordered, ReleaseTail
  PROVE  Ordered'
<1> DEFINE g == playback.group
<1>1. /\ loop.pc = "tail_shown"
      /\ loop' = [loop EXCEPT !.pc = Onward, !.tailPending = FALSE]
      /\ UNCHANGED <<transfer, global, queue, shown>>
      /\ \/ g # None /\ slots' = [slots EXCEPT ![g].state = "free", ![g].applied = FALSE]
                     /\ playback' = [playback EXCEPT !.group = None]
         \/ UNCHANGED <<slots, playback>>
  BY DEF ReleaseTail, producer
<1>2. Quiet /\ ~playback.active
  BY <1>1 DEF IInv, Staged, Quiet
<1>3. ~playback'.active /\ loop'.pc = Onward
  <2>1. loop \in LoopType /\ playback \in PlaybackType
    BY DEF IInv, Typed
  <2>2. loop'.pc = Onward
    BY <1>1, <2>1
  <2>3. ~playback'.active
    BY <1>1, <1>2, <2>1
  <2>4. QED
    BY <2>2, <2>3
<1>4. \A i \in Slots :
        /\ slots'[i].start = slots[i].start
        /\ slots'[i].overlap = slots[i].overlap
        /\ slots'[i].state \in {"ready", "filling"} <=> slots[i].state \in {"ready", "filling"}
  <2>1. CASE slots' = slots
    BY <2>1
  <2>2. CASE g # None /\ slots' = [slots EXCEPT ![g].state = "free", ![g].applied = FALSE]
    <3>1. ASSUME NEW i \in Slots
          PROVE  slots'[i] = IF i = g THEN [slots[i] EXCEPT !.state = "free", !.applied = FALSE]
                                      ELSE slots[i]
      BY <2>2 DEF IInv, Typed
    <3>2. \A i \in Slots : IsSlot(slots[i])
      BY DEF IInv, Typed
    <3>3. slots[g].state = "playing"
      BY <2>2 DEF IInv, Owned, Playing
    <3> HIDE DEF g
    <3>4. QED
      BY <3>1, <3>2, <3>3 DEF IsSlot
  <2>3. QED
    BY <1>1, <2>1, <2>2
<1>5. \A n \in Nat : Covers(n) => Covers(n)'
  BY <1>1, <1>4, CoversLeft
<1>6. Total' = Total
  BY <1>1, TotalLeft
<1>7. \E n \in Nat : ShownTo(n)' /\ Covers(n)'
  BY <1>1, <1>2, <1>5 DEF Ordered, ShownTo
<1>8. \E n \in 0..Total' : ShownTo(n)'
  BY <1>1, <1>6 DEF Ordered, ShownTo
<1>9. loop'.pc \in {"done", "tick"} /\ (loop'.pc = "done" => global >= Total)
  BY <1>3 DEF Onward
<1>10. loop'.pc = "done" => shown' = Records'
  BY <1>1, <1>2, <1>6, <1>9, DoneShown DEF Records
<1>11. QED
  BY <1>3, <1>7, <1>8, <1>9, <1>10 DEF Ordered

\* A claim: a group more is to come.
LEMMA ClaimOrdered ==
  ASSUME IInv, Sorted, Ordered, PrefillClaim \/ LoopClaim
  PROVE  Ordered'
<1>1. /\ UNCHANGED <<transfer, global, playback, shown>> /\ loop.pc \in {"prefill", "claim"}
      /\ ClaimGroup \/ UNCHANGED slots
  BY DEF PrefillClaim, LoopClaim
<1>2. loop'.pc \in {"prefill", "step", "tail"}
  <2>1. loop \in LoopType
    BY DEF IInv, Typed
  <2>2. \/ loop.pc = "prefill" /\ loop' = loop
        \/ loop' = [pc |-> "step", claimed |-> TRUE, tailPending |-> FALSE]
        \/ loop' = [pc |-> "tail", claimed |-> FALSE, tailPending |-> TRUE]
        \/ loop' = [loop EXCEPT !.claimed = FALSE,
                       !.pc = IF queue.preparing = None THEN "tail" ELSE "step"]
    BY DEF PrefillClaim, LoopClaim
  <2>3. CASE loop' = [loop EXCEPT !.claimed = FALSE,
                        !.pc = IF queue.preparing = None THEN "tail" ELSE "step"]
    BY <2>1, <2>3
  <2>4. CASE ~(loop' = [loop EXCEPT !.claimed = FALSE,
                          !.pc = IF queue.preparing = None THEN "tail" ELSE "step"])
    <3>1. CASE loop.pc = "prefill" /\ loop' = loop
      BY <3>1
    <3>2. CASE loop' = [pc |-> "step", claimed |-> TRUE, tailPending |-> FALSE]
      BY <3>2
    <3>3. CASE loop' = [pc |-> "tail", claimed |-> FALSE, tailPending |-> TRUE]
      BY <3>3
    <3>4. QED
      BY <2>2, <2>4, <3>1, <3>2, <3>3
  <2>5. QED
    BY <2>3, <2>4
<1>3. \A n \in Nat : Covers(n) => Covers(n)'
  BY <1>1, CoversClaim, CoversLeft
<1>4. playback.active => /\ slots'[playback.group].start = slots[playback.group].start
                         /\ slots'[playback.group].overlap = slots[playback.group].overlap
  <2>1. SUFFICES ASSUME playback.active, ClaimGroup
                 PROVE  slots'[playback.group] = slots[playback.group]
    BY <1>1
  <2>2. playback.group \in Slots /\ slots[playback.group].state = "playing"
    BY <2>1 DEF IInv, Staged, Typed, Owned, Playing
  <2>3. QED
    BY <1>1, <2>1, <2>2, ClaimSorted
<1>5. QED
  BY <1>1, <1>2, <1>3, <1>4, OrderedLeft

LEMMA ProduceOrdered ==
  ASSUME IInv, PInv, Sorted, Ordered, Produce
  PROVE  Ordered'
<1>1. UNCHANGED <<transfer, playback, shown>> /\ loop.pc \in {"prefill", "step"}
  BY DEF Produce, Begin, BeginOverlap, BeginNext, ReadFails, Encode, Draw, Store, Correct, Producing
<1>2. loop'.pc \in {"prefill", "tick", "tail", "failed"}
  <2>1. StepDone \/ StepFailed
    BY DEF Produce, Begin, BeginOverlap, BeginNext, ReadFails, Encoded, Encode, Draw, Store, Correct
  <2>2. QED
    BY <1>1, <2>1 DEF StepDone, StepFailed, IInv, Typed
<1>3. CASE Begin
  <2>1. slots' = slots
    BY <1>3 DEF Begin
  <2>2. QED
    BY <1>1, <1>2, <1>3, <2>1, CoversTaken, OrderedLeft
<1>4. CASE Encode \/ Draw \/ Store \/ Correct
  <2> DEFINE p == queue.preparing
  <2>1. /\ UNCHANGED <<transfer, global>> /\ p # None
        /\ \/ slots' = slots
           \/ slots' = [slots EXCEPT ![p].stage = @ + 1]
           \/ slots' = [slots EXCEPT ![p].state = "ready",
                                     ![p].patch = <<filling.start, worker.parity>>]
    BY <1>4 DEF Encode, Draw, Store, Correct, Producing
  <2>2. p \in Slots /\ slots[p].state = "filling"
    BY <2>1, PreparingAlone
  <2>3. \A i \in Slots :
          /\ slots'[i].start = slots[i].start
          /\ slots'[i].overlap = slots[i].overlap
          /\ slots'[i].state \in {"ready", "filling"} <=> slots[i].state \in {"ready", "filling"}
    <3>1. \A i \in Slots : IsSlot(slots[i])
      BY DEF IInv, Typed
    <3>2. CASE slots' = slots
      BY <3>2
    <3>3. CASE slots' = [slots EXCEPT ![p].stage = @ + 1]
      <4>1. ASSUME NEW i \in Slots
            PROVE  slots'[i] = IF i = p THEN [slots[i] EXCEPT !.stage = @ + 1] ELSE slots[i]
        BY <3>3 DEF IInv, Typed
      <4> HIDE DEF p
      <4>2. QED
        BY <3>1, <4>1 DEF IsSlot
    <3>4. CASE slots' = [slots EXCEPT ![p].state = "ready",
                                     ![p].patch = <<filling.start, worker.parity>>]
      <4> DEFINE x == <<filling.start, worker.parity>>
      <4> HIDE DEF x
      <4>1. slots' = [slots EXCEPT ![p].state = "ready", ![p].patch = x]
        BY <3>4 DEF x
      <4>2. ASSUME NEW i \in Slots
            PROVE  slots'[i] = IF i = p THEN [slots[i] EXCEPT !.state = "ready", !.patch = x]
                                        ELSE slots[i]
        BY <4>1 DEF IInv, Typed
      <4> HIDE DEF p
      <4>3. QED
        BY <2>2, <3>1, <4>2 DEF IsSlot
    <3>5. QED
      BY <2>1, <3>2, <3>3, <3>4
  <2>4. \A n \in Nat : Covers(n) => Covers(n)'
    BY <2>1, <2>3, CoversLeft
  <2>5. playback.active => playback.group \in Slots
    BY DEF IInv, Staged, Typed
  <2>6. QED
    BY <1>1, <1>2, <2>3, <2>4, <2>5, OrderedLeft
<1>5. QED
  BY <1>3, <1>4 DEF Produce

\* A step of the loop that neither shows nor queues anything.
LEMMA IdleOrdered ==
  ASSUME IInv, Sorted, Ordered,
         TickIdle \/ TickEarly \/ Underrun \/ TailFails \/ NoTail \/ PrefillEnd
  PROVE  Ordered'
<1>1. UNCHANGED <<transfer, global, slots, queue, playback, shown>>
  BY DEF TickIdle, TickEarly, Underrun, TailFails, NoTail, PrefillEnd, producer
<1>2. loop.pc \in {"tick", "tail", "prefill"}
  BY DEF TickIdle, TickEarly, Underrun, Due, TailFails, NoTail, PrefillEnd
<1>3. /\ loop'.pc \in {"claim", "failed", "tick", "done"}
      /\ loop'.pc = "done" => Quiet /\ global >= Total
  BY DEF TickIdle, TickEarly, Underrun, TailFails, NoTail, PrefillEnd, Goto, Onward, IInv, Typed
<1>4. loop'.pc = "done" => shown = Records
  BY <1>2, <1>3, DoneShown
<1>5. \A n \in Nat : Covers(n) => Covers(n)'
  BY <1>1, CoversLeft
<1>6. QED
  BY <1>1, <1>2, <1>3, <1>4, <1>5, OrderedLeft

\* Only time passes.
LEMMA StillOrdered ==
  ASSUME Ordered,
         UNCHANGED <<transfer, global, slots, queue, vram, reserved, playback, loop, shown>>
  PROVE  Ordered'
<1>1. Total' = Total /\ Width' = Width
  BY TotalLeft
<1>2. TailOf(slots', reserved', playback'.group) = TailOf(slots, reserved, playback.group)
  OBVIOUS
<1>3. Ready' = Ready
  BY DEF Ready
<1>4. \A n \in Nat : Covers(n) => Covers(n)'
  BY CoversLeft
<1>5. \A n : Turn(n, 1)' = Turn(n, 1)
  BY DEF Turn, From
<1>6. Turn(playback.group, Seen)' = Turn(playback.group, Seen)
  BY <1>1 DEF Turn, From, Seen
<1>7. End(playback.group)' = End(playback.group)
  BY <1>1 DEF End
<1>8. \A n \in Ready' : (\A j \in Ready' : slots'[n].ordinal <= slots'[j].ordinal) =>
        (loop'.pc = "handoff" => ShownTo(Turn(n, 1))')
  BY <1>3, <1>5 DEF Ordered, ShownTo
<1>9. playback'.active /\ loop'.pc # "handoff" => ShownTo(Turn(playback.group, Seen))'
  BY <1>6 DEF Ordered, ShownTo
<1>10. playback'.active => \A n \in Nat : n = End(playback.group)' => Covers(n)'
  BY <1>4, <1>7 DEF Ordered
<1>11. ~playback'.active /\ loop'.pc \notin {"failed", "tail_stored"} =>
        \E n \in Nat : ShownTo(n)' /\ Covers(n)'
  BY <1>4 DEF Ordered, ShownTo
<1>12. \E n \in 0..Total' : ShownTo(n)'
  BY <1>1 DEF Ordered, ShownTo
<1>13. loop'.pc = "done" => shown' = Records'
  BY <1>1 DEF Ordered, Records
<1>14. loop'.pc = "tail_stored" =>
         /\ global' > 0 /\ ShownTo(global - 1)'
         /\ vram'[TailOf(slots', reserved', playback'.group)] =
              [p \in Planes |-> Plain(Data(global' - 1))]
  BY <1>2 DEF Ordered, ShownTo
<1>15. QED
  BY <1>8, <1>9, <1>10, <1>11, <1>12, <1>13, <1>14 DEF Ordered

LEMMA InitOrdered == ASSUME Init PROVE Ordered
<1>1. Typed
  BY InitIInv DEF IInv
<1>2. Total \in Nat /\ global = 0 /\ shown = {} /\ ~playback.active /\ loop.pc = "prefill"
  BY <1>1, Options DEF Init
<1>3. Pending = {}
  BY DEF Init, Pending, FreeSlot
<1>4. ShownTo(0) /\ Covers(0)
  <2>1. 0..(0 - 1) = {}
    OBVIOUS
  <2>2. ShownTo(0)
    BY <1>2, <2>1 DEF ShownTo
  <2>3. \A r \in 0..(global - 1) : FALSE
    BY <1>2
  <2>4. Covers(0)
    BY <1>2, <1>3, <2>3 DEF Covers
  <2>5. QED
    BY <2>2, <2>4
<1>5. 0 \in 0..Total /\ 0 \in Nat
  BY <1>2
<1>6. QED
  BY <1>2, <1>4, <1>5 DEF Ordered

LEMMA NextOrdered ==
  ASSUME IInv, PInv, QInv, Sorted, Ordered, [Next]_vars
  PROVE  Ordered'
<1>1. CASE PlaybackTick
  BY <1>1, ActivateOrdered, NextSymbolOrdered, ApplyCorrectionOrdered, HandoffOrdered,
     ReleaseGroupOrdered, DrainOrdered, IdleOrdered DEF PlaybackTick
<1>2. CASE Tail
  BY <1>2, StoreTailOrdered, ShowTailOrdered, ReleaseTailOrdered, IdleOrdered DEF Tail
<1>3. CASE Deadline \/ UNCHANGED vars
  BY <1>3, StillOrdered DEF Deadline, producer, vars
<1>4. QED
  BY <1>1, <1>2, <1>3, ClaimOrdered, IdleOrdered, ProduceOrdered DEF Next, Loop

-----------------------------------------------------------------------------
\* Records come onto the screen in the order of the stream, none is left out,
\* and a transfer that ends well has shown them all: groups that repeat records,
\* a producer that is overtaken and single records at the end change nothing in
\* that (main.c:1323-1409).
THEOREM AllInOrderHolds == Spec => []AllInOrder
<1> DEFINE J == IInv /\ PInv /\ QInv /\ Sorted /\ Ordered
<1>1. Init => J
  BY InitIInv, InitPInv, InitQInv, InitSorted, InitOrdered
<1>2. J /\ [Next]_vars => J'
  BY NextIInv, NextPInv, NextQInv, NextSorted, NextOrdered
<1>3. J => AllInOrder
  <2>1. SUFFICES ASSUME J PROVE AllInOrder
    OBVIOUS
  <2>2. PICK n \in 0..Total : ShownTo(n)
    BY <2>1 DEF Ordered
  <2>3. Total \in Nat /\ n \in Nat /\ n <= Total
    BY <2>1, <2>2, Options DEF IInv
  <2>4. Cardinality(shown) = n
    <3>1. 0 \in Int /\ n - 1 \in Int /\ shown = 0..(n - 1)
      BY <2>2, <2>3 DEF ShownTo
    <3>2. Cardinality(shown) = IF 0 > n - 1 THEN 0 ELSE (n - 1) - 0 + 1
      BY <3>1, FS_Interval
    <3>3. QED
      BY <2>3, <3>2
  <2>5. shown = {r \in Records : r < n}
    BY <2>2, <2>3 DEF ShownTo, Records
  <2>6. loop.pc = "done" => shown = Records
    BY <2>1 DEF Ordered
  <2>7. QED
    BY <2>4, <2>5, <2>6 DEF AllInOrder
<1> HIDE DEF J
<1>4. QED
  BY <1>1, <1>2, <1>3, PTL DEF Spec

-----------------------------------------------------------------------------
(* Types.                                                                  *)

\* Slots keep their numbers after they are given up, too.
SlotsSized ==
  \A i \in Slots :
    slots[i].overlap <= 3 /\ slots[i].ordinal <= queue.ordinal /\ slots[i].stage <= Width

ScreenTyped ==
  /\ screen.slot \in Slots \union {None} /\ screen.mask \subseteq Planes
  /\ screen.palette \in {"planes", "data"}

Outside == due \in BOOLEAN /\ fault \in {"none", "read", "escape"}

LEMMA SlotsSizedLeft ==
  ASSUME SlotsSized, transfer' = transfer, queue'.ordinal = queue.ordinal,
         \A i \in Slots : /\ slots'[i].overlap = slots[i].overlap
                          /\ slots'[i].ordinal = slots[i].ordinal
                          /\ slots'[i].stage = slots[i].stage
  PROVE  SlotsSized'
BY WidthLeft DEF SlotsSized

LEMMA ClaimSized ==
  ASSUME IInv, SlotsSized, ClaimGroup, transfer' = transfer
  PROVE  SlotsSized'
<1> DEFINE c == [state |-> "filling", start |-> Start, index |-> Start % Window,
                 count |-> WindowCount(global), overlap |-> Overlap,
                 ordinal |-> queue.ordinal + 1, stage |-> 0,
                 patch |-> <<>>, applied |-> FALSE]
<1>1. PICK t \in Slots : t = ClaimTarget
  BY TargetIsSlot DEF IInv
<1>2. /\ Fits /\ global < Total /\ Typed
      /\ slots' = [slots EXCEPT ![t] = c]
      /\ queue' = [queue EXCEPT !.tail = t, !.preparing = t, !.ordinal = @ + 1]
  BY <1>1 DEF ClaimGroup, CanClaim, MayClaim, IInv
<1>3. Overlap \in Nat /\ Overlap <= 3 /\ Width \in Nat
  <2>1. Overlap \in Nat
    BY <1>2, GroupFits
  <2>2. history.count \in 0..3 /\ Width \in Nat
    BY <1>2, Options DEF Typed
  <2>3. QED
    BY <1>2, <2>1, <2>2 DEF Fits
<1>4. c.overlap = Overlap /\ c.ordinal = queue.ordinal + 1 /\ c.stage = 0
  OBVIOUS
<1> HIDE DEF c
<1>5. /\ slots'[t] = c /\ queue'.ordinal = queue.ordinal + 1 /\ queue.ordinal \in Nat
      /\ \A i \in Slots : i # t => slots'[i] = slots[i]
  BY <1>1, <1>2 DEF Typed
<1>6. Width' = Width
  BY WidthLeft
<1>7. ASSUME NEW i \in Slots
      PROVE  slots'[i].overlap <= 3 /\ slots'[i].ordinal <= queue'.ordinal /\ slots'[i].stage <= Width
  <2>1. CASE i = t
    BY <1>3, <1>4, <1>5, <2>1
  <2>2. CASE i # t
    <3>1. slots[i].ordinal \in Nat
      BY <1>2, SlotNumbers
    <3>2. slots'[i] = slots[i]
      BY <1>5, <2>2
    <3>3. QED
      BY <1>5, <3>1, <3>2 DEF SlotsSized
  <2>3. QED
    BY <2>1, <2>2
<1>8. QED
  BY <1>6, <1>7 DEF SlotsSized

\* A step that gives a slot another state, or notes its patch.
LEMMA MarkedSized ==
  ASSUME IInv, SlotsSized, transfer' = transfer, queue'.ordinal = queue.ordinal,
         NEW x \in Slots, NEW st, NEW ap, NEW pa,
         \/ slots' = [slots EXCEPT ![x].state = st]
         \/ slots' = [slots EXCEPT ![x].applied = ap]
         \/ slots' = [slots EXCEPT ![x].state = st, ![x].applied = ap]
         \/ slots' = [slots EXCEPT ![x].state = st, ![x].patch = pa]
  PROVE  SlotsSized'
<1>1. \A i \in Slots : IsSlot(slots[i])
  BY DEF IInv, Typed
<1>2. slots = [i \in Slots |-> slots[i]]
  BY DEF IInv, Typed
<1>3. \A i \in Slots : i # x => slots'[i] = slots[i]
  BY <1>2
<1>4. \/ slots'[x] = [slots[x] EXCEPT !.state = st]
      \/ slots'[x] = [slots[x] EXCEPT !.applied = ap]
      \/ slots'[x] = [slots[x] EXCEPT !.state = st, !.applied = ap]
      \/ slots'[x] = [slots[x] EXCEPT !.state = st, !.patch = pa]
  BY <1>2
<1>5. /\ slots'[x].overlap = slots[x].overlap
      /\ slots'[x].ordinal = slots[x].ordinal
      /\ slots'[x].stage = slots[x].stage
  <2>1. IsSlot(slots[x])
    BY <1>1
  <2>2. CASE slots'[x] = [slots[x] EXCEPT !.state = st]
    BY <2>1, <2>2 DEF IsSlot
  <2>3. CASE slots'[x] = [slots[x] EXCEPT !.applied = ap]
    BY <2>1, <2>3 DEF IsSlot
  <2>4. CASE slots'[x] = [slots[x] EXCEPT !.state = st, !.applied = ap]
    BY <2>1, <2>4 DEF IsSlot
  <2>5. CASE slots'[x] = [slots[x] EXCEPT !.state = st, !.patch = pa]
    BY <2>1, <2>5 DEF IsSlot
  <2>6. QED
    BY <1>4, <2>2, <2>3, <2>4, <2>5
<1>6. QED
  BY <1>3, <1>5, SlotsSizedLeft

LEMMA ReleaseSized == ASSUME IInv, SlotsSized, ReleaseGroup PROVE SlotsSized'
<1> DEFINE g == playback.group
           n == NextReady
<1>1. /\ slots' = [slots EXCEPT ![g].state = "free", ![g].applied = FALSE,
                                ![n].state = "playing"]
      /\ queue' = [queue EXCEPT !.ready = @ - 1] /\ transfer' = transfer
  BY DEF ReleaseGroup, producer
<1>2. queue'.ordinal = queue.ordinal
  BY <1>1 DEF IInv, Typed
<1>3. g \in Slots /\ n \in Slots /\ g # n
  <2>1. g # None /\ Later # {}
    BY DEF ReleaseGroup, IInv, Staged
  <2>2. g \in Slots /\ slots[g].state = "playing"
    BY <2>1 DEF IInv, Typed, Owned, Playing
  <2>3. n \in Slots /\ slots[n].state = "ready"
    BY <2>1, NextReadyReady DEF IInv, Ready
  <2>4. QED
    BY <2>2, <2>3
<1> HIDE DEF g, n
<1>4. /\ slots'[g] = [slots[g] EXCEPT !.state = "free", !.applied = FALSE]
      /\ slots'[n] = [slots[n] EXCEPT !.state = "playing"]
      /\ \A i \in Slots : i # g /\ i # n => slots'[i] = slots[i]
  BY <1>1, <1>3 DEF IInv, Typed
<1>5. IsSlot(slots[g]) /\ IsSlot(slots[n])
  BY <1>3 DEF IInv, Typed
<1>6. /\ slots'[g].overlap = slots[g].overlap
      /\ slots'[g].ordinal = slots[g].ordinal
      /\ slots'[g].stage = slots[g].stage
  BY <1>4, <1>5 DEF IsSlot
<1>7. /\ slots'[n].overlap = slots[n].overlap
      /\ slots'[n].ordinal = slots[n].ordinal
      /\ slots'[n].stage = slots[n].stage
  BY <1>4, <1>5 DEF IsSlot
<1>8. QED
  BY <1>1, <1>2, <1>4, <1>6, <1>7, SlotsSizedLeft

\* A plane more is stored of a group that lacked one.
LEMMA StoreSized == ASSUME IInv, SlotsSized, Store PROVE SlotsSized'
<1>1. PICK p \in Slots : p = queue.preparing
  BY PreparingAlone DEF Store, Producing
<1>2. /\ slots' = [slots EXCEPT ![p].stage = @ + 1] /\ slots[p].stage < Width
      /\ UNCHANGED <<transfer, queue>>
  BY <1>1 DEF Store, Producing, filling
<1>3. IsSlot(slots[p]) /\ Width \in Nat /\ slots[p].stage \in Nat
  BY SlotNumbers, Options DEF IInv, Typed
<1>4. slots'[p] = [slots[p] EXCEPT !.stage = @ + 1] /\ \A i \in Slots : i # p => slots'[i] = slots[i]
  BY <1>2 DEF IInv, Typed
<1>5. /\ slots'[p].overlap = slots[p].overlap /\ slots'[p].ordinal = slots[p].ordinal
      /\ slots'[p].stage = slots[p].stage + 1
  BY <1>3, <1>4 DEF IsSlot
<1>6. QED
  BY <1>2, <1>3, <1>4, <1>5, WidthLeft DEF SlotsSized

LEMMA NextSized ==
  ASSUME IInv, SlotsSized, [Next]_vars
  PROVE  SlotsSized'
<1>1. CASE Activate
  <2>1. PICK x \in Slots : x = Earliest
    <3>1. queue.ready > 0
      BY <1>1 DEF Activate
    <3>2. QED
      BY <3>1, EarliestReady DEF IInv
  <2>2. slots' = [slots EXCEPT ![x].state = "playing"] /\ transfer' = transfer
        /\ queue' = [queue EXCEPT !.ready = @ - 1]
    BY <1>1, <2>1 DEF Activate, producer
  <2>3. queue'.ordinal = queue.ordinal
    BY <2>2 DEF IInv, Typed
  <2>4. QED
    BY <2>2, <2>3, MarkedSized
<1>2. CASE slots' = slots /\ transfer' = transfer /\ queue' = queue
  BY <1>2, SlotsSizedLeft
<1>3. CASE NextSymbol \/ ApplyCorrection
  <2>1. slots' = slots \/ slots' = [slots EXCEPT ![playback.group].applied = TRUE]
    BY <1>3 DEF NextSymbol, ApplyCorrection
  <2>2. playback.group \in Slots /\ transfer' = transfer /\ queue' = queue
    BY <1>3 DEF NextSymbol, ApplyCorrection, Due, producer, IInv, Staged, Typed
  <2>3. QED
    BY <1>2, <2>1, <2>2, MarkedSized
<1>4. CASE ReleaseTail
  <2>1. transfer' = transfer /\ queue' = queue
    BY <1>4 DEF ReleaseTail, producer
  <2>2. \/ slots' = slots
        \/ /\ playback.group # None
           /\ slots' = [slots EXCEPT ![playback.group].state = "free",
                                     ![playback.group].applied = FALSE]
    BY <1>4 DEF ReleaseTail
  <2>3. playback.group # None => playback.group \in Slots
    BY DEF IInv, Typed
  <2>4. QED
    BY <1>2, <2>1, <2>2, <2>3, MarkedSized
<1>5. CASE Correct
  <2>1. PICK p \in Slots : p = queue.preparing
    BY <1>5, PreparingAlone DEF Correct
  <2>2. /\ slots' = [slots EXCEPT ![p].state = "ready", ![p].patch = <<filling.start, worker.parity>>]
        /\ transfer' = transfer /\ queue'.ordinal = queue.ordinal
    BY <1>5, <2>1 DEF Correct, IInv, Typed
  <2>3. QED
    BY <2>2, MarkedSized
<1>6. CASE PrefillClaim \/ LoopClaim
  <2>1. transfer' = transfer /\ (ClaimGroup \/ UNCHANGED <<slots, queue>>)
    BY <1>6 DEF PrefillClaim, LoopClaim
  <2>2. QED
    BY <1>2, <2>1, ClaimSized
<1>7. CASE Begin \/ Encode \/ Draw
  BY <1>2, <1>7 DEF Begin, Encode, Draw
<1>8. CASE TickIdle \/ TickEarly \/ Handoff \/ Underrun \/ Drain
  BY <1>2, <1>8 DEF TickIdle, TickEarly, Handoff, Underrun, Drain, producer
<1>9. CASE StoreTail \/ TailFails \/ ShowTail \/ NoTail
  BY <1>2, <1>9 DEF StoreTail, TailFails, ShowTail, NoTail, producer
<1>10. CASE PrefillEnd \/ Deadline \/ UNCHANGED vars
  BY <1>2, <1>10 DEF PrefillEnd, Deadline, producer, vars
<1>11. QED
  BY <1>1, <1>3, <1>4, <1>5, <1>6, <1>7, <1>8, <1>9, <1>10, ReleaseSized, StoreSized
     DEF Next, Loop, PlaybackTick, Produce, Tail

\* What is selected are planes of the page.
LEMMA MaskTyped ==
  ASSUME IInv, NEW s \in 0..Width
  PROVE  Mask(s) \subseteq Planes
<1>1. Width \in {3, 4}
  BY Widths
<1>2. CASE Width = 3
  BY <1>2 DEF Mask, Group, Planes
<1>3. CASE Width = 4
  BY <1>3 DEF Mask, Group, Planes
<1>4. QED
  BY <1>1, <1>2, <1>3

SymbolTyped == playback.symbol \in 0..Width

LEMMA NextScreenTyped ==
  ASSUME IInv, SymbolTyped, ScreenTyped, [Next]_vars
  PROVE  ScreenTyped'
<1>1. ASSUME NEW i \in Slots, NEW s \in 0..Width, Show(i, s) PROVE ScreenTyped'
  BY <1>1, MaskTyped DEF Show, ScreenTyped
<1>2. 0 \in 0..Width
  BY Widths
<1>3. CASE screen' = screen
  BY <1>3 DEF ScreenTyped
<1>4. CASE Activate
  <2>1. Earliest \in Slots /\ Show(Earliest, 0)
    <3>1. queue.ready > 0 /\ Show(Earliest, 0)
      BY <1>4 DEF Activate
    <3>2. QED
      BY <3>1, EarliestReady DEF IInv
  <2>2. QED
    BY <1>1, <1>2, <2>1
<1>5. CASE NextSymbol
  <2> DEFINE s == playback.symbol + 1
  <2>1. playback.group \in Slots /\ Show(playback.group, s) /\ playback.symbol < Width
    BY <1>5 DEF NextSymbol, Due, IInv, Staged, Typed
  <2>2. s \in 0..Width
    BY <2>1, Widths DEF SymbolTyped
  <2> HIDE DEF s
  <2>3. QED
    BY <1>1, <2>1, <2>2
<1>6. CASE Handoff
  <2>1. NextReady \in Slots /\ Show(NextReady, 0)
    BY <1>6, NextReadyReady DEF Handoff, IInv
  <2>2. QED
    BY <1>1, <1>2, <2>1
<1>7. CASE StoreTail
  <2>1. screen' = [screen EXCEPT !.palette = "data"]
    BY <1>7 DEF StoreTail
  <2>2. /\ screen'.slot = screen.slot /\ screen'.mask = screen.mask
        /\ screen'.palette \in {screen.palette, "data"}
    BY <2>1
  <2>3. QED
    BY <2>2 DEF ScreenTyped
<1>8. CASE ShowTail
  <2>1. screen' = [screen EXCEPT !.slot = TailSlot, !.mask = Planes] /\ Quiet
    BY <1>8 DEF ShowTail, IInv, Staged
  <2>2. TailSlot \in Slots
    BY <2>1, TailPage
  <2>3. screen'.palette = screen.palette
        /\ screen'.slot \in {screen.slot, TailSlot} /\ screen'.mask \in {screen.mask, Planes}
    BY <2>1
  <2>4. QED
    BY <2>2, <2>3 DEF ScreenTyped
<1>9. CASE PrefillClaim \/ LoopClaim \/ Produce \/ PrefillEnd
  BY <1>3, <1>9 DEF PrefillClaim, LoopClaim, Produce, Begin, Encode, Draw, Store, Correct, PrefillEnd
<1>10. CASE TickIdle \/ TickEarly \/ ApplyCorrection \/ ReleaseGroup \/ Underrun \/ Drain
  BY <1>3, <1>10 DEF TickIdle, TickEarly, ApplyCorrection, ReleaseGroup, Underrun, Drain
<1>11. CASE TailFails \/ ReleaseTail \/ NoTail \/ Deadline \/ UNCHANGED vars
  BY <1>3, <1>11 DEF TailFails, ReleaseTail, NoTail, Deadline, vars
<1>12. QED
  BY <1>4, <1>5, <1>6, <1>7, <1>8, <1>9, <1>10, <1>11 DEF Next, Loop, PlaybackTick, Tail

LEMMA NextSymbolTyped ==
  ASSUME IInv, SymbolTyped, [Next]_vars
  PROVE  SymbolTyped'
<1>1. playback \in PlaybackType /\ Width \in Nat
  BY Widths DEF IInv, Typed
<1>2. transfer' = transfer /\ Width' = Width
  <2>1. transfer' = transfer
    BY DEF Next, Loop, PrefillClaim, PrefillEnd, PlaybackTick, TickIdle, Activate, TickEarly,
           NextSymbol, ApplyCorrection, Handoff, ReleaseGroup, Underrun, Drain, LoopClaim,
           Produce, Begin, Encode, Draw, Store, Correct, Tail, StoreTail, TailFails, ShowTail,
           ReleaseTail, NoTail, Deadline, producer, vars
  <2>2. QED
    BY <2>1, WidthLeft
<1>3. CASE playback'.symbol \in {playback.symbol, 0}
  BY <1>1, <1>2, <1>3 DEF SymbolTyped
<1>4. CASE NextSymbol
  <2>1. playback.symbol < Width /\ playback' = [playback EXCEPT !.symbol = playback.symbol + 1]
    BY <1>4 DEF NextSymbol
  <2>2. playback'.symbol = playback.symbol + 1
    BY <1>1, <2>1
  <2>3. QED
    BY <1>1, <1>2, <2>1, <2>2 DEF SymbolTyped
<1>5. CASE Activate
  <2>1. \/ playback' = [group |-> Earliest, symbol |-> 0, active |-> TRUE, focus |-> FALSE]
        \/ playback' = [playback EXCEPT !.group = Earliest, !.symbol = 0]
    BY <1>5 DEF Activate
  <2>2. CASE playback' = [group |-> Earliest, symbol |-> 0, active |-> TRUE, focus |-> FALSE]
    BY <1>3, <2>2
  <2>3. CASE playback' = [playback EXCEPT !.group = Earliest, !.symbol = 0]
    BY <1>1, <1>3, <2>3
  <2>4. QED
    BY <2>1, <2>2, <2>3
<1>6. CASE ReleaseGroup
  BY <1>1, <1>3, <1>6 DEF ReleaseGroup
<1>7. CASE Drain
  BY <1>1, <1>3, <1>7 DEF Drain
<1>8. CASE ReleaseTail
  BY <1>1, <1>3, <1>8 DEF ReleaseTail
<1>9. CASE playback' = playback
  BY <1>3, <1>9
<1>10. CASE PrefillClaim \/ LoopClaim \/ Produce \/ PrefillEnd
  BY <1>9, <1>10 DEF PrefillClaim, LoopClaim, Produce, Begin, Encode, Draw, Store, Correct, PrefillEnd
<1>11. CASE TickIdle \/ TickEarly \/ ApplyCorrection \/ Handoff \/ Underrun
  BY <1>9, <1>11 DEF TickIdle, TickEarly, ApplyCorrection, Handoff, Underrun
<1>12. CASE StoreTail \/ TailFails \/ ShowTail \/ NoTail \/ Deadline \/ UNCHANGED vars
  BY <1>9, <1>12 DEF StoreTail, TailFails, ShowTail, NoTail, Deadline, vars
<1>13. QED
  BY <1>4, <1>5, <1>6, <1>7, <1>8, <1>10, <1>11, <1>12 DEF Next, Loop, PlaybackTick, Tail

LEMMA NextOutside ==
  ASSUME Outside, [Next]_vars
  PROVE  Outside'
BY DEF Outside, Next, Loop, PrefillClaim, PrefillEnd, PlaybackTick, TickIdle, Activate, TickEarly,
       NextSymbol, ApplyCorrection, Handoff, ReleaseGroup, Underrun, Drain, LoopClaim,
       Produce, Begin, BeginOverlap, BeginNext, ReadFails, Encode, Draw, Store, Correct, Tail,
       StoreTail, TailFails, ShowTail, ReleaseTail, NoTail, Deadline, producer, vars

\* The records of the parity: of the group under preparation ...
LEMMA ParityFits ==
  ASSUME IInv, PInv, QInv, queue.preparing # None
  PROVE  worker.parity \subseteq Records
<1> DEFINE p == queue.preparing
<1>1. p \in Slots /\ slots[p].state = "filling" /\ IsSlot(slots[p])
  BY PreparingAlone
<1>2. worker.parity = slots[p].start..(slots[p].start + Begun - 1) /\ Begun <= Width
  BY DEF QInv, Work, PInv, InStep
<1>3. slots[p].start + Width <= Total
  BY <1>1, EndFits DEF End
<1>4. /\ slots[p].start \in Nat /\ slots[p].stage \in Nat
      /\ Width \in Nat /\ Total \in Nat
  BY <1>1, SlotNumbers, Options DEF IInv
<1>5. Begun \in Nat
  BY <1>4 DEF Begun
<1> HIDE DEF p
<1>6. QED
  BY <1>2, <1>3, <1>4, <1>5 DEF Records

\* ... and of the last one.
IdleParity == queue.preparing = None => worker.parity \subseteq Records

LEMMA NextIdleParity ==
  ASSUME IInv, PInv, QInv, IdleParity, [Next]_vars
  PROVE  IdleParity'
<1>1. SUFFICES ASSUME queue'.preparing = None PROVE worker'.parity \subseteq Records'
  BY DEF IdleParity
<1>2. worker.parity \subseteq Records
  BY ParityFits DEF IdleParity
<1>3. Records' = Records
  <2>1. transfer' = transfer
    BY DEF Next, Loop, PrefillClaim, PrefillEnd, PlaybackTick, TickIdle, Activate, TickEarly,
           NextSymbol, ApplyCorrection, Handoff, ReleaseGroup, Underrun, Drain, LoopClaim,
           Produce, Begin, Encode, Draw, Store, Correct, Tail, StoreTail, TailFails, ShowTail,
           ReleaseTail, NoTail, Deadline, producer, vars
  <2>2. QED
    BY <2>1, TotalLeft DEF Records
<1>4. ~Begin
  BY <1>1 DEF Begin, BeginOverlap, BeginNext, ReadFails, Producing
<1>5. ~ClaimGroup
  <2>1. SUFFICES ASSUME ClaimGroup PROVE FALSE
    OBVIOUS
  <2>2. queue' = [queue EXCEPT !.tail = ClaimTarget, !.preparing = ClaimTarget, !.ordinal = @ + 1]
    BY <2>1 DEF ClaimGroup
  <2>3. ClaimTarget \in Slots /\ ClaimTarget # None
    BY TargetIsSlot, Options DEF IInv, Slots, None
  <2>4. queue'.preparing = ClaimTarget
    BY <2>2 DEF IInv, Typed
  <2>5. QED
    BY <1>1, <2>3, <2>4
<1>6. worker'.parity = worker.parity
  <2>1. CASE Encode \/ Draw \/ Store \/ Correct \/ StoreTail
    BY <2>1 DEF Encode, Draw, Store, Correct, StoreTail, PInv, WorkerKept
  <2>2. CASE worker' = worker
    BY <2>2
  <2>3. CASE PrefillClaim \/ LoopClaim \/ PrefillEnd
    BY <1>5, <2>2, <2>3 DEF PrefillClaim, LoopClaim, PrefillEnd
  <2>4. CASE PlaybackTick
    BY <2>2, <2>4 DEF PlaybackTick, TickIdle, Activate, TickEarly, NextSymbol, ApplyCorrection,
                      Handoff, ReleaseGroup, Underrun, Drain, producer
  <2>5. CASE TailFails \/ ShowTail \/ ReleaseTail \/ NoTail \/ Deadline \/ UNCHANGED vars
    BY <2>2, <2>5 DEF TailFails, ShowTail, ReleaseTail, NoTail, Deadline, producer, vars
  <2>6. QED
    BY <1>4, <2>1, <2>3, <2>4, <2>5 DEF Next, Loop, Produce, Tail
<1>7. QED
  BY <1>2, <1>3, <1>6

Sized == SlotsSized /\ ScreenTyped /\ SymbolTyped /\ Outside /\ IdleParity

LEMMA InitSized == ASSUME Init PROVE Sized
<1>1. Width \in Nat
  BY InitIInv, Widths
<1>2. SlotsSized
  BY <1>1 DEF Init, SlotsSized, FreeSlot
<1>3. ScreenTyped
  BY DEF Init, ScreenTyped
<1>4. SymbolTyped
  BY <1>1 DEF Init, SymbolTyped
<1>5. Outside
  BY DEF Init, Outside
<1>6. IdleParity
  BY DEF Init, IdleParity
<1>7. QED
  BY <1>2, <1>3, <1>4, <1>5, <1>6 DEF Sized

\* The types of the whole state: no queue, window, plane or record is ever out
\* of its bounds (main.c:575-1086, 1323-1409).
THEOREM TypesHold == Spec => []TypeOK
<1> DEFINE J == IInv /\ PInv /\ QInv /\ Screen /\ Sorted /\ Ordered /\ Sized
<1>1. Init => J
  BY InitIInv, InitPInv, InitQInv, InitScreen, InitSorted, InitOrdered, InitSized
<1>2. J /\ [Next]_vars => J'
  BY NextIInv, NextPInv, NextQInv, NextScreen, NextSorted, NextOrdered, NextSized,
     NextScreenTyped, NextSymbolTyped, NextOutside, NextIdleParity DEF Sized
<1>3. J => TypeOK
  <2>1. SUFFICES ASSUME J PROVE TypeOK
    OBVIOUS
  <2>2. Typed /\ Total \in Nat /\ Width \in Nat /\ SlotCount \in Nat /\ SlotCount >= 3
    BY <2>1, Options DEF IInv
  <2>3. global \in 0..Total
    BY <2>1, <2>2 DEF Sorted, Typed
  <2>4. /\ history.record \in [0..2 -> Nat] /\ history.head \in 0..2 /\ history.count \in 0..3
        /\ queue.tail \in Slots /\ queue.preparing \in Slots \union {None} /\ queue.ordinal \in Nat
    BY <2>2 DEF Typed
  <2>5. /\ playback.group \in Slots \union {None}
        /\ playback.active \in BOOLEAN /\ playback.focus \in BOOLEAN
        /\ loop.claimed \in BOOLEAN /\ loop.tailPending \in BOOLEAN
        /\ loop.pc \in {"prefill", "tick", "hidden", "handoff", "claim", "step", "tail",
                        "tail_stored", "tail_shown", "done", "failed"}
    BY <2>2 DEF Typed
  <2>6. ASSUME NEW i \in Slots
        PROVE  /\ slots[i].state \in {"free", "filling", "ready", "playing"}
               /\ slots[i].start \in Nat /\ slots[i].index \in Nat /\ slots[i].count \in Nat
               /\ slots[i].overlap \in 0..3 /\ slots[i].ordinal \in 0..queue.ordinal
               /\ slots[i].stage \in 0..Width /\ slots[i].applied \in BOOLEAN
    <3>1. IsSlot(slots[i])
      BY <2>2 DEF Typed
    <3>2. /\ slots[i].state \in {"free", "filling", "ready", "playing"}
          /\ slots[i].start \in Nat /\ slots[i].index \in Nat /\ slots[i].count \in Nat
          /\ slots[i].overlap \in Nat /\ slots[i].ordinal \in Nat
          /\ slots[i].stage \in Nat /\ slots[i].applied \in BOOLEAN
      BY <3>1 DEF IsSlot
    <3>3. slots[i].overlap <= 3 /\ slots[i].ordinal <= queue.ordinal /\ slots[i].stage <= Width
      BY <2>1 DEF Sized, SlotsSized
    <3>4. QED
      BY <2>2, <2>4, <3>2, <3>3
  <2>7. queue.ready \in 0..SlotCount
    <3>1. 0 \in Int /\ SlotCount - 1 \in Int
      BY <2>2
    <3>2. IsFiniteSet(Slots) /\ Cardinality(Slots) = SlotCount
      <4>1. /\ IsFiniteSet(0..(SlotCount - 1))
            /\ Cardinality(0..(SlotCount - 1))
                 = IF 0 > SlotCount - 1 THEN 0 ELSE (SlotCount - 1) - 0 + 1
        BY <3>1, FS_Interval
      <4>2. QED
        BY <2>2, <4>1 DEF Slots
    <3>3. Ready \subseteq Slots
      BY DEF Ready
    <3>4. Cardinality(Ready) \in Nat /\ Cardinality(Ready) <= SlotCount
      BY <2>2, <3>2, <3>3, FS_Subset, SlotsFinite
    <3>5. QED
      BY <2>1, <2>2, <3>4 DEF IInv, Owned
  <2>8. worker.phase \in {"begin", "encode", "matrix", "delta", "store"}
    BY <2>1 DEF QInv, Work
  <2>9. worker.parity \subseteq Records
    BY <2>1, ParityFits DEF Sized, IdleParity
  <2>10. shown \subseteq Records
    BY <2>1, <2>2 DEF Ordered, ShownTo, Records
  <2>11. reserved \in Slots \union {None}
    BY <2>1 DEF Screen
  <2>12. ScreenTyped /\ SymbolTyped /\ Outside
    BY <2>1 DEF Sized
  <2>13. transfer \in Transfers
    BY <2>2 DEF Typed
  <2>14. QED
    BY <2>3, <2>4, <2>5, <2>6, <2>7, <2>8, <2>9, <2>10, <2>11, <2>12, <2>13
       DEF TypeOK, ScreenTyped, SymbolTyped, Outside
<1> HIDE DEF J
<1>4. QED
  BY <1>1, <1>2, <1>3, PTL DEF Spec
=============================================================================
