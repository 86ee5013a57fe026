---------------------------- MODULE LegacyProofs ----------------------------
(***************************************************************************)
(* Proofs about the legacy sender, for every command line and length of    *)
(* the transfer.  The first part is about Transfer, for every behaviour of *)
(* the camera.                                                             *)
(*                                                                         *)
(* The second is about LegacyRaster, for every length of the frames, mask  *)
(* and polarity, and for all the memory the sender gets or does not get:   *)
(* the page on display is the image meant, and no image is refused.  Its   *)
(* inductive invariant RasterInv says what the shortcuts rely on: what the *)
(* pages and shadow rasters of vga.c hold (Sound, Shadows), what the       *)
(* encoder and the chain cache hold (IsEncoder, CacheSound), where in a    *)
(* pass the equations of two frames stand (Chains, Leads), and what the    *)
(* accumulator has summed up within a stripe (InStripes, Accumulated).     *)
(***************************************************************************)
EXTENDS Transfer, LegacyRaster, Induction

-----------------------------------------------------------------------------
(* The images of a window.                                                 *)

Kinds == {"DATA", "CHAIN_XOR", "BLOCK_XOR"}

\* The symbols made of frames 0..(n - 1) of a window, the images of them, and
\* all that can be seen of a window of n frames.
SymbolsOf(n) ==
  {s \in [kind : Kinds, first : Nat, count : Nat, stride : Nat, repeated : BOOLEAN] :
     /\ Members(s) \subseteq 0..(n - 1)
     /\ s.kind = "DATA" => s = Data(s.first, s.repeated)}

ImagesOf(n) == (SUBSET SymbolsOf(n)) \ {{}}

VisibleOf(n) == SymbolsOf(n) \cup {EndWindow}

LEMMA DataSymbol ==
  ASSUME NEW n \in Nat, NEW i \in 0..(n - 1), NEW again \in BOOLEAN
  PROVE  Data(i, again) \in SymbolsOf(n)
<1>1. Data(i, again) = [kind |-> "DATA", first |-> i, count |-> 1, stride |-> 1,
                        repeated |-> again]
  BY DEF Data, Item
<1>2. Members(Data(i, again)) \subseteq {i}
  BY <1>1 DEF Members
<1>3. Members(Data(i, again)) \subseteq 0..(n - 1)
  BY <1>2
<1>4. Data(i, again) \in [kind : Kinds, first : Nat, count : Nat, stride : Nat,
                          repeated : BOOLEAN]
  BY <1>1 DEF Kinds
<1>5. Data(i, again).first = i /\ Data(i, again).repeated = again
  BY <1>1
<1> QED
  BY <1>3, <1>4, <1>5 DEF SymbolsOf

LEMMA NoMembers == Members(EndWindow) = {} /\ EndWindow.kind = "END_WINDOW"
BY DEF Members, EndWindow, Item

\* An equation of every stride-th frame from `first` on, within the window.
LEMMA EquationSymbol ==
  ASSUME NEW n \in Nat, NEW kind \in {"CHAIN_XOR", "BLOCK_XOR"},
         NEW first \in Nat, NEW m \in Nat, NEW stride \in {1, 3},
         m > 0 => first + (m - 1) * stride < n
  PROVE  Item(kind, first, m, stride) \in SymbolsOf(n)
<1> DEFINE s == Item(kind, first, m, stride)
<1>1. s = [kind |-> kind, first |-> first, count |-> m, stride |-> stride, repeated |-> FALSE]
  BY DEF Item
<1>2. \A k \in 0..(m - 1) : first + k * stride \in 0..(n - 1)
  <2>1. CASE stride = 1
    BY <2>1
  <2>2. CASE stride = 3
    BY <2>2
  <2> QED
    BY <2>1, <2>2
<1>3. Members(s) = {first + k * stride : k \in 0..(m - 1)}
  BY <1>1 DEF Members
<1>4. Members(s) \subseteq 0..(n - 1)
  BY <1>2, <1>3
<1>5. s.kind # "DATA"
  BY <1>1
<1>6. s \in [kind : Kinds, first : Nat, count : Nat, stride : Nat, repeated : BOOLEAN]
  BY <1>1 DEF Kinds
<1> QED
  BY <1>4, <1>5, <1>6 DEF SymbolsOf

LEMMA Wider ==
  ASSUME NEW m \in Nat, NEW n \in Nat, m <= n
  PROVE  SymbolsOf(m) \subseteq SymbolsOf(n)
BY DEF SymbolsOf

LEMMA WindowFinite ==
  ASSUME NEW n \in Nat, NEW S \in SUBSET (0..(n - 1))
  PROVE  IsFiniteSet(S) /\ Cardinality(S) \in Nat
<1>1. IsFiniteSet(0..(n - 1))
  BY FS_Interval
<1> QED
  BY <1>1, FS_Subset, FS_CardinalityType

\* Order() puts every element of a set of frames in its place.
LEMMA OrderType ==
  ASSUME NEW n \in Nat, NEW S \in SUBSET (0..(n - 1)), NEW k \in 1..Cardinality(S)
  PROVE  Order(S)[k] \in S
<1>1. S \subseteq Nat /\ IsFiniteSet(S)
  <2>1. IsFiniteSet(S)
    BY WindowFinite
  <2> QED
    BY <2>1
<1>2. \E i \in S : Cardinality(Below(S, i)) = k - 1
  <2>1. \A T, m : T \subseteq Nat /\ IsFiniteSet(T) /\ m \in 1..Cardinality(T) =>
          \E i \in T : Cardinality(Below(T, i)) = m - 1
    BY Ranked
  <2> QED
    BY <1>1, <2>1
<1>3. \E i \in S : Cardinality({j \in S : j < i}) = k - 1
  BY <1>2 DEF Below
<1> QED
  BY <1>3 DEF Order

\* Three symbols to an image.
LEMMA BatchesType ==
  ASSUME NEW n \in Nat, NEW items \in Seq(SymbolsOf(n))
  PROVE  Batches(items) \in Seq(ImagesOf(n))
<1> DEFINE m == (Len(items) + 2) \div 3
           image(b) == {items[k] : k \in (3 * b - 2)..Smaller(3 * b, Len(items))}
<1>1. m \in Nat /\ Len(items) \in Nat
  OBVIOUS
<1>2. ASSUME NEW b \in 1..m PROVE image(b) \in ImagesOf(n)
  <2>1. 3 * b - 2 \in 1..Len(items)
    BY <1>1
  <2>2. 3 * b - 2 \in (3 * b - 2)..Smaller(3 * b, Len(items))
    BY <2>1 DEF Smaller
  <2>3. (3 * b - 2)..Smaller(3 * b, Len(items)) \subseteq 1..Len(items)
    BY <2>1 DEF Smaller
  <2>4. image(b) # {}
    BY <2>2
  <2>5. image(b) \subseteq SymbolsOf(n)
    BY <2>3
  <2> QED
    BY <2>4, <2>5 DEF ImagesOf
<1>3. Batches(items) = [b \in 1..m |-> image(b)]
  BY DEF Batches
<1> HIDE DEF m, image
<1>4. [b \in 1..m |-> image(b)] \in [1..m -> ImagesOf(n)]
  BY <1>2
<1> QED
  BY <1>1, <1>3, <1>4

LEMMA DataBatchesType ==
  ASSUME NEW n \in Nat, NEW S \in SUBSET (0..(n - 1)), NEW again \in BOOLEAN
  PROVE  DataBatches(S, again) \in Seq(ImagesOf(n))
<1>1. \A k \in 1..Cardinality(S) : Data(Order(S)[k], again) \in SymbolsOf(n)
  BY OrderType, DataSymbol
<1> DEFINE symbols == [k \in 1..Cardinality(S) |-> Data(Order(S)[k], again)]
<1>2. symbols \in [1..Cardinality(S) -> SymbolsOf(n)]
  BY <1>1
<1>3. Cardinality(S) \in Nat
  BY WindowFinite
<1> HIDE DEF symbols
<1>4. symbols \in Seq(SymbolsOf(n))
  BY <1>2, <1>3
<1> QED
  BY <1>4, BatchesType DEF DataBatches, symbols

\* An equation ends in the window and begins at its start or later.
LEMMA ChainSymbol ==
  ASSUME NEW c, ValidConfig(c), NEW n \in Nat, NEW i \in 0..(n - 1), Chained(c, n, i)
  PROVE  Chain(c, n, i) \in SymbolsOf(n)
<1> DEFINE h == Half(c)
           first == i + 1 - h
           m == Smaller(n - first, c.chain)
<1>1. h \in Nat /\ h > 0 /\ (i + 1) % h = 0 /\ c.chain \in Nat
  BY DEF Chained, Half, ValidConfig
<1>2. i + 1 >= h
  <2>1. \A a, b \in Nat : b > 0 /\ a < b => a % b = a
    OBVIOUS
  <2> HIDE DEF h
  <2> QED
    BY <1>1, <2>1
<1> HIDE DEF h
<1>3. first \in Nat /\ first <= i + 1 /\ n - first \in Nat
  BY <1>1, <1>2 DEF Chained
<1> HIDE DEF first
<1>4. m \in Nat /\ first + (m - 1) * 1 < n
  BY <1>1, <1>3 DEF Smaller
<1> HIDE DEF m
<1>5. Chain(c, n, i) = Item(IF c.chain = 2 THEN "CHAIN_XOR" ELSE "BLOCK_XOR", first, m, 1)
  BY DEF Chain, first, m, h
<1> QED
  BY <1>3, <1>4, <1>5, EquationSymbol

LEMMA GroupSymbol ==
  ASSUME NEW c, ValidConfig(c), NEW n \in Nat, NEW i \in 0..(n - 1), Grouped(c, n, i)
  PROVE  Group(c, i) \in SymbolsOf(n)
<1>1. c.group \in Nat /\ c.group > 0
  BY DEF Grouped, ValidConfig
<1> DEFINE r == i % c.group
<1>2. r \in Nat /\ r <= i
  <2>1. \A a, b \in Nat : b > 0 => a % b \in Nat /\ a % b <= a
    <3> SUFFICES ASSUME NEW a \in Nat, NEW b \in Nat, b > 0
                 PROVE  a % b \in Nat /\ a % b <= a
      OBVIOUS
    <3>1. CASE a < b
      BY <3>1
    <3>2. CASE a >= b
      BY <3>2
    <3> QED
      BY <3>1, <3>2
  <2> QED
    BY <1>1, <2>1
<1> HIDE DEF r
<1>3. Group(c, i) = Item("BLOCK_XOR", i - r, r + 1, 1)
  BY DEF Group, r
<1>4. i - r \in Nat /\ r + 1 \in Nat /\ (i - r) + ((r + 1) - 1) * 1 < n
  BY <1>2
<1> QED
  BY <1>3, <1>4, EquationSymbol

\* transmit().
LEMMA MonoType ==
  ASSUME NEW c, ValidConfig(c), NEW n \in Nat, NEW again \in BOOLEAN
  PROVE  MonoPass(c, n, again) \in Seq(ImagesOf(n))
<1> DEFINE images(i) ==
             <<{Data(i, again)}>>
             \o (IF Chained(c, n, i)
                 THEN <<{Chain(c, n, i)}>>
                        \o (IF Anchored(c, i) THEN <<{Data(i, FALSE)}>> ELSE <<>>)
                 ELSE <<>>)
             \o (IF Grouped(c, n, i) THEN <<{Group(c, i)}>> ELSE <<>>)
           seqs == [k \in 1..n |-> images(k - 1)]
           I == Seq(ImagesOf(n))
<1>1. \A s, t \in I : s \o t \in I
  BY ConcatProperties
<1>2. <<>> \in I /\ \A x \in SymbolsOf(n) : <<{x}>> \in I
  BY DEF ImagesOf
<1>3. ASSUME NEW i \in 0..(n - 1) PROVE images(i) \in I
  <2>1. Data(i, again) \in SymbolsOf(n) /\ Data(i, FALSE) \in SymbolsOf(n)
    BY DataSymbol
  <2>2. Chained(c, n, i) => Chain(c, n, i) \in SymbolsOf(n)
    BY ChainSymbol
  <2>3. Grouped(c, n, i) => Group(c, i) \in SymbolsOf(n)
    BY GroupSymbol
  <2> DEFINE anchor == IF Anchored(c, i) THEN <<{Data(i, FALSE)}>> ELSE <<>>
             chain == IF Chained(c, n, i) THEN <<{Chain(c, n, i)}>> \o anchor ELSE <<>>
             group == IF Grouped(c, n, i) THEN <<{Group(c, i)}>> ELSE <<>>
  <2> HIDE DEF I
  <2>4. anchor \in I /\ group \in I /\ <<{Data(i, again)}>> \in I
    BY <1>2, <2>1, <2>3
  <2>5. chain \in I
    <3> HIDE DEF anchor
    <3> QED
      BY <1>1, <1>2, <2>2, <2>4
  <2> HIDE DEF anchor, chain, group
  <2>6. (<<{Data(i, again)}>> \o chain) \o group \in I
    BY <1>1, <2>4, <2>5
  <2> QED
    BY <2>6 DEF anchor, chain, group
<1> HIDE DEF images
<1>4. \A k \in 1..n : images(k - 1) \in I
  BY <1>3
<1>5. seqs \in [1..n -> I]
  BY <1>4
<1>6. seqs \in Seq(I)
  BY <1>5
<1> HIDE DEF seqs
<1>7. FlattenSeq(seqs) \in Seq(ImagesOf(n))
  BY <1>6, FlattenType
<1> QED
  BY <1>7 DEF MonoPass, seqs, images

\* transmit_rgb3() with /RE:3.
LEMMA StripesType ==
  ASSUME NEW from \in Nat, NEW n \in Nat, NEW again \in BOOLEAN
  PROVE  Stripes(from, n, again) \in Seq(ImagesOf(n))
<1> DEFINE end(s) == Smaller(s + 9, n)
           parity(s, c) == Item("BLOCK_XOR", s + c, (end(s) - (s + c) + 2) \div 3, 3)
           closing(s) == {parity(s, c) : c \in {d \in 0..2 : s + d < end(s)}}
           stripe(s) == DataBatches(s..(end(s) - 1), again) \o <<closing(s)>>
           m == (n - from + 8) \div 9
           seqs == [k \in 1..m |-> stripe(from + 9 * (k - 1))]
           I == Seq(ImagesOf(n))
<1>1. ASSUME NEW s \in Nat, s < n PROVE stripe(s) \in I
  <2>1. end(s) \in Nat /\ s < end(s) /\ end(s) <= n
    BY <1>1 DEF Smaller
  <2> HIDE DEF end
  <2>2. s..(end(s) - 1) \in SUBSET (0..(n - 1))
    BY <2>1
  <2>3. DataBatches(s..(end(s) - 1), again) \in I
    BY <2>2, DataBatchesType
  <2>4. ASSUME NEW c \in 0..2, s + c < end(s)
        PROVE  parity(s, c) \in SymbolsOf(n)
    <3> DEFINE len == (end(s) - (s + c) + 2) \div 3
    <3>1. len \in Nat /\ 3 * len <= end(s) - (s + c) + 2 /\ s + c \in Nat
      BY <2>1, <2>4
    <3> HIDE DEF len
    <3>2. (s + c) + (len - 1) * 3 < n
      BY <2>1, <3>1
    <3>3. Item("BLOCK_XOR", s + c, len, 3) \in SymbolsOf(n)
      BY <3>1, <3>2, EquationSymbol
    <3> QED
      BY <3>3 DEF len
  <2>5. parity(s, 0) \in closing(s)
    <3>1. 0 \in {d \in 0..2 : s + d < end(s)}
      BY <2>1
    <3> HIDE DEF parity
    <3> QED
      BY <3>1
  <2>6. closing(s) \in ImagesOf(n)
    <3> HIDE DEF parity
    <3> QED
      BY <2>4, <2>5 DEF ImagesOf
  <2> HIDE DEF closing
  <2>7. <<closing(s)>> \in I
    BY <2>6
  <2> QED
    BY <2>3, <2>7, ConcatProperties
<1> HIDE DEF stripe, I
<1>2. ASSUME NEW k \in 1..m PROVE stripe(from + 9 * (k - 1)) \in I
  <2>1. from + 9 * (k - 1) \in Nat /\ from + 9 * (k - 1) < n
    OBVIOUS
  <2> QED
    BY <1>1, <2>1
<1>3. m \in Int
  OBVIOUS
<1> HIDE DEF m
<1>4. seqs \in [1..m -> I]
  BY <1>2
<1> HIDE DEF seqs
<1>5. CASE m \in Nat
  <2>1. seqs \in Seq(I)
    BY <1>4, <1>5
  <2>2. FlattenSeq(seqs) \in Seq(ImagesOf(n))
    BY <2>1, FlattenType DEF I
  <2> QED
    BY <2>2 DEF Stripes, seqs, stripe, closing, parity, end, m
<1>6. CASE m \notin Nat
  <2>1. 1..m = 1..0
    BY <1>3, <1>6
  <2>2. seqs \in [1..0 -> I]
    BY <1>4, <2>1
  <2>3. seqs \in Seq(I)
    BY <2>2
  <2>4. FlattenSeq(seqs) \in Seq(ImagesOf(n))
    BY <2>3, FlattenType DEF I
  <2> QED
    BY <2>4 DEF Stripes, seqs, stripe, closing, parity, end, m
<1> QED
  BY <1>5, <1>6

LEMMA ParityType ==
  ASSUME NEW c, ValidConfig(c), NEW n \in Nat
  PROVE  Parity(c, n) \in Seq(ImagesOf(n))
<1> DEFINE closing == {i \in 0..(n - 1) : Chained(c, n, i) \/ Grouped(c, n, i)}
           anchors == {i \in 0..(n - 1) : c.chain > 0 /\ Anchored(c, i)}
           equation(i) == IF c.chain > 0 THEN Chain(c, n, i) ELSE Group(c, i)
           symbols == [k \in 1..Cardinality(closing) |-> equation(Order(closing)[k])]
<1>1. ASSUME NEW i \in closing PROVE equation(i) \in SymbolsOf(n)
  <2>1. CASE c.chain > 0
    <3>1. c.group = 0
      BY <2>1 DEF ValidConfig
    <3>2. Chained(c, n, i)
      BY <3>1 DEF Grouped
    <3> QED
      BY <2>1, <3>2, ChainSymbol
  <2>2. CASE ~(c.chain > 0)
    <3>1. Half(c) = 0
      BY <2>2 DEF ValidConfig, Half
    <3>2. Grouped(c, n, i)
      BY <3>1 DEF Chained
    <3> QED
      BY <2>2, <3>2, GroupSymbol
  <2> QED
    BY <2>1, <2>2
<1>2. closing \in SUBSET (0..(n - 1)) /\ anchors \in SUBSET (0..(n - 1))
  OBVIOUS
<1> HIDE DEF closing, anchors, equation
<1>3. \A k \in 1..Cardinality(closing) : equation(Order(closing)[k]) \in SymbolsOf(n)
  BY <1>1, <1>2, OrderType
<1>4. symbols \in [1..Cardinality(closing) -> SymbolsOf(n)]
  BY <1>3
<1>5. Cardinality(closing) \in Nat
  BY <1>2, WindowFinite
<1> HIDE DEF symbols
<1>6. symbols \in Seq(SymbolsOf(n))
  BY <1>4, <1>5
<1>7. Batches(symbols) \in Seq(ImagesOf(n)) /\ DataBatches(anchors, TRUE) \in Seq(ImagesOf(n))
  BY <1>2, <1>6, BatchesType, DataBatchesType
<1>8. DataBatches(anchors, TRUE) \o Batches(symbols) \in Seq(ImagesOf(n))
  BY <1>7, ConcatProperties
<1> QED
  BY <1>8 DEF Parity, symbols, closing, anchors, equation

LEMMA ColourType ==
  ASSUME NEW c, ValidConfig(c), NEW from \in Nat, NEW n \in Nat, NEW again \in BOOLEAN
  PROVE  ColourPass(c, from, n, again) \in Seq(ImagesOf(n))
<1>1. CASE c.group = 3
  BY <1>1, StripesType DEF ColourPass
<1>2. CASE c.group # 3
  <2>1. from..(n - 1) \in SUBSET (0..(n - 1))
    OBVIOUS
  <2>2. DataBatches(from..(n - 1), again) \in Seq(ImagesOf(n))
    BY <2>1, DataBatchesType
  <2>3. DataBatches(from..(n - 1), again) \o Parity(c, n) \in Seq(ImagesOf(n))
    BY <2>2, ParityType, ConcatProperties
  <2> QED
    BY <1>2, <2>3 DEF ColourPass
<1> QED
  BY <1>1, <1>2

\* Every image of transmit() is made of frames of the window.
LEMMA TransmitType ==
  ASSUME NEW c, ValidConfig(c), NEW from \in Nat, NEW n \in Nat
  PROVE  Transmit(c, from, n) \in Seq(ImagesOf(n))
<1> DEFINE round(r) == IF c.rgb3 THEN ColourPass(c, IF r = 1 THEN from ELSE 0, n, r > 1)
                       ELSE MonoPass(c, n, r > 1)
           rounds == [r \in 1..c.repeat |-> round(r)]
<1>1. c.repeat \in Nat
  BY DEF ValidConfig
<1>2. ASSUME NEW r \in 1..c.repeat PROVE round(r) \in Seq(ImagesOf(n))
  <2> DEFINE again == r > 1
             start == IF r = 1 THEN from ELSE 0
  <2>1. again \in BOOLEAN /\ start \in Nat
    OBVIOUS
  <2> HIDE DEF again, start
  <2>2. /\ ColourPass(c, start, n, again) \in Seq(ImagesOf(n))
        /\ MonoPass(c, n, again) \in Seq(ImagesOf(n))
    BY <2>1, ColourType, MonoType
  <2> QED
    BY <2>2 DEF again, start
<1> HIDE DEF round
<1>3. rounds \in [1..c.repeat -> Seq(ImagesOf(n))]
  BY <1>2
<1> HIDE DEF rounds
<1>4. rounds \in Seq(Seq(ImagesOf(n)))
  BY <1>1, <1>3
<1>5. FlattenSeq(rounds) \in Seq(ImagesOf(n))
  BY <1>4, FlattenType
<1> QED
  BY <1>5 DEF Transmit, rounds, round

LEMMA SelectedType ==
  ASSUME NEW c, ValidConfig(c), NEW n \in Nat, NEW S \in SUBSET (0..(n - 1))
  PROVE  TransmitSelected(c, S) \in Seq(ImagesOf(n))
<1> DEFINE mono(r) == [k \in 1..Cardinality(S) |-> {Data(Order(S)[k], r > 1)}]
           round(r) == IF c.rgb3 THEN DataBatches(S, r > 1) ELSE mono(r)
           rounds == [r \in 1..c.repeat |-> round(r)]
<1>1. c.repeat \in Nat
  BY DEF ValidConfig
<1>2. ASSUME NEW r \in 1..c.repeat PROVE round(r) \in Seq(ImagesOf(n))
  <2> DEFINE again == r > 1
  <2>1. again \in BOOLEAN
    OBVIOUS
  <2> HIDE DEF again
  <2>2. DataBatches(S, again) \in Seq(ImagesOf(n))
    BY <2>1, DataBatchesType
  <2>3. \A k \in 1..Cardinality(S) : Order(S)[k] \in 0..(n - 1)
    BY OrderType
  <2>4. \A k \in 1..Cardinality(S) : Data(Order(S)[k], again) \in SymbolsOf(n)
    BY <2>1, <2>3, DataSymbol
  <2> DEFINE images == [k \in 1..Cardinality(S) |-> {Data(Order(S)[k], again)}]
  <2>5. images \in [1..Cardinality(S) -> ImagesOf(n)]
    BY <2>4 DEF ImagesOf
  <2>6. Cardinality(S) \in Nat
    BY WindowFinite
  <2> HIDE DEF images
  <2>7. images \in Seq(ImagesOf(n))
    BY <2>5, <2>6
  <2> QED
    BY <2>2, <2>7 DEF images, again
<1> HIDE DEF round
<1>3. rounds \in [1..c.repeat -> Seq(ImagesOf(n))]
  BY <1>2
<1> HIDE DEF rounds
<1>4. rounds \in Seq(Seq(ImagesOf(n)))
  BY <1>1, <1>3
<1>5. FlattenSeq(rounds) \in Seq(ImagesOf(n))
  BY <1>4, FlattenType
<1> QED
  BY <1>5 DEF TransmitSelected, rounds, round, mono

\* One round of peeling.
Peel(S, eqs, n) == S \cup {i \in 0..(n - 1) : \E e \in eqs : e \ S = {i}}

Peels(f, known, eqs, n) ==
  /\ f \in [0..n -> SUBSET (0..(n - 1))]
  /\ f[0] = known
  /\ \A k \in 1..n : f[k] = Peel(f[k - 1], eqs, n)

\* Peeled is n rounds of it.
LEMMA PeelSteps ==
  ASSUME NEW n \in Nat, NEW known \in SUBSET (0..(n - 1)), NEW eqs
  PROVE  \E f : Peels(f, known, eqs, n) /\ Peeled(known, eqs, n) = f[n]
<1> DEFINE peel(S) == S \cup {i \in 0..(n - 1) : \E e \in eqs : e \ S = {i}}
           T == SUBSET (0..(n - 1))
           G == [p \in Nat \X T |-> peel(p[2])]
           Steps(f) ==
             f = [k \in 0..n |-> IF k = 0 THEN known ELSE UNION {peel(S) : S \in {f[k - 1]}}]
           step == CHOOSE f : Steps(f)
<1>1. \A S \in T : peel(S) \in T
  OBVIOUS
<1>2. \A S : UNION {peel(X) : X \in {S}} = peel(S)
  OBVIOUS
<1>3. \A S : peel(S) = Peel(S, eqs, n)
  BY DEF Peel
<1> HIDE DEF peel
<1>4. G \in [Nat \X T -> T] /\ \A k \in Nat, S \in T : G[<<k, S>>] = peel(S)
  BY <1>1
<1>5. known \in T /\ 0 \in Nat /\ 0 <= n
  OBVIOUS
<1> HIDE DEF G, T
<1>6. PICK f \in [0..n -> T] : Recurs(f, known, G, 0, n)
  BY <1>4, <1>5, Recursion
<1>7. \A k \in 0..n : f[k] = IF k = 0 THEN known ELSE peel(f[k - 1])
  <2> SUFFICES ASSUME NEW k \in 0..n, k # 0 PROVE f[k] = peel(f[k - 1])
    BY <1>6 DEF Recurs
  <2>1. k \in Nat /\ f[k - 1] \in T
    BY <1>6
  <2>2. f[k] = G[<<k, f[k - 1]>>]
    BY <1>6 DEF Recurs
  <2> QED
    BY <1>4, <2>1, <2>2
<1>8. Steps(f)
  BY <1>2, <1>6, <1>7
<1>9. Steps(step)
  <2> HIDE DEF Steps
  <2> QED
    BY <1>8
<1>10. Peeled(known, eqs, n) = step[n]
  BY DEF Peeled, peel
<1>11. \A k \in 0..n : step[k] = IF k = 0 THEN known ELSE peel(step[k - 1])
  <2> HIDE DEF step
  <2> QED
    BY <1>2, <1>9
<1> HIDE DEF step
<1> DEFINE D == {k \in Nat : k <= n => step[k] = f[k]}
<1>12. 0 \in D
  BY <1>7, <1>11
<1>13. ASSUME NEW k \in Nat, k \in D PROVE k + 1 \in D
  <2> SUFFICES ASSUME k + 1 <= n PROVE step[k + 1] = f[k + 1]
    OBVIOUS
  <2>1. step[k] = f[k]
    BY <1>13
  <2>2. k + 1 \in 0..n /\ k + 1 # 0 /\ (k + 1) - 1 = k
    OBVIOUS
  <2>3. step[k + 1] = peel(step[k]) /\ f[k + 1] = peel(f[k])
    BY <1>7, <1>11, <2>2
  <2> QED
    BY <2>1, <2>3
<1> HIDE DEF D
<1>14. n \in D
  BY <1>12, <1>13, Induct
<1>15. step[n] = f[n]
  BY <1>14 DEF D
<1>16. f[0] = known /\ \A k \in 1..n : f[k] = peel(f[k - 1])
  BY <1>7
<1>17. Peels(f, known, eqs, n)
  BY <1>3, <1>6, <1>16 DEF Peels, T
<1> QED
  BY <1>10, <1>15, <1>17

\* The receiver works out frames below n only.
LEMMA PeeledType ==
  ASSUME NEW n \in Nat, NEW known \in SUBSET (0..(n - 1)), NEW eqs
  PROVE  Peeled(known, eqs, n) \subseteq 0..(n - 1)
<1>1. PICK f : Peels(f, known, eqs, n) /\ Peeled(known, eqs, n) = f[n]
  BY PeelSteps
<1> QED
  BY <1>1 DEF Peels

\* All of them, where every frame not known is the only one of an equation.
LEMMA PeeledAll ==
  ASSUME NEW n \in Nat \ {0}, NEW known \in SUBSET (0..(n - 1)), NEW eqs,
         \A i \in (0..(n - 1)) \ known : \E e \in eqs : e \ known = {i}
  PROVE  Peeled(known, eqs, n) = 0..(n - 1)
<1> DEFINE all == 0..(n - 1)
<1>1. PICK f : Peels(f, known, eqs, n) /\ Peeled(known, eqs, n) = f[n]
  <2>1. n \in Nat
    OBVIOUS
  <2> QED
    BY <2>1, PeelSteps
<1>2. f \in [0..n -> SUBSET all] /\ f[0] = known
      /\ \A k \in 1..n : f[k] = Peel(f[k - 1], eqs, n)
  BY <1>1 DEF Peels
<1> DEFINE D == {k \in Nat : k + 1 <= n => f[k + 1] = all}
<1>3. 0 \in D
  <2>1. 1 \in 1..n /\ 1 - 1 = 0 /\ 0 + 1 = 1
    OBVIOUS
  <2>2. f[1] = Peel(known, eqs, n)
    BY <1>2, <2>1
  <2>3. \A i \in all : i \in Peel(known, eqs, n)
    BY DEF Peel
  <2>4. 1 \in 0..n
    OBVIOUS
  <2>5. f[1] \subseteq all
    BY <1>2, <2>4
  <2>6. all \subseteq f[1]
    BY <2>2, <2>3
  <2>7. f[1] = all
    BY <2>5, <2>6
  <2> QED
    BY <2>1, <2>7
<1>4. ASSUME NEW k \in Nat, k \in D PROVE k + 1 \in D
  <2> SUFFICES ASSUME (k + 1) + 1 <= n PROVE f[(k + 1) + 1] = all
    OBVIOUS
  <2> DEFINE m == (k + 1) + 1
  <2>1. f[k + 1] = all /\ m \in 1..n /\ m - 1 = k + 1
    BY <1>4
  <2> HIDE DEF m
  <2>2. f[m] = Peel(all, eqs, n)
    BY <1>2, <2>1
  <2>3. all \subseteq f[m]
    BY <2>2 DEF Peel
  <2>4. f[m] \subseteq all
    BY <1>2, <2>1
  <2>5. f[m] = all
    BY <2>3, <2>4
  <2> QED
    BY <2>5 DEF m
<1> HIDE DEF D
<1>5. n - 1 \in D
  BY <1>3, <1>4, Induct
<1>6. (n - 1) + 1 = n
  OBVIOUS
<1> HIDE DEF all
<1>7. (n - 1) + 1 <= n
  OBVIOUS
<1>8. f[(n - 1) + 1] = all
  BY <1>5, <1>7 DEF D
<1> QED
  BY <1>1, <1>6, <1>8 DEF all

-----------------------------------------------------------------------------
(* The sender's windows.                                                   *)

\* The windows cut the transfer evenly.
Cut ==
  /\ cfg \in Configs /\ length \in Nat
  /\ window \in Nat /\ base \in Nat /\ count \in Nat \ {0}
  /\ base + count <= length /\ count <= cfg.size
  /\ phase # "done" => base = window * cfg.size /\ count = Smaller(cfg.size, length - base)

\* Steps within a window.
Still == UNCHANGED <<cfg, length, window, base, count>>

LEMMA Configured == ASSUME Cut PROVE ValidConfig(cfg) /\ cfg.size \in Nat /\ cfg.size >= 4
BY ConfigAssumption DEF Cut, ValidConfig

\* The next window begins where a full one ends.
LEMMA FillCuts ==
  ASSUME Cut, phase = "prompt", Fill(base + count) # 0
  PROVE  /\ base + count = window * cfg.size + cfg.size
         /\ Fill(base + count) \in Nat
         /\ base + count + Fill(base + count) <= length
         /\ Fill(base + count) = Smaller(cfg.size, length - (base + count))
<1>1. cfg.size \in Nat /\ cfg.size >= 4
  BY Configured
<1>2. base = window * cfg.size /\ count = Smaller(cfg.size, length - base)
  BY DEF Cut
<1>3. Fill(base + count) = Smaller(base + count + cfg.size, length) - (base + count)
  BY <1>1 DEF Fill, Cut
<1>4. base + count < length
  BY <1>1, <1>3 DEF Smaller, Cut
<1>5. count = cfg.size
  BY <1>1, <1>2, <1>4 DEF Smaller, Cut
<1>6. base + count = window * cfg.size + cfg.size
  BY <1>2, <1>5
<1>7. Fill(base + count) = Smaller(cfg.size, length - (base + count))
  BY <1>1, <1>3 DEF Smaller, Cut
<1>8. Fill(base + count) \in Nat /\ base + count + Fill(base + count) <= length
  BY <1>1, <1>4, <1>7 DEF Smaller, Cut
<1> QED
  BY <1>6, <1>7, <1>8

\* run_transfer() starts with the first window.
LEMMA InitiallyCut == ASSUME Init PROVE Cut
<1>1. cfg \in Configs /\ length \in Nat /\ window = 0 /\ base = 0
  BY LengthAssumption DEF Init
<1>2. cfg.size \in Nat /\ cfg.size >= 4
  BY <1>1, ConfigAssumption DEF ValidConfig
<1>3. count = Fill(0) /\ count >= 3
  BY DEF Init
<1>4. Fill(0) = Smaller(0 + cfg.size, length) - 0
  BY <1>1, <1>2, <1>3 DEF Fill
<1> QED
  BY <1>1, <1>2, <1>3, <1>4 DEF Cut, Smaller

LEMMA StillCut ==
  ASSUME Cut, Still, phase = "done" => phase' = "done"
  PROVE  Cut'
BY DEF Cut, Still, Smaller

\* Enter commits the window: the next one follows it.
LEMMA EnterCut ==
  ASSUME Cut, Enter
  PROVE  Cut'
<1>1. phase = "prompt" /\ cfg' = cfg /\ length' = length /\ window' = window + 1
  BY DEF Enter, Geometry
<1>2. cfg.size \in Nat /\ cfg.size >= 4
  BY Configured
<1>3. CASE Fill(base + count) = 0
  <2>1. base' = base /\ count' = count /\ phase' = "done"
    BY <1>3 DEF Enter
  <2> QED
    BY <1>1, <2>1 DEF Cut
<1>4. CASE Fill(base + count) # 0
  <2>1. base' = base + count /\ count' = Fill(base + count)
    BY <1>4 DEF Enter
  <2>2. /\ base + count = window * cfg.size + cfg.size
        /\ Fill(base + count) \in Nat
        /\ base + count + Fill(base + count) <= length
        /\ Fill(base + count) = Smaller(cfg.size, length - (base + count))
    BY <1>1, <1>4, FillCuts
  <2>3. window * cfg.size + cfg.size = (window + 1) * cfg.size
    <3>1. \A w, s \in Nat : w * s + s = (w + 1) * s
      OBVIOUS
    <3> QED
      BY <1>2, <3>1 DEF Cut
  <2>4. count' = Smaller(cfg'.size, length' - base') /\ count' <= cfg'.size
    BY <1>1, <1>2, <2>1, <2>2 DEF Smaller
  <2>5. base' = window' * cfg'.size
    BY <1>1, <2>1, <2>2, <2>3
  <2>6. cfg' \in Configs /\ length' \in Nat /\ window' \in Nat /\ base' \in Nat
        /\ count' \in Nat \ {0} /\ base' + count' <= length'
    BY <1>1, <1>4, <2>1, <2>2 DEF Cut
  <2> QED
    BY <2>4, <2>5, <2>6 DEF Cut
<1> QED
  BY <1>3, <1>4

-----------------------------------------------------------------------------
(* The sender's types.                                                     *)

Passing == pass \in Seq(ImagesOf(count)) /\ shown \in 0..Len(pass)

Choosing ==
  /\ selected \subseteq 0..(cfg.size - 1) /\ selecting \in BOOLEAN
  /\ selecting => selected \subseteq 0..(count - 1)

\* What is on the screen is of a window begun, whatever window is current.
OnScreen ==
  /\ screen \in [window : Nat, base : Nat, items : SUBSET VisibleOf(length - screen.base)]
  /\ screen.window <= window /\ screen.base <= length

SenderTyped == phase \in Phases /\ Cut /\ Passing /\ Choosing /\ OnScreen

LEMMA SymbolsBefore ==
  ASSUME NEW n \in Nat, NEW s \in VisibleOf(n)
  PROVE  Members(s) \subseteq 0..(n - 1)
BY NoMembers DEF VisibleOf, SymbolsOf

LEMMA TypedSender == ASSUME SenderTyped PROVE TypeOK
<1> USE DEF SenderTyped
<1>1. cfg.size \in Nat
  BY Configured
<1>2. base \in Nat /\ count \in 1..cfg.size /\ base + count <= length
  BY <1>1 DEF Cut
<1>3. ASSUME NEW item \in screen.items, NEW i \in Members(item) PROVE screen.base + i < length
  <2>1. length - screen.base \in Nat /\ item \in VisibleOf(length - screen.base)
    BY DEF OnScreen, Cut
  <2>2. i \in 0..((length - screen.base) - 1)
    BY <2>1, SymbolsBefore
  <2> QED
    BY <2>2 DEF OnScreen, Cut
<1>4. ASSUME NEW k \in 1..Len(pass)
      PROVE  pass[k] # {} /\ \A item \in pass[k] : Members(item) \subseteq 0..(count - 1)
  <2>1. pass[k] \in ImagesOf(count) /\ count \in Nat
    BY DEF Passing, Cut
  <2> QED
    BY <2>1, SymbolsBefore DEF ImagesOf, VisibleOf
<1> QED
  BY <1>1, <1>2, <1>3, <1>4 DEF Cut, Passing, Choosing, TypeOK

LEMMA InitSender == ASSUME Init PROVE SenderTyped
<1> DEFINE first == IF cfg.rgb3 THEN 0..2 ELSE {0}
           items == {Data(i, FALSE) : i \in first}
<1>1. Cut
  BY InitiallyCut
<1>2. count >= 3 /\ screen = Image(items) /\ window = 0 /\ base = 0
  BY DEF Init
<1>3. first \subseteq 0..2
  OBVIOUS
<1> HIDE DEF first
<1>4. length \in Nat /\ \A i \in 0..2 : i \in 0..(length - 1)
  BY <1>1, <1>2 DEF Cut
<1>5. \A i \in first : Data(i, FALSE) \in VisibleOf(length)
  BY <1>3, <1>4, DataSymbol DEF VisibleOf
<1>6. items \subseteq VisibleOf(length)
  BY <1>5
<1> HIDE DEF items
<1>7. screen = [window |-> 0, base |-> 0, items |-> items]
  BY <1>2 DEF Image
<1>8. OnScreen
  <2>1. length - screen.base = length
    BY <1>4, <1>7
  <2>2. screen \in [window : Nat, base : Nat, items : SUBSET VisibleOf(length)]
    BY <1>6, <1>7
  <2>3. screen.window <= window /\ screen.base <= length
    BY <1>2, <1>4, <1>7
  <2> QED
    BY <2>1, <2>2, <2>3 DEF OnScreen
<1>9. Passing
  <2>1. pass = <<>> /\ shown = 0
    BY DEF Init
  <2> QED
    BY <2>1 DEF Passing
<1>10. selected = {} /\ selecting = FALSE /\ phase = "first"
  BY DEF Init
<1> QED
  BY <1>1, <1>8, <1>9, <1>10 DEF SenderTyped, Choosing, Phases

\* An image of the current window, or none.
LEMMA ShowsWindow ==
  ASSUME Cut, Still, NEW items, items \subseteq VisibleOf(count), screen' = Image(items)
  PROVE  OnScreen'
<1>1. length - base \in Nat /\ count \in Nat /\ count <= length - base
  BY DEF Cut
<1>2. items \subseteq VisibleOf(length - base)
  BY <1>1, Wider DEF VisibleOf
<1>3. screen' = [window |-> window, base |-> base, items |-> items]
  BY DEF Image
<1> QED
  BY <1>2, <1>3 DEF OnScreen, Cut, Still

LEMMA StaysOnScreen ==
  ASSUME Cut, OnScreen, UNCHANGED <<screen, length>>, window' \in {window, window + 1}
  PROVE  OnScreen'
BY DEF OnScreen, Cut

LEMMA BeginsPass ==
  ASSUME NEW images \in Seq(ImagesOf(count')), pass' = images, shown' = 0
  PROVE  Passing'
BY DEF Passing

LEMMA ParsedRanges ==
  ASSUME NEW n \in Nat, NEW ranges, \A r \in ranges : r \in Int \X Int
  PROVE  ParseRanges(ranges, n) \subseteq 0..(n - 1)
<1>1. ASSUME NEW r \in ranges
      PROVE  (IF r[1] < 1 THEN 0 ELSE r[1] - 1)..(Smaller(r[2], n) - 1) \subseteq 0..(n - 1)
  BY DEF Smaller
<1> QED
  BY <1>1 DEF ParseRanges

\* Steps that begin no pass, or go on with one.
LEMMA SamePass ==
  ASSUME Passing, UNCHANGED <<count, pass>>, shown' = shown \/ shown' \in 0..Len(pass)
  PROVE  Passing'
BY DEF Passing

LEMMA SameChoice ==
  ASSUME Choosing, UNCHANGED <<cfg, count, selected, selecting>>
  PROVE  Choosing'
BY DEF Choosing

LEMMA StartTypes == ASSUME SenderTyped, Start PROVE SenderTyped'
<1>1. Still /\ phase = "first" /\ phase' = "stream"
      /\ UNCHANGED <<screen, selected, selecting>>
      /\ pass' = Transmit(cfg, FirstData, count) /\ shown' = 0
  BY DEF Start, Begin, Still, Geometry, Position, Selection
<1>2. Cut'
  BY <1>1, StillCut DEF SenderTyped
<1>3. ValidConfig(cfg) /\ count \in Nat /\ FirstData \in Nat
  BY Configured DEF SenderTyped, Cut, FirstData
<1>4. pass' \in Seq(ImagesOf(count'))
  BY <1>1, <1>3, TransmitType DEF Still
<1>5. Passing'
  BY <1>1, <1>4, BeginsPass
<1>6. Choosing' /\ OnScreen'
  BY <1>1, SameChoice, StaysOnScreen DEF SenderTyped, Still
<1> QED
  BY <1>1, <1>2, <1>5, <1>6 DEF SenderTyped, Phases

LEMMA ShowTypes == ASSUME SenderTyped, Show PROVE SenderTyped'
<1>1. Still /\ UNCHANGED <<phase, pass, selected, selecting>> /\ shown < Len(pass)
      /\ screen' = Image(pass[shown + 1]) /\ shown' = shown + 1
  BY DEF Show, Still, Geometry, Position, Selection
<1>2. Cut'
  BY <1>1, StillCut DEF SenderTyped
<1>3. shown + 1 \in 1..Len(pass) /\ pass \in Seq(ImagesOf(count))
  BY <1>1 DEF SenderTyped, Passing
<1>4. pass[shown + 1] \subseteq VisibleOf(count)
  <2>1. pass[shown + 1] \in ImagesOf(count)
    BY <1>3
  <2> QED
    BY <2>1 DEF ImagesOf, VisibleOf
<1>5. OnScreen'
  BY <1>1, <1>4, ShowsWindow DEF SenderTyped
<1>6. Passing'
  BY <1>1, <1>3, SamePass DEF SenderTyped, Still
<1>7. Choosing'
  BY <1>1, SameChoice DEF SenderTyped, Still
<1> QED
  BY <1>1, <1>2, <1>5, <1>6, <1>7 DEF SenderTyped

LEMMA ShowEowTypes == ASSUME SenderTyped, ShowEow PROVE SenderTyped'
<1>1. Still /\ UNCHANGED <<pass, shown, selected, selecting>> /\ phase' = "prompt"
      /\ screen' = Image({EndWindow}) /\ phase = "stream"
  BY DEF ShowEow, Still, Geometry, Position, Selection
<1>2. Cut'
  BY <1>1, StillCut DEF SenderTyped
<1>3. {EndWindow} \subseteq VisibleOf(count)
  BY DEF VisibleOf
<1>4. OnScreen'
  BY <1>1, <1>3, ShowsWindow DEF SenderTyped
<1>5. Passing' /\ Choosing'
  BY <1>1, SamePass, SameChoice DEF SenderTyped, Still
<1> QED
  BY <1>1, <1>2, <1>4, <1>5 DEF SenderTyped, Phases

LEMMA ReplayTypes == ASSUME SenderTyped, Replay PROVE SenderTyped'
<1>1. Still /\ phase' = "stream" /\ UNCHANGED <<screen, selected, selecting>>
      /\ pass' = Replayed /\ shown' = 0 /\ phase = "prompt"
  BY DEF Replay, Begin, Still, Geometry, Position, Selection
<1>2. Cut'
  BY <1>1, StillCut DEF SenderTyped
<1>3. ValidConfig(cfg) /\ count \in Nat
  BY Configured DEF SenderTyped, Cut
<1>4. Replayed \in Seq(ImagesOf(count))
  <2>1. CASE selecting
    BY <1>3, <2>1, SelectedType DEF SenderTyped, Choosing, Replayed
  <2>2. CASE ~selecting
    BY <1>3, <2>2, TransmitType DEF Replayed
  <2> QED
    BY <2>1, <2>2
<1>5. Passing'
  BY <1>1, <1>4, BeginsPass DEF Still
<1>6. Choosing' /\ OnScreen'
  BY <1>1, SameChoice, StaysOnScreen DEF SenderTyped, Still
<1> QED
  BY <1>1, <1>2, <1>5, <1>6 DEF SenderTyped, Phases

LEMMA MissingRangesTypes ==
  ASSUME SenderTyped, NEW ranges, \A r \in ranges : r \in Int \X Int, MissingRanges(ranges)
  PROVE  SenderTyped'
<1>1. Still /\ phase = "prompt" /\ screen' = Image({})
      /\ selected' = ParseRanges(ranges, count)
  BY DEF MissingRanges, Still, Geometry, Position
<1>2. Cut'
  BY <1>1, StillCut DEF SenderTyped
<1>3. ValidConfig(cfg) /\ cfg.size \in Nat /\ count \in Nat /\ count <= cfg.size
  BY Configured DEF SenderTyped, Cut
<1>4. selected' \subseteq 0..(count - 1)
  BY <1>1, <1>3, ParsedRanges
<1>5. OnScreen'
  <2>1. {} \subseteq VisibleOf(count)
    OBVIOUS
  <2> QED
    BY <1>1, <2>1, ShowsWindow DEF SenderTyped
<1>6. 0..(count - 1) \subseteq 0..(cfg.size - 1)
  BY <1>3
<1>7. CASE selected' = {}
  <2>1. phase' = "stream" /\ UNCHANGED <<pass, shown, selecting>>
    BY <1>7 DEF MissingRanges
  <2>2. Passing'
    BY <1>1, <2>1, SamePass DEF SenderTyped, Still
  <2>3. Choosing'
    BY <1>7, <2>1 DEF SenderTyped, Choosing
  <2> QED
    BY <1>2, <1>5, <2>1, <2>2, <2>3 DEF SenderTyped, Phases
<1>8. CASE selected' # {}
  <2>1. phase' = "stream" /\ selecting' = TRUE /\ shown' = 0
        /\ pass' = TransmitSelected(cfg, selected')
    BY <1>8 DEF MissingRanges, Begin
  <2>2. pass' \in Seq(ImagesOf(count'))
    BY <1>1, <1>3, <1>4, <2>1, SelectedType DEF Still
  <2>3. Passing'
    BY <2>1, <2>2, BeginsPass
  <2>4. Choosing'
    BY <1>1, <1>4, <1>6, <2>1 DEF Choosing, Still
  <2> QED
    BY <1>2, <1>5, <2>1, <2>3, <2>4 DEF SenderTyped, Phases
<1> QED
  BY <1>7, <1>8

LEMMA MissingAllTypes == ASSUME SenderTyped, MissingAll PROVE SenderTyped'
<1>1. Still /\ phase = "prompt" /\ phase' = "stream" /\ screen' = Image({})
      /\ selected' = {} /\ selecting' = FALSE
      /\ pass' = Transmit(cfg, 0, count) /\ shown' = 0
  BY DEF MissingAll, Begin, Still, Geometry, Position
<1>2. Cut'
  BY <1>1, StillCut DEF SenderTyped
<1>3. ValidConfig(cfg) /\ count \in Nat
  BY Configured DEF SenderTyped, Cut
<1>4. pass' \in Seq(ImagesOf(count'))
  BY <1>1, <1>3, TransmitType DEF Still
<1>5. Passing'
  BY <1>1, <1>4, BeginsPass
<1>6. OnScreen'
  <2>1. {} \subseteq VisibleOf(count)
    OBVIOUS
  <2> QED
    BY <1>1, <2>1, ShowsWindow DEF SenderTyped
<1>7. Choosing'
  BY <1>1 DEF Choosing
<1> QED
  BY <1>1, <1>2, <1>5, <1>6, <1>7 DEF SenderTyped, Phases

LEMMA EnterTypes == ASSUME SenderTyped, Enter PROVE SenderTyped'
<1>1. phase = "prompt" /\ cfg' = cfg /\ length' = length /\ window' = window + 1
      /\ selecting' = FALSE /\ selected' = selected
  BY DEF Enter, Geometry
<1>2. Cut'
  BY EnterCut DEF SenderTyped
<1>3. Choosing'
  BY <1>1 DEF SenderTyped, Choosing
<1>4. ValidConfig(cfg) /\ count' \in Nat
  BY <1>2, Configured DEF SenderTyped, Cut
<1>5. CASE Fill(base + count) = 0
  <2>1. phase' = "done" /\ screen' = Image({}) /\ UNCHANGED <<base, count, pass, shown>>
    BY <1>5 DEF Enter
  <2>2. Passing'
    BY <2>1, SamePass DEF SenderTyped
  <2>3. OnScreen'
    <3>1. screen' = [window |-> window, base |-> base, items |-> {}]
      BY <2>1 DEF Image
    <3>2. window \in Nat /\ base \in Nat /\ base <= length
      BY DEF SenderTyped, Cut
    <3> QED
      BY <1>1, <3>1, <3>2 DEF OnScreen
  <2> QED
    BY <1>2, <1>3, <2>1, <2>2, <2>3 DEF SenderTyped, Phases
<1>6. CASE Fill(base + count) # 0
  <2>1. phase' = "stream" /\ screen' = screen /\ shown' = 0
        /\ pass' = Transmit(cfg, 0, count')
    BY <1>6 DEF Enter, Begin
  <2>2. pass' \in Seq(ImagesOf(count'))
    BY <1>4, <2>1, TransmitType
  <2>3. Passing'
    BY <2>1, <2>2, BeginsPass
  <2>4. OnScreen'
    BY <1>1, <2>1, StaysOnScreen DEF SenderTyped
  <2> QED
    BY <1>2, <1>3, <2>1, <2>3, <2>4 DEF SenderTyped, Phases
<1> QED
  BY <1>5, <1>6

\* Esc, and what follows it.
LEMMA EscTypes == ASSUME SenderTyped, Pause \/ Resume \/ Cancel PROVE SenderTyped'
<1>1. Still /\ UNCHANGED <<pass, shown, selected, selecting>> /\ phase # "done"
      /\ phase' \in {"paused", "stream", "cancelled"}
      /\ (screen' = Image({}) \/ screen' = screen)
  BY DEF Pause, Resume, Cancel, Still, Geometry, Position, Selection
<1>2. Cut'
  BY <1>1, StillCut DEF SenderTyped
<1>3. Passing' /\ Choosing'
  BY <1>1, SamePass, SameChoice DEF SenderTyped, Still
<1>4. OnScreen'
  <2>1. CASE screen' = Image({})
    <3>1. {} \subseteq VisibleOf(count)
      OBVIOUS
    <3> QED
      BY <1>1, <2>1, <3>1, ShowsWindow DEF SenderTyped
  <2>2. CASE screen' = screen
    BY <1>1, <2>2, StaysOnScreen DEF SenderTyped, Still
  <2> QED
    BY <1>1, <2>1, <2>2
<1> QED
  BY <1>1, <1>2, <1>3, <1>4 DEF SenderTyped, Phases

LEMMA IdleTypes == ASSUME SenderTyped, UNCHANGED sender PROVE SenderTyped'
BY DEF SenderTyped, sender, Cut, Passing, Choosing, OnScreen

\* Every step of the sender, with any ranges typed at the M prompt.
LEMMA StepTypes ==
  ASSUME SenderTyped,
         \/ Start \/ Show \/ ShowEow \/ Replay \/ MissingAll \/ Enter
         \/ \E ranges : (\A r \in ranges : r \in Int \X Int) /\ MissingRanges(ranges)
         \/ Pause \/ Resume \/ Cancel
         \/ UNCHANGED sender
  PROVE  SenderTyped'
BY StartTypes, ShowTypes, ShowEowTypes, ReplayTypes, MissingAllTypes, EnterTypes,
   MissingRangesTypes, EscTypes, IdleTypes

\* Whatever the command line and the keys, what the sender shows is made of
\* frames of its window: no equation reaches over the end of a short window,
\* no range typed at the prompt reaches out of it, and the screen never names
\* a frame the transfer does not have.
THEOREM SenderTypes == Spec => []TypeOK
<1>1. Init => SenderTyped
  BY InitSender
<1>2. SenderTyped /\ [Next]_sender => SenderTyped'
  BY StepTypes, EntryAssumption DEF Next
<1>3. SenderTyped => TypeOK
  BY TypedSender
<1> QED
  BY <1>1, <1>2, <1>3, PTL DEF Spec

-----------------------------------------------------------------------------
(* The loss of one image.                                                  *)

\* Every frame is in some image as DATA shown for the first time.
Covers(images, n) == \A i \in 0..(n - 1) : \E image \in images : Data(i, FALSE) \in image

\* Every frame of an image of DATA is in an equation, of an image without
\* DATA, that has no other frame of it.
Guards(images) ==
  \A image \in images : \A i \in DataOf(image) :
    \E parity \in images :
      /\ DataOf(parity) = {}
      /\ \E e \in Equations(parity) : e \cap DataOf(image) = {i}

LEMMA DataMembers ==
  ASSUME NEW n \in Nat, NEW s \in SymbolsOf(n), s.kind = "DATA"
  PROVE  s.first \in 0..(n - 1)
<1>1. s.count = 1 /\ s.first \in Nat /\ s.stride \in Nat /\ Members(s) \subseteq 0..(n - 1)
  BY DEF SymbolsOf, Data, Item
<1>2. 0 \in 0..(s.count - 1) /\ s.first + 0 * s.stride = s.first
  BY <1>1
<1>3. s.first \in Members(s)
  BY <1>2 DEF Members
<1> QED
  BY <1>1, <1>3

LEMMA DataFrames ==
  ASSUME NEW n \in Nat, NEW items \in SUBSET SymbolsOf(n)
  PROVE  DataOf(items) \subseteq 0..(n - 1)
BY DataMembers DEF DataOf

\* Whatever image of such a pass is lost, the rest gives every frame.
LEMMA LossMadeUp ==
  ASSUME NEW n \in Nat \ {0}, NEW images \in Seq(ImagesOf(n)),
         Covers(ToSet(images), n), Guards(ToSet(images)),
         NEW lost \in 1..Len(images),
         NEW rest, rest = UNION {images[k] : k \in (1..Len(images)) \ {lost}}
  PROVE  Peeled(DataOf(rest), Equations(rest), n) = 0..(n - 1)
<1> DEFINE all == 0..(n - 1)
           gone == DataOf(images[lost])
           known == DataOf(rest)
<1>1. /\ \A k \in 1..Len(images) : images[k] \in SUBSET SymbolsOf(n)
      /\ ToSet(images) = {images[k] : k \in 1..Len(images)}
      /\ n \in Nat
  BY DEF ImagesOf, ToSet
<1>2. known \subseteq all
  <2>1. rest \subseteq SymbolsOf(n)
    BY <1>1
  <2> QED
    BY <1>1, <2>1, DataFrames
<1>3. \A k \in 1..Len(images) : k # lost => images[k] \subseteq rest
  OBVIOUS
<1>4. ASSUME NEW i \in all, i \notin gone PROVE i \in known
  <2>1. PICK k \in 1..Len(images) : Data(i, FALSE) \in images[k]
    BY <1>1 DEF Covers
  <2>2. Data(i, FALSE).kind = "DATA" /\ Data(i, FALSE).first = i
    BY DEF Data, Item
  <2>3. k # lost
    BY <1>4, <2>1, <2>2 DEF DataOf
  <2>4. Data(i, FALSE) \in rest
    BY <1>3, <2>1, <2>3
  <2> QED
    BY <2>2, <2>4 DEF DataOf
<1>5. ASSUME NEW i \in all \ known
      PROVE  \E e \in Equations(rest) : e \ known = {i}
  <2>1. i \in gone
    BY <1>4, <1>5
  <2>2. PICK k \in 1..Len(images) :
          /\ DataOf(images[k]) = {}
          /\ \E e \in Equations(images[k]) : e \cap gone = {i}
    <3>1. images[lost] \in ToSet(images)
      BY <1>1
    <3>2. PICK parity \in ToSet(images) :
            DataOf(parity) = {} /\ \E e \in Equations(parity) : e \cap gone = {i}
      BY <2>1, <3>1 DEF Guards
    <3>3. \E k \in 1..Len(images) : parity = images[k]
      BY <1>1, <3>2
    <3> QED
      BY <3>2, <3>3
  <2>3. PICK e \in Equations(images[k]) : e \cap gone = {i}
    BY <2>2
  <2>4. images[k] \subseteq rest /\ images[k] \subseteq SymbolsOf(n)
    BY <1>1, <1>3, <2>1, <2>2
  <2>5. e \in Equations(rest)
    BY <2>4 DEF Equations
  <2>6. e \subseteq all
    BY <1>1, <2>4, SymbolsBefore DEF Equations, VisibleOf
  <2>7. e \ known = {i}
    <3> HIDE DEF all, gone, known
    <3> QED
      BY <1>4, <1>5, <2>3, <2>6
  <2> QED
    BY <2>5, <2>7
<1> HIDE DEF known
<1>6. \A i \in (0..(n - 1)) \ known : \E e \in Equations(rest) : e \ known = {i}
  BY <1>5
<1>7. known \in SUBSET (0..(n - 1))
  BY <1>2
<1>8. Peeled(known, Equations(rest), n) = 0..(n - 1)
  BY <1>6, <1>7, PeeledAll
<1> QED
  BY <1>8 DEF known

\* Guarded passes make a guarded pass.
LEMMA GuardsUnion ==
  ASSUME NEW S, \A s \in S : Guards(s)
  PROVE  Guards(UNION S)
BY DEF Guards

-----------------------------------------------------------------------------
(* The images of transmit().                                               *)

LEMMA OneElement == \A x : ToSet(<<x>>) = {x}
<1> SUFFICES ASSUME NEW x PROVE ToSet(<<x>>) = {x}
  OBVIOUS
<1>1. DOMAIN <<x>> = {1} /\ <<x>>[1] = x
  OBVIOUS
<1> QED
  BY <1>1 DEF ToSet

LEMMA NoElement == ToSet(<<>>) = {}
BY DEF ToSet

\* What transmit() shows at frame i.
ImagesAt(c, n, i, again) ==
  {{Data(i, again)}}
  \cup (IF Chained(c, n, i) THEN {{Chain(c, n, i)}} ELSE {})
  \cup (IF Chained(c, n, i) /\ Anchored(c, i) THEN {{Data(i, FALSE)}} ELSE {})
  \cup (IF Grouped(c, n, i) THEN {{Group(c, i)}} ELSE {})

LEMMA MonoImages ==
  ASSUME NEW c, ValidConfig(c), NEW n \in Nat, NEW again \in BOOLEAN
  PROVE  /\ MonoPass(c, n, again) \in Seq(ImagesOf(n))
         /\ ToSet(MonoPass(c, n, again)) = UNION {ImagesAt(c, n, i, again) : i \in 0..(n - 1)}
<1> DEFINE images(i) ==
             <<{Data(i, again)}>>
             \o (IF Chained(c, n, i)
                 THEN <<{Chain(c, n, i)}>>
                        \o (IF Anchored(c, i) THEN <<{Data(i, FALSE)}>> ELSE <<>>)
                 ELSE <<>>)
             \o (IF Grouped(c, n, i) THEN <<{Group(c, i)}>> ELSE <<>>)
           seqs == [k \in 1..n |-> images(k - 1)]
           I == Seq(ImagesOf(n))
<1>1. \A s, t \in I : s \o t \in I
  BY ConcatProperties
<1>2. \A s, t \in I : ToSet(s \o t) = ToSet(s) \cup ToSet(t)
  BY ConcatElements
<1>3. <<>> \in I /\ \A x \in SymbolsOf(n) : <<{x}>> \in I
  BY DEF ImagesOf
<1>4. ASSUME NEW i \in 0..(n - 1)
      PROVE  images(i) \in I /\ ToSet(images(i)) = ImagesAt(c, n, i, again)
  <2>1. Data(i, again) \in SymbolsOf(n) /\ Data(i, FALSE) \in SymbolsOf(n)
    BY DataSymbol
  <2>2. Chained(c, n, i) => Chain(c, n, i) \in SymbolsOf(n)
    BY ChainSymbol
  <2>3. Grouped(c, n, i) => Group(c, i) \in SymbolsOf(n)
    BY GroupSymbol
  <2> DEFINE first == <<{Data(i, again)}>>
             parity == <<{Chain(c, n, i)}>>
             anchor == IF Anchored(c, i) THEN <<{Data(i, FALSE)}>> ELSE <<>>
             chain == IF Chained(c, n, i) THEN parity \o anchor ELSE <<>>
             group == IF Grouped(c, n, i) THEN <<{Group(c, i)}>> ELSE <<>>
  <2> HIDE DEF I
  <2>4. /\ anchor \in I /\ group \in I /\ first \in I
        /\ Chained(c, n, i) => parity \in I
    BY <1>3, <2>1, <2>2, <2>3
  <2>5. /\ ToSet(first) = {{Data(i, again)}}
        /\ ToSet(parity) = {{Chain(c, n, i)}}
        /\ ToSet(anchor) = IF Anchored(c, i) THEN {{Data(i, FALSE)}} ELSE {}
        /\ ToSet(group) = IF Grouped(c, n, i) THEN {{Group(c, i)}} ELSE {}
    BY OneElement, NoElement
  <2> HIDE DEF first, parity, anchor, group
  <2>6. chain \in I
    BY <1>1, <1>3, <2>4
  <2>7. ToSet(chain) = IF Chained(c, n, i) THEN ToSet(parity) \cup ToSet(anchor) ELSE {}
    BY <1>2, <2>4, NoElement
  <2> HIDE DEF chain
  <2>8. first \o chain \in I /\ (first \o chain) \o group \in I
    BY <1>1, <2>4, <2>6
  <2>9. ToSet((first \o chain) \o group) = (ToSet(first) \cup ToSet(chain)) \cup ToSet(group)
    <3>1. ToSet(first \o chain) = ToSet(first) \cup ToSet(chain)
      BY <1>2, <2>4, <2>6
    <3>2. ToSet((first \o chain) \o group) = ToSet(first \o chain) \cup ToSet(group)
      BY <1>2, <2>4, <2>8
    <3> QED
      BY <3>1, <3>2
  <2>10. images(i) = (first \o chain) \o group
    BY DEF first, chain, group, parity, anchor
  <2> HIDE DEF images
  <2>11. (ToSet(first) \cup ToSet(chain)) \cup ToSet(group) = ImagesAt(c, n, i, again)
    BY <2>5, <2>7 DEF ImagesAt
  <2> QED
    BY <2>8, <2>9, <2>10, <2>11
<1> HIDE DEF images
<1>5. \A k \in 1..n : images(k - 1) \in I
  BY <1>4
<1>6. seqs \in [1..n -> I]
  BY <1>5
<1>7. seqs \in Seq(I) /\ Len(seqs) = n /\ \A k \in 1..n : seqs[k] = images(k - 1)
  BY <1>6
<1> HIDE DEF seqs
<1>8. /\ FlattenSeq(seqs) \in Seq(ImagesOf(n))
      /\ ToSet(FlattenSeq(seqs)) = UNION {ToSet(seqs[k]) : k \in 1..Len(seqs)}
  BY <1>7, FlattenType, FlattenElements
<1>9. {ToSet(seqs[k]) : k \in 1..Len(seqs)} = {ImagesAt(c, n, i, again) : i \in 0..(n - 1)}
  <2>1. \A k \in 1..n : k - 1 \in 0..(n - 1) /\ ToSet(seqs[k]) = ImagesAt(c, n, k - 1, again)
    BY <1>4, <1>7
  <2>2. \A i \in 0..(n - 1) : i + 1 \in 1..n /\ (i + 1) - 1 = i
    OBVIOUS
  <2>3. \A i \in 0..(n - 1) : ToSet(seqs[i + 1]) = ImagesAt(c, n, i, again)
    BY <2>1, <2>2
  <2> QED
    BY <1>7, <2>1, <2>2, <2>3
<1>10. MonoPass(c, n, again) = FlattenSeq(seqs)
  BY DEF MonoPass, seqs, images
<1> QED
  BY <1>8, <1>9, <1>10

LEMMA MonoCovers ==
  ASSUME NEW c, ValidConfig(c), NEW n \in Nat
  PROVE  Covers(ToSet(MonoPass(c, n, FALSE)), n)
<1> SUFFICES ASSUME NEW i \in 0..(n - 1)
             PROVE  {Data(i, FALSE)} \in ToSet(MonoPass(c, n, FALSE))
  BY DEF Covers
<1>1. {Data(i, FALSE)} \in ImagesAt(c, n, i, FALSE)
  BY DEF ImagesAt
<1>2. FALSE \in BOOLEAN
  OBVIOUS
<1>3. ToSet(MonoPass(c, n, FALSE)) = UNION {ImagesAt(c, n, j, FALSE) : j \in 0..(n - 1)}
  BY <1>2, MonoImages
<1> QED
  BY <1>1, <1>3

\* The group frame i is in is closed, by its last frame or that of the window.
LEMMA GroupGuards ==
  ASSUME NEW c, ValidConfig(c), NEW n \in Nat, c.group > 0, NEW i \in 0..(n - 1)
  PROVE  \E j \in 0..(n - 1) : Grouped(c, n, j) /\ i \in Members(Group(c, j))
<1> DEFINE g == c.group
           q == i \div g
           r == i % g
           P == q * g
           j == Smaller(P + g - 1, n - 1)
<1>1. g \in Nat /\ g > 0 /\ i \in Nat
  BY DEF ValidConfig
<1> HIDE DEF g
<1>2. q \in Nat /\ r \in 0..(g - 1) /\ i = P + r /\ P \in Nat
  <2>1. q \in Nat /\ r \in 0..(g - 1) /\ i = q * g + r
    BY <1>1, Division
  <2> HIDE DEF q, r
  <2> QED
    BY <1>1, <2>1
<1>3. (q + 1) * g = P + g
  <2> HIDE DEF q
  <2> QED
    BY <1>1, <1>2
<1>4. (P + g) % g = 0
  <2> HIDE DEF q, P
  <2>1. P + g = (q + 1) * g + 0 /\ q + 1 \in Nat /\ P + g \in Nat /\ 0 \in 0..(g - 1)
    BY <1>1, <1>2, <1>3
  <2> QED
    BY <1>1, <2>1, Quotient
<1> HIDE DEF r
<1>5. j \in 0..(n - 1) /\ j - P \in 0..(g - 1) /\ i <= j /\ P <= i /\ j \in Nat
  <2> HIDE DEF P
  <2> QED
    BY <1>1, <1>2 DEF Smaller
<1>6. j % g = j - P
  <2> DEFINE d == j - P
  <2>1. d \in 0..(g - 1) /\ j = q * g + d
    <3> HIDE DEF j, q
    <3> QED
      BY <1>2, <1>5
  <2> HIDE DEF d, q, j, P
  <2>2. j % g = d
    BY <1>1, <1>2, <1>5, <2>1, Quotient
  <2> QED
    BY <2>2 DEF d
<1>7. Grouped(c, n, j)
  <2>1. CASE P + g - 1 <= n - 1
    <3> HIDE DEF P
    <3>1. j + 1 = P + g
      BY <1>1, <1>2, <2>1 DEF Smaller
    <3> QED
      BY <1>1, <1>4, <3>1 DEF Grouped, g
  <2>2. CASE ~(P + g - 1 <= n - 1)
    <3> HIDE DEF P
    <3>1. j + 1 = n
      BY <1>1, <1>2, <2>2 DEF Smaller
    <3> QED
      BY <1>1, <3>1 DEF Grouped, g
  <2> QED
    BY <2>1, <2>2
<1> HIDE DEF j, P
<1>8. Group(c, j) = [kind |-> "BLOCK_XOR", first |-> j - (j - P), count |-> (j - P) + 1,
                     stride |-> 1, repeated |-> FALSE]
  BY <1>6 DEF Group, Item, g
<1>9. /\ i - P \in 0..((j - P) + 1 - 1)
      /\ i = (j - (j - P)) + (i - P) * 1
  BY <1>2, <1>5
<1>10. i \in Members(Group(c, j))
  <2> DEFINE k == i - P
             a == j - (j - P)
             m == (j - P) + 1
  <2>1. k \in 0..(m - 1) /\ i = a + k * 1
    BY <1>2, <1>5, <1>9
  <2> HIDE DEF k, a, m
  <2>2. Group(c, j) = [kind |-> "BLOCK_XOR", first |-> a, count |-> m,
                       stride |-> 1, repeated |-> FALSE]
    BY <1>8 DEF a, m
  <2> QED
    BY <2>1, <2>2 DEF Members
<1> QED
  BY <1>5, <1>7, <1>10

\* The equations of a chain overlap by half, and the last half frame of the
\* window is in the one before it.
LEMMA ChainGuards ==
  ASSUME NEW c, ValidConfig(c), NEW n \in Nat, c.chain > 0, n > Half(c), NEW i \in 0..(n - 1)
  PROVE  \E j \in 0..(n - 1) : Chained(c, n, j) /\ i \in Members(Chain(c, n, j))
<1> DEFINE h == Half(c)
           q == i \div h
           r == i % h
           P == q * h
           j == IF P + h < n THEN P + h - 1 ELSE P - 1
           a == j + 1 - h
           m == Smaller(n - a, c.chain)
           k == i - a
<1>1. h \in Nat /\ h > 0 /\ i \in Nat /\ c.chain = 2 * h
  BY DEF ValidConfig, Half
<1>2. n > h
  OBVIOUS
<1> HIDE DEF h
<1>3. q \in Nat /\ r \in 0..(h - 1) /\ i = P + r /\ P \in Nat
  <2>1. q \in Nat /\ r \in 0..(h - 1) /\ i = q * h + r
    BY <1>1, Division
  <2> HIDE DEF q, r
  <2> QED
    BY <1>1, <2>1
<1>4. (q + 1) * h = P + h
  <2> HIDE DEF q
  <2> QED
    BY <1>1, <1>3
<1>5. (P + h) % h = 0 /\ P % h = 0
  <2> HIDE DEF q, P
  <2>1. P + h = (q + 1) * h + 0 /\ q + 1 \in Nat /\ P + h \in Nat /\ 0 \in 0..(h - 1)
    BY <1>1, <1>3, <1>4
  <2>2. P = q * h + 0
    BY <1>3 DEF P
  <2> QED
    BY <1>1, <1>3, <2>1, <2>2, Quotient
<1>6. P + h >= n => P >= 1
  BY <1>1, <1>2, <1>3
<1> HIDE DEF r, P
<1>7. j \in 0..(n - 1) /\ j \in Nat /\ j + 1 < n /\ (j + 1 = P + h \/ j + 1 = P)
  BY <1>1, <1>3, <1>6
<1>8. k \in 0..(m - 1) /\ i = a + k * 1 /\ a \in Int /\ m \in Int
  <2>1. CASE P + h < n
    <3>1. j = P + h - 1 /\ a = P
      BY <1>1, <1>3, <2>1
    <3>2. k = r /\ k \in 0..(h - 1) /\ k < n - a
      BY <1>1, <1>3, <3>1
    <3> HIDE DEF j, a, k
    <3> QED
      BY <1>1, <1>3, <3>1, <3>2 DEF Smaller, k
  <2>2. CASE ~(P + h < n)
    <3>1. j = P - 1 /\ a = P - h
      BY <1>1, <1>3, <2>2
    <3>2. k = r + h /\ k \in 0..(2 * h - 1) /\ k < n - a
      BY <1>1, <1>3, <3>1
    <3> HIDE DEF j, a, k
    <3> QED
      BY <1>1, <1>3, <3>1, <3>2 DEF Smaller, k
  <2> QED
    BY <2>1, <2>2
<1> HIDE DEF j
<1>9. Chained(c, n, j)
  BY <1>1, <1>5, <1>7 DEF Chained, h
<1>10. Chain(c, n, j) = [kind |-> IF c.chain = 2 THEN "CHAIN_XOR" ELSE "BLOCK_XOR",
                         first |-> a, count |-> m, stride |-> 1, repeated |-> FALSE]
  BY DEF Chain, Item, a, m, h
<1> HIDE DEF a, m, k
<1>11. i \in Members(Chain(c, n, j))
  BY <1>8, <1>10 DEF Members
<1> QED
  BY <1>7, <1>9, <1>11

\* An image of one equation.
LEMMA OneEquation ==
  ASSUME NEW item, item.kind \in {"BLOCK_XOR", "CHAIN_XOR"}
  PROVE  DataOf({item}) = {} /\ Equations({item}) = {Members(item)}
BY DEF DataOf, Equations

LEMMA MonoGuards ==
  ASSUME NEW c, ValidConfig(c), NEW n \in Nat, NEW again \in BOOLEAN, ~c.rgb3, Protects(c, n)
  PROVE  Guards(ToSet(MonoPass(c, n, again)))
<1> DEFINE images == ToSet(MonoPass(c, n, again))
<1>1. images = UNION {ImagesAt(c, n, i, again) : i \in 0..(n - 1)}
  BY MonoImages
<1>2. ASSUME NEW j \in 0..(n - 1), Chained(c, n, j)
      PROVE  /\ {Chain(c, n, j)} \in images
             /\ DataOf({Chain(c, n, j)}) = {}
             /\ Equations({Chain(c, n, j)}) = {Members(Chain(c, n, j))}
  <2>1. {Chain(c, n, j)} \in ImagesAt(c, n, j, again)
    BY <1>2 DEF ImagesAt
  <2>2. /\ DataOf({Chain(c, n, j)}) = {}
        /\ Equations({Chain(c, n, j)}) = {Members(Chain(c, n, j))}
    <3> DEFINE item == Chain(c, n, j)
    <3>1. item.kind \in {"BLOCK_XOR", "CHAIN_XOR"}
      BY DEF Chain, Item
    <3> HIDE DEF item
    <3>2. DataOf({item}) = {} /\ Equations({item}) = {Members(item)}
      BY <3>1, OneEquation
    <3> QED
      BY <3>2 DEF item
  <2> HIDE DEF images
  <2> QED
    BY <1>1, <2>1, <2>2
<1>3. ASSUME NEW j \in 0..(n - 1), Grouped(c, n, j)
      PROVE  /\ {Group(c, j)} \in images
             /\ DataOf({Group(c, j)}) = {}
             /\ Equations({Group(c, j)}) = {Members(Group(c, j))}
  <2>1. {Group(c, j)} \in ImagesAt(c, n, j, again)
    BY <1>3 DEF ImagesAt
  <2>2. /\ DataOf({Group(c, j)}) = {}
        /\ Equations({Group(c, j)}) = {Members(Group(c, j))}
    <3>1. Group(c, j).kind \in {"BLOCK_XOR", "CHAIN_XOR"}
      BY DEF Group, Item
    <3> QED
      BY <3>1, OneEquation
  <2> HIDE DEF images
  <2> QED
    BY <1>1, <2>1, <2>2
<1>4. ASSUME NEW image \in images, NEW i \in DataOf(image)
      PROVE  i \in 0..(n - 1) /\ DataOf(image) = {i}
  <2>1. PICK j \in 0..(n - 1) : image \in ImagesAt(c, n, j, again)
    BY <1>1
  <2>2. \/ image \in {{Data(j, again)}, {Data(j, FALSE)}}
        \/ Chained(c, n, j) /\ image = {Chain(c, n, j)}
        \/ Grouped(c, n, j) /\ image = {Group(c, j)}
    BY <2>1 DEF ImagesAt
  <2>3. PICK x \in {again, FALSE} : image = {Data(j, x)}
    BY <1>2, <1>3, <1>4, <2>2
  <2>4. Data(j, x).kind = "DATA" /\ Data(j, x).first = j
    BY DEF Data, Item
  <2>5. DataOf(image) = {j}
    BY <2>3, <2>4 DEF DataOf
  <2> QED
    BY <1>4, <2>5
<1>5. ASSUME NEW i \in 0..(n - 1)
      PROVE  \E parity \in images :
               DataOf(parity) = {} /\ \E e \in Equations(parity) : i \in e
  <2>1. CASE c.group > 0
    <3>1. PICK j \in 0..(n - 1) : Grouped(c, n, j) /\ i \in Members(Group(c, j))
      BY <2>1, GroupGuards
    <3> HIDE DEF images
    <3> QED
      BY <1>3, <3>1
  <2>2. CASE c.chain > 0 /\ n > Half(c)
    <3>1. PICK j \in 0..(n - 1) : Chained(c, n, j) /\ i \in Members(Chain(c, n, j))
      BY <2>2, ChainGuards
    <3> HIDE DEF images
    <3> QED
      BY <1>2, <3>1
  <2> QED
    BY <2>1, <2>2 DEF Protects
<1> HIDE DEF images
<1>6. ASSUME NEW image \in images, NEW i \in DataOf(image)
      PROVE  \E parity \in images :
               DataOf(parity) = {} /\ \E e \in Equations(parity) : e \cap DataOf(image) = {i}
  <2>1. i \in 0..(n - 1) /\ DataOf(image) = {i}
    BY <1>4
  <2>2. PICK parity \in images : DataOf(parity) = {} /\ \E e \in Equations(parity) : i \in e
    BY <1>5, <2>1
  <2>3. PICK e \in Equations(parity) : i \in e
    BY <2>2
  <2>4. e \cap DataOf(image) = {i}
    BY <2>1, <2>3
  <2> QED
    BY <2>2, <2>4
<1>7. Guards(images)
  BY <1>6 DEF Guards
<1> QED
  BY <1>7 DEF images

\* Consecutive frames are in order.
LEMMA OrderInterval ==
  ASSUME NEW a \in Nat, NEW b \in Nat, a <= b
  PROVE  /\ Cardinality(a..(b - 1)) = b - a
         /\ \A k \in 1..(b - a) : Order(a..(b - 1))[k] = a + k - 1
<1> DEFINE S == a..(b - 1)
<1>1. Cardinality(S) = b - a
  <2>1. a \in Int /\ b - 1 \in Int
    OBVIOUS
  <2>2. Cardinality(S) = IF a > b - 1 THEN 0 ELSE (b - 1) - a + 1
    BY <2>1, FS_Interval
  <2> QED
    BY <2>2
<1>2. \A i \in S : Cardinality({j \in S : j < i}) = i - a
  <2> SUFFICES ASSUME NEW i \in S PROVE Cardinality({j \in S : j < i}) = i - a
    OBVIOUS
  <2>1. {j \in S : j < i} = a..(i - 1)
    OBVIOUS
  <2>2. a \in Int /\ i - 1 \in Int
    OBVIOUS
  <2>3. Cardinality(a..(i - 1)) = IF a > i - 1 THEN 0 ELSE (i - 1) - a + 1
    BY <2>2, FS_Interval
  <2>4. Cardinality(a..(i - 1)) = i - a
    BY <2>3
  <2> HIDE DEF S
  <2> QED
    BY <2>1, <2>4
<1>3. ASSUME NEW k \in 1..(b - a) PROVE Order(S)[k] = a + k - 1
  <2> DEFINE At(i) == i \in S /\ Cardinality({j \in S : j < i}) = k - 1
  <2>1. At(a + k - 1)
    <3>1. a + k - 1 \in S /\ (a + k - 1) - a = k - 1
      OBVIOUS
    <3> HIDE DEF S
    <3> QED
      BY <1>2, <3>1
  <2>2. \A i : At(i) => i = a + k - 1
    <3> SUFFICES ASSUME NEW i, At(i) PROVE i = a + k - 1
      OBVIOUS
    <3>1. i \in Int /\ i - a = k - 1
      BY <1>2
    <3> QED
      BY <3>1
  <2>3. Order(S)[k] = CHOOSE i \in S : Cardinality({j \in S : j < i}) = k - 1
    <3> HIDE DEF S
    <3> QED
      BY <1>1 DEF Order
  <2>4. \E i \in S : Cardinality({j \in S : j < i}) = k - 1
    <3> HIDE DEF S
    <3> QED
      BY <2>1
  <2>5. At(Order(S)[k])
    <3> HIDE DEF S
    <3> QED
      BY <2>3, <2>4
  <2> HIDE DEF At
  <2> QED
    BY <2>2, <2>5
<1> QED
  BY <1>1, <1>3

\* The DATA of consecutive frames, three to an image: those of the t-th.
Three(a, b, t) == (a + 3 * (t - 1))..(Smaller(a + 3 * t, b) - 1)

LEMMA IntervalImages ==
  ASSUME NEW a \in Nat, NEW b \in Nat, a <= b, NEW again \in BOOLEAN
  PROVE  DataBatches(a..(b - 1), again)
           = [t \in 1..((b - a + 2) \div 3) |-> {Data(i, again) : i \in Three(a, b, t)}]
<1> DEFINE S == a..(b - 1)
           items == [k \in 1..Cardinality(S) |-> Data(Order(S)[k], again)]
           len == b - a
           m == (len + 2) \div 3
           image(t) == {items[k] : k \in (3 * t - 2)..Smaller(3 * t, len)}
<1>1. len \in Nat /\ m \in Nat
  OBVIOUS
<1>2. Cardinality(S) = len /\ \A k \in 1..len : Order(S)[k] = a + k - 1
  BY OrderInterval
<1> HIDE DEF S
<1>3. Len(items) = len /\ \A k \in 1..len : items[k] = Data(a + k - 1, again)
  <2>1. items = [k \in 1..len |-> Data(Order(S)[k], again)]
    BY <1>2
  <2> HIDE DEF items, len
  <2>2. Len(items) = len
    BY <1>1, <2>1
  <2>3. \A k \in 1..len : items[k] = Data(a + k - 1, again)
    BY <1>2, <2>1
  <2> QED
    BY <2>2, <2>3
<1>4. Batches(items) = [t \in 1..m |-> image(t)]
  <2> HIDE DEF items
  <2> QED
    BY <1>3 DEF Batches
<1>5. ASSUME NEW t \in 1..m
      PROVE  image(t) = {Data(i, again) : i \in Three(a, b, t)}
  <2> HIDE DEF items
  <2>1. \A k \in (3 * t - 2)..Smaller(3 * t, len) :
          k \in 1..len /\ a + k - 1 \in Three(a, b, t)
    BY DEF Smaller, Three
  <2>2. \A i \in Three(a, b, t) :
          /\ i - a + 1 \in (3 * t - 2)..Smaller(3 * t, len)
          /\ a + (i - a + 1) - 1 = i
    BY DEF Smaller, Three
  <2> DEFINE K == (3 * t - 2)..Smaller(3 * t, len)
  <2> HIDE DEF len, m
  <2>3. \A k \in K : items[k] \in {Data(i, again) : i \in Three(a, b, t)}
    BY <1>3, <2>1
  <2>4. \A i \in Three(a, b, t) : Data(i, again) \in image(t)
    <3> SUFFICES ASSUME NEW i \in Three(a, b, t) PROVE Data(i, again) \in {items[k] : k \in K}
      OBVIOUS
    <3> DEFINE k == i - a + 1
    <3>1. k \in K /\ a + k - 1 = i
      BY <2>2
    <3> HIDE DEF K, k
    <3>2. k \in 1..len
      BY <2>1, <3>1 DEF K
    <3>3. items[k] = Data(i, again)
      BY <1>3, <3>1, <3>2
    <3> QED
      BY <3>1, <3>3
  <2> QED
    BY <2>3, <2>4
<1> HIDE DEF image
<1>6. DataBatches(S, again) = Batches(items)
  BY DEF DataBatches, items
<1>7. [t \in 1..m |-> image(t)] = [t \in 1..m |-> {Data(i, again) : i \in Three(a, b, t)}]
  BY <1>5
<1> QED
  BY <1>4, <1>6, <1>7 DEF S, m, len

LEMMA IntervalBatches ==
  ASSUME NEW a \in Nat, NEW b \in Nat, a <= b, NEW again \in BOOLEAN
  PROVE  /\ DataBatches(a..(b - 1), again) \in Seq(ImagesOf(b))
         /\ ToSet(DataBatches(a..(b - 1), again))
              = {{Data(i, again) : i \in Three(a, b, t)} : t \in 1..((b - a + 2) \div 3)}
<1> DEFINE m == (b - a + 2) \div 3
           image(t) == {Data(i, again) : i \in Three(a, b, t)}
<1>1. DataBatches(a..(b - 1), again) \in Seq(ImagesOf(b))
  <2>1. a..(b - 1) \in SUBSET (0..(b - 1))
    OBVIOUS
  <2> QED
    BY <2>1, DataBatchesType
<1>2. DataBatches(a..(b - 1), again) = [t \in 1..m |-> image(t)]
  BY IntervalImages
<1> m \in Nat
  OBVIOUS
<1> HIDE DEF m, image
<1>3. ToSet([t \in 1..m |-> image(t)]) = {image(t) : t \in 1..m}
  BY <1>2 DEF ToSet
<1> QED
  BY <1>1, <1>2, <1>3 DEF m, image

-----------------------------------------------------------------------------
(* Stripes of nine frames.                                                 *)

StripeEnd(s, n) == Smaller(s + 9, n)

\* The XOR of the frames of channel c of the stripe.
ChannelParity(s, n, c) == Item("BLOCK_XOR", s + c, (StripeEnd(s, n) - (s + c) + 2) \div 3, 3)

StripeParity(s, n) == {ChannelParity(s, n, c) : c \in {d \in 0..2 : s + d < StripeEnd(s, n)}}

StripeImages(s, n, again) ==
  {{Data(i, again) : i \in Three(s, StripeEnd(s, n), t)}
     : t \in 1..((StripeEnd(s, n) - s + 2) \div 3)}
  \cup {StripeParity(s, n)}

\* What transmit_rgb3() shows with /RE:3 is its stripes.
LEMMA StripesImages ==
  ASSUME NEW n \in Nat, NEW again \in BOOLEAN
  PROVE  ToSet(Stripes(0, n, again))
           = UNION {StripeImages(9 * (k - 1), n, again) : k \in 1..((n + 8) \div 9)}
<1> DEFINE end(s) == Smaller(s + 9, n)
           parity(s, c) == Item("BLOCK_XOR", s + c, (end(s) - (s + c) + 2) \div 3, 3)
           closing(s) == {parity(s, c) : c \in {d \in 0..2 : s + d < end(s)}}
           stripe(s) == DataBatches(s..(end(s) - 1), again) \o <<closing(s)>>
           m == (n - 0 + 8) \div 9
           seqs == [k \in 1..m |-> stripe(0 + 9 * (k - 1))]
           I == Seq(SUBSET SymbolsOf(n))
<1>1. ASSUME NEW s \in Nat, s < n
      PROVE  stripe(s) \in I /\ ToSet(stripe(s)) = StripeImages(s, n, again)
  <2> DEFINE e == end(s)
             data == DataBatches(s..(e - 1), again)
             three == {{Data(i, again) : i \in Three(s, e, t)} : t \in 1..((e - s + 2) \div 3)}
  <2>1. e \in Nat /\ s < e /\ s <= e /\ e <= n /\ e = StripeEnd(s, n)
    BY <1>1 DEF Smaller, StripeEnd
  <2> HIDE DEF e
  <2>2. data \in Seq(ImagesOf(e)) /\ ToSet(data) = three
    BY <2>1, IntervalBatches
  <2>3. data \in I
    <3>1. \A x \in ImagesOf(e) : x \in SUBSET SymbolsOf(n)
      BY <2>1, Wider DEF ImagesOf
    <3> HIDE DEF data
    <3> QED
      BY <2>2, <3>1
  <2>4. \A c \in 0..2 : s + c < e => ChannelParity(s, n, c) \in SymbolsOf(n)
    <3> SUFFICES ASSUME NEW c \in 0..2, s + c < e PROVE ChannelParity(s, n, c) \in SymbolsOf(n)
      OBVIOUS
    <3> DEFINE len == (e - (s + c) + 2) \div 3
    <3>1. len \in Nat /\ 3 * len <= e - (s + c) + 2 /\ s + c \in Nat
      BY <2>1
    <3> HIDE DEF len
    <3>2. (s + c) + (len - 1) * 3 < n
      BY <2>1, <3>1
    <3>3. Item("BLOCK_XOR", s + c, len, 3) \in SymbolsOf(n)
      BY <3>1, <3>2, EquationSymbol
    <3> QED
      BY <2>1, <3>3 DEF len, ChannelParity
  <2>5. closing(s) = StripeParity(s, n)
    BY DEF StripeParity, ChannelParity, StripeEnd
  <2>6. StripeParity(s, n) \in SUBSET SymbolsOf(n)
    BY <2>1, <2>4 DEF StripeParity
  <2> HIDE DEF closing
  <2>7. <<closing(s)>> \in I
    BY <2>5, <2>6
  <2>8. stripe(s) = data \o <<closing(s)>>
    BY DEF e
  <2> HIDE DEF data, stripe, I
  <2>9. stripe(s) \in I
    <3> USE DEF I
    <3> QED
      BY <2>3, <2>7, <2>8, ConcatProperties
  <2>10. ToSet(stripe(s)) = ToSet(data) \cup ToSet(<<closing(s)>>)
    BY <2>3, <2>7, <2>8, ConcatElements DEF I
  <2>11. ToSet(stripe(s)) = three \cup {StripeParity(s, n)}
    BY <2>2, <2>5, <2>10, OneElement
  <2> QED
    BY <2>1, <2>9, <2>11 DEF StripeImages
<1> HIDE DEF stripe, I
<1>2. m \in Nat /\ m = (n + 8) \div 9
  OBVIOUS
<1>3. ASSUME NEW k \in 1..m
      PROVE  /\ stripe(0 + 9 * (k - 1)) \in I
             /\ ToSet(stripe(0 + 9 * (k - 1))) = StripeImages(9 * (k - 1), n, again)
  <2>1. 9 * (k - 1) \in Nat /\ 9 * (k - 1) < n /\ 0 + 9 * (k - 1) = 9 * (k - 1)
    OBVIOUS
  <2> QED
    BY <1>1, <2>1
<1> HIDE DEF m
<1>4. seqs \in [1..m -> I] /\ \A k \in 1..m : seqs[k] = stripe(0 + 9 * (k - 1))
  BY <1>3
<1> HIDE DEF seqs
<1>5. seqs \in Seq(I) /\ Len(seqs) = m
  BY <1>2, <1>4
<1>6. ToSet(FlattenSeq(seqs)) = UNION {ToSet(seqs[k]) : k \in 1..m}
  BY <1>5, FlattenElements DEF I
<1>7. {ToSet(seqs[k]) : k \in 1..m} = {StripeImages(9 * (k - 1), n, again) : k \in 1..m}
  BY <1>3, <1>4
<1>8. Stripes(0, n, again) = FlattenSeq(seqs)
  BY DEF Stripes, seqs, stripe, closing, parity, end, m
<1> QED
  BY <1>2, <1>6, <1>7, <1>8

LEMMA StripesCover ==
  ASSUME NEW n \in Nat
  PROVE  Covers(ToSet(Stripes(0, n, FALSE)), n)
<1> SUFFICES ASSUME NEW i \in 0..(n - 1)
             PROVE  \E image \in ToSet(Stripes(0, n, FALSE)) : Data(i, FALSE) \in image
  BY DEF Covers
<1>1. PICK k \in 1..((n + 8) \div 9) : 9 * (k - 1) <= i /\ i < 9 * (k - 1) + 9
  <2>1. i \div 9 + 1 \in 1..((n + 8) \div 9)
    OBVIOUS
  <2>2. 9 * (i \div 9) <= i /\ i < 9 * (i \div 9) + 9 /\ (i \div 9 + 1) - 1 = i \div 9
    OBVIOUS
  <2> QED
    BY <2>1, <2>2
<1> DEFINE s == 9 * (k - 1)
           e == StripeEnd(s, n)
           t == (i - s) \div 3 + 1
<1>2. s \in Nat /\ e \in Nat /\ s <= i /\ i < e
  BY <1>1 DEF StripeEnd, Smaller
<1> HIDE DEF s, e
<1>3. t \in 1..((e - s + 2) \div 3) /\ i \in Three(s, e, t)
  BY <1>2 DEF Three, Smaller
<1> HIDE DEF t
<1>4. {Data(j, FALSE) : j \in Three(s, e, t)} \in StripeImages(s, n, FALSE)
  BY <1>3 DEF StripeImages, e
<1>5. {Data(j, FALSE) : j \in Three(s, e, t)} \in ToSet(Stripes(0, n, FALSE))
  <2>1. FALSE \in BOOLEAN
    OBVIOUS
  <2>2. ToSet(Stripes(0, n, FALSE))
          = UNION {StripeImages(9 * (x - 1), n, FALSE) : x \in 1..((n + 8) \div 9)}
    BY <2>1, StripesImages
  <2> QED
    BY <1>4, <2>2 DEF s
<1>6. Data(i, FALSE) \in {Data(j, FALSE) : j \in Three(s, e, t)}
  BY <1>3
<1> QED
  BY <1>5, <1>6

\* The frames of a channel are three apart, those of an image consecutive.
LEMMA StripesGuard ==
  ASSUME NEW n \in Nat, NEW again \in BOOLEAN
  PROVE  Guards(ToSet(Stripes(0, n, again)))
<1> DEFINE images == ToSet(Stripes(0, n, again))
<1> SUFFICES ASSUME NEW image \in images, NEW i \in DataOf(image)
             PROVE  \E parity \in images :
                      /\ DataOf(parity) = {}
                      /\ \E e \in Equations(parity) : e \cap DataOf(image) = {i}
  BY DEF Guards
<1>1. images = UNION {StripeImages(9 * (k - 1), n, again) : k \in 1..((n + 8) \div 9)}
  BY StripesImages
<1> HIDE DEF images
<1>2. PICK k \in 1..((n + 8) \div 9) : image \in StripeImages(9 * (k - 1), n, again)
  BY <1>1
<1> DEFINE s == 9 * (k - 1)
           e == StripeEnd(s, n)
           parity == StripeParity(s, n)
<1>3. s \in Nat /\ e \in Nat /\ s <= e
  BY DEF StripeEnd, Smaller
<1>4. parity \in images
  BY <1>1 DEF StripeImages
<1>5. image \in StripeImages(s, n, again)
  BY <1>2
<1> HIDE DEF s, e
<1>6. ASSUME NEW c \in 0..2, s + c < e
      PROVE  /\ ChannelParity(s, n, c) \in parity
             /\ ChannelParity(s, n, c).kind = "BLOCK_XOR"
             /\ Members(ChannelParity(s, n, c))
                  = {(s + c) + x * 3 : x \in 0..((e - (s + c) + 2) \div 3 - 1)}
  BY <1>6 DEF ChannelParity, StripeParity, Item, Members, e
<1>7. DataOf(parity) = {}
  <2>1. \A item \in parity : item.kind = "BLOCK_XOR"
    BY DEF StripeParity, ChannelParity, Item
  <2> HIDE DEF parity
  <2> QED
    BY <2>1 DEF DataOf
<1>8. PICK t \in 1..((e - s + 2) \div 3) : image = {Data(j, again) : j \in Three(s, e, t)}
  BY <1>5, <1>7 DEF StripeImages, e
<1> HIDE DEF parity
<1>9. DataOf(image) = Three(s, e, t)
  <2>1. \A j : Data(j, again).kind = "DATA" /\ Data(j, again).first = j
    BY DEF Data, Item
  <2> QED
    BY <1>8, <2>1 DEF DataOf
<1>10. s <= i /\ i < e /\ i \in Int
  BY <1>3, <1>9 DEF Three, Smaller
<1> DEFINE c == (i - s) % 3
           d == (i - s) \div 3
           m == (e - (s + c) + 2) \div 3
           eq == Members(ChannelParity(s, n, c))
<1>11. c \in 0..2 /\ d \in Nat /\ i = (s + c) + d * 3 /\ s + c < e
  BY <1>3, <1>10
<1>12. m \in Int /\ d \in 0..(m - 1)
  BY <1>3, <1>10, <1>11
<1> HIDE DEF d
<1>13. eq = {(s + c) + x * 3 : x \in 0..(m - 1)}
  BY <1>6, <1>11
<1>14. ChannelParity(s, n, c) \in parity /\ ChannelParity(s, n, c).kind = "BLOCK_XOR"
  BY <1>6, <1>11
<1>15. eq \in Equations(parity)
  BY <1>14 DEF Equations
<1> HIDE DEF c, m, eq
<1>16. i \in eq
  BY <1>11, <1>12, <1>13
<1>17. ASSUME NEW x \in 0..(m - 1), (s + c) + x * 3 \in Three(s, e, t)
       PROVE  (s + c) + x * 3 = i
  <2>1. i \in Three(s, e, t)
    BY <1>9
  <2> QED
    BY <1>3, <1>11, <1>12, <1>17, <2>1 DEF Three, Smaller
<1>18. eq \cap DataOf(image) = {i}
  BY <1>9, <1>13, <1>16, <1>17
<1> QED
  BY <1>4, <1>7, <1>15, <1>18

\* Every pass of transmit() makes up for the loss of one of its images.
LEMMA TransmitGuards ==
  ASSUME NEW c, ValidConfig(c), NEW n \in Nat, Protects(c, n)
  PROVE  Covers(ToSet(Transmit(c, 0, n)), n) /\ Guards(ToSet(Transmit(c, 0, n)))
<1> DEFINE round(r) == IF c.rgb3 THEN ColourPass(c, IF r = 1 THEN 0 ELSE 0, n, r > 1)
                       ELSE MonoPass(c, n, r > 1)
           rounds == [r \in 1..c.repeat |-> round(r)]
<1>1. c.repeat \in Nat /\ c.repeat >= 1 /\ c.rgb3 \in BOOLEAN
  BY DEF ValidConfig
<1>2. ASSUME NEW again \in BOOLEAN
      PROVE  /\ ColourPass(c, 0, n, again) \in Seq(ImagesOf(n))
             /\ MonoPass(c, n, again) \in Seq(ImagesOf(n))
  BY ColourType, MonoType
<1>3. c.rgb3 => c.group = 3
  BY DEF Protects
<1>4. ASSUME NEW again \in BOOLEAN
      PROVE  IF c.rgb3 THEN Guards(ToSet(ColourPass(c, 0, n, again)))
                       ELSE Guards(ToSet(MonoPass(c, n, again)))
  <2>1. CASE c.rgb3
    <3>1. ColourPass(c, 0, n, again) = Stripes(0, n, again)
      BY <1>3, <2>1 DEF ColourPass
    <3> QED
      BY <2>1, <3>1, StripesGuard
  <2>2. CASE ~c.rgb3
    BY <2>2, MonoGuards
  <2> QED
    BY <2>1, <2>2
<1>5. ASSUME NEW r \in 1..c.repeat
      PROVE  /\ round(r) \in Seq(ImagesOf(n)) /\ Guards(ToSet(round(r)))
             /\ r = 1 => Covers(ToSet(round(r)), n)
  <2> DEFINE again == r > 1
  <2>1. again \in BOOLEAN /\ (r = 1 => again = FALSE)
    OBVIOUS
  <2>2. round(r) = IF c.rgb3 THEN ColourPass(c, 0, n, again) ELSE MonoPass(c, n, again)
    OBVIOUS
  <2> HIDE DEF again, round
  <2>3. round(r) \in Seq(ImagesOf(n)) /\ Guards(ToSet(round(r)))
    BY <1>2, <1>4, <2>1, <2>2
  <2>4. ASSUME r = 1 PROVE Covers(ToSet(round(r)), n)
    <3>1. CASE c.rgb3
      <4>1. round(r) = Stripes(0, n, FALSE)
        BY <1>3, <2>1, <2>2, <2>4, <3>1 DEF ColourPass
      <4> QED
        BY <4>1, StripesCover
    <3>2. CASE ~c.rgb3
      <4>1. round(r) = MonoPass(c, n, FALSE)
        BY <2>1, <2>2, <2>4, <3>2
      <4> QED
        BY <4>1, MonoCovers
    <3> QED
      BY <3>1, <3>2
  <2> QED
    BY <2>3, <2>4
<1>6. Transmit(c, 0, n) = FlattenSeq(rounds)
  BY DEF Transmit
<1> HIDE DEF round
<1>7. rounds \in [1..c.repeat -> Seq(ImagesOf(n))] /\ \A r \in 1..c.repeat : rounds[r] = round(r)
  BY <1>5
<1> HIDE DEF rounds
<1>8. rounds \in Seq(Seq(ImagesOf(n))) /\ Len(rounds) = c.repeat
  BY <1>1, <1>7
<1>9. ToSet(Transmit(c, 0, n)) = UNION {ToSet(round(r)) : r \in 1..c.repeat}
  <2>1. ToSet(FlattenSeq(rounds)) = UNION {ToSet(rounds[r]) : r \in 1..c.repeat}
    BY <1>8, FlattenElements
  <2> QED
    BY <1>6, <1>7, <2>1
<1> DEFINE passes == {ToSet(round(r)) : r \in 1..c.repeat}
<1>10. Guards(UNION passes)
  <2>1. \A s \in passes : Guards(s)
    BY <1>5
  <2> HIDE DEF passes
  <2> QED
    BY <2>1, GuardsUnion
<1>11. Covers(UNION passes, n)
  <2>1. 1 \in 1..c.repeat
    BY <1>1
  <2>2. Covers(ToSet(round(1)), n) /\ ToSet(round(1)) \in passes
    BY <1>5, <2>1
  <2> HIDE DEF passes
  <2> QED
    BY <2>2 DEF Covers
<1> QED
  BY <1>9, <1>10, <1>11

LEMMA MakesUp == ASSUME SenderTyped PROVE OneLossSolvable
<1> SUFFICES ASSUME Protects(cfg, count), pass = Transmit(cfg, 0, count),
                    NEW lost \in 1..Len(pass),
                    NEW rest, rest = UNION {pass[k] : k \in (1..Len(pass)) \ {lost}}
             PROVE  Peeled(DataOf(rest), Equations(rest), count) = 0..(count - 1)
  BY DEF OneLossSolvable
<1>1. ValidConfig(cfg) /\ count \in Nat \ {0} /\ pass \in Seq(ImagesOf(count))
  BY Configured DEF SenderTyped, Cut, Passing
<1>2. Covers(ToSet(pass), count) /\ Guards(ToSet(pass))
  BY <1>1, TransmitGuards
<1> QED
  BY <1>1, <1>2, LossMadeUp

\* Whatever image of DATA of a full pass is not seen, the rest of the pass
\* makes up for it where the redundancy promises that (transmit(),
\* transmit_rgb3()): for every group, chain and number of passes, and at the
\* short end of a window.
THEOREM LossIsMadeUp == Spec => []OneLossSolvable
<1>1. Init => SenderTyped
  BY InitSender
<1>2. SenderTyped /\ [Next]_sender => SenderTyped'
  BY StepTypes, EntryAssumption DEF Next
<1>3. SenderTyped => OneLossSolvable
  BY MakesUp
<1> QED
  BY <1>1, <1>2, <1>3, PTL DEF Spec

-----------------------------------------------------------------------------
(* The receiver and the person between.                                    *)

\* What is on disk is of the transfer, and what was heard has begun.
Received ==
  /\ kept \subseteq 0..(length - 1)
  /\ \A e \in equations : e \subseteq 0..(length - 1)
  /\ heard \subseteq 0..window

TransferTyped == SenderTyped /\ Received

LEMMA GlobalFrames ==
  ASSUME SenderTyped, NEW S, S \subseteq 0..(length - screen.base - 1)
  PROVE  Global(S) \subseteq 0..(length - 1)
<1>1. screen.base \in Nat /\ length \in Nat
  BY DEF SenderTyped, OnScreen, Cut
<1>2. \A i \in 0..(length - screen.base - 1) : screen.base + i \in 0..(length - 1)
  BY <1>1
<1> QED
  BY <1>2 DEF Global

LEMMA SeeTypes ==
  ASSUME TransferTyped, NEW items \in SUBSET screen.items, See(items)
  PROVE  TransferTyped'
<1>1. UNCHANGED sender /\ SenderTyped
  BY DEF See, TransferTyped
<1>2. SenderTyped'
  BY <1>1, IdleTypes
<1>3. length \in Nat /\ length' = length /\ window' = window
      /\ screen.window \in Nat /\ screen.window <= window /\ window \in Nat
      /\ length - screen.base \in Nat
  BY <1>1 DEF sender, SenderTyped, Cut, OnScreen
<1>4. items \subseteq VisibleOf(length - screen.base)
  BY <1>1 DEF SenderTyped, OnScreen
<1>5. DataOf(items) \subseteq 0..(length - screen.base - 1)
  <2> SUFFICES ASSUME NEW j \in items, j.kind = "DATA"
               PROVE  j.first \in 0..(length - screen.base - 1)
    BY DEF DataOf
  <2>1. j \in SymbolsOf(length - screen.base)
    BY <1>4, NoMembers DEF VisibleOf
  <2> QED
    BY <1>3, <2>1, DataMembers
<1>6. \A e \in Equations(items) : e \subseteq 0..(length - screen.base - 1)
  BY <1>3, <1>4, SymbolsBefore DEF Equations
<1>7. Global(DataOf(items)) \subseteq 0..(length - 1)
      /\ \A e \in Equations(items) : Global(e) \subseteq 0..(length - 1)
  BY <1>1, <1>5, <1>6, GlobalFrames
<1> DEFINE stored == kept \cup Global(DataOf(items))
<1>8. stored \in SUBSET (0..(length - 1))
  BY <1>7 DEF TransferTyped, Received
<1>9. kept' = stored \cup Peeled(stored, equations', length)
  BY DEF See
<1> HIDE DEF stored
<1>10. kept' \subseteq 0..(length - 1)
  BY <1>3, <1>8, <1>9, PeeledType
<1>11. \A e \in equations' : e \subseteq 0..(length - 1)
  BY <1>7 DEF See, TransferTyped, Received
<1>12. heard' \subseteq 0..window
  <2>1. heard' = heard \cup {screen.window} /\ heard \subseteq 0..window
    BY DEF See, TransferTyped, Received
  <2>2. screen.window \in 0..window
    BY <1>3
  <2> QED
    BY <2>1, <2>2
<1> QED
  BY <1>2, <1>3, <1>10, <1>11, <1>12 DEF TransferTyped, Received

LEMMA RelaunchTypes == ASSUME TransferTyped, Relaunch PROVE TransferTyped'
<1>1. UNCHANGED sender /\ SenderTyped' /\ heard' \subseteq heard
      /\ UNCHANGED <<kept, equations>>
  BY IdleTypes DEF Relaunch, TransferTyped
<1> QED
  BY <1>1 DEF TransferTyped, Received, sender

\* The windows only go on, and the transfer stays as long as it is.
LEMMA Onward ==
  ASSUME SenderTyped, [Next]_sender \/ \E ranges : MissingRanges(ranges)
  PROVE  length' = length /\ (window' = window \/ window' = window + 1)
BY DEF Next, sender, Start, Show, ShowEow, Replay, MissingAll, Enter, MissingRanges,
       Pause, Resume, Cancel, Geometry, Position

\* Newest is one of the windows heard.
LEMMA NewestType ==
  ASSUME NEW w \in Nat, heard \subseteq 0..w, heard # {}
  PROVE  Newest \in heard
<1> DEFINE ages == {w - v : v \in heard}
<1>1. ages \subseteq Nat /\ ages # {}
  <2>1. ASSUME NEW v \in heard PROVE w - v \in Nat
    <3>1. v \in 0..w
      OBVIOUS
    <3> QED
      BY <3>1
  <2> QED
    BY <2>1
<1>2. PICK age \in ages : \A a \in ages : age <= a
  <2> HIDE DEF ages
  <2> QED
    BY <1>1, LeastExists
<1>3. PICK m \in heard : age = w - m
  OBVIOUS
<1>4. \A v \in heard : v <= m
  <2> TAKE v \in heard
  <2>1. age <= w - v
    BY <1>2
  <2>2. v \in 0..w /\ m \in 0..w
    OBVIOUS
  <2> QED
    BY <1>3, <2>1, <2>2
<1> QED
  BY <1>4 DEF Newest

\* The ranges the phone shows are of frame numbers.
LEMMA AskedRanges ==
  ASSUME TransferTyped
  PROVE  \A r \in AskedFor : r \in Int \X Int
<1> SUFFICES ASSUME NEW i \in Missing
             PROVE  i - Newest * cfg.size + 1 \in Int
  BY DEF AskedFor
<1>1. heard # {} /\ i \in WindowFrames(Newest)
  BY DEF Missing
<1>2. window \in Nat /\ heard \subseteq 0..window /\ cfg.size \in Nat /\ length \in Nat
  BY Configured DEF TransferTyped, Received, SenderTyped, Cut
<1>3. Newest \in Nat
  <2>1. Newest \in heard
    BY <1>1, <1>2, NewestType
  <2>2. \A v \in 0..window : v \in Nat
    OBVIOUS
  <2> QED
    BY <1>2, <2>1, <2>2
<1>4. Newest * cfg.size \in Nat
  <2>1. \A m, n \in Nat : m * n \in Nat
    OBVIOUS
  <2> QED
    BY <1>2, <1>3, <2>1
<1>5. i \in Int
  <2>1. i \in (Newest * cfg.size)..(Smaller(Newest * cfg.size + cfg.size, length) - 1)
    BY <1>1 DEF WindowFrames
  <2> QED
    BY <2>1
<1> QED
  BY <1>4, <1>5

LEMMA KeysType ==
  ASSUME TransferTyped, Sends \/ User, UNCHANGED receiver
  PROVE  TransferTyped'
<1>1. CASE Ask
  <2>1. MissingRanges(AskedFor)
    BY <1>1 DEF Ask
  <2>2. SenderTyped'
    BY <2>1, AskedRanges, MissingRangesTypes DEF TransferTyped
  <2>3. UNCHANGED <<length, window>>
    BY <2>1 DEF MissingRanges, Geometry, Position
  <2> QED
    BY <2>2, <2>3 DEF TransferTyped, Received, receiver
<1>2. CASE ~Ask
  <2>1. Next
    BY <1>2 DEF Sends, User, Commit, Next
  <2>2. SenderTyped'
    BY <2>1, StepTypes, EntryAssumption DEF TransferTyped, Next
  <2>3. length' = length /\ (window' = window \/ window' = window + 1)
    BY <2>1, Onward DEF TransferTyped
  <2>4. window \in Nat
    BY DEF TransferTyped, SenderTyped, Cut
  <2> QED
    BY <2>2, <2>3, <2>4 DEF TransferTyped, Received, receiver
<1> QED
  BY <1>1, <1>2

LEMMA InitTypes == ASSUME TransferInit PROVE TransferTyped
BY InitSender DEF TransferInit, TransferTyped, Received

LEMMA TransferSteps ==
  ASSUME TransferTyped, [TransferNext]_vars
  PROVE  TransferTyped'
<1>1. CASE (Sends \/ User) /\ UNCHANGED receiver
  BY <1>1, KeysType
<1>2. CASE \E items \in SUBSET screen.items : See(items)
  BY <1>2, SeeTypes
<1>3. CASE Relaunch
  BY <1>3, RelaunchTypes
<1>4. CASE UNCHANGED vars
  <2>1. SenderTyped'
    BY <1>4, IdleTypes DEF vars, TransferTyped
  <2> QED
    BY <1>4, <2>1 DEF vars, sender, receiver, TransferTyped, Received
<1> QED
  BY <1>1, <1>2, <1>3, <1>4 DEF TransferNext

\* Whatever the camera sees and when, the receiver stores and works out only
\* frames the transfer has, and hears of no window before its time.
THEOREM TransferTypes == TransferSpec => []TransferTypeOK
<1>1. TransferInit => TransferTyped
  BY InitTypes
<1>2. TransferTyped /\ [TransferNext]_vars => TransferTyped'
  BY TransferSteps
<1>3. TransferTyped => TransferTypeOK
  BY TypedSender DEF TransferTyped, Received, TransferTypeOK
<1> QED
  BY <1>1, <1>2, <1>3, PTL DEF TransferSpec

-----------------------------------------------------------------------------
(* No window is lost.                                                      *)

\* The frames of the sender's window are the ones the receiver looks for.
LEMMA WindowOnDisplay ==
  ASSUME Cut, phase = "prompt"
  PROVE  base..(base + count - 1) \subseteq WindowFrames(window)
<1>1. cfg.size \in Nat /\ cfg.size >= 4
  BY Configured
<1>2. base = window * cfg.size /\ count = Smaller(cfg.size, length - base)
  BY DEF Cut
<1> QED
  BY <1>1, <1>2 DEF WindowFrames, Smaller, Cut

\* What is behind the sender is on the receiver's disk; once it is done, its
\* last window too, and nothing is left to send unless its files failed.
Whole ==
  /\ NothingLost
  /\ phase = "done" =>
       /\ base..(base + count - 1) \subseteq kept
       /\ failAt = NoFailure => base + count = length

\* Every step but Enter leaves that so.
LEMMA StillWhole ==
  ASSUME Whole, kept \subseteq kept', UNCHANGED <<length, base, count, failAt>>,
         phase' = "done" => phase = "done"
  PROVE  Whole'
BY DEF Whole, NothingLost

\* Enter, pressed with "-" for this window on the phone.
LEMMA CommitWhole ==
  ASSUME Cut, Whole, ComparesWindow, Commit, UNCHANGED receiver
  PROVE  Whole'
<1>1. phase = "prompt" /\ length' = length /\ failAt' = failAt
  BY DEF Commit, Enter, Geometry
<1>2. Newest = window /\ heard # {}
  BY DEF Commit, Reads
<1>3. WindowFrames(window) \subseteq kept /\ kept' = kept
  BY <1>2 DEF Commit, Missing, receiver
<1>4. base..(base + count - 1) \subseteq kept
  BY <1>1, <1>3, WindowOnDisplay
<1>5. CASE Fill(base + count) = 0
  <2>1. base' = base /\ count' = count
    BY <1>5 DEF Commit, Enter
  <2>2. ASSUME failAt = NoFailure PROVE base + count = length
    <3>1. cfg.size \in Nat /\ cfg.size >= 4
      BY Configured
    <3>2. Fill(base + count) = Smaller(base + count + cfg.size, length) - (base + count)
      <4>1. \A m, n \in Int : failAt \notin (base + count)..n
        BY <2>2, FailureAssumption DEF Cut
      <4> QED
        BY <3>1, <4>1 DEF Fill, Smaller, Cut
    <3> QED
      BY <1>5, <3>1, <3>2 DEF Smaller, Cut
  <2> QED
    BY <1>1, <1>3, <1>4, <2>1, <2>2 DEF Whole, NothingLost
<1>6. CASE Fill(base + count) # 0
  <2>1. base' = base + count /\ phase' = "stream"
    BY <1>6 DEF Commit, Enter, Begin
  <2>2. NothingLost'
    BY <1>3, <1>4, <2>1 DEF Whole, Cut, NothingLost
  <2> QED
    BY <2>1, <2>2 DEF Whole
<1> QED
  BY <1>5, <1>6

\* Every other key and every image shown.
LEMMA SenderWhole ==
  ASSUME Whole, Sends \/ Ask \/ (AskAgain /\ (Replay \/ MissingAll)), UNCHANGED receiver
  PROVE  Whole'
<1>1. kept \subseteq kept'
  BY DEF receiver
<1>2. UNCHANGED <<length, base, count, failAt>> /\ (phase' = "done" => phase = "done")
  BY DEF Sends, Ask, Start, Show, ShowEow, Pause, Resume, Cancel, MissingRanges, Replay,
         MissingAll, Begin, Geometry, Position
<1> QED
  BY <1>1, <1>2, StillWhole

\* The receiver only adds frames, and a kill takes none.
LEMMA ReceiverWhole ==
  ASSUME Whole, Relaunch \/ \E items \in SUBSET screen.items : See(items)
  PROVE  Whole'
<1>1. UNCHANGED sender /\ kept \subseteq kept'
  BY DEF Relaunch, See
<1> QED
  BY <1>1, StillWhole DEF sender

LEMMA StepsWhole ==
  ASSUME ComparesWindow, Cut, Whole, [TransferNext]_vars
  PROVE  Whole'
<1>1. CASE Commit /\ UNCHANGED receiver
  BY <1>1, CommitWhole
<1>2. CASE (Sends \/ Ask \/ (AskAgain /\ (Replay \/ MissingAll))) /\ UNCHANGED receiver
  BY <1>2, SenderWhole
<1>3. CASE Relaunch \/ \E items \in SUBSET screen.items : See(items)
  BY <1>3, ReceiverWhole
<1>4. CASE UNCHANGED vars
  BY <1>4, StillWhole DEF vars, sender, receiver
<1> QED
  BY <1>1, <1>2, <1>3, <1>4 DEF TransferNext, User

LEMMA InitWhole == ASSUME TransferInit PROVE Whole
<1>1. base = 0 /\ phase = "first"
  BY DEF TransferInit, Init
<1> QED
  BY <1>1 DEF Whole, NothingLost

LEMMA AlwaysWhole ==
  ASSUME ComparesWindow
  PROVE  TransferSpec => [](TransferTyped /\ Whole)
<1>1. TransferInit => TransferTyped /\ Whole
  BY InitTypes, InitWhole
<1>2. TransferTyped /\ Whole /\ [TransferNext]_vars => (TransferTyped /\ Whole)'
  BY TransferSteps, StepsWhole DEF TransferTyped, SenderTyped
<1> QED
  BY <1>1, <1>2, PTL DEF TransferSpec

\* A user who compares the two screens commits no window that is not whole,
\* for every command line, camera and length.
THEOREM WindowsWhole ==
  ASSUME ComparesWindow
  PROVE  TransferSpec => []NothingLost
<1>1. TransferTyped /\ Whole => NothingLost
  BY DEF Whole
<1> QED
  BY <1>1, AlwaysWhole, PTL

\* Then "Transfer complete" means that the receiver holds every frame, and no
\* other: the first windows, the last one, and nothing beyond.
THEOREM DoneIsWhole ==
  ASSUME ComparesWindow
  PROVE  TransferSpec => []DoneMeansAll
<1>1. TransferTyped /\ Whole => DoneMeansAll
  <2> SUFFICES ASSUME TransferTyped, Whole, phase = "done", failAt = NoFailure
               PROVE  kept = 0..(length - 1)
    BY DEF DoneMeansAll
  <2>1. base \in Nat /\ count \in Nat /\ base + count = length
    BY DEF TransferTyped, SenderTyped, Cut, Whole
  <2>2. 0..(base - 1) \subseteq kept /\ base..(base + count - 1) \subseteq kept
    BY DEF Whole, NothingLost
  <2>3. 0..(length - 1) \subseteq kept
    BY <2>1, <2>2
  <2> QED
    BY <2>3 DEF TransferTyped, Received
<1> QED
  BY <1>1, AlwaysWhole, PTL

-----------------------------------------------------------------------------
(* The pages.                                                              *)

\* A page of video memory, and the state of vga.c, as records.
IsPage(g) == g = [qr |-> g.qr, border |-> g.border, text |-> g.text]

IsVga(v) ==
  /\ v = [placement |-> v.placement, template |-> v.template, qr |-> v.qr,
          border |-> v.border, text |-> v.text, invert |-> v.invert, write |-> v.write,
          page |-> v.page, initialized |-> v.initialized, pageInvert |-> v.pageInvert,
          generation |-> v.generation, pageGeneration |-> v.pageGeneration,
          active |-> v.active]
  /\ v.placement \in BOOLEAN /\ v.active \in BOOLEAN
  /\ v.write \in 0..1 /\ v.generation \in 0..3
  /\ DOMAIN v.page = 0..1 /\ \A p \in 0..1 : IsPage(v.page[p])
  /\ v.page = [p \in 0..1 |-> v.page[p]]
  /\ v.initialized \in [0..1 -> BOOLEAN]
  /\ v.pageInvert = [p \in 0..1 |-> v.pageInvert[p]]
  /\ v.pageGeneration \in [0..1 -> 0..3]

\* The border of a page is of the polarity noted for it, and a page that is
\* not behind has no text while there is none.
Kept(v) ==
  \A p \in 0..1 : v.initialized[p] =>
    /\ v.page[p].border = v.pageInvert[p]
    /\ v.pageGeneration[p] = v.generation /\ ~v.active => v.page[p].text = "blank"

\* The page on display has the status line, the hidden one is at most one
\* line behind.
Behind(v, p) ==
  v.initialized[p] =>
    \/ v.pageGeneration[p] = v.generation
    \/ (v.pageGeneration[p] + 1) % Generations = v.generation
Lags(v) ==
  /\ Kept(v)
  /\ v.initialized[1 - v.write] => v.pageGeneration[1 - v.write] = v.generation
  /\ Behind(v, v.write)

\* What the shadows hold is complete: canonical but for the stream.
Blank(v) == v.border = Invert /\ v.invert = Invert /\ (~v.active => v.text = "blank")

Sound(v) == IsVga(v) /\ Lags(v) /\ (v.placement => Blank(v))

LEMMA EnteredSound == Sound(Entered)
<1>1. IsPage(Junk)
  BY DEF IsPage, Junk
<1>2. IsVga(Entered)
  BY <1>1 DEF IsVga, Entered
<1> QED
  BY <1>2 DEF Sound, Lags, Kept, Behind, Entered

\* Flip() copies the shadows to the hidden page and shows it.
LEMMA FlipFields ==
  ASSUME NEW v, IsVga(v), NEW w, w = Flip(v)
  PROVE  /\ w.placement = v.placement /\ w.template = v.template /\ w.qr = v.qr
         /\ w.border = v.border /\ w.text = v.text /\ w.invert = v.invert
         /\ w.generation = v.generation /\ w.active = v.active
         /\ w.write = 1 - v.write
         /\ w.page = [v.page EXCEPT ![v.write] = Copy(v)]
         /\ w.initialized = [v.initialized EXCEPT ![v.write] = TRUE]
         /\ w.pageInvert = [v.pageInvert EXCEPT ![v.write] = v.invert]
         /\ w.pageGeneration = [v.pageGeneration EXCEPT ![v.write] = v.generation]
         /\ w = [placement |-> w.placement, template |-> w.template, qr |-> w.qr,
                 border |-> w.border, text |-> w.text, invert |-> w.invert, write |-> w.write,
                 page |-> w.page, initialized |-> w.initialized, pageInvert |-> w.pageInvert,
                 generation |-> w.generation, pageGeneration |-> w.pageGeneration,
                 active |-> w.active]
  BY DEF Flip, IsVga

LEMMA CopyFields ==
  ASSUME NEW v, IsVga(v), Kept(v), NEW text, v.text = text, v.border = v.invert,
         \/ v.pageGeneration[v.write] # v.generation
         \/ ~v.active /\ text = "blank"
         \/ ~v.initialized[v.write]
  PROVE  Copy(v) = [qr |-> v.qr, border |-> v.border, text |-> text]
<1>1. v.write \in 0..1 /\ IsPage(v.page[v.write])
  BY DEF IsVga
<1>2. CASE ~v.initialized[v.write] \/ v.pageInvert[v.write] # v.invert
  BY <1>2 DEF Copy
<1>3. CASE v.initialized[v.write] /\ v.pageInvert[v.write] = v.invert
  <2>1. v.page[v.write].border = v.border
    BY <1>1, <1>3 DEF Kept
  <2>2. (IF v.pageGeneration[v.write] # v.generation THEN v.text ELSE v.page[v.write].text) = text
    BY <1>1, <1>3 DEF Kept
  <2> QED
    BY <1>1, <1>3, <2>1, <2>2 DEF Copy, IsPage
<1> QED
  BY <1>2, <1>3

LEMMA FlipIsVga == ASSUME NEW v, IsVga(v) PROVE IsVga(Flip(v))
<1> DEFINE w == Flip(v)
<1>1. /\ w.placement = v.placement /\ w.active = v.active
      /\ w.generation = v.generation /\ w.write = 1 - v.write
      /\ w.page = [v.page EXCEPT ![v.write] = Copy(v)]
      /\ w.initialized = [v.initialized EXCEPT ![v.write] = TRUE]
      /\ w.pageInvert = [v.pageInvert EXCEPT ![v.write] = v.invert]
      /\ w.pageGeneration = [v.pageGeneration EXCEPT ![v.write] = v.generation]
      /\ w = [placement |-> w.placement, template |-> w.template, qr |-> w.qr,
              border |-> w.border, text |-> w.text, invert |-> w.invert, write |-> w.write,
              page |-> w.page, initialized |-> w.initialized, pageInvert |-> w.pageInvert,
              generation |-> w.generation, pageGeneration |-> w.pageGeneration,
              active |-> w.active]
  BY FlipFields
<1> HIDE DEF w
<1>2. v.write \in 0..1 /\ v.generation \in 0..3 /\ v.placement \in BOOLEAN /\ v.active \in BOOLEAN
  BY DEF IsVga
<1>3. IsPage(Copy(v))
  BY <1>2 DEF Copy, IsVga, IsPage
<1>4. /\ w.page = [p \in 0..1 |-> w.page[p]] /\ DOMAIN w.page = 0..1
      /\ \A p \in 0..1 : IsPage(w.page[p])
  <2>1. v.page = [p \in 0..1 |-> v.page[p]] /\ \A p \in 0..1 : IsPage(v.page[p])
    BY DEF IsVga
  <2> QED
    BY <1>1, <1>2, <1>3, <2>1
<1>5. w.initialized \in [0..1 -> BOOLEAN]
  BY <1>1, <1>2 DEF IsVga
<1>6. w.pageInvert = [p \in 0..1 |-> w.pageInvert[p]]
  BY <1>1, <1>2 DEF IsVga
<1>7. w.pageGeneration \in [0..1 -> 0..3]
  BY <1>1, <1>2 DEF IsVga
<1>8. w.write \in 0..1
  BY <1>1, <1>2
<1>9. IsVga(w)
  BY <1>1, <1>2, <1>4, <1>5, <1>6, <1>7, <1>8 DEF IsVga
<1> QED
  BY <1>9 DEF w

LEMMA WriteFields ==
  ASSUME NEW v, IsVga(v), NEW text, text # "blank" \/ v.active, NEW w, w = Write(v, text)
  PROVE  /\ w.placement = v.placement /\ w.template = v.template /\ w.qr = v.qr
         /\ w.border = v.border /\ w.text = text /\ w.invert = v.invert
         /\ w.generation = (v.generation + 1) % Generations /\ w.active = (text # "blank")
         /\ w.write = v.write /\ w.page = v.page /\ w.initialized = v.initialized
         /\ w.pageInvert = v.pageInvert /\ w.pageGeneration = v.pageGeneration
         /\ w = [placement |-> w.placement, template |-> w.template, qr |-> w.qr,
                 border |-> w.border, text |-> w.text, invert |-> w.invert, write |-> w.write,
                 page |-> w.page, initialized |-> w.initialized, pageInvert |-> w.pageInvert,
                 generation |-> w.generation, pageGeneration |-> w.pageGeneration,
                 active |-> w.active]
  BY DEF Write, IsVga

LEMMA NextGeneration ==
  ASSUME NEW g \in 0..3, NEW p \in 0..3
  PROVE  /\ (g + 1) % Generations \in 0..3 /\ (g + 1) % Generations # g
         /\ (p + 1) % Generations = g => (g + 1) % Generations # p
<1>1. g \in {0, 1, 2, 3} /\ p \in {0, 1, 2, 3}
  OBVIOUS
<1> QED
  BY <1>1 DEF Generations
\* The page that is copied to is shown, and holds what it should.
LEMMA FlipShows ==
  ASSUME NEW v, IsVga(v), Kept(v), Behind(v, 1 - v.write), NEW text, v.text = text, Blank(v),
         ~v.active => text = "blank",
         \/ v.initialized[v.write] => v.pageGeneration[v.write] # v.generation
         \/ ~v.active
  PROVE  /\ Sound(Flip(v))
         /\ Displayed(Flip(v)) = [qr |-> v.qr, border |-> Invert, text |-> text]
<1> DEFINE w == Flip(v)
           new == [qr |-> v.qr, border |-> v.border, text |-> text]
<1>1. Copy(v) = new
  BY CopyFields DEF Blank
<1>2. /\ w.border = v.border /\ w.text = v.text /\ w.invert = v.invert
      /\ w.placement = v.placement /\ w.active = v.active
      /\ w.generation = v.generation /\ w.write = 1 - v.write
      /\ w.page = [v.page EXCEPT ![v.write] = Copy(v)]
      /\ w.initialized = [v.initialized EXCEPT ![v.write] = TRUE]
      /\ w.pageInvert = [v.pageInvert EXCEPT ![v.write] = v.invert]
      /\ w.pageGeneration = [v.pageGeneration EXCEPT ![v.write] = v.generation]
  BY FlipFields
<1>3. IsVga(w)
  BY FlipIsVga
<1> HIDE DEF w
<1>4. /\ v.write \in 0..1 /\ 1 - v.write \in 0..1
      /\ 1 - v.write # v.write /\ 1 - (1 - v.write) = v.write
  BY DEF IsVga
<1>5. /\ w.page[v.write] = new /\ w.initialized[v.write] = TRUE
      /\ w.pageInvert[v.write] = v.invert /\ w.pageGeneration[v.write] = v.generation
  BY <1>1, <1>2, <1>4 DEF IsVga
<1>6. \A p \in 0..1 : p # v.write =>
         /\ w.page[p] = v.page[p] /\ w.initialized[p] = v.initialized[p]
         /\ w.pageInvert[p] = v.pageInvert[p] /\ w.pageGeneration[p] = v.pageGeneration[p]
  <2>1. DOMAIN v.page = 0..1 /\ DOMAIN v.initialized = 0..1
        /\ DOMAIN v.pageInvert = 0..1 /\ DOMAIN v.pageGeneration = 0..1
    BY DEF IsVga
  <2> QED
    BY <1>2, <2>1
<1>7. Kept(w)
  <2> SUFFICES ASSUME NEW p \in 0..1, w.initialized[p]
               PROVE  /\ w.page[p].border = w.pageInvert[p]
                      /\ w.pageGeneration[p] = w.generation /\ ~w.active
                         => w.page[p].text = "blank"
    BY DEF Kept
  <2>1. CASE p = v.write
    BY <1>2, <1>5, <2>1 DEF Blank
  <2>2. CASE p # v.write
    BY <1>2, <1>6, <2>2 DEF Kept
  <2> QED
    BY <2>1, <2>2
<1>8. Lags(w)
  BY <1>2, <1>4, <1>5, <1>6, <1>7 DEF Lags, Behind
<1>9. Blank(w)
  BY <1>2 DEF Blank
<1>10. Displayed(w) = new
  BY <1>2, <1>4, <1>5 DEF Displayed
<1>11. v.border = Invert
  BY DEF Blank
<1>12. Sound(w) /\ Displayed(w) = [qr |-> v.qr, border |-> Invert, text |-> text]
  BY <1>3, <1>8, <1>9, <1>10, <1>11 DEF Sound
<1> QED
  BY <1>12 DEF w

LEMMA WriteIsVga ==
  ASSUME NEW v, IsVga(v), NEW text, text # "blank" \/ v.active
  PROVE  IsVga(Write(v, text))
<1> DEFINE w == Write(v, text)
<1>1. /\ w.placement = v.placement
      /\ w.generation = (v.generation + 1) % Generations /\ w.active = (text # "blank")
      /\ w.write = v.write /\ w.page = v.page /\ w.initialized = v.initialized
      /\ w.pageInvert = v.pageInvert /\ w.pageGeneration = v.pageGeneration
      /\ w = [placement |-> w.placement, template |-> w.template, qr |-> w.qr,
              border |-> w.border, text |-> w.text, invert |-> w.invert, write |-> w.write,
              page |-> w.page, initialized |-> w.initialized, pageInvert |-> w.pageInvert,
              generation |-> w.generation, pageGeneration |-> w.pageGeneration,
              active |-> w.active]
  BY WriteFields
<1> HIDE DEF w
<1>2. w.generation \in 0..3
  BY <1>1, NextGeneration DEF IsVga
<1>3. IsVga(w)
  BY <1>1, <1>2 DEF IsVga
<1> QED
  BY <1>3 DEF w

\* vga_show_prepared_at(): the shadows with the status line asked for.
LEMMA PreparedShows ==
  ASSUME NEW v, IsVga(v), Lags(v), Blank(v), NEW text
  PROVE  /\ Sound(ShowPrepared(v, text))
         /\ Displayed(ShowPrepared(v, text)) = [qr |-> v.qr, border |-> Invert, text |-> text]
<1>1. v.write \in 0..1 /\ v.active \in BOOLEAN
  BY DEF IsVga
<1>2. CASE text = "blank" /\ ~v.active
  <2>1. ShowPrepared(v, text) = Flip(v)
    BY <1>2 DEF ShowPrepared, Write
  <2>2. Behind(v, 1 - v.write) /\ Kept(v)
    BY DEF Lags, Behind
  <2>3. v.text = text
    BY <1>2 DEF Blank
  <2> QED
    BY <1>2, <2>1, <2>2, <2>3, FlipShows
<1>3. CASE text # "blank" \/ v.active
  <2> DEFINE u == Write(v, text)
  <2>1. /\ u.qr = v.qr /\ u.border = v.border /\ u.text = text /\ u.invert = v.invert
        /\ u.generation = (v.generation + 1) % Generations /\ u.active = (text # "blank")
        /\ u.write = v.write /\ u.page = v.page /\ u.initialized = v.initialized
        /\ u.pageInvert = v.pageInvert /\ u.pageGeneration = v.pageGeneration
    BY <1>3, WriteFields
  <2>2. IsVga(u)
    BY <1>3, WriteIsVga
  <2> HIDE DEF u
  <2>3. v.generation \in 0..3 /\ \A p \in 0..1 : v.pageGeneration[p] \in 0..3
    BY DEF IsVga
  <2>4. \A p \in 0..1 : v.initialized[p] => Behind(v, p)
    BY <1>1 DEF Lags, Behind
  <2>5. \A p \in 0..1 : u.initialized[p] => u.pageGeneration[p] # u.generation
    BY <2>1, <2>3, <2>4, NextGeneration DEF Behind
  <2>6. Kept(u)
    BY <2>1, <2>5 DEF Kept, Lags
  <2>7. Behind(u, 1 - u.write)
    BY <2>1 DEF Behind, Lags
  <2>8. Blank(u)
    BY <2>1 DEF Blank
  <2>9. u.write \in 0..1
    BY <1>1, <2>1
  <2>10. /\ Sound(Flip(u))
         /\ Displayed(Flip(u)) = [qr |-> u.qr, border |-> Invert, text |-> text]
    BY <2>1, <2>2, <2>5, <2>6, <2>7, <2>8, <2>9, FlipShows
  <2> QED
    BY <2>1, <2>10 DEF u, ShowPrepared
<1> QED
  BY <1>2, <1>3

\* What of the shadows a flip and the status line leave alone.
Shadows(v) == [placement |-> v.placement, template |-> v.template, qr |-> v.qr]

LEMMA FlipKeeps == ASSUME NEW v, IsVga(v) PROVE Shadows(Flip(v)) = Shadows(v)
<1> DEFINE w == Flip(v)
<1>1. w.placement = v.placement /\ w.template = v.template /\ w.qr = v.qr
  BY DEF Flip, IsVga
<1> QED
  BY <1>1 DEF Shadows

LEMMA PreparedKeeps ==
  ASSUME NEW v, IsVga(v), NEW text
  PROVE  Shadows(ShowPrepared(v, text)) = Shadows(v)
<1> DEFINE u == Write(v, text)
<1>1. IsVga(u) /\ Shadows(u) = Shadows(v)
  <2>1. CASE text = "blank" /\ ~v.active
    BY <2>1 DEF Write
  <2>2. CASE text # "blank" \/ v.active
    BY <2>2, WriteFields, WriteIsVga DEF Shadows
  <2> QED
    BY <2>1, <2>2
<1> HIDE DEF u
<1>2. Shadows(Flip(u)) = Shadows(u)
  BY <1>1, FlipKeeps
<1> QED
  BY <1>1, <1>2 DEF u, ShowPrepared

\* Drawing in the shadows leaves the rest alone.
LEMMA Redrawn ==
  ASSUME NEW v, Sound(v), NEW q, NEW u, u = [v EXCEPT !.qr = q]
  PROVE  Sound(u) /\ Shadows(u) = [Shadows(v) EXCEPT !.qr = q] /\ u.invert = v.invert
<1>1. /\ u.placement = v.placement /\ u.template = v.template /\ u.qr = q
      /\ u.border = v.border /\ u.text = v.text /\ u.invert = v.invert
      /\ u.generation = v.generation /\ u.active = v.active
      /\ u.write = v.write /\ u.page = v.page /\ u.initialized = v.initialized
      /\ u.pageInvert = v.pageInvert /\ u.pageGeneration = v.pageGeneration
      /\ u = [placement |-> u.placement, template |-> u.template, qr |-> u.qr,
              border |-> u.border, text |-> u.text, invert |-> u.invert, write |-> u.write,
              page |-> u.page, initialized |-> u.initialized, pageInvert |-> u.pageInvert,
              generation |-> u.generation, pageGeneration |-> u.pageGeneration,
              active |-> u.active]
  BY DEF Sound, IsVga
<1>2. IsVga(u)
  BY <1>1 DEF Sound, IsVga
<1>3. Lags(u)
  BY <1>1 DEF Sound, Lags, Kept, Behind
<1>4. u.placement => Blank(u)
  BY <1>1 DEF Sound, Blank
<1>5. Shadows(u) = [Shadows(v) EXCEPT !.qr = q]
  BY <1>1 DEF Shadows
<1> QED
  BY <1>1, <1>2, <1>3, <1>4, <1>5 DEF Sound

\* The rasters of m channels that hold the codewords `streams`.
Rasters(m, mask, streams) == [c \in 1..m |-> Drawn(mask, streams[c])]

LEMMA DrawnFields ==
  ASSUME NEW mask, NEW stream
  PROVE  /\ Drawn(mask, stream).cw = stream
         /\ \A next : [Drawn(mask, stream) EXCEPT !.cw = next] = Drawn(mask, next)
         /\ [Drawn(mask, stream) EXCEPT !.invert = Invert] = Drawn(mask, stream)
         /\ Drawn(mask, stream) # NoRaster
<1>1. Invert # -1
  BY RasterAssumption
<1> QED
  BY <1>1 DEF Drawn, NoRaster

LEMMA Toggled ==
  ASSUME NEW a, NEW b
  PROVE  SymDiff({}, a) = a /\ SymDiff(a, a) = {} /\ SymDiff(a, SymDiff(b, a)) = b
<1>1. SymDiff({}, a) = a
  BY DEF SymDiff
<1>2. SymDiff(a, a) = {}
  BY DEF SymDiff
<1>3. SymDiff(a, SymDiff(b, a)) \subseteq b
  BY DEF SymDiff
<1>4. b \subseteq SymDiff(a, SymDiff(b, a))
  BY DEF SymDiff
<1> QED
  BY <1>1, <1>2, <1>3, <1>4

\* vga_show_full_qr_at(): everything from scratch.
LEMMA FullShows ==
  ASSUME NEW v, Sound(v), NEW m \in Nat \ {0}, NEW mask, NEW streams, NEW text,
         NEW room \in BOOLEAN,
         NEW w, w = ShowFull(v, Rasters(m, mask, streams), streams, Invert, text, room)
  PROVE  /\ Sound(w)
         /\ Displayed(w) = [qr |-> Rasters(m, mask, streams), border |-> Invert, text |-> text]
         /\ Shadows(w) = [placement |-> TRUE, qr |-> Rasters(m, mask, streams),
                          template |-> IF room THEN Drawn(mask, {}) ELSE NoRaster]
<1> DEFINE r == Rasters(m, mask, streams)
           b == Build(v, r, Invert)
           u == Prepare(b, streams, room)
<1>1. DOMAIN r = 1..m /\ 1 \in 1..m /\ r[1] = Drawn(mask, streams[1])
  BY DEF Rasters
<1>2. [c \in DOMAIN r |-> [r[c] EXCEPT !.invert = Invert]] = r
  BY <1>1, DrawnFields DEF Rasters
<1> HIDE DEF r
<1>3. /\ b.qr = r /\ b.placement = v.placement /\ b.template = v.template
      /\ b.border = Invert /\ b.text = "blank" /\ b.invert = Invert
      /\ b.generation = v.generation /\ b.active = v.active
      /\ b.write = v.write /\ b.page = v.page /\ b.initialized = v.initialized
      /\ b.pageInvert = v.pageInvert /\ b.pageGeneration = v.pageGeneration
      /\ b = [placement |-> b.placement, template |-> b.template, qr |-> b.qr,
              border |-> b.border, text |-> b.text, invert |-> b.invert, write |-> b.write,
              page |-> b.page, initialized |-> b.initialized, pageInvert |-> b.pageInvert,
              generation |-> b.generation, pageGeneration |-> b.pageGeneration,
              active |-> b.active]
  <2>1. b = [v EXCEPT !.qr = r, !.border = Invert, !.text = "blank", !.invert = Invert]
    BY <1>2 DEF Build
  <2> QED
    BY <2>1 DEF Sound, IsVga
<1> HIDE DEF b
<1>4. [b.qr[1] EXCEPT !.cw = SymDiff(@, streams[1])] = Drawn(mask, {})
  <2>1. b.qr[1] = Drawn(mask, streams[1])
    BY <1>1, <1>3
  <2>2. [b.qr[1] EXCEPT !.cw = SymDiff(@, streams[1])]
          = [b.qr[1] EXCEPT !.cw = SymDiff(b.qr[1].cw, streams[1])]
    BY <2>1
  <2>3. SymDiff(b.qr[1].cw, streams[1]) = {}
    <3>1. b.qr[1].cw = streams[1]
      BY <2>1, DrawnFields
    <3> QED
      BY <3>1, Toggled
  <2>4. [Drawn(mask, streams[1]) EXCEPT !.cw = {}] = Drawn(mask, {})
    BY DrawnFields
  <2> QED
    BY <2>1, <2>2, <2>3, <2>4
<1>5. /\ u.qr = r /\ u.placement = TRUE
      /\ u.template = (IF room THEN Drawn(mask, {}) ELSE NoRaster)
      /\ u.border = Invert /\ u.text = "blank" /\ u.invert = Invert
      /\ u.generation = v.generation /\ u.active = v.active
      /\ u.write = v.write /\ u.page = v.page /\ u.initialized = v.initialized
      /\ u.pageInvert = v.pageInvert /\ u.pageGeneration = v.pageGeneration
      /\ u = [placement |-> u.placement, template |-> u.template, qr |-> u.qr,
              border |-> u.border, text |-> u.text, invert |-> u.invert, write |-> u.write,
              page |-> u.page, initialized |-> u.initialized, pageInvert |-> u.pageInvert,
              generation |-> u.generation, pageGeneration |-> u.pageGeneration,
              active |-> u.active]
  <2> DEFINE t == IF room THEN Drawn(mask, {}) ELSE NoRaster
  <2>1. u = [b EXCEPT !.placement = TRUE, !.template = t]
    BY <1>4 DEF Prepare
  <2> HIDE DEF t
  <2>2. /\ u.qr = r /\ u.placement = TRUE /\ u.template = t
        /\ u.border = Invert /\ u.text = "blank" /\ u.invert = Invert
        /\ u.generation = v.generation /\ u.active = v.active
        /\ u.write = v.write /\ u.page = v.page /\ u.initialized = v.initialized
        /\ u.pageInvert = v.pageInvert /\ u.pageGeneration = v.pageGeneration
        /\ u = [placement |-> u.placement, template |-> u.template, qr |-> u.qr,
                border |-> u.border, text |-> u.text, invert |-> u.invert, write |-> u.write,
                page |-> u.page, initialized |-> u.initialized, pageInvert |-> u.pageInvert,
                generation |-> u.generation, pageGeneration |-> u.pageGeneration,
                active |-> u.active]
    BY <1>3, <2>1
  <2> QED
    BY <2>2 DEF t
<1>6. w = ShowPrepared(u, text)
  BY DEF ShowFull, ShowPrepared, u, b, r
<1> HIDE DEF u
<1>7. IsVga(u)
  BY <1>5 DEF Sound, IsVga
<1>8. Lags(u)
  BY <1>5 DEF Sound, Lags, Kept, Behind
<1>9. Blank(u)
  BY <1>5 DEF Blank
<1>10. /\ Sound(w)
       /\ Displayed(w) = [qr |-> u.qr, border |-> Invert, text |-> text]
  BY <1>6, <1>7, <1>8, <1>9, PreparedShows
<1>11. Shadows(w) = Shadows(u)
  BY <1>6, <1>7, PreparedKeeps
<1> QED
  BY <1>5, <1>10, <1>11 DEF Shadows, r

\* The shadows hold the streams under a mask, and the template, if there is
\* one, the modules of the mask alone.
Holds(v, m, mask, streams) ==
  /\ v.placement
  /\ v.qr = Rasters(m, mask, streams)
  /\ v.template \in {NoRaster, Drawn(mask, {})}

\* vga_apply_codewords_direct(), and the difference to what is there.
LEMMA Directly ==
  ASSUME NEW v, Sound(v), NEW m \in Nat \ {0}, NEW mask, NEW next, DOMAIN v.qr = 1..m,
         v.template = Drawn(mask, {}), v.placement
  PROVE  /\ Sound(ApplyDirect(v, next)) /\ Holds(ApplyDirect(v, next), m, mask, next)
         /\ ApplyDirect(v, next).template = v.template
<1> DEFINE u == ApplyDirect(v, next)
           q == [c \in DOMAIN v.qr |-> [v.template EXCEPT !.cw = SymDiff(@, next[c])]]
<1>1. q = Rasters(m, mask, next)
  <2>1. \A c : SymDiff(v.template.cw, next[c]) = next[c]
    <3>1. v.template.cw = {}
      BY DrawnFields
    <3> QED
      BY <3>1, Toggled
  <2>2. \A c : [v.template EXCEPT !.cw = SymDiff(@, next[c])]
                 = [v.template EXCEPT !.cw = SymDiff(v.template.cw, next[c])]
    BY DEF Drawn
  <2>3. \A c : [v.template EXCEPT !.cw = next[c]] = Drawn(mask, next[c])
    BY DrawnFields
  <2> QED
    BY <2>1, <2>2, <2>3 DEF Rasters
<1>2. u = [v EXCEPT !.qr = q]
  BY DEF ApplyDirect
<1> HIDE DEF q, u
<1>3. Sound(u) /\ Shadows(u) = [Shadows(v) EXCEPT !.qr = q]
  BY <1>2, Redrawn
<1>4. u.placement = v.placement /\ u.template = v.template /\ u.qr = q
  BY <1>3 DEF Shadows
<1>5. Sound(u) /\ Holds(u, m, mask, next)
  BY <1>1, <1>3, <1>4 DEF Holds
<1> QED
  BY <1>4, <1>5 DEF u

LEMMA ByDelta ==
  ASSUME NEW v, Sound(v), NEW m \in Nat \ {0}, NEW mask, NEW next, NEW current,
         Holds(v, m, mask, current)
  PROVE  Sound(ApplyDelta(v, next, current)) /\ Holds(ApplyDelta(v, next, current), m, mask, next)
<1> DEFINE u == ApplyDelta(v, next, current)
           q == [c \in DOMAIN v.qr |->
                   [v.qr[c] EXCEPT !.cw = SymDiff(@, SymDiff(next[c], current[c]))]]
<1>1. q = Rasters(m, mask, next)
  <2>1. DOMAIN v.qr = 1..m /\ \A c \in 1..m : v.qr[c] = Drawn(mask, current[c])
    BY DEF Holds, Rasters
  <2>2. \A c \in 1..m : SymDiff(v.qr[c].cw, SymDiff(next[c], current[c])) = next[c]
    BY <2>1, Toggled, DrawnFields
  <2>3. \A c \in 1..m : [v.qr[c] EXCEPT !.cw = SymDiff(@, SymDiff(next[c], current[c]))]
          = [v.qr[c] EXCEPT !.cw = SymDiff(v.qr[c].cw, SymDiff(next[c], current[c]))]
    BY <2>1 DEF Drawn
  <2>4. \A c \in 1..m : [v.qr[c] EXCEPT !.cw = next[c]] = Drawn(mask, next[c])
    BY <2>1, DrawnFields
  <2> QED
    BY <2>1, <2>2, <2>3, <2>4 DEF Rasters
<1>2. u = [v EXCEPT !.qr = q]
  BY DEF ApplyDelta
<1> HIDE DEF q, u
<1>3. Sound(u) /\ Shadows(u) = [Shadows(v) EXCEPT !.qr = q]
  BY <1>2, Redrawn
<1>4. u.placement = v.placement /\ u.template = v.template /\ u.qr = q
  BY <1>3 DEF Shadows
<1>5. Sound(u) /\ Holds(u, m, mask, next)
  BY <1>1, <1>3, <1>4 DEF Holds
<1> QED
  BY <1>5 DEF u

-----------------------------------------------------------------------------
(* Codewords.                                                              *)

Sized == sizes \in Seq(1..Full) /\ sizes # <<>>

DataFrame(b, i, again) == [item |-> Data(i, again), base |-> b]
ChainOf(i) == Item("CHAIN_XOR", i, 2, 1)

LEMMA PayloadType == ASSUME Sized, NEW g \in Nat PROVE PayloadLen(g) \in 1..Full
<1>1. Len(sizes) \in Nat /\ Len(sizes) > 0
  BY DEF Sized
<1>2. g % Len(sizes) \in 0..(Len(sizes) - 1)
  BY <1>1, Division
<1>3. PICK k \in 1..Len(sizes) : k = (g % Len(sizes)) + 1
  BY <1>1, <1>2
<1>4. sizes[k] \in 1..Full
  BY <1>3 DEF Sized, Full
<1> QED
  BY <1>3, <1>4 DEF PayloadLen

LEMMA MaxOne == \A x \in Int : Max({x}) = x
BY DEF Max

LEMMA DataFields ==
  ASSUME NEW i \in Nat, NEW again \in BOOLEAN
  PROVE  /\ Data(i, again).kind = "DATA" /\ Data(i, again).first = i
         /\ Data(i, again).repeated = again /\ Data(i, again).count = 1
         /\ Data(i, again).stride = 1
         /\ Members(Data(i, again)) = {i}
<1>1. Data(i, again) = [kind |-> "DATA", first |-> i, count |-> 1, stride |-> 1,
                        repeated |-> again]
  BY DEF Data, Item
<1>2. Members(Data(i, again)) = {i + k * 1 : k \in 0..(1 - 1)}
  BY <1>1 DEF Members
<1>3. 0..(1 - 1) = {0} /\ i + 0 * 1 = i
  OBVIOUS
<1>4. Members(Data(i, again)) = {i}
  BY <1>2, <1>3
<1> QED
  BY <1>1, <1>4

LEMMA DataEncoded ==
  ASSUME Sized, NEW b \in Nat, NEW i \in Nat, NEW again \in BOOLEAN
  PROVE  /\ LenOf(DataFrame(b, i, again)) = PayloadLen(b + i)
         /\ Encode(DataFrame(b, i, again))
              = {<<"length", PayloadLen(b + i)>>, <<"header", DataFrame(b, i, again)>>,
                 <<"payload", b + i>>}
<1> DEFINE f == DataFrame(b, i, again)
<1>1. f.item = Data(i, again) /\ f.base = b
  BY DEF DataFrame
<1>2. Members(f.item) = {i} /\ f.item.kind = "DATA"
  BY <1>1, DataFields
<1>3. Sources(f) = {b + i}
  BY <1>1, <1>2 DEF Sources
<1> HIDE DEF f
<1>4. Lengths3(Sources(f)) = {PayloadLen(b + i)}
  BY <1>3 DEF Lengths3
<1>5. PayloadLen(b + i) \in Int
  BY PayloadType
<1>6. LenOf(f) = PayloadLen(b + i)
  BY <1>3, <1>4, <1>5, MaxOne DEF LenOf
<1>7. Body(f) = {<<"payload", b + i>>}
  BY <1>2, <1>3 DEF Body, Summed
<1>8. Encode(f) = {<<"length", PayloadLen(b + i)>>, <<"header", f>>, <<"payload", b + i>>}
  BY <1>6, <1>7 DEF Encode
<1> QED
  BY <1>6, <1>8 DEF f

\* An equation over frames of one length.
LEMMA EquationEncoded ==
  ASSUME Sized, NEW f, NEW l \in Int, NEW S, S # {}, Sources(f) = S,
         \A g \in S : PayloadLen(g) = l,
         f.item.kind = "CHAIN_XOR" \/ f.item.stride = 3
  PROVE  /\ LenOf(f) = l /\ SameLength(f)
         /\ Encode(f) = {<<"length", l>>, <<"header", f>>} \cup {<<"payload", g>> : g \in S}
<1>1. Lengths3(Sources(f)) = {l}
  BY DEF Lengths3
<1>2. LenOf(f) = l
  BY <1>1, MaxOne DEF LenOf
<1>3. SameLength(f)
  <2>1. Cardinality({l}) = 1
    BY FS_Singleton
  <2> QED
    BY <1>1, <2>1 DEF SameLength
<1>4. Body(f) = {<<"payload", g>> : g \in S}
  BY <1>3 DEF Body, Summed
<1> QED
  BY <1>2, <1>3, <1>4 DEF Encode

LEMMA ChainFields ==
  ASSUME NEW i \in Nat
  PROVE  /\ ChainOf(i).kind = "CHAIN_XOR"
         /\ ChainOf(i).first = i
         /\ Members(ChainOf(i)) = {i, i + 1}
<1>1. ChainOf(i) = [kind |-> "CHAIN_XOR", first |-> i, count |-> 2, stride |-> 1,
                    repeated |-> FALSE]
  BY DEF ChainOf, Item
<1>2. Members(ChainOf(i)) = {i + k * 1 : k \in 0..(2 - 1)}
  BY <1>1 DEF Members
<1>3. 0..(2 - 1) = {0, 1} /\ i + 0 * 1 = i /\ i + 1 * 1 = i + 1
  OBVIOUS
<1>4. Members(ChainOf(i)) = {i, i + 1}
  BY <1>2, <1>3
<1>5. ChainOf(i).kind = "CHAIN_XOR"
  BY <1>1
<1>6. ChainOf(i).first = i
  BY <1>1
<1> QED
  BY <1>4, <1>5, <1>6

Apart(l, h1, h2, h3, p1, p2) ==
  /\ l # h1 /\ l # h2 /\ l # h3 /\ l # p1 /\ l # p2
  /\ h1 # h2 /\ h1 # h3 /\ h2 # h3 /\ p1 # p2
  /\ h1 # p1 /\ h1 # p2 /\ h2 # p1 /\ h2 # p2 /\ h3 # p1 /\ h3 # p2

\* Parts that are in both streams cancel.
LEMMA CancelTwo ==
  ASSUME NEW l, NEW h1, NEW h2, NEW h3, NEW p1, NEW p2,
         Apart(l, h1, h2, h3, p1, p2)
  PROVE  SymDiff(SymDiff({l, h1, p1}, {l, h2, p2}),
                 SymDiff(SymDiff({h1}, {h2}), {h3}) \cup {l}) = {l, h3} \cup {p1, p2}
<1>1. SymDiff({l, h1, p1}, {l, h2, p2}) = {h1, p1, h2, p2}
  BY DEF SymDiff, Apart
<1>2. SymDiff({h1}, {h2}) = {h1, h2}
  BY DEF SymDiff, Apart
<1>3. SymDiff({h1, h2}, {h3}) = {h1, h2, h3}
  BY DEF SymDiff, Apart
<1>4. SymDiff({h1, p1, h2, p2}, {h1, h2, h3} \cup {l}) = {l, h3} \cup {p1, p2}
  BY DEF SymDiff, Apart
<1> QED
  BY <1>1, <1>2, <1>3, <1>4

ChainFrame(b, i) == [item |-> ChainOf(i), base |-> b]

\* Two streams of full length and the headers make the chain equation.
ChainStream(raw, right, f) ==
  CorrectXor(SymDiff(Encode(raw), Encode(right)), 2,
             SymDiff(SymDiff({<<"header", raw>>}, {<<"header", right>>}), {<<"header", f>>}))

FullPair(b, i) ==
  LenOf(DataFrame(b, i, FALSE)) = Full /\ LenOf(DataFrame(b, i + 1, FALSE)) = Full

LEMMA ChainDerived ==
  ASSUME Sized, NEW b \in Nat, NEW i \in Nat, NEW again \in BOOLEAN, FullPair(b, i)
  PROVE  ChainStream(DataFrame(b, i, again), DataFrame(b, i + 1, FALSE), ChainFrame(b, i))
           = Encode(ChainFrame(b, i))
<1> PICK raw, right, f : raw = DataFrame(b, i, again) /\ right = DataFrame(b, i + 1, FALSE)
                         /\ f = ChainFrame(b, i)
  OBVIOUS
<1> DEFINE g1 == b + i
           g2 == b + (i + 1)
<1>1. FALSE \in BOOLEAN /\ i + 1 \in Nat
  OBVIOUS
<1>2. PayloadLen(g1) = Full /\ PayloadLen(g2) = Full
  BY <1>1, DataEncoded DEF FullPair
<1>3. /\ Encode(raw) = {<<"length", Full>>, <<"header", raw>>, <<"payload", g1>>}
      /\ Encode(right) = {<<"length", Full>>, <<"header", right>>, <<"payload", g2>>}
  BY <1>1, <1>2, DataEncoded
<1>4. Encode(f) = {<<"length", Full>>, <<"header", f>>} \cup {<<"payload", g>> : g \in {g1, g2}}
  <2>1. Sources(f) = {g1, g2} /\ {g1, g2} # {}
    BY ChainFields DEF Sources, ChainFrame
  <2>2. f.item.kind = "CHAIN_XOR"
    BY ChainFields DEF ChainFrame
  <2>3. Full \in Int /\ \A g \in {g1, g2} : PayloadLen(g) = Full
    BY <1>2 DEF Full
  <2> HIDE DEF g1, g2
  <2> QED
    BY <2>1, <2>2, <2>3, EquationEncoded
<1>5. raw # right /\ raw # f /\ right # f
  <2>1. raw.item.first = i /\ right.item.first = i + 1
    BY <1>1, DataFields DEF DataFrame
  <2>2. raw.item.kind = "DATA" /\ right.item.kind = "DATA"
    BY <1>1, DataFields DEF DataFrame
  <2>3. f.item.kind = "CHAIN_XOR"
    BY ChainFields DEF ChainFrame
  <2>4. i # i + 1
    OBVIOUS
  <2>5. raw # right
    BY <2>1, <2>4
  <2>6. raw # f /\ right # f
    BY <2>2, <2>3
  <2> QED
    BY <2>5, <2>6
<1>6. g1 # g2
  OBVIOUS
<1> HIDE DEF g1, g2
<1>7. PICK l, h1, h2, h3, p1, p2 :
        /\ l = <<"length", Full>> /\ p1 = <<"payload", g1>> /\ p2 = <<"payload", g2>>
        /\ h1 = <<"header", raw>> /\ h2 = <<"header", right>> /\ h3 = <<"header", f>>
  OBVIOUS
<1>8. /\ l # h1 /\ l # h2 /\ l # h3 /\ l # p1 /\ l # p2
      /\ h1 # p1 /\ h1 # p2 /\ h2 # p1 /\ h2 # p2 /\ h3 # p1 /\ h3 # p2
  BY <1>7
<1>9. h1 # h2 /\ h1 # h3 /\ h2 # h3 /\ p1 # p2
  <2>1. \A x, y : <<"header", x>> = <<"header", y>> => x = y
    OBVIOUS
  <2>2. \A x, y : <<"payload", x>> = <<"payload", y>> => x = y
    OBVIOUS
  <2> QED
    BY <1>5, <1>6, <1>7, <2>1, <2>2
<1>10. SymDiff(SymDiff({l, h1, p1}, {l, h2, p2}),
              SymDiff(SymDiff({h1}, {h2}), {h3}) \cup {l}) = {l, h3} \cup {p1, p2}
  <2>1. Apart(l, h1, h2, h3, p1, p2)
    BY <1>8, <1>9 DEF Apart
  <2> QED
    BY <2>1, CancelTwo
<1>11. {<<"payload", g>> : g \in {g1, g2}} = {p1, p2}
  BY <1>7
<1>12. \A s, h : CorrectXor(s, 2, h) = SymDiff(s, h \cup {l})
  <2>1. 2 % 2 = 0
    OBVIOUS
  <2> QED
    BY <1>7, <2>1 DEF CorrectXor
<1>13. Encode(raw) = {l, h1, p1} /\ Encode(right) = {l, h2, p2}
       /\ Encode(f) = {l, h3} \cup {p1, p2}
  BY <1>3, <1>4, <1>7, <1>11
<1>14. SymDiff(SymDiff({<<"header", raw>>}, {<<"header", right>>}), {<<"header", f>>})
         = SymDiff(SymDiff({h1}, {h2}), {h3})
  BY <1>7
<1>15. SymDiff(Encode(raw), Encode(right)) = SymDiff({l, h1, p1}, {l, h2, p2})
  BY <1>13
<1> DEFINE s == SymDiff({l, h1, p1}, {l, h2, p2})
           h == SymDiff(SymDiff({h1}, {h2}), {h3})
<1>16. CorrectXor(s, 2, h) = Encode(f)
  <2>1. SymDiff(s, h \cup {l}) = Encode(f)
    BY <1>10, <1>13
  <2> HIDE DEF s, h
  <2> QED
    BY <1>12, <2>1
<1> QED
  BY <1>14, <1>15, <1>16 DEF ChainStream

-----------------------------------------------------------------------------
(* Images in BW.                                                           *)

IsCache(k) ==
  /\ k = [buffers |-> k.buffers, valid |-> k.valid, key |-> k.key, raw |-> k.raw, cw |-> k.cw]
  /\ k.valid \in BOOLEAN

IsEncoder(e) ==
  /\ e = [raw |-> e.raw, headers |-> e.headers, cw |-> e.cw, mask |-> e.mask,
          ready |-> e.ready, cache |-> e.cache, acc |-> e.acc]
  /\ e.ready \in BOOLEAN
  /\ IsCache(e.cache)

\* The page on display.
Presents(v, m, mask, streams, text) ==
  Displayed(v) = [qr |-> Rasters(m, mask, streams), border |-> Invert, text |-> text]

\* The fast renderers start from what the shadows hold.
MonoReady(v, e) == e.ready => Holds(v, 1, e.mask, e.cw)

LEMMA OneRaster ==
  ASSUME NEW mask, NEW stream
  PROVE  <<Drawn(mask, stream)>> = Rasters(1, mask, <<stream>>)
<1>1. Rasters(1, mask, <<stream>>) = [c \in 1..1 |-> Drawn(mask, <<stream>>[c])]
  BY DEF Rasters
<1>2. \A c \in 1..1 : <<stream>>[c] = stream
  OBVIOUS
<1> DEFINE x == Drawn(mask, stream)
<1>3. \A c \in 1..1 : Drawn(mask, <<stream>>[c]) = x
  BY <1>2
<1> HIDE DEF x
<1>4. <<x>> = [c \in 1..1 |-> x]
  OBVIOUS
<1>5. Rasters(1, mask, <<stream>>) = [c \in 1..1 |-> x]
  BY <1>1, <1>3
<1> QED
  BY <1>4, <1>5 DEF x

Draws(d, e, stream, mask, text) ==
  \E room \in BOOLEAN : d = Display(e, stream, mask, text, room)

\* The codewords are shown, and are what the next image starts from.
Displays(d, e, stream, mask, text) ==
  /\ Sound(d.vga) /\ Presents(d.vga, 1, mask, <<stream>>, text)
  /\ MonoReady(d.vga, d.enc) /\ IsEncoder(d.enc)
  /\ d.enc.raw = e.raw /\ d.enc.cache = e.cache /\ d.enc.acc = e.acc
  /\ d.enc.cw = <<stream>> /\ d.enc.mask = mask /\ d.enc.ready = TRUE
  /\ d.ok = TRUE

\* display_encoded(): whichever way it is drawn, the codewords are what is
\* shown.
LEMMA DisplayShows ==
  ASSUME Sound(vga), enc.ready \in BOOLEAN, MonoReady(vga, enc), NEW e, IsEncoder(e),
         NEW stream, NEW mask, NEW text, NEW d, Draws(d, e, stream, mask, text)
  PROVE  Displays(d, e, stream, mask, text)
<1> PICK room \in BOOLEAN : d = Display(e, stream, mask, text, room)
  BY DEF Draws
<1> DEFINE prepared == CanPrepare(mask)
           drawn == IF DirectReady(vga) THEN ApplyDirect(vga, <<stream>>)
                    ELSE ApplyDelta(vga, <<stream>>, enc.cw)
           w == IF prepared THEN ShowPrepared(drawn, text)
                ELSE ShowFull(vga, <<Drawn(mask, stream)>>, <<stream>>, Invert, text, room)
<1>1. 1 \in Nat \ {0}
  OBVIOUS
<1>2. Sound(w) /\ Presents(w, 1, mask, <<stream>>, text) /\ Holds(w, 1, mask, <<stream>>)
      /\ (prepared => MayShowPrepared(vga, Invert))
  <2>1. CASE prepared
    <3>1. enc.ready /\ mask = enc.mask
      BY <2>1 DEF CanPrepare
    <3>2. Holds(vga, 1, mask, enc.cw)
      BY <3>1 DEF MonoReady
    <3>3. Sound(drawn) /\ Holds(drawn, 1, mask, <<stream>>)
      <4>1. CASE DirectReady(vga)
        <5>1. vga.template = Drawn(mask, {}) /\ vga.placement /\ DOMAIN vga.qr = 1..1
          BY <3>2, <4>1 DEF DirectReady, Holds, Rasters
        <5> QED
          BY <1>1, <4>1, <5>1, Directly
      <4>2. CASE ~DirectReady(vga)
        BY <1>1, <3>2, <4>2, ByDelta
      <4> QED
        BY <4>1, <4>2
    <3> HIDE DEF drawn
    <3>4. IsVga(drawn) /\ Lags(drawn) /\ Blank(drawn)
      BY <3>3 DEF Sound, Holds
    <3>5. w = ShowPrepared(drawn, text)
      BY <2>1
    <3> HIDE DEF w
    <3>6. Sound(w) /\ Displayed(w) = [qr |-> drawn.qr, border |-> Invert, text |-> text]
      BY <3>4, <3>5, PreparedShows
    <3>7. Shadows(w) = Shadows(drawn)
      BY <3>4, <3>5, PreparedKeeps
    <3>8. w.placement = drawn.placement /\ w.qr = drawn.qr /\ w.template = drawn.template
      BY <3>7 DEF Shadows
    <3>9. Holds(w, 1, mask, <<stream>>)
      BY <3>3, <3>8 DEF Holds
    <3>10. Presents(w, 1, mask, <<stream>>, text)
      BY <3>3, <3>6 DEF Presents, Holds
    <3>11. MayShowPrepared(vga, Invert)
      BY <3>2 DEF MayShowPrepared, Holds, Sound, Blank
    <3> QED
      BY <3>6, <3>9, <3>10, <3>11
  <2>2. CASE ~prepared
    <3>1. w = ShowFull(vga, Rasters(1, mask, <<stream>>), <<stream>>, Invert, text, room)
      BY <2>2, OneRaster
    <3> HIDE DEF w
    <3>2. /\ Sound(w)
          /\ Displayed(w) = [qr |-> Rasters(1, mask, <<stream>>), border |-> Invert, text |-> text]
          /\ Shadows(w) = [placement |-> TRUE, qr |-> Rasters(1, mask, <<stream>>),
                           template |-> IF room THEN Drawn(mask, {}) ELSE NoRaster]
      <4>1. PICK streams : streams = <<stream>>
        OBVIOUS
      <4>2. w = ShowFull(vga, Rasters(1, mask, streams), streams, Invert, text, room)
        BY <3>1, <4>1
      <4>3. /\ Sound(w)
            /\ Displayed(w) = [qr |-> Rasters(1, mask, streams), border |-> Invert, text |-> text]
            /\ Shadows(w) = [placement |-> TRUE, qr |-> Rasters(1, mask, streams),
                             template |-> IF room THEN Drawn(mask, {}) ELSE NoRaster]
        BY <1>1, <4>2, FullShows
      <4> QED
        BY <4>1, <4>3
    <3>3. w.placement = TRUE /\ w.qr = Rasters(1, mask, <<stream>>)
          /\ w.template = IF room THEN Drawn(mask, {}) ELSE NoRaster
      BY <3>2 DEF Shadows
    <3> QED
      BY <2>2, <3>2, <3>3 DEF Presents, Holds
  <2> QED
    BY <2>1, <2>2
<1>3. d = [vga |-> w,
           enc |-> [e EXCEPT !.cw = <<stream>>, !.mask = mask, !.ready = DeltaReady(w)],
           ok |-> prepared => MayShowPrepared(vga, Invert)]
  BY DEF Display
<1>4. DeltaReady(w) = TRUE
  BY <1>2 DEF DeltaReady, Holds, Sound, IsVga
<1> HIDE DEF prepared, w
<1>5. d.vga = w /\ d.ok = TRUE
  <2>1. d.vga = w /\ d.ok = (prepared => MayShowPrepared(vga, Invert))
    BY <1>3
  <2> QED
    BY <1>2, <2>1
<1>6. d.enc = [e EXCEPT !.cw = <<stream>>, !.mask = mask, !.ready = TRUE]
  BY <1>3, <1>4
<1>7. /\ d.enc.raw = e.raw /\ d.enc.cache = e.cache /\ d.enc.acc = e.acc
      /\ d.enc.cw = <<stream>> /\ d.enc.mask = mask /\ d.enc.ready = TRUE
      /\ d.enc = [raw |-> d.enc.raw, headers |-> d.enc.headers, cw |-> d.enc.cw,
                  mask |-> d.enc.mask, ready |-> d.enc.ready, cache |-> d.enc.cache,
                  acc |-> d.enc.acc]
  BY <1>6 DEF IsEncoder
<1>8. IsEncoder(d.enc)
  BY <1>7 DEF IsEncoder
<1>9. MonoReady(d.vga, d.enc)
  BY <1>2, <1>5, <1>7 DEF MonoReady
<1> QED
  BY <1>2, <1>5, <1>7, <1>8, <1>9 DEF Displays

\* The chain cache holds the codewords of the frame its key names, which is
\* never the first of a window.
CacheSound(k) ==
  k.valid =>
    \E b \in Nat, i \in Nat \ {0} :
      /\ k.key = <<k.key[1], b + i, i, QrMask>>
      /\ k.cw = Encode(DataFrame(b, i, FALSE))

\* If the cache would be hit by frame i, then with its header.
Fresh(k, i) == k.valid /\ k.key = CacheKey(i, QrMask) => k.raw = DataFrame(base, i, FALSE)

MonoState ==
  /\ Sized /\ base \in Nat
  /\ Sound(vga) /\ IsEncoder(enc) /\ MonoReady(vga, enc) /\ CacheSound(enc.cache)

\* What a show_*() call of BW makes of it.
MonoShows(d, f, mask, text) ==
  /\ Sound(d.vga) /\ IsEncoder(d.enc) /\ MonoReady(d.vga, d.enc) /\ CacheSound(d.enc.cache)
  /\ Presents(d.vga, 1, mask, <<Encode(f)>>, text)
  /\ d.enc.cw = <<Encode(f)>> /\ d.enc.mask = mask /\ d.enc.ready
  /\ d.enc.acc = enc.acc /\ d.ok = TRUE

Renewed(e, raw, k) == [e EXCEPT !.raw = raw, !.cache = k]

LEMMA EncoderSame ==
  ASSUME NEW e, IsEncoder(e), NEW raw, NEW k, IsCache(k)
  PROVE  /\ IsEncoder(Renewed(e, raw, k)) /\ Renewed(e, raw, k).raw = raw
         /\ Renewed(e, raw, k).cache = k /\ Renewed(e, raw, k).acc = e.acc
<1> DEFINE x == Renewed(e, raw, k)
<1>1. x = [e EXCEPT !.raw = raw, !.cache = k]
  BY DEF Renewed
<1> HIDE DEF x
<1>2. /\ x.raw = raw /\ x.headers = e.headers /\ x.cw = e.cw /\ x.mask = e.mask
      /\ x.ready = e.ready /\ x.cache = k /\ x.acc = e.acc
      /\ x = [raw |-> x.raw, headers |-> x.headers, cw |-> x.cw, mask |-> x.mask,
              ready |-> x.ready, cache |-> x.cache, acc |-> x.acc]
  BY <1>1 DEF IsEncoder
<1>3. IsEncoder(x)
  BY <1>2 DEF IsEncoder
<1> QED
  BY <1>2, <1>3 DEF x

LEMMA WholeShows ==
  ASSUME MonoState, NEW item, NEW text, NEW room \in BOOLEAN,
         NEW d, d = ShowWhole(item, text, room)
  PROVE  MonoShows(d, Frame(item), QrMask, text) /\ d.enc.cache = enc.cache
<1> DEFINE e == [enc EXCEPT !.raw = Frame(item)]
           stream == Encode(Frame(item))
<1>1. IsEncoder(e) /\ e.cache = enc.cache /\ e.acc = enc.acc
  <2>1. e = Renewed(enc, Frame(item), enc.cache) /\ IsCache(enc.cache)
    BY DEF MonoState, IsEncoder, Renewed
  <2> HIDE DEF e
  <2> QED
    BY <2>1, EncoderSame DEF MonoState
<1>2. Draws(d, e, stream, QrMask, text)
  BY DEF ShowWhole, Draws
<1>3. enc.ready \in BOOLEAN /\ Sound(vga) /\ MonoReady(vga, enc)
  BY DEF MonoState, IsEncoder
<1> HIDE DEF e, stream
<1>4. Displays(d, e, stream, QrMask, text)
  BY <1>1, <1>2, <1>3, DisplayShows
<1> QED
  BY <1>1, <1>4 DEF Displays, MonoShows, MonoState, stream

LEMMA FrameShows ==
  ASSUME MonoState, NEW i \in Nat, NEW again \in BOOLEAN, NEW item, item = Data(i, again),
         NEW mask, NEW room \in BOOLEAN, NEW d, d = ShowFrame(item, mask, room)
  PROVE  /\ MonoShows(d, Frame(item), mask, "blank")
         /\ d.enc.cache.valid => d.enc.cache = enc.cache
         /\ cfg.chain = 2 /\ Fresh(enc.cache, i) => d.enc.raw = Frame(item)
<1> DEFINE f == Frame(item)
           stream == Encode(f)
<1>1. item.first = i /\ item.repeated = again /\ f = DataFrame(base, i, again)
  BY DataFields DEF Frame, DataFrame
<1>2. enc.ready \in BOOLEAN /\ Sound(vga) /\ MonoReady(vga, enc) /\ IsCache(enc.cache)
      /\ IsEncoder(enc) /\ CacheSound(enc.cache)
  BY DEF MonoState, IsEncoder
<1>3. CASE CacheHit(item, mask)
  <2>1. again = FALSE /\ enc.cache.valid /\ enc.cache.key = CacheKey(i, mask)
    BY <1>1, <1>3 DEF CacheHit
  <2>2. PICK b \in Nat, j \in Nat \ {0} :
          /\ enc.cache.key = <<enc.cache.key[1], b + j, j, QrMask>>
          /\ enc.cache.cw = Encode(DataFrame(b, j, FALSE))
    BY <1>2, <2>1 DEF CacheSound
  <2>3. base + i = b + j /\ i = j /\ mask = QrMask
    BY <2>1, <2>2 DEF CacheKey
  <2>4. b = base
    BY <2>3 DEF MonoState
  <2>5. enc.cache.cw = stream
    BY <1>1, <2>1, <2>2, <2>3, <2>4
  <2>6. Fresh(enc.cache, i) => enc.cache.raw = f
    BY <1>1, <2>1, <2>3 DEF Fresh
  <2> DEFINE k == [enc.cache EXCEPT !.valid = FALSE]
             e == Renewed(enc, enc.cache.raw, k)
  <2>7. [enc EXCEPT !.raw = enc.cache.raw, !.cache.valid = FALSE] = e
    BY <1>2 DEF IsEncoder, Renewed
  <2>8. k.valid = FALSE /\ IsCache(k)
    <3>1. k = [enc.cache EXCEPT !.valid = FALSE]
      OBVIOUS
    <3> HIDE DEF k
    <3>2. k.buffers = enc.cache.buffers /\ k.valid = FALSE /\ k.key = enc.cache.key
          /\ k.raw = enc.cache.raw /\ k.cw = enc.cache.cw
          /\ k = [buffers |-> k.buffers, valid |-> k.valid, key |-> k.key, raw |-> k.raw,
                 cw |-> k.cw]
      BY <1>2, <3>1 DEF IsCache
    <3> QED
      BY <3>2 DEF IsCache
  <2> HIDE DEF k
  <2>9. IsEncoder(e) /\ e.raw = enc.cache.raw /\ e.cache = k /\ e.acc = enc.acc
    BY <1>2, <2>8, EncoderSame
  <2>10. Draws(d, e, stream, mask, "blank")
    BY <1>3, <2>5, <2>7 DEF ShowFrame, Draws
  <2> HIDE DEF e, stream, f
  <2>11. Displays(d, e, stream, mask, "blank")
    BY <1>2, <2>9, <2>10, DisplayShows
  <2>12. MonoShows(d, f, mask, "blank")
    BY <2>8, <2>9, <2>11 DEF Displays, MonoShows, CacheSound, stream
  <2> QED
    BY <2>6, <2>8, <2>9, <2>11, <2>12 DEF f, Displays
<1>4. CASE ~CacheHit(item, mask)
  <2> DEFINE prepacked == CanPrepare(mask) /\ LenOf(f) = Full
             header == IF prepacked /\ cfg.chain # 2 THEN enc.raw ELSE f
             e == [enc EXCEPT !.raw = header]
  <2>1. Draws(d, e, stream, mask, "blank")
    BY <1>4 DEF ShowFrame, Draws
  <2>2. cfg.chain = 2 => header = f
    OBVIOUS
  <2> HIDE DEF header
  <2>3. e = Renewed(enc, header, enc.cache)
    BY <1>2 DEF IsEncoder, Renewed
  <2> HIDE DEF e
  <2>4. IsEncoder(e) /\ e.raw = header /\ e.cache = enc.cache /\ e.acc = enc.acc
    BY <1>2, <2>3, EncoderSame
  <2> HIDE DEF stream, f
  <2>5. Displays(d, e, stream, mask, "blank")
    BY <1>2, <2>1, <2>4, DisplayShows
  <2>6. MonoShows(d, f, mask, "blank")
    BY <1>2, <2>4, <2>5 DEF Displays, MonoShows, stream
  <2> QED
    BY <2>2, <2>4, <2>5, <2>6 DEF f, Displays
<1> QED
  BY <1>3, <1>4

LEMMA CacheKeeps ==
  ASSUME MonoState, NEW i \in Nat, NEW spare \in BOOLEAN, CanPrepare(QrMask),
         NEW k, k = ChainCache(ChainOf(i), spare)
  PROVE  IsCache(k) /\ CacheSound(k) /\ Fresh(k, i + 1)
<1> DEFINE right == DataFrame(base, i + 1, FALSE)
           cache == enc.cache
<1>1. Frame(Data(ChainOf(i).first + 1, FALSE)) = right /\ ChainOf(i).first = i
  BY ChainFields DEF Frame, DataFrame
<1>2. IsCache(cache) /\ CacheSound(cache) /\ base \in Nat
  BY DEF MonoState, IsEncoder
<1>3. k = IF ~(cache.buffers \/ spare)
          THEN [cache EXCEPT !.buffers = FALSE, !.valid = FALSE]
          ELSE IF LenOf(right) = Full
          THEN [buffers |-> TRUE, valid |-> TRUE, key |-> CacheKey(i + 1, QrMask),
                raw |-> right, cw |-> Encode(right)]
          ELSE [cache EXCEPT !.buffers = TRUE, !.raw = right]
  BY <1>1 DEF ChainCache
<1> HIDE DEF cache
<1>4. CASE ~(cache.buffers \/ spare)
  <2>1. k.valid = FALSE /\ IsCache(k)
    BY <1>2, <1>3, <1>4 DEF IsCache
  <2> QED
    BY <2>1 DEF CacheSound, Fresh
<1>5. CASE (cache.buffers \/ spare) /\ LenOf(right) = Full
  <2>1. k = [buffers |-> TRUE, valid |-> TRUE, key |-> CacheKey(i + 1, QrMask),
             raw |-> right, cw |-> Encode(right)]
    BY <1>3, <1>5
  <2>2. IsCache(k) /\ k.raw = right /\ k.cw = Encode(right) /\ k.key = CacheKey(i + 1, QrMask)
    BY <2>1 DEF IsCache
  <2>3. i + 1 \in Nat \ {0}
    OBVIOUS
  <2>4. k.key = <<k.key[1], base + (i + 1), i + 1, QrMask>>
    BY <2>2 DEF CacheKey
  <2> QED
    BY <1>2, <2>2, <2>3, <2>4 DEF CacheSound, Fresh
<1>6. CASE (cache.buffers \/ spare) /\ LenOf(right) # Full
  <2>1. k = [cache EXCEPT !.buffers = TRUE, !.raw = right]
    BY <1>3, <1>6
  <2> HIDE DEF right
  <2>2. IsCache(k) /\ k.raw = right /\ k.valid = cache.valid /\ k.key = cache.key
        /\ k.cw = cache.cw
    BY <1>2, <2>1 DEF IsCache
  <2> QED
    BY <1>2, <2>2 DEF CacheSound, Fresh, right
<1> QED
  BY <1>4, <1>5, <1>6

LEMMA ChainShows ==
  ASSUME MonoState, NEW i \in Nat, NEW again \in BOOLEAN, NEW spare \in BOOLEAN,
         NEW room \in BOOLEAN, CanPrepare(QrMask), enc.raw = DataFrame(base, i, again),
         enc.cw = <<Encode(DataFrame(base, i, again))>>,
         NEW item, item = ChainOf(i), NEW d, d = ShowChain(item, spare, room)
  PROVE  MonoShows(d, Frame(item), QrMask, "blank") /\ Fresh(d.enc.cache, i + 1)
<1> DEFINE f == Frame(item)
           left == Frame(Data(item.first, FALSE))
           right == Frame(Data(item.first + 1, FALSE))
           derived == /\ CanPrepare(QrMask) /\ (enc.cache.buffers \/ spare)
                      /\ LenOf(left) = Full /\ LenOf(right) = Full
           headers == SymDiff(SymDiff({<<"header", enc.raw>>}, {<<"header", right>>}),
                              {<<"header", f>>})
           stream == IF derived THEN CorrectXor(SymDiff(enc.cw[1], Encode(right)), 2, headers)
                     ELSE Encode(f)
           k == ChainCache(item, spare)
           e == Renewed(enc, f, k)
<1>1. item.first = i
  BY ChainFields
<1>2. /\ f = [item |-> ChainOf(i), base |-> base]
      /\ left = DataFrame(base, i, FALSE) /\ right = DataFrame(base, i + 1, FALSE)
  BY <1>1 DEF Frame, DataFrame
<1>3. stream = Encode(f)
  <2>1. CASE derived
    <3>1. enc.cw[1] = Encode(enc.raw)
      OBVIOUS
    <3>2. LenOf(left) = Full /\ LenOf(right) = Full
      BY <2>1
    <3> HIDE DEF f, left, right
    <3>3. ChainStream(enc.raw, right, f) = Encode(f)
      <4>1. Sized /\ base \in Nat
        BY DEF MonoState
      <4>2. FullPair(base, i)
        BY <1>2, <3>2 DEF FullPair
      <4>3. ChainStream(DataFrame(base, i, again), DataFrame(base, i + 1, FALSE),
                        ChainFrame(base, i))
              = Encode(ChainFrame(base, i))
        BY <4>1, <4>2, ChainDerived
      <4> QED
        BY <1>2, <4>3 DEF ChainFrame
    <3>4. CorrectXor(SymDiff(Encode(enc.raw), Encode(right)), 2, headers) = Encode(f)
      BY <3>3 DEF ChainStream
    <3> QED
      BY <2>1, <3>1, <3>4
  <2>2. CASE ~derived
    BY <2>2
  <2> QED
    BY <2>1, <2>2
<1>4. Draws(d, e, stream, QrMask, "blank")
  BY DEF ShowChain, Renewed, Draws
<1>5. enc.ready \in BOOLEAN /\ Sound(vga) /\ MonoReady(vga, enc) /\ IsEncoder(enc)
  BY DEF MonoState, IsEncoder
<1>6. IsCache(k) /\ CacheSound(k) /\ Fresh(k, i + 1)
  BY CacheKeeps
<1> HIDE DEF k, stream, f
<1>7. IsEncoder(e) /\ e.cache = k /\ e.acc = enc.acc
  BY <1>5, <1>6, EncoderSame
<1> HIDE DEF e
<1>8. Displays(d, e, stream, QrMask, "blank")
  BY <1>4, <1>5, <1>7, DisplayShows
<1>9. MonoShows(d, f, QrMask, "blank")
  BY <1>3, <1>6, <1>7, <1>8 DEF Displays, MonoShows
<1> QED
  BY <1>6, <1>7, <1>8, <1>9 DEF f, Displays

-----------------------------------------------------------------------------
(* The passes of BW: where the equations of two frames stand.              *)

MonoImage(c, x) ==
  \E it : x = {it} /\ (\/ it.kind \in {"DATA", "BLOCK_XOR"}
                       \/ c.chain = 2 /\ \E i \in Nat : it = ChainOf(i))

\* Frame i was just shown, and before it the equation of the frame before, or
\* that and its anchor.
Led(p, k, i) ==
  /\ k > 1 /\ \E again \in BOOLEAN : p[k - 1] = {Data(i, again)}
  /\ i > 0 => \/ k > 2 /\ p[k - 2] = {ChainOf(i - 1)}
              \/ k > 3 /\ p[k - 2] = {Data(i - 1, FALSE)} /\ p[k - 3] = {ChainOf(i - 1)}

Chains(c, p) ==
  \A k \in 1..Len(p) : MonoImage(c, p[k]) /\ \A i \in Nat : p[k] = {ChainOf(i)} => Led(p, k, i)

\* How a pass that has got to frame i > 0 ends.
EndsOn(p, i) ==
  \/ Len(p) > 0 /\ p[Len(p)] = {ChainOf(i - 1)}
  \/ Len(p) > 1 /\ p[Len(p)] = {Data(i - 1, FALSE)} /\ p[Len(p) - 1] = {ChainOf(i - 1)}

\* The three images before image k of p are those before image l of w.
Beside(p, k, w, l) ==
  /\ k > 1 => l > 1 /\ w[l - 1] = p[k - 1]
  /\ k > 2 => l > 2 /\ w[l - 2] = p[k - 2]
  /\ k > 3 => l > 3 /\ w[l - 3] = p[k - 3]

LEMMA LedSame ==
  ASSUME NEW p, NEW w, NEW k \in Nat, NEW l \in Nat, NEW i \in Nat, Led(p, k, i),
         Beside(p, k, w, l)
  PROVE  Led(w, l, i)
<1> USE DEF Beside
<1>1. l > 1 /\ \E again \in BOOLEAN : w[l - 1] = {Data(i, again)}
  BY DEF Led
<1>2. ASSUME i > 0, k > 2, p[k - 2] = {ChainOf(i - 1)} PROVE l > 2 /\ w[l - 2] = {ChainOf(i - 1)}
  BY <1>2
<1>3. ASSUME i > 0, k > 3, p[k - 2] = {Data(i - 1, FALSE)}, p[k - 3] = {ChainOf(i - 1)}
      PROVE  l > 3 /\ w[l - 2] = {Data(i - 1, FALSE)} /\ w[l - 3] = {ChainOf(i - 1)}
  <2>1. k > 2
    BY <1>3
  <2> QED
    BY <1>3, <2>1
<1>4. i > 0 => \/ k > 2 /\ p[k - 2] = {ChainOf(i - 1)}
               \/ k > 3 /\ p[k - 2] = {Data(i - 1, FALSE)} /\ p[k - 3] = {ChainOf(i - 1)}
  BY DEF Led
<1>5. i > 0 => \/ l > 2 /\ w[l - 2] = {ChainOf(i - 1)}
               \/ l > 3 /\ w[l - 2] = {Data(i - 1, FALSE)} /\ w[l - 3] = {ChainOf(i - 1)}
  BY <1>2, <1>3, <1>4
<1> QED
  BY <1>1, <1>5 DEF Led

LEMMA ChainApart ==
  ASSUME NEW i \in Nat, NEW it, it.kind # "CHAIN_XOR"
  PROVE  {it} # {ChainOf(i)}
<1>1. it # ChainOf(i)
  BY ChainFields
<1> QED
  BY <1>1

LEMMA ChainSame ==
  ASSUME NEW i \in Nat, NEW j \in Nat, {ChainOf(i)} = {ChainOf(j)}
  PROVE  i = j
<1>1. ChainOf(i) = ChainOf(j)
  OBVIOUS
<1>2. ChainOf(i).first = i /\ ChainOf(j).first = j
  BY ChainFields
<1> QED
  BY <1>1, <1>2

LEMMA ChainsJoin ==
  ASSUME NEW c, NEW S, NEW p \in Seq(S), NEW q \in Seq(S), Chains(c, p), Chains(c, q)
  PROVE  Chains(c, p \o q)
<1>1. PICK m \in Nat, n \in Nat : m = Len(p) /\ n = Len(q)
  OBVIOUS
<1> PICK w : w = p \o q
  OBVIOUS
<1>2. Len(w) = m + n /\ \A k \in 1..(m + n) : w[k] = IF k <= m THEN p[k] ELSE q[k - m]
  BY <1>1, ConcatProperties
<1>3. \A k \in 1..m : w[k] = p[k]
  BY <1>1, <1>2
<1>4. \A k \in 1..n : w[m + k] = q[k]
  <2> SUFFICES ASSUME NEW k \in 1..n PROVE w[m + k] = q[k]
    OBVIOUS
  <2>1. m + k \in 1..(m + n) /\ ~(m + k <= m) /\ (m + k) - m = k
    BY <1>1
  <2> QED
    BY <1>2, <2>1
<1>5. \A k \in 1..m : MonoImage(c, p[k]) /\ \A i \in Nat : p[k] = {ChainOf(i)} => Led(p, k, i)
  BY <1>1 DEF Chains
<1>6. \A k \in 1..n : MonoImage(c, q[k]) /\ \A i \in Nat : q[k] = {ChainOf(i)} => Led(q, k, i)
  BY <1>1 DEF Chains
<1>7. ASSUME NEW k \in 1..m, NEW i \in Nat, w[k] = {ChainOf(i)} PROVE Led(w, k, i)
  <2>1. Led(p, k, i)
    BY <1>3, <1>5, <1>7
  <2>2. k > 1 => k > 1 /\ w[k - 1] = p[k - 1]
    <3>1. k > 1 => k - 1 \in 1..m
      BY <1>1
    <3> QED
      BY <1>3, <3>1
  <2>3. k > 2 => k > 2 /\ w[k - 2] = p[k - 2]
    <3>1. k > 2 => k - 2 \in 1..m
      BY <1>1
    <3> QED
      BY <1>3, <3>1
  <2>4. k > 3 => k > 3 /\ w[k - 3] = p[k - 3]
    <3>1. k > 3 => k - 3 \in 1..m
      BY <1>1
    <3> QED
      BY <1>3, <3>1
  <2> QED
    <3>1. k \in Nat
      OBVIOUS
    <3>2. Beside(p, k, w, k)
      BY <2>2, <2>3, <2>4, Zenon DEF Beside
    <3> QED
      BY <2>1, <3>1, <3>2, LedSame
<1>8. ASSUME NEW k \in 1..n, NEW i \in Nat, w[m + k] = {ChainOf(i)} PROVE Led(w, m + k, i)
  <2>1. Led(q, k, i)
    BY <1>4, <1>6, <1>8
  <2>2. k > 1 => m + k > 1 /\ w[(m + k) - 1] = q[k - 1]
    <3>1. k > 1 => k - 1 \in 1..n /\ m + (k - 1) = (m + k) - 1 /\ m + k > 1
      BY <1>1
    <3> QED
      BY <1>4, <3>1
  <2>3. k > 2 => m + k > 2 /\ w[(m + k) - 2] = q[k - 2]
    <3>1. k > 2 => k - 2 \in 1..n /\ m + (k - 2) = (m + k) - 2 /\ m + k > 2
      BY <1>1
    <3> QED
      BY <1>4, <3>1
  <2>4. k > 3 => m + k > 3 /\ w[(m + k) - 3] = q[k - 3]
    <3>1. k > 3 => k - 3 \in 1..n /\ m + (k - 3) = (m + k) - 3 /\ m + k > 3
      BY <1>1
    <3> QED
      BY <1>4, <3>1
  <2> QED
    <3>1. k \in Nat /\ m + k \in Nat
      OBVIOUS
    <3>2. Beside(q, k, w, m + k)
      BY <2>2, <2>3, <2>4, Zenon DEF Beside
    <3> QED
      BY <2>1, <3>1, <3>2, LedSame
<1>9. ASSUME NEW k \in 1..(m + n)
      PROVE  MonoImage(c, w[k]) /\ \A i \in Nat : w[k] = {ChainOf(i)} => Led(w, k, i)
  <2>1. CASE k <= m
    <3>1. k \in 1..m
      BY <1>1, <2>1
    <3> QED
      BY <1>3, <1>5, <1>7, <3>1
  <2>2. CASE k > m
    <3>1. PICK j \in 1..n : k = m + j
      <4>1. k - m \in 1..n /\ k = m + (k - m)
        BY <1>1, <2>2
      <4> QED
        BY <4>1
    <3>2. MonoImage(c, w[k])
      BY <1>4, <1>6, <3>1
    <3> QED
      BY <1>8, <3>1, <3>2
  <2>3. k <= m \/ k > m
    BY <1>1
  <2> QED
    BY <2>1, <2>2, <2>3, Zenon
<1> QED
  BY <1>1, <1>2, <1>9 DEF Chains

\* What transmit() shows at frame i of a chain of two.
FrameImages(t, i, again) ==
  /\ Len(t) \in 1..3 /\ t[1] = {Data(i, again)}
  /\ Len(t) > 1 => t[2] = {ChainOf(i)}
  /\ Len(t) > 2 => t[3] = {Data(i, FALSE)}

LEMMA ChainGrows ==
  ASSUME NEW c, c.chain = 2, NEW S, NEW p \in Seq(S), NEW t \in Seq(S), Chains(c, p),
         NEW i \in Nat, NEW again \in BOOLEAN, i > 0 => EndsOn(p, i), FrameImages(t, i, again)
  PROVE  Chains(c, p \o t) /\ (Len(t) > 1 => EndsOn(p \o t, i + 1))
<1>1. PICK m \in Nat, n \in 1..3 : m = Len(p) /\ n = Len(t)
  BY DEF FrameImages
<1> PICK w : w = p \o t
  OBVIOUS
<1>2. Len(w) = m + n /\ \A k \in 1..(m + n) : w[k] = IF k <= m THEN p[k] ELSE t[k - m]
  BY <1>1, ConcatProperties
<1>3. \A k \in 1..m : w[k] = p[k]
  BY <1>1, <1>2
<1>4. w[m + 1] = {Data(i, again)}
  <2>1. m + 1 \in 1..(m + n) /\ ~(m + 1 <= m) /\ (m + 1) - m = 1
    BY <1>1
  <2> QED
    BY <1>1, <1>2, <2>1 DEF FrameImages
<1>5. n > 1 => w[m + 2] = {ChainOf(i)}
  <2>1. n > 1 => m + 2 \in 1..(m + n) /\ ~(m + 2 <= m) /\ (m + 2) - m = 2
    BY <1>1
  <2> QED
    BY <1>1, <1>2, <2>1 DEF FrameImages
<1>6. n > 2 => w[m + 3] = {Data(i, FALSE)}
  <2>1. n > 2 => m + 3 \in 1..(m + n) /\ ~(m + 3 <= m) /\ (m + 3) - m = 3
    BY <1>1
  <2> QED
    BY <1>1, <1>2, <2>1 DEF FrameImages
<1>7. \A k \in 1..m : MonoImage(c, p[k]) /\ \A j \in Nat : p[k] = {ChainOf(j)} => Led(p, k, j)
  BY <1>1 DEF Chains
<1>8. i > 0 => \/ m > 0 /\ p[m] = {ChainOf(i - 1)}
               \/ m > 1 /\ p[m] = {Data(i - 1, FALSE)} /\ p[m - 1] = {ChainOf(i - 1)}
  BY <1>1 DEF EndsOn
<1>9. ASSUME NEW k \in 1..(m + n)
      PROVE  k \in 1..m \/ k = m + 1 \/ k = m + 2 \/ k = m + 3
  OBVIOUS
<1>10. /\ MonoImage(c, {Data(i, again)}) /\ MonoImage(c, {Data(i, FALSE)})
       /\ MonoImage(c, {ChainOf(i)})
  <2>1. \A a \in BOOLEAN : Data(i, a).kind = "DATA"
    BY DataFields
  <2>2. \A x : x.kind = "DATA" => MonoImage(c, {x})
    BY DEF MonoImage
  <2> QED
    BY <2>1, <2>2 DEF MonoImage
<1>11. \A j \in Nat : {Data(i, again)} # {ChainOf(j)} /\ {Data(i, FALSE)} # {ChainOf(j)}
  <2>1. \A a \in BOOLEAN : Data(i, a).kind = "DATA"
    BY DataFields
  <2> QED
    BY <2>1, ChainApart
<1>12. ASSUME NEW k \in 1..m, NEW j \in Nat, w[k] = {ChainOf(j)} PROVE Led(w, k, j)
  <2>1. Led(p, k, j)
    BY <1>3, <1>7, <1>12
  <2>2. k > 1 => k > 1 /\ w[k - 1] = p[k - 1]
    <3>1. k > 1 => k - 1 \in 1..m
      BY <1>1
    <3> QED
      BY <1>3, <3>1
  <2>3. k > 2 => k > 2 /\ w[k - 2] = p[k - 2]
    <3>1. k > 2 => k - 2 \in 1..m
      BY <1>1
    <3> QED
      BY <1>3, <3>1
  <2>4. k > 3 => k > 3 /\ w[k - 3] = p[k - 3]
    <3>1. k > 3 => k - 3 \in 1..m
      BY <1>1
    <3> QED
      BY <1>3, <3>1
  <2> QED
    <3>1. k \in Nat
      OBVIOUS
    <3>2. Beside(p, k, w, k)
      BY <2>2, <2>3, <2>4, Zenon DEF Beside
    <3> QED
      BY <2>1, <3>1, <3>2, LedSame
<1>13. n > 1 => Led(w, m + 2, i)
  <2> SUFFICES ASSUME n > 1 PROVE Led(w, m + 2, i)
    OBVIOUS
  <2>1. m + 2 > 1 /\ (m + 2) - 1 = m + 1 /\ (m + 2) - 2 = m /\ (m + 2) - 3 = m - 1
    BY <1>1
  <2>2. m > 0 => w[m] = p[m]
    <3>1. m > 0 => m \in 1..m
      OBVIOUS
    <3> QED
      BY <1>3, <3>1
  <2>3. m > 1 => w[m - 1] = p[m - 1]
    <3>1. m > 1 => m - 1 \in 1..m
      OBVIOUS
    <3> QED
      BY <1>3, <3>1
  <2>4. (m > 0 => m + 2 > 2) /\ (m > 1 => m + 2 > 3)
    BY <1>1
  <2> QED
    <3>1. m + 2 > 1 /\ \E a \in BOOLEAN : w[(m + 2) - 1] = {Data(i, a)}
      BY <1>4, <2>1
    <3>2. ASSUME i > 0
          PROVE  \/ m + 2 > 2 /\ w[(m + 2) - 2] = {ChainOf(i - 1)}
                 \/ m + 2 > 3 /\ w[(m + 2) - 2] = {Data(i - 1, FALSE)}
                    /\ w[(m + 2) - 3] = {ChainOf(i - 1)}
      <4>1. CASE m > 0 /\ p[m] = {ChainOf(i - 1)}
        BY <2>1, <2>2, <2>4, <4>1
      <4>2. CASE m > 1 /\ p[m] = {Data(i - 1, FALSE)} /\ p[m - 1] = {ChainOf(i - 1)}
        <5>1. m > 0
          BY <4>2
        <5> QED
          BY <2>1, <2>2, <2>3, <2>4, <4>2, <5>1
      <4> QED
        BY <1>8, <3>2, <4>1, <4>2
    <3> QED
      BY <3>1, <3>2 DEF Led
<1>14. ASSUME NEW k \in 1..(m + n)
       PROVE  MonoImage(c, w[k]) /\ \A j \in Nat : w[k] = {ChainOf(j)} => Led(w, k, j)
  <2>1. CASE k \in 1..m
    BY <1>3, <1>7, <1>12, <2>1
  <2>2. CASE k = m + 1
    BY <1>4, <1>10, <1>11, <2>2
  <2>3. CASE k = m + 2
    <3>1. n > 1
      BY <1>1, <2>3
    <3>2. \A j \in Nat : w[k] = {ChainOf(j)} => j = i
      BY <1>5, <2>3, <3>1, ChainSame
    <3> QED
      BY <1>5, <1>10, <1>13, <2>3, <3>1, <3>2
  <2>4. CASE k = m + 3
    <3>1. n > 2
      BY <1>1, <2>4
    <3> QED
      BY <1>6, <1>10, <1>11, <2>4, <3>1
  <2> QED
    BY <1>9, <2>1, <2>2, <2>3, <2>4
<1>15. Chains(c, w)
  BY <1>2, <1>14 DEF Chains
<1>16. n > 1 => EndsOn(w, i + 1)
  <2> SUFFICES ASSUME n > 1 PROVE EndsOn(w, i + 1)
    OBVIOUS
  <2>1. (i + 1) - 1 = i
    OBVIOUS
  <2>2. CASE n = 2
    <3>1. Len(w) > 0 /\ Len(w) = m + 2
      BY <1>1, <1>2, <2>2
    <3> QED
      BY <1>5, <2>1, <2>2, <3>1 DEF EndsOn
  <2>3. CASE n = 3
    <3>1. Len(w) > 1 /\ Len(w) = m + 3 /\ Len(w) - 1 = m + 2 /\ n > 2
      BY <1>1, <1>2, <2>3
    <3>2. w[Len(w)] = {Data((i + 1) - 1, FALSE)} /\ w[Len(w) - 1] = {ChainOf((i + 1) - 1)}
      BY <1>5, <1>6, <2>1, <2>3, <3>1
    <3> QED
      BY <3>1, <3>2 DEF EndsOn
  <2> QED
    BY <1>1, <2>2, <2>3
<1> QED
  BY <1>1, <1>15, <1>16

\* Images without an equation of two frames.
Plain(n) == {x \in ImagesOf(n) : \E it : x = {it} /\ it.kind \in {"DATA", "BLOCK_XOR"}}

LEMMA PlainChains ==
  ASSUME NEW c, NEW n \in Nat, NEW p \in Seq(Plain(n))
  PROVE  Chains(c, p)
<1> SUFFICES ASSUME NEW k \in 1..Len(p)
             PROVE  MonoImage(c, p[k]) /\ \A i \in Nat : p[k] = {ChainOf(i)} => Led(p, k, i)
  BY DEF Chains
<1>1. p[k] \in Plain(n)
  OBVIOUS
<1>2. PICK it : p[k] = {it} /\ it.kind \in {"DATA", "BLOCK_XOR"}
  BY <1>1 DEF Plain
<1>3. MonoImage(c, p[k])
  BY <1>2 DEF MonoImage
<1>4. \A i \in Nat : p[k] # {ChainOf(i)}
  BY <1>2, ChainApart
<1> QED
  BY <1>3, <1>4

LEMMA PlainData ==
  ASSUME NEW n \in Nat, NEW i \in 0..(n - 1), NEW again \in BOOLEAN
  PROVE  {Data(i, again)} \in Plain(n)
<1>1. Data(i, again) \in SymbolsOf(n) /\ Data(i, again).kind = "DATA"
  BY DataSymbol, DataFields
<1> QED
  BY <1>1 DEF Plain, ImagesOf

\* What MonoPass() makes of frame i.
AtFrame(c, n, i, again) ==
  <<{Data(i, again)}>>
  \o (IF Chained(c, n, i)
      THEN <<{Chain(c, n, i)}>> \o (IF Anchored(c, i) THEN <<{Data(i, FALSE)}>> ELSE <<>>)
      ELSE <<>>)
  \o (IF Grouped(c, n, i) THEN <<{Group(c, i)}>> ELSE <<>>)

LEMMA PlainFrame ==
  ASSUME NEW c, ValidConfig(c), c.chain # 2, NEW n \in Nat, NEW i \in 0..(n - 1),
         NEW again \in BOOLEAN
  PROVE  AtFrame(c, n, i, again) \in Seq(Plain(n))
<1> DEFINE I == Seq(Plain(n))
           first == <<{Data(i, again)}>>
           parity == <<{Chain(c, n, i)}>>
           anchor == IF Anchored(c, i) THEN <<{Data(i, FALSE)}>> ELSE <<>>
           chain == IF Chained(c, n, i) THEN parity \o anchor ELSE <<>>
           group == IF Grouped(c, n, i) THEN <<{Group(c, i)}>> ELSE <<>>
<1>1. \A s, t \in I : s \o t \in I
  BY ConcatProperties
<1>2. <<>> \in I /\ \A x \in Plain(n) : <<x>> \in I
  OBVIOUS
<1>3. {Data(i, again)} \in Plain(n) /\ {Data(i, FALSE)} \in Plain(n)
  BY PlainData
<1>4. Chained(c, n, i) => {Chain(c, n, i)} \in Plain(n)
  <2>1. Chain(c, n, i).kind = "BLOCK_XOR"
    BY DEF Chain, Item
  <2> QED
    BY <2>1, ChainSymbol DEF Plain, ImagesOf
<1>5. Grouped(c, n, i) => {Group(c, i)} \in Plain(n)
  <2>1. Group(c, i).kind = "BLOCK_XOR"
    BY DEF Group, Item
  <2> QED
    BY <2>1, GroupSymbol DEF Plain, ImagesOf
<1> HIDE DEF I
<1>6. /\ first \in I /\ anchor \in I /\ group \in I
      /\ Chained(c, n, i) => parity \in I
  BY <1>2, <1>3, <1>4, <1>5
<1> HIDE DEF first, parity, anchor, group
<1>7. chain \in I
  BY <1>1, <1>2, <1>6
<1> HIDE DEF chain
<1>8. first \o chain \in I
  BY <1>1, <1>6, <1>7
<1>9. (first \o chain) \o group \in I
  BY <1>1, <1>6, <1>8
<1> QED
  BY <1>9 DEF AtFrame, I, first, chain, group, parity, anchor

LEMMA ChainFrameImages ==
  ASSUME NEW c, ValidConfig(c), c.chain = 2, NEW n \in Nat, NEW i \in 0..(n - 1),
         NEW again \in BOOLEAN
  PROVE  /\ FrameImages(AtFrame(c, n, i, again), i, again)
         /\ i + 1 < n => Len(AtFrame(c, n, i, again)) > 1
         /\ AtFrame(c, n, i, again) \in Seq(ImagesOf(n))
<1>1. Half(c) = 1
  BY DEF Half
<1>2. Chained(c, n, i) <=> i + 1 < n
  <2>1. (i + 1) % 1 = 0
    OBVIOUS
  <2> QED
    BY <1>1, <2>1 DEF Chained
<1>3. ~Grouped(c, n, i)
  <2>1. c.group = 0
    BY DEF ValidConfig
  <2> QED
    BY <2>1 DEF Grouped
<1>4. i + 1 < n => Chain(c, n, i) = ChainOf(i)
  <2> SUFFICES ASSUME i + 1 < n PROVE Chain(c, n, i) = ChainOf(i)
    OBVIOUS
  <2>1. Chain(c, n, i) = Item("CHAIN_XOR", i + 1 - 1, Smaller(n - (i + 1 - 1), 2), 1)
    BY <1>1 DEF Chain
  <2>2. i + 1 - 1 = i /\ Smaller(n - i, 2) = 2
    BY DEF Smaller
  <2> QED
    BY <2>1, <2>2 DEF ChainOf
<1> PICK d, e, a : d = {Data(i, again)} /\ e = {ChainOf(i)} /\ a = {Data(i, FALSE)}
  OBVIOUS
<1>5. d \in ImagesOf(n) /\ a \in ImagesOf(n) /\ (i + 1 < n => e \in ImagesOf(n))
  <2>1. Data(i, again) \in SymbolsOf(n) /\ Data(i, FALSE) \in SymbolsOf(n)
    BY DataSymbol
  <2>2. i + 1 < n => ChainOf(i) \in SymbolsOf(n)
    BY <1>2, <1>4, ChainSymbol
  <2> QED
    BY <2>1, <2>2 DEF ImagesOf
<1> DEFINE I == Seq(ImagesOf(n))
<1> PICK anchor, chain : /\ anchor = IF Anchored(c, i) THEN <<a>> ELSE <<>>
                         /\ chain = IF i + 1 < n THEN <<e>> \o anchor ELSE <<>>
  OBVIOUS
<1>6. anchor \in I /\ Len(anchor) \in 0..1 /\ (Len(anchor) = 1 => anchor[1] = a)
  <2>1. <<a>> \in I /\ <<>> \in I
    BY <1>5
  <2> QED
    BY <2>1
<1>7. /\ chain \in I /\ Len(chain) \in 0..2 /\ (i + 1 < n => Len(chain) > 0)
      /\ Len(chain) > 0 => chain[1] = e
      /\ Len(chain) > 1 => chain[2] = a
  <2>1. CASE i + 1 < n
    <3>1. <<e>> \in I /\ Len(<<e>>) = 1 /\ <<e>>[1] = e
      BY <1>5, <2>1
    <3>2. chain = <<e>> \o anchor
      BY <2>1
    <3> HIDE DEF I
    <3>3. chain \in I /\ Len(chain) = 1 + Len(anchor)
          /\ \A k \in 1..(1 + Len(anchor)) : chain[k] = IF k <= 1 THEN <<e>>[k] ELSE anchor[k - 1]
      BY <1>6, <3>1, <3>2, ConcatProperties DEF I
    <3>4. chain[1] = e
      BY <1>6, <3>1, <3>3
    <3>5. Len(anchor) = 1 => chain[2] = a
      <4>1. Len(anchor) = 1 => chain[2] = anchor[2 - 1]
        BY <3>3
      <4>2. 2 - 1 = 1
        OBVIOUS
      <4> QED
        BY <1>6, <4>1, <4>2
    <3> QED
      BY <1>6, <3>3, <3>4, <3>5
  <2>2. CASE ~(i + 1 < n)
    <3>1. chain = <<>> /\ <<>> \in I
      BY <2>2
    <3> QED
      BY <2>2, <3>1
  <2> QED
    BY <2>1, <2>2
<1> PICK t : t = <<d>> \o chain
  OBVIOUS
<1>8. /\ t \in I /\ Len(t) = 1 + Len(chain) /\ t[1] = d
      /\ Len(chain) > 0 => t[2] = e
      /\ Len(chain) > 1 => t[3] = a
  <2>1. <<d>> \in I /\ Len(<<d>>) = 1 /\ <<d>>[1] = d
    BY <1>5
  <2> HIDE DEF I
  <2>2. t \in I /\ Len(t) = 1 + Len(chain)
        /\ \A k \in 1..(1 + Len(chain)) : t[k] = IF k <= 1 THEN <<d>>[k] ELSE chain[k - 1]
    BY <1>7, <2>1, ConcatProperties DEF I
  <2>3. t[1] = d
    BY <1>7, <2>1, <2>2
  <2>4. Len(chain) > 0 => t[2] = chain[2 - 1]
    BY <1>7, <2>2
  <2>5. Len(chain) > 1 => t[3] = chain[3 - 1]
    BY <1>7, <2>2
  <2>6. 2 - 1 = 1 /\ 3 - 1 = 2
    OBVIOUS
  <2> QED
    BY <1>7, <2>2, <2>3, <2>4, <2>5, <2>6
<1>9. AtFrame(c, n, i, again) = t
  <2>1. AtFrame(c, n, i, again) = (<<d>> \o chain) \o <<>>
    BY <1>2, <1>3, <1>4 DEF AtFrame
  <2> HIDE DEF I
  <2>2. t \o <<>> = t
    BY <1>8, ConcatEmptySeq DEF I
  <2> QED
    BY <2>1, <2>2
<1> QED
  BY <1>7, <1>8, <1>9 DEF FrameImages

LEMMA MonoChains ==
  ASSUME NEW c, ValidConfig(c), NEW n \in Nat, NEW again \in BOOLEAN
  PROVE  Chains(c, MonoPass(c, n, again))
<1> DEFINE seqs == [k \in 1..n |-> AtFrame(c, n, k - 1, again)]
<1>1. MonoPass(c, n, again) = FlattenSeq(seqs)
  BY DEF MonoPass, AtFrame
<1>2. Len(seqs) = n /\ \A k \in 1..n : k - 1 \in 0..(n - 1) /\ seqs[k] = AtFrame(c, n, k - 1, again)
  OBVIOUS
<1>3. CASE c.chain # 2
  <2>1. \A k \in 1..n : AtFrame(c, n, k - 1, again) \in Seq(Plain(n))
    BY <1>2, <1>3, PlainFrame
  <2>2. seqs \in Seq(Seq(Plain(n)))
    BY <2>1
  <2> HIDE DEF seqs
  <2>3. FlattenSeq(seqs) \in Seq(Plain(n))
    BY <2>2, FlattenType
  <2> QED
    BY <1>1, <2>3, PlainChains
<1>4. CASE c.chain = 2
  <2> DEFINE I == ImagesOf(n)
             P == {x \in Nat \X Seq(I) : Chains(c, x[2]) /\ (x[1] < n => EndsOn(x[2], x[1]))}
  <2>1. ASSUME NEW k \in 1..n
        PROVE  /\ FrameImages(seqs[k], k - 1, again) /\ seqs[k] \in Seq(I)
               /\ k < n => Len(seqs[k]) > 1
    <3>1. PICK i \in 0..(n - 1) : i = k - 1
      BY <1>2
    <3>2. /\ FrameImages(AtFrame(c, n, i, again), i, again)
          /\ AtFrame(c, n, i, again) \in Seq(I)
          /\ i + 1 < n => Len(AtFrame(c, n, i, again)) > 1
      BY <1>4, ChainFrameImages
    <3>3. i + 1 = k /\ seqs[k] = AtFrame(c, n, i, again)
      BY <1>2, <3>1
    <3> HIDE DEF seqs
    <3> QED
      BY <3>1, <3>2, <3>3
  <2>2. seqs \in Seq(Seq(I))
    <3>1. \A k \in 1..n : AtFrame(c, n, k - 1, again) \in Seq(I)
      BY <1>2, <2>1
    <3> QED
      BY <3>1
  <2> HIDE DEF seqs, I
  <2>3. \A i \in Nat, p \in Seq(I) :
          <<i, p>> \in P <=> Chains(c, p) /\ (i < n => EndsOn(p, i))
    OBVIOUS
  <2>4. \A x : x = <<>> => Chains(c, x) /\ x \in Seq(I)
    BY DEF Chains
  <2>5. CASE n = 0
    <3>1. seqs = <<>>
      BY <1>2, <2>2, <2>5
    <3>2. FlattenSeq(seqs) = <<>>
      BY <3>1 DEF FlattenSeq
    <3> QED
      BY <1>1, <2>4, <3>2
  <2>6. CASE n # 0
    <3>1. 1 \in 1..n /\ 1 - 1 = 0
      BY <2>6
    <3>2. seqs[1] \in Seq(I) /\ FrameImages(seqs[1], 0, again) /\ (1 < n => Len(seqs[1]) > 1)
      BY <2>1, <3>1
    <3>3. Chains(c, <<>> \o seqs[1]) /\ (Len(seqs[1]) > 1 => EndsOn(<<>> \o seqs[1], 0 + 1))
      <4>1. PICK e : e = <<>>
        OBVIOUS
      <4>2. e \in Seq(I) /\ Chains(c, e)
        BY <2>4, <4>1
      <4>3. 0 \in Nat /\ ~(0 > 0)
        OBVIOUS
      <4>4. Chains(c, e \o seqs[1]) /\ (Len(seqs[1]) > 1 => EndsOn(e \o seqs[1], 0 + 1))
        BY <1>4, <3>2, <4>2, <4>3, ChainGrows
      <4> QED
        BY <4>1, <4>4
    <3>4. <<>> \o seqs[1] = seqs[1]
      BY <3>2, ConcatEmptySeq
    <3>5. <<1, seqs[1]>> \in P
      BY <2>3, <3>2, <3>3, <3>4
    <3>6. ASSUME NEW i \in 1..(n - 1), NEW p \in Seq(I), <<i, p>> \in P
          PROVE  <<i + 1, p \o seqs[i + 1]>> \in P
      <4>1. i + 1 \in 1..n /\ i \in Nat /\ i < n /\ (i + 1) - 1 = i /\ i + 1 \in Nat
        OBVIOUS
      <4>2. Chains(c, p) /\ EndsOn(p, i)
        BY <2>3, <3>6, <4>1
      <4>3. PICK t \in Seq(I) : t = seqs[i + 1]
        BY <2>1, <4>1
      <4>4. FrameImages(t, i, again) /\ (i + 1 < n => Len(t) > 1)
        BY <2>1, <4>1, <4>3
      <4>5. Chains(c, p \o t) /\ (Len(t) > 1 => EndsOn(p \o t, i + 1))
        BY <1>4, <4>1, <4>2, <4>4, ChainGrows
      <4>6. p \o t \in Seq(I)
        BY ConcatProperties
      <4> QED
        BY <2>3, <4>1, <4>3, <4>4, <4>5, <4>6
    <3>7. <<n, FlattenSeq(seqs)>> \in P
      <4>1. seqs # <<>> /\ Len(seqs) = n
        BY <1>2, <2>6
      <4> HIDE DEF P
      <4> QED
        BY <2>2, <3>5, <3>6, <4>1, FlattenGrows
    <3>8. Chains(c, FlattenSeq(seqs))
      <4>1. FlattenSeq(seqs) \in Seq(I)
        BY <2>2, FlattenType
      <4> QED
        BY <2>3, <3>7, <4>1
    <3> QED
      BY <1>1, <3>8
  <2> QED
    BY <2>5, <2>6
<1> QED
  BY <1>3, <1>4

LEMMA TransmitChains ==
  ASSUME NEW c, ValidConfig(c), ~c.rgb3, NEW from \in Nat, NEW n \in Nat
  PROVE  Chains(c, Transmit(c, from, n))
<1> DEFINE S == ImagesOf(n)
           C == {p \in Seq(S) : Chains(c, p)}
           rounds == [r \in 1..c.repeat |-> MonoPass(c, n, r > 1)]
<1>1. Transmit(c, from, n) = FlattenSeq(rounds)
  BY DEF Transmit
<1>2. \A again \in BOOLEAN : MonoPass(c, n, again) \in C
  BY MonoType, MonoChains
<1>3. c.repeat \in Nat
  BY DEF ValidConfig
<1>4. rounds \in Seq(C)
  <2>1. \A r \in 1..c.repeat : (r > 1) \in BOOLEAN
    OBVIOUS
  <2> HIDE DEF C
  <2>2. \A r \in 1..c.repeat : MonoPass(c, n, r > 1) \in C
    BY <1>2, <2>1
  <2> QED
    BY <1>3, <2>2
<1>5. <<>> \in C
  <2>1. \A p : p = <<>> => p \in Seq(S) /\ Chains(c, p)
    BY DEF Chains
  <2> QED
    BY <2>1
<1> HIDE DEF rounds, S
<1>6. \A s, t \in C : s \o t \in C
  BY ChainsJoin, ConcatProperties
<1>7. C \subseteq Seq(S)
  OBVIOUS
<1> HIDE DEF C
<1>8. rounds \in Seq(Seq(S)) /\ \A i \in 1..Len(rounds) : rounds[i] \in C
  BY <1>4, <1>7
<1>9. FlattenSeq(rounds) \in C
  BY <1>5, <1>6, <1>7, <1>8, FlattenClosed
<1> QED
  BY <1>1, <1>9 DEF C

AllData(p) == \A k \in 1..Len(p) : \A it \in p[k] : it.kind = "DATA"

DataImages(n) == {x \in ImagesOf(n) : \A it \in x : it.kind = "DATA"}

LEMMA BatchesData ==
  ASSUME NEW n \in Nat, NEW S \in SUBSET (0..(n - 1)), NEW again \in BOOLEAN
  PROVE  DataBatches(S, again) \in Seq(DataImages(n))
<1> DEFINE items == [k \in 1..Cardinality(S) |-> Data(Order(S)[k], again)]
           m == (Len(items) + 2) \div 3
           image(b) == {items[k] : k \in (3 * b - 2)..Smaller(3 * b, Len(items))}
<1>1. Cardinality(S) \in Nat
  BY WindowFinite
<1>2. \A k \in 1..Cardinality(S) : Data(Order(S)[k], again).kind = "DATA"
  <2>1. \A k \in 1..Cardinality(S) : Order(S)[k] \in Nat
    <3>1. \A k \in 1..Cardinality(S) : Order(S)[k] \in S
      BY OrderType
    <3>2. S \subseteq Nat
      OBVIOUS
    <3> QED
      BY <3>1, <3>2
  <2> QED
    BY <2>1, DataFields
<1>3. Len(items) = Cardinality(S) /\ \A k \in 1..Len(items) : items[k].kind = "DATA"
  BY <1>1, <1>2
<1>4. DataBatches(S, again) = [b \in 1..m |-> image(b)]
  BY DEF DataBatches, Batches
<1>5. DataBatches(S, again) \in Seq(ImagesOf(n))
  BY DataBatchesType
<1> HIDE DEF items
<1>6. m \in Nat
  BY <1>1, <1>3
<1>7. ASSUME NEW b \in 1..m PROVE \A it \in image(b) : it.kind = "DATA"
  <2>1. (3 * b - 2)..Smaller(3 * b, Len(items)) \subseteq 1..Len(items)
    BY <1>1, <1>3 DEF Smaller
  <2> QED
    BY <1>3, <2>1
<1> HIDE DEF m, image
<1>8. [b \in 1..m |-> image(b)] \in Seq(DataImages(n))
  <2>1. Len([b \in 1..m |-> image(b)]) = m
    BY <1>6
  <2>2. \A b \in 1..m : image(b) \in ImagesOf(n)
    BY <1>4, <1>5, <1>6
  <2>3. \A b \in 1..m : image(b) \in DataImages(n)
    BY <1>7, <2>2 DEF DataImages
  <2> QED
    BY <1>6, <2>3
<1> QED
  BY <1>4, <1>8

LEMMA SelectedData ==
  ASSUME NEW c, ValidConfig(c), NEW n \in Nat, NEW S \in SUBSET (0..(n - 1))
  PROVE  /\ AllData(TransmitSelected(c, S))
         /\ ~c.rgb3 => Chains(c, TransmitSelected(c, S))
<1> DEFINE one(again) == [k \in 1..Cardinality(S) |-> {Data(Order(S)[k], again)}]
           rounds == [r \in 1..c.repeat |-> IF c.rgb3 THEN DataBatches(S, r > 1) ELSE one(r > 1)]
           D == DataImages(n) \cap (IF c.rgb3 THEN DataImages(n) ELSE Plain(n))
<1>1. TransmitSelected(c, S) = FlattenSeq(rounds)
  BY DEF TransmitSelected
<1>2. c.repeat \in Nat /\ Cardinality(S) \in Nat
  BY WindowFinite DEF ValidConfig
<1>3. ASSUME NEW again \in BOOLEAN, ~c.rgb3 PROVE one(again) \in Seq(D)
  <2>1. \A k \in 1..Cardinality(S) : Order(S)[k] \in 0..(n - 1)
    BY OrderType
  <2>2. \A i \in 0..(n - 1) : {Data(i, again)} \in Plain(n)
    BY PlainData
  <2>3. \A i \in 0..(n - 1) : Data(i, again).kind = "DATA"
    BY DataFields
  <2>4. \A i \in 0..(n - 1) : {Data(i, again)} \in DataImages(n)
    BY <2>2, <2>3 DEF Plain, DataImages
  <2>5. \A k \in 1..Cardinality(S) : {Data(Order(S)[k], again)} \in D
    BY <1>3, <2>1, <2>2, <2>4
  <2> HIDE DEF D
  <2> QED
    BY <1>2, <2>5
<1>4. ASSUME NEW again \in BOOLEAN, c.rgb3 PROVE DataBatches(S, again) \in Seq(D)
  BY <1>4, BatchesData
<1> HIDE DEF one, D
<1>5. rounds \in Seq(Seq(D))
  <2>1. \A r \in 1..c.repeat : (r > 1) \in BOOLEAN
    OBVIOUS
  <2> DEFINE round(r) == IF c.rgb3 THEN DataBatches(S, r > 1) ELSE one(r > 1)
  <2>2. \A r \in 1..c.repeat : round(r) \in Seq(D)
    BY <1>3, <1>4, <2>1
  <2>3. rounds = [r \in 1..c.repeat |-> round(r)]
    OBVIOUS
  <2> HIDE DEF round, rounds
  <2> QED
    BY <1>2, <2>2, <2>3
<1> HIDE DEF rounds
<1>6. FlattenSeq(rounds) \in Seq(D)
  BY <1>5, FlattenType
<1>7. PICK p \in Seq(D) : p = TransmitSelected(c, S)
  BY <1>1, <1>6
<1>8. AllData(p)
  BY DEF AllData, D, DataImages
<1>9. ~c.rgb3 => Chains(c, p)
  <2>1. ~c.rgb3 => p \in Seq(Plain(n))
    BY DEF D
  <2> QED
    BY <2>1, PlainChains
<1> QED
  BY <1>7, <1>8, <1>9

-----------------------------------------------------------------------------
(* The passes of /RE:3 in RGB3: one stripe after the other.                *)

\* The images of DATA of the stripe from frame s on, and the t-th of them.
Lines(s, n) == (StripeEnd(s, n) - s + 2) \div 3
Batch(s, n, t, again) == {Data(i, again) : i \in Three(s, StripeEnd(s, n), t)}

\* After image j of p a stripe begins.
StripeAt(p, n, j, s, again) ==
  /\ s < n /\ j + Lines(s, n) + 1 <= Len(p)
  /\ j = 0 \/ DataOf(p[j]) = {}
  /\ \A t \in 1..Lines(s, n) : p[j + t] = Batch(s, n, t, again)
  /\ p[j + Lines(s, n) + 1] = StripeParity(s, n)

InStripe(p, n, k) ==
  \E j \in Nat, s \in Nat, again \in BOOLEAN :
    j < k /\ k <= j + Lines(s, n) + 1 /\ StripeAt(p, n, j, s, again)
InStripes(p, n) == \A k \in 1..Len(p) : InStripe(p, n, k)

LEMMA LinesType ==
  ASSUME NEW n \in Nat, NEW s \in Nat, s < n
  PROVE  /\ StripeEnd(s, n) \in Nat /\ s < StripeEnd(s, n) /\ StripeEnd(s, n) <= n
         /\ StripeEnd(s, n) <= s + 9
         /\ Lines(s, n) \in 1..3
         /\ 3 * Lines(s, n) - 2 <= StripeEnd(s, n) - s /\ StripeEnd(s, n) - s <= 3 * Lines(s, n)
BY DEF Lines, StripeEnd, Smaller

LEMMA ParityNoData == ASSUME NEW n, NEW s PROVE DataOf(StripeParity(s, n)) = {}
<1>1. \A c : ChannelParity(s, n, c).kind = "BLOCK_XOR"
  BY DEF ChannelParity, Item
<1>2. \A it \in StripeParity(s, n) : it.kind # "DATA"
  BY <1>1 DEF StripeParity
<1> QED
  BY <1>2 DEF DataOf

LEMMA BatchData ==
  ASSUME NEW n \in Nat, NEW s \in Nat, s < n, NEW t \in 1..Lines(s, n), NEW again \in BOOLEAN
  PROVE  DataOf(Batch(s, n, t, again)) # {}
<1> PICK l \in 1..3, e \in Nat : /\ l = Lines(s, n) /\ e = StripeEnd(s, n)
                                /\ 3 * l - 2 <= e - s /\ e - s <= 3 * l /\ s < e
  BY LinesType
<1>1. t \in 1..3 /\ t <= l
  OBVIOUS
<1>2. PICK i \in Nat : i = s + 3 * (t - 1)
  BY <1>1
<1>3. i \in Three(s, e, t)
  <2>1. i < e /\ i < s + 3 * t
    BY <1>1, <1>2
  <2> QED
    BY <1>1, <1>2, <2>1 DEF Three, Smaller
<1>4. Data(i, again) \in Batch(s, n, t, again)
  BY <1>3 DEF Batch
<1>5. Data(i, again).kind = "DATA"
  BY DataFields
<1> QED
  BY <1>4, <1>5 DEF DataOf

LEMMA StripeKeeps ==
  ASSUME NEW S, NEW p \in Seq(S), NEW q \in Seq(S), NEW n \in Nat, NEW j \in Nat, NEW s \in Nat,
         NEW again \in BOOLEAN, StripeAt(p, n, j, s, again)
  PROVE  StripeAt(p \o q, n, j, s, again)
<1>1. PICK m \in Nat : m = Len(p)
  OBVIOUS
<1> PICK w : w = p \o q
  OBVIOUS
<1>2. Len(w) >= m /\ \A k \in 1..m : w[k] = p[k]
  <2>1. Len(w) = m + Len(q) /\ \A k \in 1..(m + Len(q)) : w[k] = IF k <= m THEN p[k] ELSE q[k - m]
    BY <1>1, ConcatProperties
  <2>2. Len(q) \in Nat
    OBVIOUS
  <2> QED
    BY <2>1, <2>2
<1> PICK l \in 1..3 : l = Lines(s, n)
  BY LinesType DEF StripeAt
<1>3. /\ s < n /\ j + l + 1 <= m
      /\ j = 0 \/ DataOf(p[j]) = {}
      /\ \A t \in 1..l : p[j + t] = Batch(s, n, t, again)
      /\ p[j + l + 1] = StripeParity(s, n)
  BY <1>1 DEF StripeAt
<1>4. /\ j = 0 \/ w[j] = p[j]
      /\ \A t \in 1..l : w[j + t] = p[j + t]
      /\ w[j + l + 1] = p[j + l + 1]
  <2>1. j = 0 \/ j \in 1..m
    BY <1>3
  <2>2. \A t \in 1..l : j + t \in 1..m
    BY <1>3
  <2>3. j + l + 1 \in 1..m
    BY <1>3
  <2> QED
    BY <1>2, <2>1, <2>2, <2>3
<1>5. j + l + 1 <= Len(w)
  <2>1. Len(w) \in Int
    BY <1>1, ConcatProperties
  <2> QED
    BY <1>2, <1>3, <2>1
<1>6. \A t \in 1..l : w[j + t] = Batch(s, n, t, again)
  BY <1>3, <1>4
<1>7. j = 0 \/ DataOf(w[j]) = {}
  BY <1>3, <1>4
<1>8. w[j + l + 1] = StripeParity(s, n)
  BY <1>3, <1>4
<1> QED
  BY <1>1, <1>3, <1>5, <1>6, <1>7, <1>8 DEF StripeAt

LEMMA StripeShifts ==
  ASSUME NEW S, NEW p \in Seq(S), NEW q \in Seq(S), NEW n \in Nat, NEW j \in Nat, NEW s \in Nat,
         NEW again \in BOOLEAN, StripeAt(q, n, j, s, again),
         p = <<>> \/ DataOf(p[Len(p)]) = {}
  PROVE  StripeAt(p \o q, n, Len(p) + j, s, again)
<1>1. PICK m \in Nat, r \in Nat : m = Len(p) /\ r = Len(q)
  OBVIOUS
<1> PICK w : w = p \o q
  OBVIOUS
<1>2. Len(w) = m + r /\ (\A k \in 1..m : w[k] = p[k]) /\ \A k \in 1..r : w[m + k] = q[k]
  <2>1. Len(w) = m + r /\ \A k \in 1..(m + r) : w[k] = IF k <= m THEN p[k] ELSE q[k - m]
    BY <1>1, ConcatProperties
  <2>2. \A k \in 1..r : m + k \in 1..(m + r) /\ ~(m + k <= m) /\ (m + k) - m = k
    OBVIOUS
  <2>3. \A k \in 1..m : k \in 1..(m + r) /\ k <= m
    OBVIOUS
  <2> QED
    BY <2>1, <2>2, <2>3
<1> PICK l \in 1..3 : l = Lines(s, n)
  BY LinesType DEF StripeAt
<1>3. /\ s < n /\ j + l + 1 <= r
      /\ j = 0 \/ DataOf(q[j]) = {}
      /\ \A t \in 1..l : q[j + t] = Batch(s, n, t, again)
      /\ q[j + l + 1] = StripeParity(s, n)
  BY <1>1 DEF StripeAt
<1> PICK i \in Nat : i = m + j
  OBVIOUS
<1>4. \A t \in 1..l : w[i + t] = q[j + t]
  <2>1. \A t \in 1..l : j + t \in 1..r /\ m + (j + t) = i + t
    BY <1>3
  <2> QED
    BY <1>2, <2>1
<1>5. w[i + l + 1] = q[j + l + 1]
  <2>1. PICK k \in Nat : k = j + l + 1
    OBVIOUS
  <2>2. k \in 1..r
    BY <1>3, <2>1
  <2>3. m + k = i + l + 1
    BY <2>1
  <2> QED
    BY <1>2, <2>1, <2>2, <2>3
<1>6. i = 0 \/ DataOf(w[i]) = {}
  <2>1. CASE j = 0
    <3>1. i = m /\ (m = 0 \/ DataOf(p[m]) = {})
      BY <1>1, <2>1
    <3>2. m = 0 \/ m \in 1..m
      OBVIOUS
    <3> QED
      BY <1>2, <3>1, <3>2
  <2>2. CASE j # 0
    <3>1. j \in 1..r
      BY <1>3, <2>2
    <3> QED
      BY <1>2, <1>3, <2>2, <3>1
  <2> QED
    BY <2>1, <2>2
<1>7. i + l + 1 <= Len(w)
  BY <1>2, <1>3
<1>8. \A t \in 1..l : w[i + t] = Batch(s, n, t, again)
  BY <1>3, <1>4
<1>9. w[i + l + 1] = StripeParity(s, n)
  BY <1>3, <1>5
<1> QED
  BY <1>1, <1>3, <1>6, <1>7, <1>8, <1>9 DEF StripeAt

LEMMA StripesJoin ==
  ASSUME NEW S, NEW p \in Seq(S), NEW q \in Seq(S), NEW n \in Nat, InStripes(p, n), InStripes(q, n)
  PROVE  InStripes(p \o q, n)
<1>1. PICK m \in Nat, r \in Nat : m = Len(p) /\ r = Len(q)
  OBVIOUS
<1> PICK w : w = p \o q
  OBVIOUS
<1>2. p = <<>> \/ DataOf(p[Len(p)]) = {}
  <2> SUFFICES ASSUME p # <<>> PROVE DataOf(p[m]) = {}
    BY <1>1
  <2>1. m \in 1..m
    BY <1>1
  <2>2. PICK j \in Nat, s \in Nat, again \in BOOLEAN :
          j < m /\ m <= j + Lines(s, n) + 1 /\ StripeAt(p, n, j, s, again)
    BY <1>1, <2>1 DEF InStripes, InStripe
  <2>3. PICK l \in 1..3 : l = Lines(s, n)
    BY <2>2, LinesType DEF StripeAt
  <2>4. m = j + l + 1
    BY <1>1, <2>2, <2>3 DEF StripeAt
  <2>5. p[m] = StripeParity(s, n)
    BY <2>2, <2>3, <2>4 DEF StripeAt
  <2> QED
    BY <2>5, ParityNoData
<1>3. ASSUME NEW k \in 1..m PROVE InStripe(w, n, k)
  <2>1. PICK j \in Nat, s \in Nat, again \in BOOLEAN :
          j < k /\ k <= j + Lines(s, n) + 1 /\ StripeAt(p, n, j, s, again)
    BY <1>1 DEF InStripes, InStripe
  <2>2. StripeAt(w, n, j, s, again)
    BY <1>1, <2>1, StripeKeeps
  <2> QED
    BY <2>1, <2>2 DEF InStripe
<1>4. ASSUME NEW k \in 1..r PROVE InStripe(w, n, m + k)
  <2>1. PICK j \in Nat, s \in Nat, again \in BOOLEAN :
          j < k /\ k <= j + Lines(s, n) + 1 /\ StripeAt(q, n, j, s, again)
    BY <1>1 DEF InStripes, InStripe
  <2>2. StripeAt(w, n, m + j, s, again)
    BY <1>1, <1>2, <2>1, StripeShifts
  <2>3. PICK l \in 1..3 : l = Lines(s, n)
    BY <2>1, LinesType DEF StripeAt
  <2>4. m + j \in Nat /\ m + j < m + k /\ m + k <= (m + j) + l + 1
    BY <2>1, <2>3
  <2> QED
    BY <2>2, <2>3, <2>4 DEF InStripe
<1>5. Len(w) = m + r
  BY <1>1, ConcatProperties
<1>6. ASSUME NEW k \in 1..(m + r) PROVE InStripe(w, n, k)
  <2>1. CASE k <= m
    BY <1>3, <2>1
  <2>2. CASE ~(k <= m)
    <3>1. k - m \in 1..r /\ m + (k - m) = k
      BY <2>2
    <3> QED
      BY <1>4, <3>1
  <2> QED
    BY <2>1, <2>2
<1> QED
  BY <1>1, <1>5, <1>6 DEF InStripes

\* All that can stand in such a pass.
StripedImages(n) == ImagesOf(n) \cup {StripeParity(s, n) : s \in Nat}

LEMMA OneMore ==
  ASSUME NEW S, NEW p \in Seq(S), NEW x \in S, NEW w, w = p \o <<x>>
  PROVE  /\ w \in Seq(S) /\ Len(w) = Len(p) + 1 /\ w[Len(p) + 1] = x
         /\ \A k \in 1..Len(p) : w[k] = p[k]
<1>1. PICK m \in Nat : m = Len(p)
  OBVIOUS
<1>2. PICK q \in Seq(S) : q = <<x>> /\ Len(q) = 1 /\ q[1] = x
  OBVIOUS
<1>3. /\ p \o q \in Seq(S) /\ Len(p \o q) = m + 1
      /\ \A k \in 1..(m + 1) : (p \o q)[k] = IF k <= m THEN p[k] ELSE q[k - m]
  BY <1>1, <1>2, ConcatProperties
<1>4. m + 1 \in 1..(m + 1) /\ ~(m + 1 <= m) /\ (m + 1) - m = 1
  OBVIOUS
<1>5. (p \o q)[m + 1] = x
  BY <1>2, <1>3, <1>4
<1>6. \A k \in 1..m : (p \o q)[k] = p[k]
  BY <1>3
<1> QED
  BY <1>1, <1>2, <1>3, <1>5, <1>6

LEMMA OneStripe ==
  ASSUME NEW n \in Nat, NEW s \in Nat, s < n, NEW again \in BOOLEAN,
         NEW p, p = DataBatches(s..(StripeEnd(s, n) - 1), again) \o <<StripeParity(s, n)>>
  PROVE  p \in Seq(StripedImages(n)) /\ InStripes(p, n)
<1> PICK e \in Nat, l \in 1..3 : e = StripeEnd(s, n) /\ l = Lines(s, n) /\ s < e /\ e <= n
  BY LinesType
<1> DEFINE data == DataBatches(s..(e - 1), again)
           closing == StripeParity(s, n)
           S == StripedImages(n)
<1>1. data = [t \in 1..l |-> Batch(s, n, t, again)]
  <2>1. s <= e /\ l = (e - s + 2) \div 3
    BY DEF Lines
  <2> QED
    <3>1. data = [t \in 1..((e - s + 2) \div 3) |-> {Data(i, again) : i \in Three(s, e, t)}]
      BY <2>1, IntervalImages
    <3>2. \A t : Batch(s, n, t, again) = {Data(i, again) : i \in Three(s, e, t)}
      BY DEF Batch
    <3> HIDE DEF data
    <3> QED
      BY <2>1, <3>1, <3>2
<1>2. data \in Seq(S) /\ Len(data) = l
  <2>1. s..(e - 1) \in SUBSET (0..(n - 1))
    OBVIOUS
  <2>2. data \in Seq(ImagesOf(n))
    BY <2>1, DataBatchesType
  <2>3. data \in Seq(S)
    <3> HIDE DEF data
    <3> QED
      BY <2>2 DEF StripedImages
  <2>4. Len([t \in 1..l |-> Batch(s, n, t, again)]) = l
    OBVIOUS
  <2> QED
    BY <1>1, <2>3, <2>4
<1>3. closing \in S
  BY DEF StripedImages
<1>4. p = data \o <<closing>>
  OBVIOUS
<1> HIDE DEF data, closing, S
<1>5. \A t \in 1..l : data[t] = Batch(s, n, t, again)
  BY <1>1
<1>6. p \in Seq(S) /\ Len(p) = l + 1 /\ p[l + 1] = closing
  <2>1. PICK T, x, d : T = S /\ x = closing /\ d = data
    OBVIOUS
  <2>2. d \in Seq(T) /\ x \in T /\ p = d \o <<x>>
    BY <1>2, <1>3, <1>4, <2>1
  <2>3. p \in Seq(T)
    BY <2>2, OneMore
  <2>4. Len(p) = Len(d) + 1
    BY <2>2, OneMore
  <2>5. p[Len(d) + 1] = x
    BY <2>2, OneMore
  <2> QED
    BY <1>2, <2>1, <2>3, <2>4, <2>5
<1>7. \A t \in 1..l : p[t] = Batch(s, n, t, again)
  <2>1. \A t \in 1..l : p[t] = data[t]
    BY <1>2, <1>3, <1>4, OneMore
  <2> QED
    BY <1>5, <2>1
<1>8. p[l + 1] = closing
  BY <1>6
<1>9. PICK j \in Nat : j = 0
  OBVIOUS
<1>10. StripeAt(p, n, j, s, again)
  <2>1. j + l + 1 <= Len(p) /\ j + l + 1 = l + 1
    BY <1>6, <1>9
  <2>2. \A t \in 1..l : j + t = t
    BY <1>9
  <2>3. \A t \in 1..l : p[j + t] = Batch(s, n, t, again)
    BY <1>7, <2>2
  <2>4. p[j + l + 1] = StripeParity(s, n)
    BY <1>8, <2>1 DEF closing
  <2> QED
    BY <1>9, <2>1, <2>3, <2>4 DEF StripeAt
<1>11. \A k \in 1..(l + 1) : j < k /\ k <= j + l + 1
  BY <1>9
<1>12. \A k \in 1..(l + 1) : InStripe(p, n, k)
  BY <1>10, <1>11 DEF InStripe
<1> QED
  BY <1>6, <1>12 DEF InStripes, S

LEMMA StripesIn ==
  ASSUME NEW n \in Nat, NEW from \in Nat, from <= n, NEW again \in BOOLEAN
  PROVE  Stripes(from, n, again) \in Seq(StripedImages(n)) /\ InStripes(Stripes(from, n, again), n)
<1> DEFINE end(s) == Smaller(s + 9, n)
           parity(s, c) == Item("BLOCK_XOR", s + c, (end(s) - (s + c) + 2) \div 3, 3)
           closing(s) == {parity(s, c) : c \in {d \in 0..2 : s + d < end(s)}}
           stripe(s) == DataBatches(s..(end(s) - 1), again) \o <<closing(s)>>
           m == (n - from + 8) \div 9
           seqs == [k \in 1..m |-> stripe(from + 9 * (k - 1))]
           S == StripedImages(n)
           C == {p \in Seq(S) : InStripes(p, n)}
<1>1. ASSUME NEW s \in Nat, s < n PROVE stripe(s) \in C
  <2>1. closing(s) = StripeParity(s, n)
    BY DEF StripeParity, ChannelParity, StripeEnd
  <2>2. stripe(s) = DataBatches(s..(StripeEnd(s, n) - 1), again) \o <<StripeParity(s, n)>>
    BY <2>1 DEF StripeEnd
  <2> HIDE DEF stripe
  <2>3. stripe(s) \in Seq(S) /\ InStripes(stripe(s), n)
    BY <1>1, <2>2, OneStripe
  <2> QED
    BY <2>3
<1> HIDE DEF stripe
<1>2. m \in Nat
  OBVIOUS
<1>3. ASSUME NEW k \in 1..m PROVE stripe(from + 9 * (k - 1)) \in C
  <2>1. PICK s \in Nat : s = from + 9 * (k - 1)
    OBVIOUS
  <2>2. s < n
    BY <2>1
  <2> HIDE DEF C, m
  <2> QED
    BY <1>1, <2>1, <2>2
<1>4. Stripes(from, n, again) = FlattenSeq(seqs)
  BY DEF Stripes, stripe
<1> HIDE DEF m
<1>5. \A s, t \in C : s \o t \in C
  BY StripesJoin, ConcatProperties
<1>6. <<>> \in C
  <2>1. \A p : p = <<>> => p \in Seq(S) /\ InStripes(p, n)
    BY DEF InStripes
  <2> QED
    BY <2>1
<1>7. C \subseteq Seq(S)
  OBVIOUS
<1> HIDE DEF C, S
<1>8. seqs \in Seq(C)
  BY <1>2, <1>3
<1> HIDE DEF seqs
<1>9. seqs \in Seq(Seq(S)) /\ \A i \in 1..Len(seqs) : seqs[i] \in C
  BY <1>7, <1>8
<1>10. FlattenSeq(seqs) \in C
  BY <1>5, <1>6, <1>7, <1>9, FlattenClosed
<1> QED
  BY <1>4, <1>10 DEF C, S

LEMMA TransmitStripes ==
  ASSUME NEW c, ValidConfig(c), c.rgb3, c.group = 3, NEW n \in Nat, NEW from \in Nat, from <= n
  PROVE  InStripes(Transmit(c, from, n), n)
<1> DEFINE round(r) == Stripes(IF r = 1 THEN from ELSE 0, n, r > 1)
           rounds == [r \in 1..c.repeat |-> round(r)]
           S == StripedImages(n)
           C == {p \in Seq(S) : InStripes(p, n)}
<1>1. Transmit(c, from, n) = FlattenSeq(rounds)
  BY DEF Transmit, ColourPass
<1>2. c.repeat \in Nat
  BY DEF ValidConfig
<1>3. ASSUME NEW r \in 1..c.repeat PROVE round(r) \in C
  <2>1. PICK start \in Nat : start = IF r = 1 THEN from ELSE 0
    OBVIOUS
  <2> DEFINE again == r > 1
  <2>2. start <= n /\ again \in BOOLEAN
    BY <2>1
  <2> HIDE DEF again
  <2>3. Stripes(start, n, again) \in C
    BY <2>2, StripesIn
  <2> HIDE DEF C
  <2> QED
    BY <2>1, <2>3 DEF again
<1>4. \A s, t \in C : s \o t \in C
  BY StripesJoin, ConcatProperties
<1>5. <<>> \in C
  <2>1. \A p : p = <<>> => p \in Seq(S) /\ InStripes(p, n)
    BY DEF InStripes
  <2> QED
    BY <2>1
<1>6. C \subseteq Seq(S)
  OBVIOUS
<1> HIDE DEF C, S, round
<1>7. rounds \in Seq(C)
  BY <1>2, <1>3
<1> HIDE DEF rounds
<1>8. rounds \in Seq(Seq(S)) /\ \A i \in 1..Len(rounds) : rounds[i] \in C
  BY <1>6, <1>7
<1>9. FlattenSeq(rounds) \in C
  BY <1>4, <1>5, <1>6, <1>8, FlattenClosed
<1> QED
  BY <1>1, <1>9 DEF C

-----------------------------------------------------------------------------
(* Images in RGB3.                                                         *)

\* The direct renderer starts from the template of the mask.
ColourReady(v, e) ==
  e.ready => v.placement /\ DOMAIN v.qr = 1..3 /\ v.template = Drawn(e.mask, {})

ColourHolds(w, mask, text, streams) ==
  /\ Sound(w) /\ Presents(w, 3, mask, streams, text)
  /\ w.placement /\ DOMAIN w.qr = 1..3

\* The three streams drawn over the template.
LEMMA ColourDirect ==
  ASSUME Sound(vga), enc.ready \in BOOLEAN, ColourReady(vga, enc), NEW mask, CanPrepare(mask),
         NEW streams, NEW text, NEW w, w = ShowPrepared(ApplyDirect(vga, streams), text)
  PROVE  /\ ColourHolds(w, mask, text, streams) /\ w.template = Drawn(mask, {})
         /\ DirectReady(vga) /\ MayShowPrepared(vga, Invert)
<1>1. 3 \in Nat \ {0}
  OBVIOUS
<1>2. enc.ready /\ mask = enc.mask
  BY DEF CanPrepare
<1>3. vga.placement /\ DOMAIN vga.qr = 1..3 /\ vga.template = Drawn(mask, {})
  BY <1>2 DEF ColourReady
<1> PICK u : u = ApplyDirect(vga, streams)
  OBVIOUS
<1>4. Sound(u) /\ Holds(u, 3, mask, streams) /\ u.template = Drawn(mask, {})
  BY <1>1, <1>3, Directly
<1>5. IsVga(u) /\ Lags(u) /\ Blank(u)
  BY <1>4 DEF Sound, Holds
<1>6. w = ShowPrepared(u, text)
  OBVIOUS
<1>7. Sound(w) /\ Displayed(w) = [qr |-> u.qr, border |-> Invert, text |-> text]
  BY <1>5, <1>6, PreparedShows
<1>8. Shadows(w) = Shadows(u)
  BY <1>5, <1>6, PreparedKeeps
<1>9. w.placement = u.placement /\ w.qr = u.qr /\ w.template = u.template
  BY <1>8 DEF Shadows
<1>10. Presents(w, 3, mask, streams, text)
  BY <1>4, <1>7 DEF Presents, Holds
<1>11. w.placement /\ DOMAIN w.qr = 1..3
  BY <1>4, <1>9 DEF Holds, Rasters
<1>12. DirectReady(vga)
  BY <1>3, DrawnFields DEF DirectReady
<1>13. MayShowPrepared(vga, Invert)
  BY <1>3 DEF MayShowPrepared, Sound, Blank
<1> QED
  BY <1>4, <1>7, <1>9, <1>10, <1>11, <1>12, <1>13 DEF ColourHolds

\* The frames of the three channels, as encoded from scratch.
FramesOf(items) == [c \in 1..3 |-> Frame(Channels(items)[c])]
StreamsOf(frames) == [c \in 1..3 |-> Encode(frames[c])]

ColourState == Sized /\ base \in Nat /\ Sound(vga) /\ IsEncoder(enc) /\ ColourReady(vga, enc)

\* What a show_*() call of RGB3 makes of it.
ColourShows(d, streams, mask, text) ==
  /\ Sound(d.vga) /\ IsEncoder(d.enc) /\ ColourReady(d.vga, d.enc)
  /\ Presents(d.vga, 3, mask, streams, text)
  /\ d.enc.cache = enc.cache

Draws3(d, items, mask, text) == \E room \in BOOLEAN : d = DisplayItems(items, mask, text, room)

\* The codewords are those of the image.
Encoded(d, items) ==
  /\ d.enc.cw = StreamsOf(FramesOf(items)) /\ d.enc.headers = FramesOf(items)
  /\ d.enc.acc = enc.acc

LEMMA ItemsShow ==
  ASSUME ColourState, NEW items, NEW mask, NEW text, NEW d, Draws3(d, items, mask, text)
  PROVE  /\ ColourShows(d, StreamsOf(FramesOf(items)), mask, text)
         /\ Encoded(d, items) /\ d.ok = TRUE
<1> PICK room \in BOOLEAN : d = DisplayItems(items, mask, text, room)
  BY DEF Draws3
<1> PICK frames : frames = FramesOf(items)
  OBVIOUS
<1> PICK streams : streams = StreamsOf(frames)
  OBVIOUS
<1> DEFINE direct == CanPrepare(mask)
           w == IF direct THEN ShowPrepared(ApplyDirect(vga, streams), text)
                ELSE ShowFull(vga, Rasters(3, mask, streams), streams, Invert, text, room)
<1>1. d = [vga |-> w,
           enc |-> [enc EXCEPT !.cw = streams, !.headers = frames, !.mask = mask,
                               !.ready = DirectReady(w)],
           ok |-> direct => DirectReady(vga) /\ MayShowPrepared(vga, Invert)]
  BY DEF DisplayItems, FramesOf, StreamsOf, Rasters
<1>2. enc.ready \in BOOLEAN /\ Sound(vga) /\ ColourReady(vga, enc) /\ IsEncoder(enc)
  BY DEF ColourState, IsEncoder
<1>3. /\ ColourHolds(w, mask, text, streams)
      /\ w.template = Drawn(mask, {}) \/ w.template = NoRaster
      /\ direct => DirectReady(vga) /\ MayShowPrepared(vga, Invert)
  <2>1. CASE direct
    <3>1. w = ShowPrepared(ApplyDirect(vga, streams), text)
      BY <2>1
    <3> HIDE DEF w
    <3>2. /\ ColourHolds(w, mask, text, streams) /\ w.template = Drawn(mask, {})
          /\ DirectReady(vga) /\ MayShowPrepared(vga, Invert)
      BY <1>2, <2>1, <3>1, ColourDirect
    <3> QED
      BY <3>2
  <2>2. CASE ~direct
    <3>1. w = ShowFull(vga, Rasters(3, mask, streams), streams, Invert, text, room)
      BY <2>2
    <3> HIDE DEF w
    <3>2. 3 \in Nat \ {0}
      OBVIOUS
    <3>3. /\ Sound(w)
          /\ Displayed(w) = [qr |-> Rasters(3, mask, streams), border |-> Invert, text |-> text]
          /\ Shadows(w) = [placement |-> TRUE, qr |-> Rasters(3, mask, streams),
                           template |-> IF room THEN Drawn(mask, {}) ELSE NoRaster]
      BY <1>2, <3>1, <3>2, FullShows
    <3>4. w.placement = TRUE /\ w.qr = Rasters(3, mask, streams)
          /\ w.template = IF room THEN Drawn(mask, {}) ELSE NoRaster
      BY <3>3 DEF Shadows
    <3>5. DOMAIN w.qr = 1..3
      BY <3>4 DEF Rasters
    <3> QED
      BY <2>2, <3>3, <3>4, <3>5 DEF ColourHolds, Presents
  <2> QED
    BY <2>1, <2>2
<1> HIDE DEF direct, w
<1>4. d.vga = w /\ d.ok = TRUE
  <2>1. d.vga = w /\ d.ok = (direct => DirectReady(vga) /\ MayShowPrepared(vga, Invert))
    BY <1>1
  <2> QED
    BY <1>3, <2>1
<1>5. d.enc = [enc EXCEPT !.cw = streams, !.headers = frames, !.mask = mask,
                          !.ready = DirectReady(w)]
  BY <1>1
<1>6. /\ d.enc.raw = enc.raw /\ d.enc.cache = enc.cache /\ d.enc.acc = enc.acc
      /\ d.enc.cw = streams /\ d.enc.headers = frames /\ d.enc.mask = mask
      /\ d.enc.ready = DirectReady(w)
      /\ d.enc = [raw |-> d.enc.raw, headers |-> d.enc.headers, cw |-> d.enc.cw,
                  mask |-> d.enc.mask, ready |-> d.enc.ready, cache |-> d.enc.cache,
                  acc |-> d.enc.acc]
  BY <1>2, <1>5 DEF IsEncoder
<1>7. DirectReady(w) \in BOOLEAN
  BY <1>3 DEF ColourHolds, Sound, IsVga, DirectReady
<1>8. IsEncoder(d.enc)
  BY <1>2, <1>6, <1>7 DEF IsEncoder
<1>9. ColourReady(d.vga, d.enc)
  BY <1>3, <1>4, <1>6 DEF ColourReady, ColourHolds, DirectReady
<1>10. ColourShows(d, streams, mask, text)
  BY <1>3, <1>4, <1>6, <1>8, <1>9 DEF ColourShows, ColourHolds
<1>11. Encoded(d, items)
  BY <1>6 DEF Encoded
<1> QED
  BY <1>4, <1>10, <1>11

-----------------------------------------------------------------------------
(* The channels of an image.                                               *)

LEMMA PairSize == ASSUME NEW x, NEW y, x # y PROVE Cardinality({x, y}) = 2
<1>1. IsFiniteSet({y}) /\ Cardinality({y}) = 1 /\ x \notin {y}
  BY FS_Singleton
<1>2. Cardinality({y} \cup {x}) = 2
  BY <1>1, FS_AddElement
<1>3. {y} \cup {x} = {x, y}
  OBVIOUS
<1> QED
  BY <1>2, <1>3

LEMMA TrioSize ==
  ASSUME NEW x, NEW y, NEW z, x # y, x # z, y # z
  PROVE  Cardinality({x, y, z}) = 3
<1>1. PICK S : S = {x, y}
  OBVIOUS
<1>2. IsFiniteSet(S) /\ Cardinality(S) = 2 /\ z \notin S
  <2>1. IsFiniteSet({y}) /\ Cardinality({y}) = 1 /\ x \notin {y}
    BY FS_Singleton
  <2>2. IsFiniteSet({y} \cup {x}) /\ Cardinality({y} \cup {x}) = 2
    BY <2>1, FS_AddElement
  <2>3. {y} \cup {x} = S
    BY <1>1
  <2> QED
    BY <1>1, <2>2, <2>3
<1>3. Cardinality(S \cup {z}) = 3
  BY <1>2, FS_AddElement
<1>4. S \cup {z} = {x, y, z}
  BY <1>1
<1> QED
  BY <1>3, <1>4

Before(items, a) == Cardinality({b \in items : b.first < a.first})

\* The items of an image are those of f, in the order of their frames.
Numbered(items, f, m, g) ==
  /\ items = {f[k] : k \in 1..m}
  /\ \A k \in 1..m : f[k].first = g + k

LEMMA NumberedBefore ==
  ASSUME NEW m \in 1..3, NEW g \in Int, NEW f, NEW items, Numbered(items, f, m, g)
  PROVE  /\ Cardinality(items) = m
         /\ \A k \in 1..m : f[k] \in items /\ Before(items, f[k]) = k - 1
<1>1. \A k \in 1..m : f[k].first = g + k
  BY DEF Numbered
<1>2. items = {f[k] : k \in 1..m}
  BY DEF Numbered
<1>3. \A k \in 1..m : {b \in items : b.first < f[k].first} = {f[j] : j \in 1..(k - 1)}
  BY <1>1, <1>2
<1>4. \A j, k \in 1..m : j # k => f[j] # f[k]
  BY <1>1
<1> PICK x, y, z : x = f[1] /\ y = f[2] /\ z = f[3]
  OBVIOUS
<1>5. /\ {f[j] : j \in 1..(1 - 1)} = {}
      /\ {f[j] : j \in 1..1} = {x} /\ {f[j] : j \in 1..(2 - 1)} = {x}
      /\ {f[j] : j \in 1..2} = {x, y} /\ {f[j] : j \in 1..(3 - 1)} = {x, y}
      /\ {f[j] : j \in 1..3} = {x, y, z}
  OBVIOUS
<1>6. /\ Cardinality({}) = 0 /\ Cardinality({x}) = 1
      /\ x # y => Cardinality({x, y}) = 2
      /\ x # y /\ x # z /\ y # z => Cardinality({x, y, z}) = 3
  <2>1. Cardinality({}) = 0
    BY FS_EmptySet
  <2>2. Cardinality({x}) = 1
    BY FS_Singleton
  <2>3. x # y => Cardinality({x, y}) = 2
    BY PairSize
  <2>4. x # y /\ x # z /\ y # z => Cardinality({x, y, z}) = 3
    BY TrioSize
  <2> QED
    BY <2>1, <2>2, <2>3, <2>4
<1>7. (m > 1 => x # y) /\ (m > 2 => x # z /\ y # z)
  <2>1. /\ m > 1 => 1 \in 1..m /\ 2 \in 1..m
        /\ m > 2 => 3 \in 1..m
    OBVIOUS
  <2> QED
    BY <1>4, <2>1
<1>8. \A k \in 1..m : Cardinality({f[j] : j \in 1..(k - 1)}) = k - 1
  <2>1. m = 1 \/ m = 2 \/ m = 3
    OBVIOUS
  <2>2. \A k \in 1..m : k = 1 \/ (k = 2 /\ m > 1) \/ (k = 3 /\ m > 2)
    OBVIOUS
  <2>3. Cardinality({f[j] : j \in 1..(1 - 1)}) = 1 - 1
    BY <1>5, <1>6
  <2>4. m > 1 => Cardinality({f[j] : j \in 1..(2 - 1)}) = 2 - 1
    BY <1>5, <1>6
  <2>5. m > 2 => Cardinality({f[j] : j \in 1..(3 - 1)}) = 3 - 1
    BY <1>5, <1>6, <1>7
  <2> QED
    BY <2>2, <2>3, <2>4, <2>5
<1>9. Cardinality(items) = m
  <2>1. m = 1 \/ m = 2 \/ m = 3
    OBVIOUS
  <2> QED
    BY <1>2, <1>5, <1>6, <1>7, <2>1
<1>10. \A k \in 1..m : f[k] \in items
  BY <1>2
<1> QED
  BY <1>3, <1>8, <1>9, <1>10 DEF Before

InTheOrder(items, f, m) == \A c \in 1..3 : Channels(items)[c] = f[Smaller(c, m)]

LEMMA InOrderOf ==
  ASSUME NEW m \in 1..3, NEW g \in Int, NEW f, NEW items, Numbered(items, f, m, g)
  PROVE  InTheOrder(items, f, m)
<1>1. Cardinality(items) = m /\ \A k \in 1..m : f[k] \in items /\ Before(items, f[k]) = k - 1
  BY NumberedBefore
<1>2. \A a \in items : \E k \in 1..m : a = f[k]
  BY DEF Numbered
<1>3. ASSUME NEW k \in 1..m PROVE InOrder(items)[k] = f[k]
  <2> DEFINE Q(a) == a \in items /\ Before(items, a) = k - 1
  <2>1. Q(f[k])
    BY <1>1
  <2>2. \A a : Q(a) => a = f[k]
    <3> SUFFICES ASSUME NEW a \in items, Before(items, a) = k - 1 PROVE a = f[k]
      OBVIOUS
    <3>1. PICK j \in 1..m : a = f[j]
      BY <1>2
    <3>2. j - 1 = k - 1
      BY <1>1, <3>1
    <3> QED
      BY <3>1, <3>2
  <2>3. InOrder(items)[k] = CHOOSE a \in items : Before(items, a) = k - 1
    BY <1>1 DEF InOrder, Before
  <2>4. (CHOOSE a \in items : Before(items, a) = k - 1) = f[k]
    BY <2>1, <2>2
  <2> QED
    BY <2>3, <2>4
<1>4. ASSUME NEW c \in 1..3 PROVE Smaller(c, m) \in 1..m
  BY DEF Smaller
<1>5. ASSUME NEW c \in 1..3 PROVE Channels(items)[c] = InOrder(items)[Smaller(c, m)]
  BY <1>1 DEF Channels
<1> QED
  BY <1>3, <1>4, <1>5 DEF InTheOrder

\* The channels an image of DATA, and one of parity, has of its own.
Width(s, n, t) == Smaller(3, StripeEnd(s, n) - (s + 3 * (t - 1)))

LEMMA Narrow ==
  ASSUME NEW a \in Nat, NEW e \in Nat, a < e
  PROVE  \E m \in 1..3 : /\ m = Smaller(3, e - a) /\ m <= e - a
                         /\ Smaller(a + 3, e) = a + m
<1>1. CASE 3 < e - a
  <2>1. Smaller(3, e - a) = 3 /\ Smaller(a + 3, e) = a + 3
    BY <1>1 DEF Smaller
  <2> QED
    BY <1>1, <2>1
<1>2. CASE ~(3 < e - a)
  <2>1. PICK m \in Int : m = e - a
    OBVIOUS
  <2>2. m \in 1..3
    BY <1>2, <2>1
  <2>3. Smaller(3, m) = m
    BY <2>2 DEF Smaller
  <2>4. Smaller(a + 3, e) = e
    BY <1>2 DEF Smaller
  <2>5. e = a + m
    BY <2>1
  <2> QED
    BY <2>1, <2>2, <2>3, <2>4, <2>5
<1> QED
  BY <1>1, <1>2

LEMMA BatchChannels ==
  ASSUME NEW n \in Nat, NEW s \in Nat, s < n, NEW t \in 1..Lines(s, n), NEW again \in BOOLEAN,
         NEW items, items = Batch(s, n, t, again)
  PROVE  /\ Width(s, n, t) \in 1..3 /\ Cardinality(items) = Width(s, n, t)
         /\ \A c \in 1..Width(s, n, t) : Channels(items)[c] = Data(s + 3 * (t - 1) + (c - 1), again)
<1> PICK l \in 1..3, e \in Nat : /\ l = Lines(s, n) /\ e = StripeEnd(s, n)
                                /\ 3 * l - 2 <= e - s /\ e - s <= 3 * l /\ s < e
  BY LinesType
<1>1. PICK a \in Nat : a = s + 3 * (t - 1)
  OBVIOUS
<1>2. t \in 1..3 /\ t <= l
  OBVIOUS
<1>3. a < e /\ s + 3 * t = a + 3
  BY <1>2, <1>1
<1> PICK m \in 1..3 : m = Smaller(3, e - a) /\ m <= e - a /\ Smaller(a + 3, e) = a + m
  BY <1>3, Narrow
<1>4. m = Width(s, n, t)
  BY <1>1 DEF Width
<1> DEFINE f == [k \in 1..m |-> Data(a + (k - 1), again)]
<1>5. Three(s, e, t) = a..(a + m - 1)
  BY <1>1, <1>3 DEF Three
<1>6. items = {f[k] : k \in 1..m}
  <2>1. items = {Data(i, again) : i \in a..(a + m - 1)}
    BY <1>5 DEF Batch
  <2>2. \A i \in a..(a + m - 1) : i - a + 1 \in 1..m /\ a + ((i - a + 1) - 1) = i
    OBVIOUS
  <2>3. \A k \in 1..m : a + (k - 1) \in a..(a + m - 1)
    OBVIOUS
  <2> QED
    BY <2>1, <2>2, <2>3
<1>7. \A k \in 1..m : f[k].first = (a - 1) + k
  <2>1. \A k \in 1..m : a + (k - 1) \in Nat /\ a + (k - 1) = (a - 1) + k
    OBVIOUS
  <2>2. \A k \in 1..m : Data(a + (k - 1), again).first = a + (k - 1)
    BY <2>1, DataFields
  <2> QED
    BY <2>1, <2>2
<1>8. a - 1 \in Int
  OBVIOUS
<1> HIDE DEF f
<1>9. Numbered(items, f, m, a - 1)
  BY <1>6, <1>7 DEF Numbered
<1> PICK h : h = f
  OBVIOUS
<1>10. Numbered(items, h, m, a - 1)
  BY <1>9
<1>11. Cardinality(items) = m
  BY <1>8, <1>10, NumberedBefore
<1>12. \A c \in 1..3 : Channels(items)[c] = h[Smaller(c, m)]
  <2>1. InTheOrder(items, h, m)
    BY <1>8, <1>10, InOrderOf
  <2> QED
    BY <2>1 DEF InTheOrder
<1>13. \A c \in 1..m : c \in 1..3 /\ Smaller(c, m) = c
  BY DEF Smaller
<1>14. \A c \in 1..m : Channels(items)[c] = f[c]
  BY <1>12, <1>13
<1>15. \A c \in 1..m : f[c] = Data(s + 3 * (t - 1) + (c - 1), again)
  BY <1>1 DEF f
<1> QED
  BY <1>4, <1>11, <1>14, <1>15

-----------------------------------------------------------------------------
(* The sums of a stripe.                                                   *)

\* Channel c of a stripe: the frames from s + c - 1 on, every third.
Share(s, n, c) == (StripeEnd(s, n) - (s + (c - 1)) + 2) \div 3
Terms(s, n, t, c) == Smaller(t, Share(s, n, c))

LEMMA ShareFields ==
  ASSUME NEW s, NEW n, NEW c
  PROVE  /\ ChannelParity(s, n, c - 1) = Item("BLOCK_XOR", s + (c - 1), Share(s, n, c), 3)
         /\ ChannelParity(s, n, c - 1).first = s + (c - 1)
         /\ ChannelParity(s, n, c - 1).count = Share(s, n, c)
BY DEF ChannelParity, Share, Item

LEMMA ShareBounds ==
  ASSUME NEW s \in Nat, NEW e \in Nat, s < e, e <= s + 9, NEW c \in 1..3, NEW t \in 1..3,
         NEW l \in Int, l = (e - s + 2) \div 3
  PROVE  \E q \in 0..3 : /\ q = (e - (s + (c - 1)) + 2) \div 3
                         /\ (t <= q) <=> (c <= e - (s + 3 * (t - 1)))
                         /\ q <= l
                         /\ (q = 0) <=> ~(c <= e - s)
                         /\ c = 1 => q = l
<1>1. PICK d \in Int : d = e - s
  OBVIOUS
<1>2. d \in 1..9 /\ e - (s + (c - 1)) + 2 = d - c + 3 /\ e - s + 2 = d + 2
  BY <1>1
<1>3. e - (s + 3 * (t - 1)) = d - 3 * t + 3
  BY <1>1
<1>4. PICK q \in Int : q = (d - c + 3) \div 3
  BY <1>2
<1>5. 3 * q <= d - c + 3 /\ d - c + 3 <= 3 * q + 2
  BY <1>2, <1>4
<1>6. 3 * l <= d + 2 /\ d + 2 <= 3 * l + 2
  BY <1>2
<1>7. q \in 0..3
  BY <1>2, <1>5
<1>8. (t <= q) <=> (c <= d - 3 * t + 3)
  BY <1>5, <1>7
<1>9. q <= l /\ ((q = 0) <=> ~(c <= d)) /\ (c = 1 => q = l)
  BY <1>2, <1>5, <1>6, <1>7
<1>10. q = (e - (s + (c - 1)) + 2) \div 3
  BY <1>2, <1>4
<1> QED
  BY <1>1, <1>3, <1>7, <1>8, <1>9, <1>10

LEMMA ShareOf ==
  ASSUME NEW n \in Nat, NEW s \in Nat, s < n, NEW c \in 1..3, NEW t \in 1..Lines(s, n)
  PROVE  /\ Share(s, n, c) \in 0..Lines(s, n)
         /\ Terms(s, n, t, c) \in 0..3
         /\ c <= Width(s, n, t) => Terms(s, n, t - 1, c) = t - 1 /\ Terms(s, n, t, c) = t
         /\ ~(c <= Width(s, n, t)) => Terms(s, n, t - 1, c) = Terms(s, n, t, c)
         /\ (Share(s, n, c) = 0) <=> ~(c <= StripeEnd(s, n) - s)
<1> PICK l \in 1..3, e \in Nat : l = Lines(s, n) /\ e = StripeEnd(s, n) /\ s < e /\ e <= s + 9
  BY LinesType
<1>1. t \in 1..3 /\ t <= l /\ l = (e - s + 2) \div 3
  BY DEF Lines
<1>2. PICK q \in 0..3 : /\ q = (e - (s + (c - 1)) + 2) \div 3
                        /\ (t <= q) <=> (c <= e - (s + 3 * (t - 1)))
                        /\ q <= l
                        /\ (q = 0) <=> ~(c <= e - s)
  BY <1>1, ShareBounds
<1>3. q = Share(s, n, c)
  BY <1>2 DEF Share
<1>4. Terms(s, n, t, c) = Smaller(t, q) /\ Terms(s, n, t - 1, c) = Smaller(t - 1, q)
  BY <1>3 DEF Terms
<1>5. PICK a \in Int : a = e - (s + 3 * (t - 1))
  BY <1>1
<1>6. Width(s, n, t) = Smaller(3, a)
  BY <1>5 DEF Width
<1>7. (c <= Smaller(3, a)) <=> (c <= a)
  BY DEF Smaller
<1>8. Smaller(t, q) \in 0..3
  BY <1>1 DEF Smaller
<1>9. t <= q => Smaller(t, q) = t /\ Smaller(t - 1, q) = t - 1
  BY <1>1 DEF Smaller
<1>10. ~(t <= q) => Smaller(t, q) = q /\ Smaller(t - 1, q) = q
  BY <1>1 DEF Smaller
<1> QED
  BY <1>2, <1>3, <1>4, <1>5, <1>6, <1>7, <1>8, <1>9, <1>10

\* At the end of a stripe every frame of a channel has been summed.
LEMMA LastTerms ==
  ASSUME NEW n \in Nat, NEW s \in Nat, s < n, NEW c \in 1..3
  PROVE  Terms(s, n, Lines(s, n), c) = Share(s, n, c)
<1> PICK l \in 1..3 : l = Lines(s, n)
  BY LinesType
<1>1. l \in 1..Lines(s, n)
  OBVIOUS
<1>2. PICK q \in 0..l : q = Share(s, n, c)
  BY <1>1, ShareOf
<1>3. Smaller(l, q) = q
  BY DEF Smaller
<1> QED
  BY <1>2, <1>3 DEF Terms

\* The accumulator of a channel after k images.
HeaderOf(g, again) == {<<"header", DataFrame(base, g, again)>>}
StreamOf(g, again) == Encode(DataFrame(base, g, again))
SumAt(g, k, again) ==
  CASE k = 0 -> [first |-> 0, count |-> 0, headers |-> {}, cw |-> {}]
    [] k = 1 -> [first |-> g, count |-> 1,
                 headers |-> HeaderOf(g, again), cw |-> StreamOf(g, again)]
    [] k = 2 -> [first |-> g, count |-> 2,
                 headers |-> SymDiff(HeaderOf(g, again), HeaderOf(g + 3, again)),
                 cw |-> SymDiff(StreamOf(g, again), StreamOf(g + 3, again))]
    [] k = 3 -> [first |-> g, count |-> 3,
                 headers |-> SymDiff(SymDiff(HeaderOf(g, again), HeaderOf(g + 3, again)),
                                     HeaderOf(g + 6, again)),
                 cw |-> SymDiff(SymDiff(StreamOf(g, again), StreamOf(g + 3, again)),
                                StreamOf(g + 6, again))]

SumOf(s, n, t, again) == [c \in 1..3 |-> SumAt(s + (c - 1), Terms(s, n, t, c), again)]

LEMMA SumAtFields ==
  ASSUME NEW g, NEW again, NEW k \in 0..3
  PROVE  SumAt(g, k, again).count = k /\ (k > 0 => SumAt(g, k, again).first = g)
<1>1. k = 0 \/ k = 1 \/ k = 2 \/ k = 3
  OBVIOUS
<1> QED
  BY <1>1 DEF SumAt

LEMMA SumAtZero ==
  ASSUME NEW g, NEW again
  PROVE  SumAt(g, 0, again) = [first |-> 0, count |-> 0, headers |-> {}, cw |-> {}]
BY DEF SumAt

\* accumulate_rgb_data() for one channel.
AddTo(acc, g, header, stream) ==
  IF acc.count = 0 THEN [first |-> g, count |-> 1, headers |-> header, cw |-> stream]
  ELSE [acc EXCEPT !.count = @ + 1, !.headers = SymDiff(@, header), !.cw = SymDiff(@, stream)]

LEMMA AddToFields ==
  ASSUME NEW f, NEW k \in 1..2, NEW hs, NEW es, NEW g, NEW h, NEW e, NEW acc,
         acc = [first |-> f, count |-> k, headers |-> hs, cw |-> es]
  PROVE  AddTo(acc, g, h, e)
           = [first |-> f, count |-> k + 1, headers |-> SymDiff(hs, h), cw |-> SymDiff(es, e)]
<1>1. acc.count # 0
  <2>1. acc.count = k
    OBVIOUS
  <2>2. k # 0
    OBVIOUS
  <2> QED
    BY <2>1, <2>2
<1>2. AddTo(acc, g, h, e)
        = [acc EXCEPT !.count = @ + 1, !.headers = SymDiff(@, h), !.cw = SymDiff(@, e)]
  BY <1>1 DEF AddTo
<1>3. PICK q : q = k + 1
  OBVIOUS
<1>4. PICK x, y : x = SymDiff(hs, h) /\ y = SymDiff(es, e)
  OBVIOUS
<1>5. acc.headers = hs
  OBVIOUS
<1>6. acc.cw = es
  OBVIOUS
<1>7. acc.count = k
  OBVIOUS
<1>8. acc.headers = hs /\ acc.cw = es /\ acc.count = k
  BY <1>5, <1>6, <1>7
<1>9. AddTo(acc, g, h, e) = [acc EXCEPT !.count = q, !.headers = x, !.cw = y]
  BY <1>2, <1>8, <1>3, <1>4
<1>10. [acc EXCEPT !.count = q, !.headers = x, !.cw = y]
        = [first |-> f, count |-> q, headers |-> x, cw |-> y]
  <2>1. PICK w : w = [acc EXCEPT !.count = q, !.headers = x, !.cw = y]
    OBVIOUS
  <2>2. w.count = q
    BY <2>1
  <2>3. w.headers = x
    BY <2>1
  <2>4. w.cw = y
    BY <2>1
  <2>5. w.first = f
    BY <2>1
  <2>6. w = [first |-> w.first, count |-> w.count, headers |-> w.headers, cw |-> w.cw]
    BY <2>1
  <2> QED
    BY <2>1, <2>2, <2>3, <2>4, <2>5, <2>6
<1> QED
  BY <1>9, <1>10, <1>3, <1>4

LEMMA SumGrows ==
  ASSUME NEW g \in Nat, NEW again, NEW k \in 0..2
  PROVE  SumAt(g, k + 1, again)
           = AddTo(SumAt(g, k, again), g + 3 * k, HeaderOf(g + 3 * k, again),
                   StreamOf(g + 3 * k, again))
<1> PICK h0, h1, h2, e0, e1, e2 :
      /\ h0 = HeaderOf(g, again) /\ h1 = HeaderOf(g + 3, again) /\ h2 = HeaderOf(g + 6, again)
      /\ e0 = StreamOf(g, again) /\ e1 = StreamOf(g + 3, again) /\ e2 = StreamOf(g + 6, again)
  OBVIOUS
<1>1. /\ SumAt(g, 0, again) = [first |-> 0, count |-> 0, headers |-> {}, cw |-> {}]
      /\ SumAt(g, 1, again) = [first |-> g, count |-> 1, headers |-> h0, cw |-> e0]
      /\ SumAt(g, 2, again) = [first |-> g, count |-> 2, headers |-> SymDiff(h0, h1),
                               cw |-> SymDiff(e0, e1)]
      /\ SumAt(g, 3, again) = [first |-> g, count |-> 3, headers |-> SymDiff(SymDiff(h0, h1), h2),
                               cw |-> SymDiff(SymDiff(e0, e1), e2)]
  BY DEF SumAt
<1>2. CASE k = 0
  <2>1. k + 1 = 1 /\ g + 3 * k = g
    BY <1>2
  <2>2. AddTo(SumAt(g, 0, again), g, h0, e0) = SumAt(g, 1, again)
    BY <1>1 DEF AddTo
  <2> QED
    BY <1>2, <2>1, <2>2
<1>3. CASE k = 1
  <2>1. k + 1 = 2 /\ g + 3 * k = g + 3
    BY <1>3
  <2>2. 1 \in 1..2 /\ 1 + 1 = 2
    OBVIOUS
  <2>3. AddTo(SumAt(g, 1, again), g + 3, h1, e1) = SumAt(g, 2, again)
    BY <1>1, <2>2, AddToFields
  <2> QED
    BY <1>3, <2>1, <2>3
<1>4. CASE k = 2
  <2>1. k + 1 = 3 /\ g + 3 * k = g + 6
    BY <1>4
  <2>2. 2 \in 1..2 /\ 2 + 1 = 3
    OBVIOUS
  <2>3. AddTo(SumAt(g, 2, again), g + 6, h2, e2) = SumAt(g, 3, again)
    BY <1>1, <2>2, AddToFields
  <2> QED
    BY <1>4, <2>1, <2>3
<1> QED
  BY <1>2, <1>3, <1>4

-----------------------------------------------------------------------------
(* The sum of a channel is its equation.                                   *)

Distinct(l, h, z, p) == l # h /\ l # z /\ l # p /\ h # z /\ h # p /\ z # p

LEMMA CancelOne ==
  ASSUME NEW l, NEW h, NEW z, NEW p, Distinct(l, h, z, p)
  PROVE  SymDiff({l, h, p}, SymDiff({h}, {z}) \cup {}) = {l, z} \cup {p}
BY DEF SymDiff, Distinct

LEMMA CancelThree ==
  ASSUME NEW l, NEW h1, NEW h2, NEW h3, NEW z, NEW p1, NEW p2, NEW p3,
         Apart(l, h1, h2, z, p1, p2), Apart(l, h1, h3, z, p1, p3), Apart(l, h2, h3, z, p2, p3)
  PROVE  SymDiff(SymDiff(SymDiff({l, h1, p1}, {l, h2, p2}), {l, h3, p3}),
                 SymDiff(SymDiff(SymDiff({h1}, {h2}), {h3}), {z}) \cup {})
           = {l, z} \cup {p1, p2, p3}
<1>1. SymDiff({l, h1, p1}, {l, h2, p2}) = {h1, p1, h2, p2}
  BY DEF SymDiff, Apart
<1>2. SymDiff({h1, p1, h2, p2}, {l, h3, p3}) = {h1, p1, h2, p2, l, h3, p3}
  BY DEF SymDiff, Apart
<1>3. SymDiff({h1}, {h2}) = {h1, h2}
  BY DEF SymDiff, Apart
<1>4. SymDiff({h1, h2}, {h3}) = {h1, h2, h3}
  BY DEF SymDiff, Apart
<1>5. SymDiff({h1, h2, h3}, {z}) = {h1, h2, h3, z}
  BY DEF SymDiff, Apart
<1>6. SymDiff({h1, p1, h2, p2, l, h3, p3}, {h1, h2, h3, z} \cup {}) = {l, z} \cup {p1, p2, p3}
  BY DEF SymDiff, Apart
<1> QED
  BY <1>1, <1>2, <1>3, <1>4, <1>5, <1>6

\* The equation of k frames of a channel, from frame g on.
Every3(g, k) == Item("BLOCK_XOR", g, k, 3)

LEMMA Every3Fields ==
  ASSUME NEW g \in Nat, NEW k \in 1..3
  PROVE  /\ Every3(g, k).kind = "BLOCK_XOR" /\ Every3(g, k).stride = 3
         /\ Every3(g, k).count = k /\ Every3(g, k).first = g
         /\ Members(Every3(g, k)) = {g + 3 * i : i \in 0..(k - 1)}
<1> PICK it : it = Every3(g, k)
  OBVIOUS
<1>1. it = [kind |-> "BLOCK_XOR", first |-> g, count |-> k, stride |-> 3, repeated |-> FALSE]
  BY DEF Every3, Item
<1>2. Members(it) = {g + i * 3 : i \in 0..(k - 1)}
  BY <1>1 DEF Members
<1>3. \A i \in 0..(k - 1) : g + i * 3 = g + 3 * i
  OBVIOUS
<1>4. Members(it) = {g + 3 * i : i \in 0..(k - 1)}
  BY <1>2, <1>3
<1>5. it.kind = "BLOCK_XOR"
  BY <1>1
<1>6. it.stride = 3
  BY <1>1
<1>7. it.count = k
  BY <1>1
<1>8. it.first = g
  BY <1>1
<1> QED
  BY <1>4, <1>5, <1>6, <1>7, <1>8

\* Frames g + 3 * i of the window, as parts of a stream.
Part(g, i, again) == <<"header", DataFrame(base, g + 3 * i, again)>>
Load(g, i) == <<"payload", base + (g + 3 * i)>>

LEMMA PartsApart ==
  ASSUME base \in Nat, NEW g \in Nat, NEW again \in BOOLEAN, NEW k \in 1..3,
         NEW i \in 0..2, NEW j \in 0..2, i # j, NEW l
  PROVE  Apart(<<"length", l>>, Part(g, i, again), Part(g, j, again),
               <<"header", Frame(Every3(g, k))>>, Load(g, i), Load(g, j))
<1> PICK a \in Nat, b \in Nat : a = g + 3 * i /\ b = g + 3 * j /\ a # b
  OBVIOUS
<1> PICK r, s, f : r = DataFrame(base, a, again) /\ s = DataFrame(base, b, again)
                   /\ f = Frame(Every3(g, k))
  OBVIOUS
<1>1. r # s /\ r # f /\ s # f
  <2>1. r.item.first = a /\ s.item.first = b
    BY DataFields DEF DataFrame
  <2>2. r.item.kind = "DATA" /\ s.item.kind = "DATA"
    BY DataFields DEF DataFrame
  <2>3. f.item.kind = "BLOCK_XOR"
    BY Every3Fields DEF Frame
  <2>4. r # s
    BY <2>1
  <2>5. r # f /\ s # f
    BY <2>2, <2>3
  <2> QED
    BY <2>4, <2>5
<1>2. base + a # base + b
  OBVIOUS
<1> PICK x, y : x = base + a /\ y = base + b
  OBVIOUS
<1> PICK ll, h1, h2, h3, p1, p2 :
        /\ ll = <<"length", l>> /\ p1 = <<"payload", x>> /\ p2 = <<"payload", y>>
        /\ h1 = <<"header", r>> /\ h2 = <<"header", s>> /\ h3 = <<"header", f>>
  OBVIOUS
<1>3. /\ ll # h1 /\ ll # h2 /\ ll # h3 /\ ll # p1 /\ ll # p2
      /\ h1 # p1 /\ h1 # p2 /\ h2 # p1 /\ h2 # p2 /\ h3 # p1 /\ h3 # p2
  OBVIOUS
<1>4. h1 # h2 /\ h1 # h3 /\ h2 # h3 /\ p1 # p2
  <2>1. \A u, v : <<"header", u>> = <<"header", v>> => u = v
    OBVIOUS
  <2>2. \A u, v : <<"payload", u>> = <<"payload", v>> => u = v
    OBVIOUS
  <2> QED
    BY <1>1, <1>2, <2>1, <2>2
<1>5. Apart(ll, h1, h2, h3, p1, p2)
  BY <1>3, <1>4 DEF Apart
<1>6. /\ Part(g, i, again) = h1 /\ Part(g, j, again) = h2
      /\ Load(g, i) = p1 /\ Load(g, j) = p2
  BY DEF Part, Load
<1> QED
  BY <1>5, <1>6

\* What is known of frames of one length.
Alike(g, k, again, l) ==
  \A i \in 0..(k - 1) :
    /\ HeaderOf(g + 3 * i, again) = {Part(g, i, again)}
    /\ StreamOf(g + 3 * i, again) = {<<"length", l>>, Part(g, i, again), Load(g, i)}

LEMMA FramesAlike ==
  ASSUME Sized, base \in Nat, NEW g \in Nat, NEW again \in BOOLEAN, NEW k \in 1..3, NEW f,
         f = Frame(Every3(g, k)), SameLength(f)
  PROVE  \E l \in Int :
           /\ Alike(g, k, again, l)
           /\ LenOf(f) = l
           /\ Encode(f) = {<<"length", l>>, <<"header", f>>} \cup {Load(g, i) : i \in 0..(k - 1)}
<1> PICK S : S = Sources(f)
  OBVIOUS
<1>1. S = {base + (g + 3 * i) : i \in 0..(k - 1)}
  <2>1. f.base = base /\ f.item = Every3(g, k)
    BY DEF Frame
  <2>2. Members(f.item) = {g + 3 * i : i \in 0..(k - 1)}
    BY <2>1, Every3Fields
  <2>3. S = {base + x : x \in Members(f.item)}
    BY <2>1 DEF Sources
  <2>4. ASSUME NEW y \in S PROVE \E i \in 0..(k - 1) : y = base + (g + 3 * i)
    BY <2>2, <2>3
  <2>5. ASSUME NEW i \in 0..(k - 1) PROVE base + (g + 3 * i) \in S
    <3>1. g + 3 * i \in Members(f.item)
      BY <2>2
    <3> QED
      BY <2>3, <3>1
  <2> QED
    BY <2>4, <2>5
<1>2. S # {} /\ S \subseteq Nat
  <2>1. 0 \in 0..(k - 1)
    OBVIOUS
  <2>2. \A i \in 0..(k - 1) : base + (g + 3 * i) \in Nat
    OBVIOUS
  <2> QED
    BY <1>1, <2>1, <2>2
<1>3. PICK l : Lengths3(S) = {l}
  <2>1. Cardinality(Lengths3(S)) = 1
    BY DEF SameLength
  <2>2. IsFiniteSet(Lengths3(S))
    <3>1. Lengths3(S) \subseteq 1..Full
      BY <1>2, PayloadType DEF Lengths3
    <3>2. IsFiniteSet(1..Full)
      <4>1. 1 \in Int /\ Full \in Int
        BY DEF Full
      <4> QED
        BY <4>1, FS_Interval
    <3> QED
      BY <3>1, <3>2, FS_Subset
  <2> QED
    BY <2>1, <2>2, FS_Singleton
<1>4. \A x \in S : PayloadLen(x) = l
  BY <1>3 DEF Lengths3
<1>5. l \in Int
  <2>1. PICK x \in S : TRUE
    BY <1>2
  <2>2. x \in Nat
    BY <1>2, <2>1
  <2>3. PayloadLen(x) \in 1..Full
    BY <2>2, PayloadType
  <2> QED
    BY <1>4, <2>1, <2>3 DEF Full
<1>6. f.item.stride = 3
  BY Every3Fields DEF Frame
<1>7. /\ LenOf(f) = l
      /\ Encode(f) = {<<"length", l>>, <<"header", f>>} \cup {<<"payload", x>> : x \in S}
  BY <1>2, <1>4, <1>5, <1>6, EquationEncoded
<1>8. {<<"payload", x>> : x \in S} = {Load(g, i) : i \in 0..(k - 1)}
  BY <1>1 DEF Load
<1>9. Alike(g, k, again, l)
  <2> SUFFICES ASSUME NEW i \in 0..(k - 1)
      PROVE  /\ HeaderOf(g + 3 * i, again) = {Part(g, i, again)}
             /\ StreamOf(g + 3 * i, again) = {<<"length", l>>, Part(g, i, again), Load(g, i)}
    BY DEF Alike
  <2>1. PICK a \in Nat : a = g + 3 * i
    OBVIOUS
  <2>2. PayloadLen(base + a) = l
    BY <1>1, <1>4, <2>1
  <2>3. Encode(DataFrame(base, a, again))
          = {<<"length", l>>, <<"header", DataFrame(base, a, again)>>, <<"payload", base + a>>}
    BY <2>2, DataEncoded
  <2> QED
    BY <2>1, <2>3 DEF HeaderOf, StreamOf, Part, Load
<1> QED
  BY <1>5, <1>7, <1>8, <1>9

\* finalize_rgb_parity_channel() makes the equation, from the sums or not.
LEMMA SumIsEquation ==
  ASSUME Sized, base \in Nat, NEW g \in Nat, NEW again \in BOOLEAN, NEW k \in 1..3
  PROVE  Finalized(SumAt(g, k, again)) = Encode(Frame(Every3(g, k)))
<1> PICK acc, f : acc = SumAt(g, k, again) /\ f = Frame(Every3(g, k))
  OBVIOUS
<1>1. k \in 0..3 /\ k > 0
  OBVIOUS
<1>2. acc.count = k /\ acc.first = g
  BY <1>1, SumAtFields
<1>3. ParityOf(acc) = f
  BY <1>2 DEF ParityOf, Every3
<1>4. CASE ~Affine(f)
  BY <1>3, <1>4 DEF Finalized
<1>5. CASE Affine(f)
  <2>1. SameLength(f) /\ (k = 2 => LenOf(f) = Full)
    <3>1. f.item.count = k
      BY Every3Fields DEF Frame
    <3> QED
      BY <1>5, <3>1 DEF Affine
  <2>2. PICK l \in Int :
           /\ Alike(g, k, again, l)
           /\ LenOf(f) = l
           /\ Encode(f) = {<<"length", l>>, <<"header", f>>} \cup {Load(g, i) : i \in 0..(k - 1)}
    BY <2>1, FramesAlike
  <2>3. Finalized(acc) = CorrectXor(acc.cw, k, SymDiff(acc.headers, {<<"header", f>>}))
    BY <1>2, <1>3, <1>5 DEF Finalized
  <2> PICK L, z : L = <<"length", l>> /\ z = <<"header", f>>
    OBVIOUS
  <2> PICK h1, h2, h3, p1, p2, p3 :
        /\ h1 = Part(g, 0, again) /\ h2 = Part(g, 1, again) /\ h3 = Part(g, 2, again)
        /\ p1 = Load(g, 0) /\ p2 = Load(g, 1) /\ p3 = Load(g, 2)
    OBVIOUS
  <2>4. /\ Apart(L, h1, h2, z, p1, p2)
        /\ Apart(L, h1, h3, z, p1, p3)
        /\ Apart(L, h2, h3, z, p2, p3)
    <3>1. 0 \in 0..2 /\ 1 \in 0..2 /\ 2 \in 0..2 /\ 0 # 1 /\ 0 # 2 /\ 1 # 2
      OBVIOUS
    <3>2. Apart(L, h1, h2, z, p1, p2)
      BY <3>1, PartsApart
    <3>3. Apart(L, h1, h3, z, p1, p3)
      BY <3>1, PartsApart
    <3>4. Apart(L, h2, h3, z, p2, p3)
      BY <3>1, PartsApart
    <3> QED
      BY <3>2, <3>3, <3>4
  <2>5. g + 3 * 0 = g /\ g + 3 * 1 = g + 3 /\ g + 3 * 2 = g + 6
    OBVIOUS
  <2>6. \A s, h : (k = 1 \/ k = 3) => CorrectXor(s, k, h) = SymDiff(s, h \cup {})
    <3>1. 1 % 2 # 0 /\ 3 % 2 # 0
      OBVIOUS
    <3> QED
      BY <3>1 DEF CorrectXor
  <2>7. CASE k = 1
    <3>1. 0 \in 0..(k - 1) /\ 0..(k - 1) = {0}
      BY <2>7
    <3>2. acc.cw = {L, h1, p1} /\ acc.headers = {h1}
      <4>1. HeaderOf(g, again) = {h1} /\ StreamOf(g, again) = {L, h1, p1}
        BY <2>2, <2>5, <3>1 DEF Alike
      <4> QED
        BY <2>7, <4>1 DEF SumAt
    <3>3. Encode(f) = {L, z} \cup {p1}
      BY <2>2, <3>1
    <3>4. SymDiff({L, h1, p1}, SymDiff({h1}, {z}) \cup {}) = {L, z} \cup {p1}
      <4>1. L # h1 /\ L # z /\ L # p1 /\ h1 # z /\ h1 # p1 /\ z # p1
        BY <2>4 DEF Apart
      <4>2. Distinct(L, h1, z, p1)
        BY <4>1 DEF Distinct
      <4> QED
        BY <4>2, CancelOne
    <3>5. CorrectXor({L, h1, p1}, k, SymDiff({h1}, {z}))
            = SymDiff({L, h1, p1}, SymDiff({h1}, {z}) \cup {})
      BY <2>6, <2>7
    <3> QED
      BY <2>3, <3>2, <3>3, <3>4, <3>5
  <2>8. CASE k = 2
    <3>1. 0 \in 0..(k - 1) /\ 1 \in 0..(k - 1) /\ 0..(k - 1) = {0, 1}
      BY <2>8
    <3>2. acc.cw = SymDiff({L, h1, p1}, {L, h2, p2}) /\ acc.headers = SymDiff({h1}, {h2})
      <4>1. HeaderOf(g, again) = {h1} /\ StreamOf(g, again) = {L, h1, p1}
        BY <2>2, <2>5, <3>1 DEF Alike
      <4>2. HeaderOf(g + 3, again) = {h2} /\ StreamOf(g + 3, again) = {L, h2, p2}
        BY <2>2, <2>5, <3>1 DEF Alike
      <4>3. acc.cw = SymDiff(StreamOf(g, again), StreamOf(g + 3, again))
        BY <2>8 DEF SumAt
      <4>4. acc.headers = SymDiff(HeaderOf(g, again), HeaderOf(g + 3, again))
        BY <2>8 DEF SumAt
      <4> QED
        BY <4>1, <4>2, <4>3, <4>4
    <3>3. Encode(f) = {L, z} \cup {p1, p2}
      <4>1. {Load(g, i) : i \in 0..(k - 1)} = {p1, p2}
        BY <3>1
      <4> QED
        BY <2>2, <4>1
    <3> PICK s, h : /\ s = SymDiff({L, h1, p1}, {L, h2, p2})
                    /\ h = SymDiff(SymDiff({h1}, {h2}), {z})
      OBVIOUS
    <3>4. SymDiff(s, h \cup {L}) = {L, z} \cup {p1, p2}
      BY <2>4, CancelTwo
    <3>5. CorrectXor(s, k, h) = SymDiff(s, h \cup {L})
      <4>1. 2 % 2 = 0
        OBVIOUS
      <4>2. l = Full
        BY <2>1, <2>2, <2>8
      <4> QED
        BY <2>8, <4>1, <4>2 DEF CorrectXor
    <3> QED
      BY <2>3, <3>2, <3>3, <3>4, <3>5
  <2>9. CASE k = 3
    <3>1. 0 \in 0..(k - 1) /\ 1 \in 0..(k - 1) /\ 2 \in 0..(k - 1) /\ 0..(k - 1) = {0, 1, 2}
      BY <2>9
    <3>2. /\ acc.cw = SymDiff(SymDiff({L, h1, p1}, {L, h2, p2}), {L, h3, p3})
          /\ acc.headers = SymDiff(SymDiff({h1}, {h2}), {h3})
      <4>1. HeaderOf(g, again) = {h1} /\ StreamOf(g, again) = {L, h1, p1}
        BY <2>2, <2>5, <3>1 DEF Alike
      <4>2. HeaderOf(g + 3, again) = {h2} /\ StreamOf(g + 3, again) = {L, h2, p2}
        BY <2>2, <2>5, <3>1 DEF Alike
      <4>3. HeaderOf(g + 6, again) = {h3} /\ StreamOf(g + 6, again) = {L, h3, p3}
        BY <2>2, <2>5, <3>1 DEF Alike
      <4>4. acc.cw = SymDiff(SymDiff(StreamOf(g, again), StreamOf(g + 3, again)),
                             StreamOf(g + 6, again))
        BY <2>9 DEF SumAt
      <4>5. acc.headers = SymDiff(SymDiff(HeaderOf(g, again), HeaderOf(g + 3, again)),
                                  HeaderOf(g + 6, again))
        BY <2>9 DEF SumAt
      <4> QED
        BY <4>1, <4>2, <4>4, <4>5, <4>3
    <3>3. Encode(f) = {L, z} \cup {p1, p2, p3}
      <4>1. {Load(g, i) : i \in 0..(k - 1)} = {p1, p2, p3}
        BY <3>1
      <4> QED
        BY <2>2, <4>1
    <3> PICK s, h : /\ s = SymDiff(SymDiff({L, h1, p1}, {L, h2, p2}), {L, h3, p3})
                    /\ h = SymDiff(SymDiff(SymDiff({h1}, {h2}), {h3}), {z})
      OBVIOUS
    <3>4. SymDiff(s, h \cup {}) = {L, z} \cup {p1, p2, p3}
      BY <2>4, CancelThree
    <3>5. CorrectXor(s, k, h) = SymDiff(s, h \cup {})
      BY <2>6, <2>9
    <3> QED
      BY <2>3, <3>2, <3>3, <3>4, <3>5
  <2>10. k = 1 \/ k = 2 \/ k = 3
    OBVIOUS
  <2> QED
    BY <2>7, <2>8, <2>9, <2>10
<1> QED
  BY <1>4, <1>5

-----------------------------------------------------------------------------
(* Images of DATA add to the sums, the image of parity is made of them.    *)

LEMMA AccumulateSums ==
  ASSUME ColourState, NEW n \in Nat, NEW s \in Nat, s < n, NEW t \in 1..Lines(s, n),
         NEW again \in BOOLEAN, NEW items, items = Batch(s, n, t, again),
         enc.acc = SumOf(s, n, t - 1, again), NEW d, Encoded(d, items)
  PROVE  Accumulate(d.enc, items) = SumOf(s, n, t, again) /\ Contiguous(items)
<1> PICK l \in 1..3 : l = Lines(s, n)
  BY LinesType
<1>1. t \in 1..3
  OBVIOUS
<1> PICK w \in 1..3 : w = Width(s, n, t)
  BY BatchChannels
<1>2. /\ Cardinality(items) = w
      /\ \A c \in 1..w : Channels(items)[c] = Data(s + 3 * (t - 1) + (c - 1), again)
  BY BatchChannels
<1>3. /\ d.enc.cw = StreamsOf(FramesOf(items)) /\ d.enc.headers = FramesOf(items)
      /\ d.enc.acc = SumOf(s, n, t - 1, again)
  BY DEF Encoded
<1>4. ASSUME NEW c \in 1..w
      PROVE  /\ d.enc.acc[c] = SumAt(s + (c - 1), t - 1, again)
             /\ AddTo(d.enc.acc[c], Channels(items)[c].first, {<<"header", d.enc.headers[c]>>},
                      d.enc.cw[c]) = SumAt(s + (c - 1), t, again)
             /\ Follows(enc.acc[c], Channels(items)[c])
             /\ Terms(s, n, t, c) = t
  <2>1. c \in 1..3 /\ c <= w
    OBVIOUS
  <2>2. t - 1 \in 0..2 /\ s + (c - 1) \in Nat
    BY <1>1, <2>1
  <2>3. PICK g \in Nat, k \in 0..2 : g = s + (c - 1) /\ k = t - 1
    BY <2>2
  <2>4. PICK i \in Nat : i = g + 3 * k /\ i = s + 3 * (t - 1) + (c - 1)
    BY <2>3
  <2>5. Terms(s, n, t - 1, c) = t - 1 /\ Terms(s, n, t, c) = t
    BY <2>1, ShareOf
  <2>6. d.enc.acc[c] = SumAt(g, k, again)
    BY <1>3, <2>1, <2>3, <2>5 DEF SumOf
  <2>7. Channels(items)[c] = Data(i, again)
    BY <1>2, <2>4
  <2>8. Channels(items)[c].first = i
    BY <2>7, DataFields
  <2>9. d.enc.headers[c] = DataFrame(base, i, again)
    BY <1>3, <2>1, <2>7 DEF FramesOf, Frame, DataFrame
  <2>10. d.enc.cw[c] = StreamOf(i, again)
    <3>1. FramesOf(items)[c] = DataFrame(base, i, again)
      BY <1>3, <2>9
    <3>2. StreamsOf(FramesOf(items))[c] = Encode(FramesOf(items)[c])
      BY <2>1 DEF StreamsOf
    <3> QED
      BY <1>3, <3>1, <3>2 DEF StreamOf
  <2>11. SumAt(g, k + 1, again)
           = AddTo(SumAt(g, k, again), g + 3 * k, HeaderOf(g + 3 * k, again),
                   StreamOf(g + 3 * k, again))
    BY SumGrows
  <2>12. k + 1 = t
    BY <1>1, <2>3
  <2>13. AddTo(d.enc.acc[c], Channels(items)[c].first, {<<"header", d.enc.headers[c]>>},
               d.enc.cw[c]) = SumAt(g, t, again)
    BY <2>4, <2>6, <2>8, <2>9, <2>10, <2>11, <2>12 DEF HeaderOf
  <2>14. Follows(enc.acc[c], Channels(items)[c])
    <3>1. k \in 0..3 /\ enc.acc[c] = d.enc.acc[c]
      BY <1>3
    <3>2. enc.acc[c].count = k /\ (k > 0 => enc.acc[c].first = g)
      BY <2>6, <3>1, SumAtFields
    <3>3. k = 0 \/ i = g + k * 3
      BY <2>4
    <3> QED
      BY <2>8, <3>2, <3>3 DEF Follows
  <2> QED
    BY <2>3, <2>5, <2>6, <2>13, <2>14
<1>5. ASSUME NEW c \in 1..3
      PROVE  Accumulate(d.enc, items)[c] = SumAt(s + (c - 1), Terms(s, n, t, c), again)
  <2>1. Accumulate(d.enc, items)[c]
          = IF c <= w
            THEN AddTo(d.enc.acc[c], Channels(items)[c].first,
                       {<<"header", d.enc.headers[c]>>}, d.enc.cw[c])
            ELSE d.enc.acc[c]
    BY <1>2 DEF Accumulate, AddTo
  <2>2. CASE c <= w
    <3>1. c \in 1..w
      BY <2>2
    <3> QED
      BY <1>4, <2>1, <2>2, <3>1
  <2>3. CASE ~(c <= w)
    <3>1. d.enc.acc[c] = SumAt(s + (c - 1), Terms(s, n, t - 1, c), again)
      BY <1>3 DEF SumOf
    <3>2. Terms(s, n, t - 1, c) = Terms(s, n, t, c)
      BY <2>3, ShareOf
    <3> QED
      BY <2>1, <2>3, <3>1, <3>2
  <2> QED
    BY <2>2, <2>3
<1> DEFINE F == Accumulate(d.enc, items)
<1>6. F = [c \in 1..3 |-> F[c]]
  BY DEF Accumulate
<1> HIDE DEF F
<1>7. \A c \in 1..3 : F[c] = SumAt(s + (c - 1), Terms(s, n, t, c), again)
  BY <1>5 DEF F
<1>8. F = SumOf(s, n, t, again)
  BY <1>6, <1>7 DEF SumOf
<1>9. Contiguous(items)
  BY <1>2, <1>4 DEF Contiguous
<1> QED
  BY <1>8, <1>9 DEF F

\* The channels of an image of parity, and those that are in use.
LEMMA ParityChannels ==
  ASSUME NEW n \in Nat, NEW s \in Nat, s < n
  PROVE  \E m \in 1..3 :
           /\ \A c \in 1..3 : (c <= m) <=> (Share(s, n, c) > 0)
           /\ \A c \in 1..3 : Smaller(c, m) \in 1..m
           /\ \A c \in 1..3 : Channels(StripeParity(s, n))[c]
                                = Every3(s + (Smaller(c, m) - 1), Share(s, n, Smaller(c, m)))
           /\ StripeParity(s, n) = {Every3(s + (c - 1), Share(s, n, c)) : c \in 1..m}
<1> PICK l \in 1..3, e \in Nat : l = Lines(s, n) /\ e = StripeEnd(s, n) /\ s < e
  BY LinesType
<1>1. PICK m \in 1..3 : m = Smaller(3, e - s) /\ m <= e - s
  BY Narrow
<1>2. \A c \in 1..3 : (c <= m) <=> (c <= e - s)
  BY <1>1 DEF Smaller
<1>3. \A c \in 1..3 : Share(s, n, c) \in Nat /\ ((Share(s, n, c) = 0) <=> ~(c <= e - s))
  <2>1. l \in 1..Lines(s, n)
    OBVIOUS
  <2> SUFFICES ASSUME NEW c \in 1..3
      PROVE  Share(s, n, c) \in Nat /\ ((Share(s, n, c) = 0) <=> ~(c <= e - s))
    OBVIOUS
  <2>2. Share(s, n, c) \in 0..Lines(s, n)
    BY <2>1, ShareOf
  <2>3. (Share(s, n, c) = 0) <=> ~(c <= StripeEnd(s, n) - s)
    BY <2>1, ShareOf
  <2> QED
    BY <2>2, <2>3
<1>4. \A c \in 1..3 : (c <= m) <=> (Share(s, n, c) > 0)
  BY <1>2, <1>3
<1>5. \A c \in 1..3 : Smaller(c, m) \in 1..m
  BY DEF Smaller
<1> DEFINE h == [k \in 1..m |-> Every3(s + (k - 1), Share(s, n, k))]
           items == StripeParity(s, n)
<1>6. \A c \in 1..3 : ChannelParity(s, n, c - 1) = Every3(s + (c - 1), Share(s, n, c))
  BY ShareFields DEF Every3
<1>7. items = {Every3(s + (c - 1), Share(s, n, c)) : c \in 1..m}
  <2>1. items = {ChannelParity(s, n, c) : c \in {d \in 0..2 : s + d < e}}
    BY DEF StripeParity
  <2>2. \A c \in {d \in 0..2 : s + d < e} : c + 1 \in 1..m /\ (c + 1) - 1 = c
    BY <1>2
  <2>3. \A c \in 1..m : c - 1 \in {d \in 0..2 : s + d < e}
    BY <1>2
  <2>4. items = {ChannelParity(s, n, c - 1) : c \in 1..m}
    BY <2>1, <2>2, <2>3
  <2>5. \A c \in 1..m : c \in 1..3
    OBVIOUS
  <2> QED
    BY <1>6, <2>4, <2>5
<1>8. items = {h[k] : k \in 1..m}
  BY <1>7
<1>9. \A k \in 1..m : h[k].first = (s - 1) + k
  <2> SUFFICES ASSUME NEW k \in 1..m PROVE h[k].first = (s - 1) + k
    OBVIOUS
  <2>1. PICK a \in Nat : a = s + (k - 1) /\ a = (s - 1) + k
    OBVIOUS
  <2>2. Every3(a, Share(s, n, k)).first = a
    BY DEF Every3, Item
  <2> QED
    BY <2>1, <2>2
<1> PICK r : r = h
  OBVIOUS
<1> PICK p : p = items
  OBVIOUS
<1> HIDE DEF h, items
<1>10. Numbered(p, r, m, s - 1)
  BY <1>8, <1>9 DEF Numbered
<1>11. s - 1 \in Int
  OBVIOUS
<1>12. InTheOrder(p, r, m)
  BY <1>10, <1>11, InOrderOf
<1>13. \A c \in 1..3 : Channels(items)[c] = r[Smaller(c, m)]
  BY <1>12 DEF InTheOrder
<1>14. \A k \in 1..m : r[k] = Every3(s + (k - 1), Share(s, n, k))
  BY DEF h
<1>15. \A c \in 1..3 : Channels(items)[c]
                         = Every3(s + (Smaller(c, m) - 1), Share(s, n, Smaller(c, m)))
  BY <1>5, <1>13, <1>14
<1> QED
  BY <1>4, <1>5, <1>7, <1>15 DEF items

Flushes(d) == \E room \in BOOLEAN : d = FlushParity(room)

\* What the sums are made into.
SumsUsed == {c \in 1..3 : enc.acc[c].count > 0}
FlushedStreams == [c \in 1..3 |-> Finalized(enc.acc[IF c \in SumsUsed THEN c ELSE Max(SumsUsed)])]
FlushedItems == {ParityOf(enc.acc[c]).item : c \in SumsUsed}

LEMMA SumsAreParity ==
  ASSUME ColourState, NEW n \in Nat, NEW s \in Nat, s < n, NEW again \in BOOLEAN,
         enc.acc = SumOf(s, n, Lines(s, n), again), NEW items, items = StripeParity(s, n)
  PROVE  FlushedStreams = StreamsOf(FramesOf(items)) /\ FlushedItems = items
<1> PICK l \in 1..3 : l = Lines(s, n)
  BY LinesType
<1> PICK m \in 1..3 :
           /\ \A c \in 1..3 : (c <= m) <=> (Share(s, n, c) > 0)
           /\ \A c \in 1..3 : Smaller(c, m) \in 1..m
           /\ \A c \in 1..3 : Channels(StripeParity(s, n))[c]
                                = Every3(s + (Smaller(c, m) - 1), Share(s, n, Smaller(c, m)))
           /\ StripeParity(s, n) = {Every3(s + (c - 1), Share(s, n, c)) : c \in 1..m}
  BY ParityChannels
<1>1. ASSUME NEW c \in 1..3
      PROVE  /\ Share(s, n, c) \in 0..3
             /\ enc.acc[c] = SumAt(s + (c - 1), Share(s, n, c), again)
             /\ enc.acc[c].count = Share(s, n, c)
             /\ c <= m => enc.acc[c].first = s + (c - 1)
  <2>1. l \in 1..Lines(s, n)
    OBVIOUS
  <2>2. PICK q \in 0..3 : q = Share(s, n, c)
    <3>1. Share(s, n, c) \in 0..l
      BY <2>1, ShareOf
    <3> QED
      BY <3>1
  <2>3. Terms(s, n, Lines(s, n), c) = q
    BY <2>2, LastTerms
  <2>4. enc.acc[c] = SumAt(s + (c - 1), q, again)
    BY <2>3 DEF SumOf
  <2>5. enc.acc[c].count = q /\ (q > 0 => enc.acc[c].first = s + (c - 1))
    BY <2>4, SumAtFields
  <2> QED
    BY <2>2, <2>4, <2>5
<1>2. SumsUsed = 1..m
  <2>1. \A c \in 1..3 : enc.acc[c].count > 0 <=> c <= m
    BY <1>1
  <2>2. \A c \in 1..m : c \in 1..3 /\ c <= m
    OBVIOUS
  <2> QED
    BY <2>1, <2>2 DEF SumsUsed
<1>3. Max(SumsUsed) = m
  <2>1. m \in 1..m /\ \A y \in 1..m : m >= y
    OBVIOUS
  <2>2. \A x \in 1..m : x >= m => x = m
    OBVIOUS
  <2>3. \A x \in 1..m : (\A y \in 1..m : x >= y) => x = m
    BY <2>1, <2>2
  <2> QED
    BY <1>2, <2>1, <2>3 DEF Max
<1>4. ASSUME NEW c \in 1..3
      PROVE  FlushedStreams[c] = StreamsOf(FramesOf(items))[c]
  <2>1. PICK q \in 1..3 : q = Smaller(c, m) /\ q <= m
    <3>1. Smaller(c, m) \in 1..m
      OBVIOUS
    <3> QED
      BY <3>1
  <2>2. (IF c \in SumsUsed THEN c ELSE Max(SumsUsed)) = q
    <3>1. CASE c \in 1..m
      <4>1. Smaller(c, m) = c
        BY <3>1 DEF Smaller
      <4> QED
        BY <1>2, <2>1, <3>1, <4>1
    <3>2. CASE ~(c \in 1..m)
      <4>1. Smaller(c, m) = m
        BY <3>2 DEF Smaller
      <4> QED
        BY <1>2, <1>3, <2>1, <3>2, <4>1
    <3> QED
      BY <3>1, <3>2
  <2>3. FlushedStreams[c] = Finalized(enc.acc[q])
    BY <2>2 DEF FlushedStreams
  <2>4. PICK k \in 1..3 : k = Share(s, n, q)
    <3>1. Share(s, n, q) \in 0..3 /\ Share(s, n, q) > 0
      BY <1>1, <2>1
    <3> QED
      BY <3>1
  <2>5. PICK g \in Nat : g = s + (q - 1)
    OBVIOUS
  <2>6. enc.acc[q] = SumAt(g, k, again)
    BY <1>1, <2>4, <2>5
  <2>7. Sized /\ base \in Nat
    BY DEF ColourState
  <2>8. FlushedStreams[c] = Encode(Frame(Every3(g, k)))
    BY <2>3, <2>6, <2>7, SumIsEquation
  <2>9. Channels(items)[c] = Every3(g, k)
    BY <2>1, <2>4, <2>5
  <2>10. StreamsOf(FramesOf(items))[c] = Encode(Frame(Channels(items)[c]))
    BY DEF StreamsOf, FramesOf
  <2> QED
    BY <2>8, <2>9, <2>10
<1>5. FlushedStreams = StreamsOf(FramesOf(items))
  <2> DEFINE F == FlushedStreams
             G == StreamsOf(FramesOf(items))
  <2>1. F = [c \in 1..3 |-> F[c]]
    BY DEF FlushedStreams
  <2>2. G = [c \in 1..3 |-> G[c]]
    BY DEF StreamsOf
  <2>3. \A c \in 1..3 : F[c] = G[c]
    BY <1>4
  <2> HIDE DEF F, G
  <2>4. F = G
    BY <2>1, <2>2, <2>3
  <2> QED
    BY <2>4 DEF F, G
<1>6. FlushedItems = items
  <2>1. \A c \in 1..m : ParityOf(enc.acc[c]).item = Every3(s + (c - 1), Share(s, n, c))
    <3> SUFFICES ASSUME NEW c \in 1..m
        PROVE  ParityOf(enc.acc[c]).item = Every3(s + (c - 1), Share(s, n, c))
      OBVIOUS
    <3>1. c \in 1..3 /\ c <= m
      OBVIOUS
    <3>2. enc.acc[c].count = Share(s, n, c) /\ enc.acc[c].first = s + (c - 1)
      BY <1>1, <3>1
    <3> QED
      BY <3>2 DEF ParityOf, Frame, Every3
  <2> QED
    BY <1>2, <2>1 DEF FlushedItems
<1> QED
  BY <1>5, <1>6

LEMMA FlushShows ==
  ASSUME ColourState, NEW n \in Nat, NEW s \in Nat, s < n, NEW again \in BOOLEAN,
         enc.acc = SumOf(s, n, Lines(s, n), again), NEW items, items = StripeParity(s, n),
         NEW d, Flushes(d)
  PROVE  /\ ColourShows(d, StreamsOf(FramesOf(items)), DisplayMask, "blank")
         /\ d.ok = TRUE /\ d.enc.acc = NoParity
<1> PICK room \in BOOLEAN : d = FlushParity(room)
  BY DEF Flushes
<1> PICK streams : streams = StreamsOf(FramesOf(items))
  OBVIOUS
<1> PICK mask : mask = DisplayMask
  OBVIOUS
<1>1. FlushedStreams = streams /\ FlushedItems = items
  BY SumsAreParity
<1>2. d = IF CanPrepare(mask)
          THEN [vga |-> ShowPrepared(ApplyDirect(vga, streams), "blank"),
                enc |-> Flushed(enc), ok |-> DirectReady(vga) /\ MayShowPrepared(vga, Invert)]
          ELSE [DisplayItems(items, mask, "blank", room) EXCEPT !.enc = Flushed(@)]
  <2>1. d = IF CanPrepare(mask)
          THEN [vga |-> ShowPrepared(ApplyDirect(vga, FlushedStreams), "blank"),
                enc |-> Flushed(enc), ok |-> DirectReady(vga) /\ MayShowPrepared(vga, Invert)]
          ELSE [DisplayItems(FlushedItems, mask, "blank", room) EXCEPT !.enc = Flushed(@)]
    BY DEF FlushParity, FlushedStreams, FlushedItems, SumsUsed
  <2> QED
    BY <1>1, <2>1
<1>3. Sound(vga) /\ IsEncoder(enc) /\ ColourReady(vga, enc) /\ enc.ready \in BOOLEAN
  BY DEF ColourState, IsEncoder
<1>4. ASSUME NEW e, IsEncoder(e)
      PROVE  /\ IsEncoder(Flushed(e)) /\ Flushed(e).acc = NoParity
             /\ Flushed(e).cache = e.cache /\ Flushed(e).ready = e.ready
             /\ Flushed(e).mask = e.mask
  <2>1. PICK x : x = Flushed(e)
    OBVIOUS
  <2>2. x = [e EXCEPT !.acc = NoParity]
    BY <2>1 DEF Flushed
  <2>3. /\ x.raw = e.raw /\ x.cache = e.cache /\ x.acc = NoParity
        /\ x.cw = e.cw /\ x.headers = e.headers /\ x.mask = e.mask
        /\ x.ready = e.ready
        /\ x = [raw |-> x.raw, headers |-> x.headers, cw |-> x.cw,
                mask |-> x.mask, ready |-> x.ready, cache |-> x.cache,
                acc |-> x.acc]
    BY <1>4, <2>2 DEF IsEncoder
  <2>4. IsEncoder(x)
    BY <1>4, <2>3 DEF IsEncoder
  <2> QED
    BY <2>1, <2>3, <2>4
<1>5. CASE CanPrepare(mask)
  <2>1. d = [vga |-> ShowPrepared(ApplyDirect(vga, streams), "blank"),
             enc |-> Flushed(enc), ok |-> DirectReady(vga) /\ MayShowPrepared(vga, Invert)]
    BY <1>2, <1>5
  <2>2. PICK w : w = ShowPrepared(ApplyDirect(vga, streams), "blank")
    OBVIOUS
  <2>3. /\ ColourHolds(w, mask, "blank", streams) /\ w.template = Drawn(mask, {})
        /\ DirectReady(vga) /\ MayShowPrepared(vga, Invert)
    BY <1>3, <1>5, <2>2, ColourDirect
  <2>4. d.vga = w /\ d.enc = Flushed(enc)
        /\ d.ok = (DirectReady(vga) /\ MayShowPrepared(vga, Invert))
    BY <2>1, <2>2
  <2>5. mask = enc.mask
    BY <1>5 DEF CanPrepare
  <2>6. ColourReady(d.vga, d.enc)
    BY <1>3, <1>4, <2>3, <2>4, <2>5 DEF ColourReady, ColourHolds
  <2>7. IsEncoder(d.enc) /\ d.enc.cache = enc.cache /\ d.enc.acc = NoParity
    BY <1>3, <1>4, <2>4
  <2>8. ColourShows(d, streams, mask, "blank")
    BY <2>3, <2>4, <2>6, <2>7 DEF ColourShows, ColourHolds
  <2>9. d.ok = TRUE
    BY <2>3, <2>4
  <2> QED
    BY <2>7, <2>8, <2>9
<1>6. CASE ~CanPrepare(mask)
  <2>1. PICK a : a = DisplayItems(items, mask, "blank", room)
    OBVIOUS
  <2>2. Draws3(a, items, mask, "blank")
    BY <2>1 DEF Draws3
  <2>3. ColourShows(a, streams, mask, "blank") /\ a.ok = TRUE
    BY <2>2, ItemsShow
  <2>4. a = [vga |-> a.vga, enc |-> a.enc, ok |-> a.ok]
    BY <2>1 DEF DisplayItems
  <2>5. d = [a EXCEPT !.enc = Flushed(@)]
    BY <1>2, <1>6, <2>1
  <2>6. d.vga = a.vga /\ d.ok = a.ok /\ d.enc = Flushed(a.enc)
    BY <2>4, <2>5
  <2>7. IsEncoder(a.enc) /\ ColourReady(a.vga, a.enc) /\ a.enc.cache = enc.cache
    BY <2>3 DEF ColourShows
  <2>8. IsEncoder(d.enc) /\ d.enc.cache = enc.cache /\ d.enc.acc = NoParity
        /\ d.enc.ready = a.enc.ready /\ d.enc.mask = a.enc.mask
    BY <1>4, <2>6, <2>7
  <2>9. ColourReady(d.vga, d.enc)
    BY <2>6, <2>7, <2>8 DEF ColourReady
  <2>10. ColourShows(d, streams, mask, "blank")
    BY <2>3, <2>6, <2>8, <2>9 DEF ColourShows
  <2> QED
    BY <2>3, <2>6, <2>8, <2>10
<1> QED
  BY <1>5, <1>6

-----------------------------------------------------------------------------
(* What is known of every state.                                           *)

\* The page on display is the image meant.
Meant == IF cfg.rgb3 THEN 3 ELSE 1
MeantStreams == [c \in 1..Meant |-> Encode(WantedFrame(c))]
Visible == screen.items # {} => Presents(vga, Meant, WantedMask, MeantStreams, WantedText)

\* What the shadows, the encoder and the chain cache hold agrees.
Paged(v, e) ==
  /\ Sound(v) /\ IsEncoder(e) /\ CacheSound(e.cache)
  /\ IF cfg.rgb3 THEN ColourReady(v, e) ELSE MonoReady(v, e)

\* Where run_transfer() waits for a key.
Waits ==
  /\ phase = "first" => shown = 0 /\ ~selecting /\ count >= 3
  /\ phase = "prompt" => screen.items = {EndWindow}
  /\ phase = "paused" => screen.items = {}
  /\ phase \in {"prompt", "paused"} => shown = Len(pass)

\* What a pass is made of.
Shaped ==
  /\ ~cfg.rgb3 => Chains(cfg, pass)
  /\ selecting => AllData(pass)
  /\ Striped /\ phase # "done" => InStripes(pass, count)

\* An equation of two frames is shown after its left frame, with the header
\* of that; and what the cache would be hit by has its header there.
LeadBy(e, i) ==
  e.ready /\ e.mask = QrMask
  /\ \E again \in BOOLEAN : e.raw = DataFrame(base, i, again)
                            /\ e.cw = <<Encode(DataFrame(base, i, again))>>
Leading(k, e) ==
  k < Len(pass) => \A i \in Nat : pass[k + 1] = {ChainOf(i)} => LeadBy(e, i)
AfterChain(k, e) ==
  k \in 1..(Len(pass) - 1) => \A i \in Nat : pass[k] = {ChainOf(i)} => Fresh(e.cache, i + 1)
BeforeChain(k, e) ==
  k + 2 <= Len(pass) => \A i \in Nat : pass[k + 2] = {ChainOf(i)} => Fresh(e.cache, i)
LeadsAt(k, e) == Leading(k, e) /\ AfterChain(k, e) /\ BeforeChain(k, e)
Leads == phase = "stream" /\ ~cfg.rgb3 => LeadsAt(shown, enc)

\* Within a stripe the accumulator has the sums of the images shown.
Summing == phase = "stream" /\ Striped /\ shown > 0 /\ DataOf(pass[shown]) # {}
SumsAt(k, acc) ==
  \A j \in Nat, s \in Nat, again \in BOOLEAN :
    StripeAt(pass, count, j, s, again) /\ j < k /\ k <= j + Lines(s, count)
      => acc = SumOf(s, count, k - j, again)
Accumulated == IF Summing THEN SumsAt(shown, enc.acc) ELSE enc.acc = NoParity

RasterInv ==
  /\ SenderTyped /\ Sized /\ refused = FALSE
  /\ Waits /\ Shaped /\ Paged(vga, enc) /\ Leads /\ Accumulated /\ Visible

-----------------------------------------------------------------------------
(* An image of BW.                                                         *)

LEMMA PassImage ==
  ASSUME SenderTyped, NEW k \in 1..Len(pass)
  PROVE  /\ pass[k] \subseteq SymbolsOf(count) /\ pass[k] # {}
         /\ EndWindow \notin pass[k] /\ count \in Nat
<1>1. pass \in Seq(ImagesOf(count)) /\ count \in Nat
  BY DEF SenderTyped, Passing, Cut
<1>2. pass[k] \in ImagesOf(count)
  BY <1>1
<1>3. EndWindow \notin SymbolsOf(count)
  <2>1. EndWindow.kind = "END_WINDOW"
    BY DEF EndWindow, Item
  <2>2. \A s \in SymbolsOf(count) : s.kind \in Kinds
    BY DEF SymbolsOf
  <2> QED
    BY <2>1, <2>2 DEF Kinds
<1> QED
  BY <1>1, <1>2, <1>3 DEF ImagesOf

\* What a show_*() call leaves in the cache and in raw_frame.
Turned(d, it) ==
  /\ \A i \in Nat : it = ChainOf(i) => Fresh(d.enc.cache, i + 1)
  /\ \A i \in Nat, again \in BOOLEAN : it = Data(i, again) =>
       /\ d.enc.cache.valid => d.enc.cache = enc.cache
       /\ cfg.chain = 2 /\ Fresh(enc.cache, i) => d.enc.raw = Frame(it)

ShowsMono(d, it) == \E room, spare \in BOOLEAN : d = ShowMono(it, spare, room)

LEMMA PlainMask ==
  ASSUME Shaped, NEW k \in 1..Len(pass), NEW it \in pass[k], it.kind # "DATA"
  PROVE  DisplayMask = QrMask
<1>1. ~selecting
  BY DEF Shaped, AllData
<1> QED
  BY <1>1 DEF DisplayMask

LEMMA MonoImageShows ==
  ASSUME RasterInv, phase = "stream", ~cfg.rgb3, shown < Len(pass),
         NEW it, pass[shown + 1] = {it}, NEW d, ShowsMono(d, it)
  PROVE  MonoShows(d, Frame(it), DisplayMask, "blank") /\ Turned(d, it)
<1> PICK room \in BOOLEAN, spare \in BOOLEAN : d = ShowMono(it, spare, room)
  BY DEF ShowsMono
<1>1. PICK k \in 1..Len(pass) : k = shown + 1
  BY DEF RasterInv, SenderTyped, Passing
<1>2. it \in SymbolsOf(count) /\ it \in pass[k] /\ pass[k] = {it}
  BY <1>1, PassImage DEF RasterInv
<1>3. MonoState
  BY DEF RasterInv, Paged, MonoState, SenderTyped, Cut
<1>4. MonoImage(cfg, {it})
  BY <1>1, <1>2 DEF RasterInv, Shaped, Chains
<1>5. it.kind \in {"DATA", "BLOCK_XOR"} \/ (cfg.chain = 2 /\ \E i \in Nat : it = ChainOf(i))
  BY <1>4 DEF MonoImage
<1>6. it.kind # "DATA" => DisplayMask = QrMask
  BY <1>2, PlainMask DEF RasterInv
<1>7. CASE it.kind = "DATA"
  <2>1. PICK i \in Nat, again \in BOOLEAN : it = Data(i, again)
    BY <1>2, <1>7 DEF SymbolsOf
  <2>2. d = ShowFrame(it, DisplayMask, room)
    BY <1>7 DEF ShowMono
  <2>3. MonoShows(d, Frame(it), DisplayMask, "blank")
    BY <1>3, <2>1, <2>2, FrameShows
  <2>4. ASSUME NEW i1 \in Nat, NEW again1 \in BOOLEAN, it = Data(i1, again1)
        PROVE  /\ d.enc.cache.valid => d.enc.cache = enc.cache
               /\ cfg.chain = 2 /\ Fresh(enc.cache, i1) => d.enc.raw = Frame(it)
    BY <1>3, <2>2, <2>4, FrameShows
  <2>5. \A i1 \in Nat : it # ChainOf(i1)
    BY <1>7, ChainFields
  <2> QED
    BY <2>3, <2>4, <2>5 DEF Turned
<1>8. CASE it.kind = "BLOCK_XOR"
  <2>1. d = ShowWhole(it, "blank", room)
    BY <1>8 DEF ShowMono
  <2>2. MonoShows(d, Frame(it), QrMask, "blank")
    BY <1>3, <2>1, WholeShows
  <2>3. \A i1 \in Nat : it # ChainOf(i1)
    BY <1>8, ChainFields
  <2>4. \A i1 \in Nat, again \in BOOLEAN : it # Data(i1, again)
    BY <1>8, DataFields
  <2>5. DisplayMask = QrMask
    BY <1>6, <1>8
  <2> QED
    BY <2>2, <2>3, <2>4, <2>5 DEF Turned
<1>9. CASE \E i \in Nat : it = ChainOf(i)
  <2>1. PICK i \in Nat : it = ChainOf(i)
    BY <1>9
  <2>2. it.kind = "CHAIN_XOR" /\ it.first = i
    BY <2>1, ChainFields
  <2>3. d = ShowChain(it, spare, room)
    BY <2>2 DEF ShowMono
  <2>4. LeadBy(enc, i)
    BY <2>1 DEF RasterInv, Leads, LeadsAt, Leading
  <2>5. PICK again \in BOOLEAN : enc.raw = DataFrame(base, i, again)
                                 /\ enc.cw = <<Encode(DataFrame(base, i, again))>>
    BY <2>4 DEF LeadBy
  <2>6. CanPrepare(QrMask)
    BY <2>4 DEF LeadBy, CanPrepare
  <2>7. MonoShows(d, Frame(it), QrMask, "blank") /\ Fresh(d.enc.cache, i + 1)
    BY <1>3, <2>1, <2>3, <2>5, <2>6, ChainShows
  <2>8. \A i1 \in Nat, again1 \in BOOLEAN : it # Data(i1, again1)
    BY <2>2, DataFields
  <2>9. \A i1 \in Nat : it = ChainOf(i1) => i1 = i
    BY <2>2, ChainFields
  <2>10. DisplayMask = QrMask
    BY <1>6, <2>2
  <2> QED
    BY <2>7, <2>8, <2>9, <2>10 DEF Turned
<1> QED
  BY <1>5, <1>7, <1>8, <1>9

\* No equation of two frames reaches back beyond its pass, and frame 0 is
\* never in the cache.
LEMMA FirstFresh ==
  ASSUME NEW k, CacheSound(k)
  PROVE  Fresh(k, 0)
<1> SUFFICES ASSUME k.valid, k.key = CacheKey(0, QrMask) PROVE FALSE
  BY DEF Fresh
<1>1. PICK b \in Nat, i \in Nat \ {0} : k.key = <<k.key[1], b + i, i, QrMask>>
  BY DEF CacheSound
<1>2. <<k.key[1], b + i, i, QrMask>>[3] = i
  OBVIOUS
<1>3. CacheKey(0, QrMask)[3] = 0
  BY DEF CacheKey
<1> QED
  BY <1>1, <1>2, <1>3

LEMMA ChainsGoOn ==
  ASSUME RasterInv, phase = "stream", ~cfg.rgb3, shown < Len(pass),
         NEW it, pass[shown + 1] = {it}, NEW d,
         MonoShows(d, Frame(it), DisplayMask, "blank"), Turned(d, it)
  PROVE  LeadsAt(shown + 1, d.enc)
<1> PICK n \in Nat : n = Len(pass)
  BY DEF RasterInv, SenderTyped, Passing
<1>1. PICK l \in Nat : l = shown /\ l < n
  BY DEF RasterInv, SenderTyped, Passing
<1>2. PICK k \in 1..n : k = l + 1
  BY <1>1
<1>3. pass[k] = {it}
  BY <1>1, <1>2
<1>4. Chains(cfg, pass)
  BY DEF RasterInv, Shaped
<1>5. LeadsAt(l, enc)
  BY <1>1 DEF RasterInv, Leads
<1>6. CacheSound(d.enc.cache)
  BY DEF MonoShows
<1>7. Leading(k, d.enc)
  <2> SUFFICES ASSUME k < n, NEW i \in Nat, pass[k + 1] = {ChainOf(i)} PROVE LeadBy(d.enc, i)
    BY DEF Leading
  <2>1. PICK m \in 1..n : m = k + 1 /\ m - 1 = k /\ m = l + 2
    BY <1>2
  <2>2. Led(pass, m, i) /\ MonoImage(cfg, {ChainOf(i)})
    BY <1>4, <2>1 DEF Chains
  <2>3. PICK again \in BOOLEAN : pass[k] = {Data(i, again)}
    BY <2>1, <2>2 DEF Led
  <2>4. it = Data(i, again)
    BY <1>3, <2>3
  <2>5. cfg.chain = 2
    <3>1. PICK x : /\ {ChainOf(i)} = {x}
                   /\ \/ x.kind \in {"DATA", "BLOCK_XOR"}
                      \/ cfg.chain = 2 /\ \E j \in Nat : x = ChainOf(j)
      BY <2>2 DEF MonoImage
    <3>2. x = ChainOf(i)
      BY <3>1
    <3>3. x.kind = "CHAIN_XOR"
      BY <3>2, ChainFields
    <3> QED
      BY <3>1, <3>3
  <2>6. Fresh(enc.cache, i)
    <3>1. l + 2 <= n /\ pass[l + 2] = {ChainOf(i)}
      BY <2>1
    <3> QED
      BY <1>5, <3>1 DEF LeadsAt, BeforeChain
  <2>7. d.enc.raw = Frame(it)
    BY <2>4, <2>5, <2>6 DEF Turned
  <2>8. Frame(it) = DataFrame(base, i, again)
    BY <2>4 DEF Frame, DataFrame
  <2>9. DisplayMask = QrMask
    <3>1. ChainOf(i) \in pass[m] /\ ChainOf(i).kind # "DATA"
      BY <2>1, ChainFields
    <3> QED
      BY <3>1, PlainMask DEF RasterInv
  <2> QED
    BY <2>7, <2>8, <2>9 DEF LeadBy, MonoShows
<1>8. AfterChain(k, d.enc)
  <2> SUFFICES ASSUME NEW i \in Nat, pass[k] = {ChainOf(i)} PROVE Fresh(d.enc.cache, i + 1)
    BY DEF AfterChain
  <2>1. it = ChainOf(i)
    BY <1>3
  <2> QED
    BY <2>1 DEF Turned
<1>9. BeforeChain(k, d.enc)
  <2> SUFFICES ASSUME k + 2 <= n, NEW i \in Nat, pass[k + 2] = {ChainOf(i)}
               PROVE  Fresh(d.enc.cache, i)
    BY DEF BeforeChain
  <2>1. PICK m \in 1..n : m = k + 2 /\ m - 2 = k /\ m - 3 = l
    BY <1>2
  <2>2. Led(pass, m, i)
    BY <1>4, <2>1 DEF Chains
  <2>3. CASE i = 0
    BY <1>6, <2>3, FirstFresh
  <2>4. CASE i > 0 /\ m > 2 /\ pass[m - 2] = {ChainOf(i - 1)}
    <3>1. PICK j \in Nat : j = i - 1 /\ j + 1 = i
      BY <2>4
    <3>2. it = ChainOf(j)
      BY <1>3, <2>1, <2>4, <3>1
    <3> QED
      BY <3>1, <3>2 DEF Turned
  <2>5. CASE i > 0 /\ m > 3 /\ pass[m - 2] = {Data(i - 1, FALSE)} /\ pass[m - 3] = {ChainOf(i - 1)}
    <3>1. PICK j \in Nat : j = i - 1 /\ j + 1 = i
      BY <2>5
    <3>2. it = Data(j, FALSE)
      BY <1>3, <2>1, <2>5, <3>1
    <3>3. pass[l] = {ChainOf(j)}
      BY <2>1, <2>5, <3>1
    <3>4. l \in 1..(n - 1)
      BY <1>1, <2>1, <2>5
    <3>5. it = Data(j, FALSE) /\ pass[l] = {ChainOf(j)} /\ l \in 1..(n - 1)
      BY <3>2, <3>3, <3>4
    <3>6. Fresh(enc.cache, i)
      BY <1>5, <3>1, <3>5 DEF LeadsAt, AfterChain
    <3>7. d.enc.cache.valid => d.enc.cache = enc.cache
      <4>1. FALSE \in BOOLEAN
        OBVIOUS
      <4> QED
        BY <3>5, <4>1 DEF Turned
    <3> QED
      BY <3>6, <3>7 DEF Fresh
  <2>6. i > 0 =>
          \/ m > 2 /\ pass[m - 2] = {ChainOf(i - 1)}
          \/ m > 3 /\ pass[m - 2] = {Data(i - 1, FALSE)} /\ pass[m - 3] = {ChainOf(i - 1)}
    BY <2>2 DEF Led
  <2>7. i = 0 \/ i > 0
    OBVIOUS
  <2> QED
    BY <2>3, <2>4, <2>5, <2>6, <2>7
<1> QED
  BY <1>1, <1>2, <1>7, <1>8, <1>9 DEF LeadsAt

\* A pass begins, or is over.
LEMMA LeadsBegin ==
  ASSUME Chains(cfg, pass)', CacheSound(enc.cache)', shown' = 0
  PROVE  LeadsAt(shown, enc)'
<1>1. ASSUME NEW i \in Nat, pass'[1] = {ChainOf(i)}, 1 <= Len(pass')
      PROVE  FALSE
  <2>1. 1 \in 1..Len(pass')
    BY <1>1
  <2>2. Led(pass', 1, i)
    BY <1>1, <2>1 DEF Chains
  <2> QED
    BY <2>2 DEF Led
<1>2. ASSUME NEW i \in Nat, pass'[2] = {ChainOf(i)}, 2 <= Len(pass')
      PROVE  i = 0
  <2>1. 2 \in 1..Len(pass')
    BY <1>2
  <2>2. Led(pass', 2, i)
    BY <1>2, <2>1 DEF Chains
  <2> QED
    BY <2>2 DEF Led
<1>3. Fresh(enc.cache, 0)'
  <2> SUFFICES ASSUME enc'.cache.valid, enc'.cache.key = CacheKey(0, QrMask)' PROVE FALSE
    BY DEF Fresh
  <2>1. PICK b \in Nat, i \in Nat \ {0} :
          enc'.cache.key = <<enc'.cache.key[1], b + i, i, QrMask>>
    BY DEF CacheSound
  <2>2. <<enc'.cache.key[1], b + i, i, QrMask>>[3] = i
    OBVIOUS
  <2>3. CacheKey(0, QrMask)'[3] = 0
    BY DEF CacheKey
  <2> QED
    BY <2>1, <2>2, <2>3
<1> QED
  BY <1>1, <1>2, <1>3 DEF LeadsAt, Leading, AfterChain, BeforeChain

LEMMA LeadsEnd ==
  ASSUME Passing', shown' = Len(pass')
  PROVE  LeadsAt(shown, enc)'
<1>1. Len(pass') \in Nat
  BY DEF Passing
<1> QED
  BY <1>1 DEF LeadsAt, Leading, AfterChain, BeforeChain

-----------------------------------------------------------------------------
(* An image of RGB3.                                                       *)

LEMMA NoSums ==
  ASSUME NEW n \in Nat, NEW s \in Nat, s < n, NEW again
  PROVE  SumOf(s, n, 0, again) = NoParity
<1> PICK l \in 1..3 : l = Lines(s, n)
  BY LinesType
<1>1. ASSUME NEW c \in 1..3 PROVE Terms(s, n, 0, c) = 0
  <2>1. l \in 1..Lines(s, n)
    OBVIOUS
  <2>2. PICK q \in 0..l : q = Share(s, n, c)
    BY <2>1, ShareOf
  <2>3. Smaller(0, q) = 0
    BY DEF Smaller
  <2> QED
    BY <2>2, <2>3 DEF Terms
<1>2. \A c \in 1..3 : SumAt(s + (c - 1), Terms(s, n, 0, c), again)
                        = [first |-> 0, count |-> 0, headers |-> {}, cw |-> {}]
  BY <1>1, SumAtZero
<1> QED
  BY <1>2 DEF SumOf, NoParity

\* What is summed up before image t of a stripe.
LEMMA StripeSums ==
  ASSUME RasterInv, phase = "stream", Striped, NEW j \in Nat, NEW s \in Nat, NEW again \in BOOLEAN,
         StripeAt(pass, count, j, s, again), NEW t \in 1..(Lines(s, count) + 1), shown = j + (t - 1)
  PROVE  enc.acc = SumOf(s, count, t - 1, again)
<1>1. count \in Nat /\ s < count
  BY DEF RasterInv, SenderTyped, Cut, StripeAt
<1> PICK l \in 1..3 : l = Lines(s, count)
  BY <1>1, LinesType
<1>2. Accumulated
  BY DEF RasterInv
<1>3. CASE t = 1
  <2>1. shown = j /\ t - 1 = 0
    BY <1>3
  <2>2. j = 0 \/ DataOf(pass[j]) = {}
    BY DEF StripeAt
  <2>3. ~Summing
    BY <2>1, <2>2 DEF Summing
  <2>4. enc.acc = NoParity
    BY <1>2, <2>3 DEF Accumulated
  <2> QED
    BY <1>1, <2>1, <2>4, NoSums
<1>4. CASE t # 1
  <2>1. PICK k \in 1..l : k = t - 1 /\ shown = j + k /\ shown - j = k
    BY <1>4
  <2>2. pass[j + k] = Batch(s, count, k, again)
    BY DEF StripeAt
  <2>3. DataOf(pass[shown]) # {}
    BY <1>1, <2>1, <2>2, BatchData
  <2>4. shown > 0 /\ j < shown /\ shown <= j + l
    BY <2>1
  <2>5. Summing
    BY <2>3, <2>4 DEF Summing
  <2>6. SumsAt(shown, enc.acc)
    BY <1>2, <2>5 DEF Accumulated
  <2>7. enc.acc = SumOf(s, count, shown - j, again)
    BY <2>4, <2>6 DEF SumsAt
  <2> QED
    BY <2>1, <2>7
<1> QED
  BY <1>3, <1>4

\* Image k is the one of its stripe, of DATA or of parity.
Belongs(p, n, j, s, again, k) ==
  /\ k - j \in 1..(Lines(s, n) + 1)
  /\ (DataOf(p[k]) # {}) = (k <= j + Lines(s, n))
  /\ k <= j + Lines(s, n) => k - j \in 1..Lines(s, n) /\ p[k] = Batch(s, n, k - j, again)
  /\ ~(k <= j + Lines(s, n)) => k - j = Lines(s, n) + 1 /\ p[k] = StripeParity(s, n)

LEMMA StripeImage ==
  ASSUME NEW p, NEW n \in Nat, NEW j \in Nat, NEW s \in Nat, NEW again \in BOOLEAN,
         StripeAt(p, n, j, s, again), NEW k \in Nat, j < k, k <= j + Lines(s, n) + 1
  PROVE  Belongs(p, n, j, s, again, k)
<1>1. s < n
  BY DEF StripeAt
<1> PICK l \in 1..3 : l = Lines(s, n)
  BY <1>1, LinesType
<1> PICK t \in Int : t = k - j
  OBVIOUS
<1>2. t \in 1..(l + 1) /\ k = j + t
  OBVIOUS
<1>3. CASE k <= j + l
  <2>1. t \in 1..l
    BY <1>2, <1>3
  <2>2. p[j + t] = Batch(s, n, t, again)
    BY <2>1 DEF StripeAt
  <2>3. p[k] = Batch(s, n, t, again)
    BY <1>2, <2>2
  <2>4. DataOf(p[k]) # {}
    BY <1>1, <2>1, <2>3, BatchData
  <2> QED
    BY <1>2, <1>3, <2>1, <2>3, <2>4 DEF Belongs
<1>4. CASE ~(k <= j + l)
  <2>1. k = j + l + 1 /\ t = l + 1
    BY <1>2, <1>4
  <2>2. p[k] = StripeParity(s, n)
    BY <2>1 DEF StripeAt
  <2>3. DataOf(p[k]) = {}
    BY <2>2, ParityNoData
  <2> QED
    BY <1>2, <1>4, <2>1, <2>2, <2>3 DEF Belongs
<1> QED
  BY <1>3, <1>4

ShowsColour(d, items) == \E room \in BOOLEAN : d = ShowColour(items, room)

\* The sums after the image is shown.
SumsNext(d, items) ==
  IF Striped /\ DataOf(items) # {} THEN SumsAt(shown + 1, d.enc.acc) ELSE d.enc.acc = NoParity

\* Image k of the pass, in its stripe.
LEMMA InAStripe ==
  ASSUME RasterInv, phase # "done", Striped, NEW k \in 1..Len(pass)
  PROVE  \E j \in Nat, s \in Nat, again \in BOOLEAN :
           j < k /\ k <= j + Lines(s, count) + 1 /\ StripeAt(pass, count, j, s, again)
<1>1. InStripe(pass, count, k)
  BY DEF RasterInv, Shaped, InStripes
<1> QED
  BY <1>1 DEF InStripe

\* show_rgb_batch() in a pass of stripes.
LEMMA DataImageShows ==
  ASSUME RasterInv, phase = "stream", Striped, NEW k \in 1..Len(pass), k = shown + 1,
         NEW items, items = pass[k], DataOf(items) # {},
         NEW room \in BOOLEAN, NEW d, d = ShowData(items, room)
  PROVE  /\ ColourShows(d, StreamsOf(FramesOf(items)), DisplayMask, "blank")
         /\ d.ok = TRUE /\ SumsAt(k, d.enc.acc)
<1>1. count \in Nat /\ shown \in Nat
  BY DEF RasterInv, SenderTyped, Cut, Passing
<1>2. ColourState
  BY DEF RasterInv, Paged, ColourState, SenderTyped, Cut, Striped
<1> PICK a : a = DisplayItems(items, DisplayMask, "blank", room)
  OBVIOUS
<1> PICK streams, mask : streams = StreamsOf(FramesOf(items)) /\ mask = DisplayMask
  OBVIOUS
<1>3. ColourShows(a, streams, mask, "blank") /\ Encoded(a, items) /\ a.ok = TRUE
  <2>1. Draws3(a, items, mask, "blank")
    BY DEF Draws3
  <2> QED
    BY <1>2, <2>1, ItemsShow
<1>4. ASSUME NEW j \in Nat, NEW s \in Nat, NEW again \in BOOLEAN,
             StripeAt(pass, count, j, s, again), j < k, k <= j + Lines(s, count) + 1
      PROVE  Accumulate(a.enc, items) = SumOf(s, count, k - j, again) /\ Contiguous(items)
  <2>1. s < count
    BY <1>4 DEF StripeAt
  <2> PICK l \in 1..3 : l = Lines(s, count)
    BY <1>1, <2>1, LinesType
  <2>2. k <= j + l /\ k - j \in 1..l /\ items = Batch(s, count, k - j, again)
    <3>1. k \in Nat /\ DataOf(pass[k]) # {}
      BY <1>1
    <3>2. Belongs(pass, count, j, s, again, k)
      BY <1>1, <1>4, <3>1, StripeImage
    <3>3. k <= j + Lines(s, count) /\ k - j \in 1..Lines(s, count)
          /\ pass[k] = Batch(s, count, k - j, again)
      BY <3>1, <3>2 DEF Belongs
    <3> QED
      BY <3>2, <3>3
  <2>3. PICK t \in 1..l : t = k - j
    BY <2>2
  <2>4. t \in 1..(Lines(s, count) + 1) /\ shown = j + (t - 1)
    BY <1>1, <2>3
  <2>5. enc.acc = SumOf(s, count, t - 1, again)
    BY <1>4, <2>4, StripeSums
  <2>6. items = Batch(s, count, t, again)
    BY <2>2, <2>3
  <2>7. t \in 1..Lines(s, count)
    OBVIOUS
  <2>8. Accumulate(a.enc, items) = SumOf(s, count, t, again) /\ Contiguous(items)
    BY <1>1, <1>2, <1>3, <2>1, <2>5, <2>6, <2>7, AccumulateSums
  <2> QED
    BY <2>3, <2>8
<1>5. Contiguous(items)
  BY <1>4, InAStripe
<1> PICK sums : sums = Accumulate(a.enc, items)
  OBVIOUS
<1>6. d = [a EXCEPT !.enc.acc = sums, !.ok = @ /\ Contiguous(items)]
  BY DEF ShowData
<1>7. a = [vga |-> a.vga, enc |-> a.enc, ok |-> a.ok]
  BY DEF DisplayItems
<1>8. d.vga = a.vga
  BY <1>6, <1>7
<1>9. d.enc = [a.enc EXCEPT !.acc = sums]
  BY <1>6, <1>7
<1>10. d.ok = (a.ok /\ Contiguous(items))
  BY <1>6, <1>7
<1>11. d.ok = TRUE
  BY <1>3, <1>5, <1>10
<1>12. IsEncoder(a.enc) /\ ColourReady(a.vga, a.enc) /\ a.enc.cache = enc.cache
       /\ Sound(a.vga) /\ Presents(a.vga, 3, mask, streams, "blank")
  BY <1>3 DEF ColourShows
<1> PICK x, y : x = d.enc /\ y = a.enc
  OBVIOUS
<1>13. x = [y EXCEPT !.acc = sums]
  BY <1>9
<1>14. IsEncoder(y)
  BY <1>12
<1>15. /\ x.raw = y.raw /\ x.cache = y.cache /\ x.acc = sums
       /\ x.cw = y.cw /\ x.headers = y.headers /\ x.mask = y.mask
       /\ x.ready = y.ready
       /\ x = [raw |-> x.raw, headers |-> x.headers, cw |-> x.cw,
               mask |-> x.mask, ready |-> x.ready, cache |-> x.cache,
               acc |-> x.acc]
  BY <1>13, <1>14 DEF IsEncoder
<1>16. IsEncoder(x)
  BY <1>14, <1>15 DEF IsEncoder
<1>17. ColourReady(d.vga, x)
  BY <1>8, <1>12, <1>15 DEF ColourReady
<1>18. x.cache = enc.cache
  BY <1>12, <1>15
<1>19. ColourShows(d, streams, mask, "blank")
  BY <1>8, <1>12, <1>16, <1>17, <1>18 DEF ColourShows
<1>20. SumsAt(k, d.enc.acc)
  <2> SUFFICES ASSUME NEW j \in Nat, NEW s \in Nat, NEW again \in BOOLEAN,
                      StripeAt(pass, count, j, s, again), j < k, k <= j + Lines(s, count)
               PROVE  d.enc.acc = SumOf(s, count, k - j, again)
    BY DEF SumsAt
  <2>1. s < count
    BY DEF StripeAt
  <2>2. PICK l \in 1..3 : l = Lines(s, count)
    BY <1>1, <2>1, LinesType
  <2>3. k <= j + Lines(s, count) + 1
    BY <2>2
  <2>4. sums = SumOf(s, count, k - j, again)
    BY <1>4, <2>3
  <2> QED
    BY <1>15, <2>4
<1> QED
  BY <1>11, <1>19, <1>20

\* flush_rgb_channel_parity() in a pass of stripes.
LEMMA ParityImageShows ==
  ASSUME RasterInv, phase = "stream", Striped, NEW k \in 1..Len(pass), k = shown + 1,
         NEW items, items = pass[k], DataOf(items) = {}, NEW d, Flushes(d)
  PROVE  /\ ColourShows(d, StreamsOf(FramesOf(items)), DisplayMask, "blank")
         /\ d.ok = TRUE /\ d.enc.acc = NoParity
<1>1. count \in Nat /\ shown \in Nat
  BY DEF RasterInv, SenderTyped, Cut, Passing
<1>2. ColourState
  BY DEF RasterInv, Paged, ColourState, SenderTyped, Cut, Striped
<1>3. PICK j \in Nat, s \in Nat, again \in BOOLEAN :
        j < k /\ k <= j + Lines(s, count) + 1 /\ StripeAt(pass, count, j, s, again)
  BY InAStripe
<1>4. s < count
  BY <1>3 DEF StripeAt
<1> PICK l \in 1..3 : l = Lines(s, count)
  BY <1>1, <1>4, LinesType
<1>5. k - j = l + 1 /\ items = StripeParity(s, count)
  <2>1. k \in Nat /\ ~(DataOf(pass[k]) # {})
    BY <1>1
  <2>2. Belongs(pass, count, j, s, again, k)
    BY <1>1, <1>3, <2>1, StripeImage
  <2>3. k - j = Lines(s, count) + 1 /\ pass[k] = StripeParity(s, count)
    BY <2>1, <2>2 DEF Belongs
  <2> QED
    BY <2>3
<1>6. enc.acc = SumOf(s, count, l, again)
  <2>1. PICK t \in 1..(Lines(s, count) + 1) : t = l + 1
    OBVIOUS
  <2>2. shown = j + (t - 1)
    BY <1>1, <1>5, <2>1
  <2>3. enc.acc = SumOf(s, count, t - 1, again)
    BY <1>3, <2>2, StripeSums
  <2>4. t - 1 = l
    BY <2>1
  <2> QED
    BY <2>3, <2>4
<1> QED
  BY <1>1, <1>2, <1>4, <1>5, <1>6, FlushShows

\* Any other image is encoded from scratch.
LEMMA OtherImageShows ==
  ASSUME RasterInv, cfg.rgb3, NEW items, NEW mask, NEW text, NEW d, Draws3(d, items, mask, text)
  PROVE  /\ ColourShows(d, StreamsOf(FramesOf(items)), mask, text)
         /\ d.ok = TRUE /\ d.enc.acc = enc.acc
<1>1. ColourState
  BY DEF RasterInv, Paged, ColourState, SenderTyped, Cut
<1>2. ColourShows(d, StreamsOf(FramesOf(items)), mask, text) /\ Encoded(d, items) /\ d.ok = TRUE
  BY <1>1, ItemsShow
<1> QED
  BY <1>2 DEF Encoded

LEMMA ColourImageShows ==
  ASSUME RasterInv, phase = "stream", cfg.rgb3, shown < Len(pass),
         NEW items, items = pass[shown + 1], NEW d, ShowsColour(d, items)
  PROVE  /\ ColourShows(d, StreamsOf(FramesOf(items)), DisplayMask, "blank")
         /\ d.ok = TRUE /\ SumsNext(d, items)
<1> PICK room \in BOOLEAN : d = ShowColour(items, room)
  BY DEF ShowsColour
<1>1. PICK k \in 1..Len(pass) : k = shown + 1
  BY DEF RasterInv, SenderTyped, Passing
<1>2. EndWindow \notin items
  BY <1>1, PassImage DEF RasterInv
<1>3. items # {EndWindow}
  BY <1>2
<1>4. CASE Striped /\ DataOf(items) # {}
  <2>1. d = ShowData(items, room)
    BY <1>3, <1>4 DEF ShowColour
  <2>2. /\ ColourShows(d, StreamsOf(FramesOf(items)), DisplayMask, "blank")
        /\ d.ok = TRUE /\ SumsAt(k, d.enc.acc)
    BY <1>1, <1>4, <2>1, DataImageShows
  <2> QED
    BY <1>1, <1>4, <2>2 DEF SumsNext
<1>5. CASE Striped /\ DataOf(items) = {}
  <2>1. d = FlushParity(room)
    BY <1>3, <1>5 DEF ShowColour
  <2>2. Flushes(d)
    BY <2>1 DEF Flushes
  <2>3. /\ ColourShows(d, StreamsOf(FramesOf(items)), DisplayMask, "blank")
        /\ d.ok = TRUE /\ d.enc.acc = NoParity
    BY <1>1, <1>5, <2>2, ParityImageShows
  <2> QED
    BY <1>5, <2>3 DEF SumsNext
<1>6. CASE ~Striped
  <2>1. d = DisplayItems(items, DisplayMask, "blank", room)
    BY <1>3, <1>6 DEF ShowColour, ShowData
  <2>2. Draws3(d, items, DisplayMask, "blank")
    BY <2>1 DEF Draws3
  <2>3. /\ ColourShows(d, StreamsOf(FramesOf(items)), DisplayMask, "blank")
        /\ d.ok = TRUE /\ d.enc.acc = enc.acc
    BY <2>2, OtherImageShows
  <2>4. enc.acc = NoParity
    BY <1>6 DEF RasterInv, Accumulated, Summing
  <2> QED
    BY <1>6, <2>3, <2>4 DEF SumsNext
<1> QED
  BY <1>4, <1>5, <1>6

\* At the end of a pass nothing is left in the accumulator.
LEMMA LastIsParity ==
  ASSUME RasterInv, phase # "done", Striped, shown = Len(pass), shown > 0
  PROVE  DataOf(pass[shown]) = {}
<1>1. PICK k \in 1..Len(pass) : k = shown
  BY DEF RasterInv, SenderTyped, Passing
<1> SUFFICES ASSUME DataOf(pass[k]) # {} PROVE FALSE
  BY <1>1
<1>2. PICK j \in Nat, s \in Nat, again \in BOOLEAN :
        j < k /\ k <= j + Lines(s, count) + 1 /\ StripeAt(pass, count, j, s, again)
  BY InAStripe
<1>3. count \in Nat /\ s < count
  BY <1>2 DEF StripeAt, RasterInv, SenderTyped, Cut
<1> PICK l \in 1..3 : l = Lines(s, count)
  BY <1>3, LinesType
<1>4. k <= j + l
  <2>1. k \in Nat
    BY <1>1 DEF RasterInv, SenderTyped, Passing
  <2>2. Belongs(pass, count, j, s, again, k)
    BY <1>2, <1>3, <2>1, StripeImage
  <2> QED
    BY <2>2 DEF Belongs
<1>5. j + l + 1 <= k
  BY <1>1, <1>2 DEF StripeAt
<1>6. k \in Int
  BY <1>1 DEF RasterInv, SenderTyped, Passing
<1> QED
  BY <1>4, <1>5, <1>6

LEMMA NothingLeft ==
  ASSUME RasterInv, shown = Len(pass)
  PROVE  enc.acc = NoParity
<1> SUFFICES ASSUME Summing PROVE FALSE
  BY DEF RasterInv, Accumulated
<1> QED
  BY LastIsParity DEF Summing

-----------------------------------------------------------------------------
(* What depends on the lengths of the frames stays.                        *)

LEMMA EncodeStays == ASSUME sizes' = sizes, NEW f PROVE Encode(f)' = Encode(f)
BY DEF Encode, LenOf, Lengths3, PayloadLen, Body, Summed, SameLength

LEMMA CacheStays == ASSUME sizes' = sizes, NEW k, CacheSound(k) PROVE CacheSound(k)'
BY EncodeStays DEF CacheSound

LEMMA PagedNext ==
  ASSUME NEW v, NEW e, Paged(v, e), vga' = v, enc' = e, cfg' = cfg, sizes' = sizes
  PROVE  Paged(vga, enc)'
<1>1. PICK k : k = e.cache
  OBVIOUS
<1>2. CacheSound(k)'
  BY <1>1, CacheStays DEF Paged
<1>3. CacheSound(enc.cache)'
  BY <1>1, <1>2
<1>4. Sound(v) /\ IsEncoder(e) /\ IF cfg.rgb3 THEN ColourReady(v, e) ELSE MonoReady(v, e)
  BY DEF Paged
<1> QED
  BY <1>3, <1>4 DEF Paged

LEMMA LeadsNext ==
  ASSUME NEW k, NEW e, LeadsAt(k, e), shown' = k, enc' = e,
         UNCHANGED <<pass, sizes, base, window>>
  PROVE  LeadsAt(shown, enc)'
<1>1. ASSUME NEW i PROVE LeadBy(e, i) => LeadBy(enc, i)'
  BY EncodeStays DEF LeadBy, DataFrame
<1>2. ASSUME NEW i PROVE Fresh(e.cache, i) => Fresh(enc.cache, i)'
  BY DEF Fresh, CacheKey, DataFrame
<1>3. Leading(k, e) => Leading(shown, enc)'
  BY <1>1 DEF Leading
<1>4. AfterChain(k, e) => AfterChain(shown, enc)'
  BY <1>2 DEF AfterChain
<1>5. BeforeChain(k, e) => BeforeChain(shown, enc)'
  BY <1>2 DEF BeforeChain
<1> QED
  BY <1>3, <1>4, <1>5 DEF LeadsAt

LEMMA SumOfStays ==
  ASSUME sizes' = sizes, base' = base, NEW s, NEW n, NEW t, NEW again
  PROVE  SumOf(s, n, t, again)' = SumOf(s, n, t, again)
BY EncodeStays DEF SumOf, SumAt, HeaderOf, StreamOf, DataFrame

LEMMA SumsNextStep ==
  ASSUME NEW k, NEW a, SumsAt(k, a), shown' = k, enc'.acc = a,
         UNCHANGED <<pass, sizes, base, count>>
  PROVE  SumsAt(shown, enc.acc)'
<1> SUFFICES ASSUME NEW j \in Nat, NEW s \in Nat, NEW again \in BOOLEAN,
                    StripeAt(pass, count, j, s, again)', j < k, k <= j + Lines(s, count)'
             PROVE  a = SumOf(s, count, k - j, again)'
  BY DEF SumsAt
<1>1. StripeAt(pass, count, j, s, again) /\ k <= j + Lines(s, count)
  OBVIOUS
<1>2. a = SumOf(s, count, k - j, again)
  BY <1>1 DEF SumsAt
<1> PICK n, t : n = count /\ t = k - j
  OBVIOUS
<1>3. SumOf(s, n, t, again)' = SumOf(s, n, t, again)
  BY SumOfStays
<1>4. SumOf(s, count, k - j, again)' = SumOf(s, n, t, again)'
  OBVIOUS
<1> QED
  BY <1>2, <1>3, <1>4

\* The image on display is the one meant.
LEMMA VisibleNext ==
  ASSUME NEW v, NEW m, NEW mask, NEW streams, NEW text, Presents(v, m, mask, streams, text),
         vga' = v, Meant' = m, WantedMask' = mask, MeantStreams' = streams, WantedText' = text
  PROVE  Visible'
BY DEF Visible

\* What is meant when an image of the window is on the screen.
LEMMA MeantColour ==
  ASSUME cfg.rgb3, UNCHANGED <<cfg, base, sizes>>, NEW items, screen' = Image(items)
  PROVE  Meant' = 3 /\ MeantStreams' = StreamsOf(FramesOf(items))
<1>1. Meant' = 3
  BY DEF Meant
<1>2. screen'.items = items /\ screen'.base = base
  BY DEF Image
<1> PICK frames : frames = FramesOf(items)
  OBVIOUS
<1>3. ASSUME NEW c \in 1..3 PROVE Encode(WantedFrame(c))' = Encode(frames[c])
  <2>1. frames[c] = [item |-> Channels(items)[c], base |-> base]
    BY DEF FramesOf, Frame
  <2>2. WantedFrame(c)' = frames[c]
    BY <1>2, <2>1 DEF WantedFrame
  <2>3. PICK f : f = frames[c]
    OBVIOUS
  <2>4. Encode(f)' = Encode(f)
    BY EncodeStays
  <2> QED
    BY <2>2, <2>3, <2>4
<1> QED
  BY <1>1, <1>3 DEF MeantStreams, StreamsOf

LEMMA MeantMono ==
  ASSUME ~cfg.rgb3, UNCHANGED <<cfg, base, sizes>>, NEW it, screen' = Image({it})
  PROVE  Meant' = 1 /\ MeantStreams' = <<Encode(Frame(it))>>
<1>1. Meant' = 1
  BY DEF Meant
<1>2. screen'.items = {it} /\ screen'.base = base
  BY DEF Image
<1>3. (CHOOSE i \in {it} : TRUE) = it
  OBVIOUS
<1> PICK f : f = Frame(it)
  OBVIOUS
<1>4. ASSUME NEW c PROVE Encode(WantedFrame(c))' = Encode(f)
  <2>1. WantedFrame(c)' = f
    BY <1>2, <1>3 DEF WantedFrame, Frame
  <2>2. Encode(f)' = Encode(f)
    BY EncodeStays
  <2> QED
    BY <2>1, <2>2
<1>5. MeantStreams' = [c \in 1..1 |-> Encode(f)]
  BY <1>1, <1>4 DEF MeantStreams
<1>6. PICK e : e = Encode(f)
  OBVIOUS
<1>7. [c \in 1..1 |-> e] = <<e>>
  OBVIOUS
<1> QED
  BY <1>1, <1>5, <1>6, <1>7

LEMMA ShowsOne ==
  ASSUME NEW items, Shows(items)
  PROVE  \E d : /\ IF cfg.rgb3 THEN ShowsColour(d, items)
                   ELSE ShowsMono(d, CHOOSE i \in items : TRUE)
                /\ vga' = d.vga /\ enc' = d.enc /\ refused' = ~d.ok
                /\ UNCHANGED <<sizes, rescue>>
<1>1. PICK room \in BOOLEAN, spare \in BOOLEAN :
        LET r == IF cfg.rgb3 THEN ShowColour(items, room)
                 ELSE ShowMono(CHOOSE i \in items : TRUE, spare, room)
        IN /\ vga' = r.vga /\ enc' = r.enc /\ refused' = ~r.ok
           /\ UNCHANGED <<sizes, rescue>>
  BY DEF Shows
<1>2. CASE cfg.rgb3
  <2>1. PICK d : d = ShowColour(items, room)
    OBVIOUS
  <2>2. vga' = d.vga /\ enc' = d.enc /\ refused' = ~d.ok /\ UNCHANGED <<sizes, rescue>>
    BY <1>1, <1>2, <2>1
  <2>3. ShowsColour(d, items)
    BY <2>1 DEF ShowsColour
  <2> QED
    BY <1>2, <2>2, <2>3
<1>3. CASE ~cfg.rgb3
  <2>1. PICK d : d = ShowMono(CHOOSE i \in items : TRUE, spare, room)
    OBVIOUS
  <2>2. vga' = d.vga /\ enc' = d.enc /\ refused' = ~d.ok /\ UNCHANGED <<sizes, rescue>>
    BY <1>1, <1>3, <2>1
  <2>3. ShowsMono(d, CHOOSE i \in items : TRUE)
    BY <2>1 DEF ShowsMono
  <2> QED
    BY <1>3, <2>2, <2>3
<1> QED
  BY <1>2, <1>3

-----------------------------------------------------------------------------
(* The steps.                                                              *)

\* What all the images of a pass have in common.
Went ==
  /\ UNCHANGED <<cfg, base, count, window, pass, phase, selected, selecting, sizes, rescue>>
  /\ shown' = shown + 1 /\ screen' = Image(pass[shown + 1])

LEMMA ShowTexts ==
  ASSUME RasterInv, phase = "stream", shown < Len(pass), Went
  PROVE  WantedMask' = DisplayMask /\ WantedText' = "blank"
<1>1. PICK k \in 1..Len(pass) : k = shown + 1
  BY DEF RasterInv, SenderTyped, Passing
<1>2. EndWindow \notin pass[k]
  BY <1>1, PassImage DEF RasterInv
<1>3. EndWindow \notin screen'.items
  BY <1>1, <1>2 DEF Went, Image
<1>4. DisplayMask' = DisplayMask
  BY DEF DisplayMask, Went
<1>5. shown' # 0
  BY DEF Went, RasterInv, SenderTyped, Passing
<1> QED
  BY <1>3, <1>4, <1>5 DEF WantedMask, WantedText

LEMMA ShapeStays ==
  ASSUME Shaped, UNCHANGED <<cfg, pass, count, phase, selecting>>
  PROVE  Shaped'
BY DEF Shaped, Striped

LEMMA MonoShowKeeps ==
  ASSUME RasterInv, Show, ~cfg.rgb3, Went, NEW d,
         ShowsMono(d, CHOOSE i \in pass[shown + 1] : TRUE),
         vga' = d.vga, enc' = d.enc, refused' = ~d.ok
  PROVE  Paged(vga, enc)' /\ Leads' /\ Accumulated' /\ Visible' /\ refused' = FALSE
<1>1. phase = "stream" /\ shown < Len(pass)
  BY DEF Show
<1>2. PICK k \in 1..Len(pass) : k = shown + 1
  BY <1>1 DEF RasterInv, SenderTyped, Passing
<1>3. PICK it : pass[k] = {it}
  <2>1. MonoImage(cfg, pass[k])
    BY <1>2 DEF RasterInv, Shaped, Chains
  <2> QED
    BY <2>1 DEF MonoImage
<1>4. (CHOOSE i \in {it} : TRUE) = it
  OBVIOUS
<1>5. ShowsMono(d, it)
  BY <1>2, <1>3, <1>4
<1>6. MonoShows(d, Frame(it), DisplayMask, "blank") /\ Turned(d, it)
  BY <1>1, <1>2, <1>3, <1>5, MonoImageShows
<1>7. LeadsAt(k, d.enc)
  BY <1>1, <1>2, <1>3, <1>6, ChainsGoOn
<1>8. PICK e, v : e = d.enc /\ v = d.vga
  OBVIOUS
<1>9. Paged(v, e)
  BY <1>6, <1>8 DEF MonoShows, Paged
<1>10. Paged(vga, enc)'
  BY <1>8, <1>9, PagedNext DEF Went
<1>11. LeadsAt(shown, enc)'
  BY <1>2, <1>7, <1>8, LeadsNext DEF Went
<1>12. d.ok = TRUE
  BY <1>6 DEF MonoShows
<1>13. Accumulated'
  <2>1. enc.acc = NoParity
    BY DEF RasterInv, Accumulated, Summing, Striped
  <2>2. e.acc = NoParity
    BY <1>6, <1>8, <2>1 DEF MonoShows
  <2>3. ~Summing'
    BY DEF Summing, Striped, Went
  <2> QED
    BY <1>8, <2>2, <2>3 DEF Accumulated, NoParity
<1>14. Visible'
  <2>1. screen' = Image({it})
    BY <1>2, <1>3 DEF Went
  <2>2. PICK streams, mask : streams = <<Encode(Frame(it))>> /\ mask = DisplayMask
    OBVIOUS
  <2>3. Meant' = 1 /\ MeantStreams' = streams
    BY <2>1, <2>2, MeantMono DEF Went
  <2>4. WantedMask' = mask /\ WantedText' = "blank"
    BY <1>1, <2>2, ShowTexts
  <2>5. Presents(v, 1, mask, streams, "blank")
    BY <1>6, <1>8, <2>2 DEF MonoShows
  <2> QED
    BY <1>8, <2>3, <2>4, <2>5, VisibleNext
<1> QED
  BY <1>10, <1>11, <1>12, <1>13, <1>14 DEF Leads

LEMMA ColourShowKeeps ==
  ASSUME RasterInv, Show, cfg.rgb3, Went, NEW d, ShowsColour(d, pass[shown + 1]),
         vga' = d.vga, enc' = d.enc, refused' = ~d.ok
  PROVE  Paged(vga, enc)' /\ Leads' /\ Accumulated' /\ Visible' /\ refused' = FALSE
<1>1. phase = "stream" /\ shown < Len(pass)
  BY DEF Show
<1>2. PICK k \in 1..Len(pass) : k = shown + 1
  BY <1>1 DEF RasterInv, SenderTyped, Passing
<1>3. PICK items, streams, mask : items = pass[k] /\ streams = StreamsOf(FramesOf(items))
                                  /\ mask = DisplayMask
  OBVIOUS
<1>4. ColourShows(d, streams, mask, "blank") /\ d.ok = TRUE /\ SumsNext(d, items)
  BY <1>1, <1>2, <1>3, ColourImageShows
<1>5. PICK e, v : e = d.enc /\ v = d.vga
  OBVIOUS
<1>6. CacheSound(enc.cache)
  BY DEF RasterInv, Paged
<1>7. Paged(v, e)
  BY <1>4, <1>5, <1>6 DEF ColourShows, Paged
<1>8. Paged(vga, enc)'
  BY <1>5, <1>7, PagedNext DEF Went
<1>9. Leads'
  BY DEF Leads, Went
<1>10. Accumulated'
  <2>1. Summing' <=> (Striped /\ DataOf(items) # {})
    <3>1. phase' = "stream" /\ shown' > 0 /\ Striped' = Striped /\ pass'[shown'] = items
      BY <1>1, <1>2, <1>3 DEF Went, Striped
    <3> QED
      BY <3>1 DEF Summing
  <2>2. CASE Striped /\ DataOf(items) # {}
    <3>1. SumsAt(k, e.acc)
      BY <1>2, <1>4, <1>5, <2>2 DEF SumsNext
    <3>2. PICK a : a = e.acc
      OBVIOUS
    <3>3. SumsAt(k, a) /\ shown' = k /\ enc'.acc = a
      BY <1>2, <1>5, <3>1, <3>2 DEF Went
    <3>4. SumsAt(shown, enc.acc)'
      BY <3>3, SumsNextStep DEF Went
    <3> QED
      BY <2>1, <2>2, <3>4 DEF Accumulated
  <2>3. CASE ~(Striped /\ DataOf(items) # {})
    <3>1. e.acc = NoParity
      BY <1>4, <1>5, <2>3 DEF SumsNext
    <3> QED
      BY <1>5, <2>1, <2>3, <3>1 DEF Accumulated, NoParity
  <2> QED
    BY <2>2, <2>3
<1>11. Visible'
  <2>1. screen' = Image(items)
    BY <1>2, <1>3 DEF Went
  <2>2. Meant' = 3 /\ MeantStreams' = streams
    BY <1>3, <2>1, MeantColour DEF Went
  <2>3. WantedMask' = mask /\ WantedText' = "blank"
    BY <1>1, <1>3, ShowTexts
  <2>4. Presents(v, 3, mask, streams, "blank")
    BY <1>4, <1>5 DEF ColourShows
  <2> QED
    BY <1>5, <2>2, <2>3, <2>4, VisibleNext
<1> QED
  BY <1>4, <1>8, <1>9, <1>10, <1>11

LEMMA ShowKeeps ==
  ASSUME RasterInv, Show, Shows(pass[shown + 1])
  PROVE  RasterInv'
<1>1. PICK d : /\ IF cfg.rgb3 THEN ShowsColour(d, pass[shown + 1])
                  ELSE ShowsMono(d, CHOOSE i \in pass[shown + 1] : TRUE)
               /\ vga' = d.vga /\ enc' = d.enc /\ refused' = ~d.ok
               /\ UNCHANGED <<sizes, rescue>>
  BY ShowsOne
<1>2. Went /\ phase = "stream"
  BY <1>1 DEF Show, Went, Geometry, Position, Selection
<1>3. Paged(vga, enc)' /\ Leads' /\ Accumulated' /\ Visible' /\ refused' = FALSE
  <2>1. CASE cfg.rgb3
    BY <1>1, <1>2, <2>1, ColourShowKeeps
  <2>2. CASE ~cfg.rgb3
    BY <1>1, <1>2, <2>2, MonoShowKeeps
  <2> QED
    BY <2>1, <2>2
<1>4. SenderTyped'
  BY ShowTypes DEF RasterInv
<1>5. Sized'
  BY <1>2 DEF RasterInv, Sized, Went
<1>6. Shaped'
  BY <1>2, ShapeStays DEF RasterInv, Went
<1>7. Waits'
  BY <1>2 DEF Waits, Went
<1> QED
  BY <1>3, <1>4, <1>5, <1>6, <1>7 DEF RasterInv

LEMMA ShowEowKeeps ==
  ASSUME RasterInv, ShowEow, Shows({EndWindow})
  PROVE  RasterInv'
<1>1. PICK d : /\ IF cfg.rgb3 THEN ShowsColour(d, {EndWindow})
                  ELSE ShowsMono(d, CHOOSE i \in {EndWindow} : TRUE)
               /\ vga' = d.vga /\ enc' = d.enc /\ refused' = ~d.ok
               /\ UNCHANGED <<sizes, rescue>>
  BY ShowsOne
<1>2. /\ phase = "stream" /\ phase' = "prompt" /\ shown = Len(pass)
      /\ screen' = Image({EndWindow})
      /\ UNCHANGED <<cfg, base, count, window, pass, shown, selected, selecting>>
  BY DEF ShowEow, Geometry, Position, Selection
<1>3. enc.acc = NoParity
  BY <1>2, NothingLeft
<1> PICK e, v : e = d.enc /\ v = d.vga
  OBVIOUS
<1>4. WantedMask' = QrMask /\ WantedText' = "done"
  BY <1>2 DEF WantedMask, WantedText, Image
<1>5. Paged(v, e) /\ e.acc = NoParity /\ d.ok = TRUE /\ Visible'
  <2>1. CASE cfg.rgb3
    <3>1. PICK room \in BOOLEAN : d = ShowColour({EndWindow}, room)
      BY <1>1, <2>1 DEF ShowsColour
    <3>2. PICK items, streams : items = {EndWindow} /\ streams = StreamsOf(FramesOf(items))
      OBVIOUS
    <3>3. d = DisplayItems(items, QrMask, "done", room)
      BY <3>1, <3>2 DEF ShowColour
    <3>4. Draws3(d, items, QrMask, "done")
      BY <3>3 DEF Draws3
    <3>5. ColourShows(d, streams, QrMask, "done") /\ d.ok = TRUE /\ d.enc.acc = enc.acc
      BY <2>1, <3>2, <3>4, OtherImageShows
    <3>6. CacheSound(enc.cache)
      BY DEF RasterInv, Paged
    <3>7. Paged(v, e)
      BY <2>1, <3>5, <3>6 DEF ColourShows, Paged
    <3>8. Meant' = 3 /\ MeantStreams' = streams
      BY <1>1, <1>2, <2>1, <3>2, MeantColour
    <3>9. Presents(v, 3, QrMask, streams, "done")
      BY <3>5 DEF ColourShows
    <3>10. Visible'
      BY <1>1, <1>4, <3>8, <3>9, VisibleNext
    <3> QED
      BY <1>3, <3>5, <3>7, <3>10
  <2>2. CASE ~cfg.rgb3
    <3>1. (CHOOSE i \in {EndWindow} : TRUE) = EndWindow
      OBVIOUS
    <3>2. PICK room \in BOOLEAN, spare \in BOOLEAN : d = ShowMono(EndWindow, spare, room)
      BY <1>1, <2>2, <3>1 DEF ShowsMono
    <3>3. EndWindow.kind = "END_WINDOW"
      BY DEF EndWindow, Item
    <3>4. d = ShowWhole(EndWindow, "done", room)
      BY <3>2, <3>3 DEF ShowMono
    <3>5. MonoState
      BY <2>2 DEF RasterInv, Paged, MonoState, SenderTyped, Cut
    <3>6. MonoShows(d, Frame(EndWindow), QrMask, "done")
      BY <3>4, <3>5, WholeShows
    <3>7. Paged(v, e) /\ e.acc = NoParity /\ d.ok = TRUE
      BY <1>3, <2>2, <3>6 DEF MonoShows, Paged
    <3>8. PICK streams : streams = <<Encode(Frame(EndWindow))>>
      OBVIOUS
    <3>9. Meant' = 1 /\ MeantStreams' = streams
      BY <1>1, <1>2, <2>2, <3>8, MeantMono
    <3>10. Presents(v, 1, QrMask, streams, "done")
      BY <3>6, <3>8 DEF MonoShows
    <3>11. Visible'
      BY <1>1, <1>4, <3>9, <3>10, VisibleNext
    <3> QED
      BY <3>7, <3>11
  <2> QED
    BY <2>1, <2>2
<1>6. Paged(vga, enc)'
  BY <1>1, <1>2, <1>5, PagedNext
<1>7. Leads' /\ Accumulated'
  BY <1>1, <1>2, <1>5 DEF Leads, Accumulated, Summing, NoParity
<1>8. SenderTyped' /\ Sized'
  BY <1>1, ShowEowTypes DEF RasterInv, Sized
<1>9. Shaped'
  BY <1>2 DEF RasterInv, Shaped, Striped
<1>10. Waits'
  BY <1>2 DEF Waits, Image
<1> QED
  BY <1>1, <1>5, <1>6, <1>7, <1>8, <1>9, <1>10 DEF RasterInv

-----------------------------------------------------------------------------
(* Steps that show nothing.                                                *)

LEMMA TransmitShaped ==
  ASSUME ValidConfig(cfg), cfg' = cfg, NEW from \in Nat, count' \in Nat, from <= count',
         pass' = Transmit(cfg, from, count'), ~selecting'
  PROVE  Shaped'
<1> PICK c, n : c = cfg /\ n = count'
  OBVIOUS
<1>1. n \in Nat /\ ValidConfig(c) /\ pass' = Transmit(c, from, n) /\ cfg' = c
  OBVIOUS
<1>2. ~c.rgb3 => Chains(cfg, pass)'
  BY <1>1, TransmitChains
<1>3. c.rgb3 /\ c.group = 3 => InStripes(pass, count)'
  BY <1>1, TransmitStripes
<1> QED
  BY <1>1, <1>2, <1>3 DEF Shaped, Striped

LEMMA SelectedShaped ==
  ASSUME ValidConfig(cfg), cfg' = cfg, NEW S, count' \in Nat, S \subseteq 0..(count' - 1),
         pass' = TransmitSelected(cfg, S), selecting'
  PROVE  Shaped'
<1> PICK c, n : c = cfg /\ n = count'
  OBVIOUS
<1>1. n \in Nat /\ ValidConfig(c) /\ pass' = TransmitSelected(c, S) /\ cfg' = c
      /\ S \in SUBSET (0..(n - 1))
  OBVIOUS
<1>2. AllData(TransmitSelected(c, S)) /\ (~c.rgb3 => Chains(c, TransmitSelected(c, S)))
  BY <1>1, SelectedData
<1>3. AllData(pass)' /\ (~c.rgb3 => Chains(cfg, pass)')
  BY <1>1, <1>2
<1> QED
  BY <1>1, <1>3 DEF Shaped, Striped

LEMMA VisibleStays ==
  ASSUME Visible, UNCHANGED <<vga, cfg, screen, sizes>>,
         WantedMask' = WantedMask, WantedText' = WantedText
  PROVE  Visible'
<1>1. ASSUME NEW c PROVE Encode(WantedFrame(c))' = Encode(WantedFrame(c))
  <2>1. PICK f : f = WantedFrame(c)
    OBVIOUS
  <2>2. WantedFrame(c)' = f
    BY <2>1 DEF WantedFrame
  <2>3. Encode(f)' = Encode(f)
    BY EncodeStays
  <2> QED
    BY <2>1, <2>2, <2>3
<1>2. Meant' = Meant
  BY DEF Meant
<1>3. MeantStreams' = MeantStreams
  BY <1>1, <1>2 DEF MeantStreams
<1> PICK v, m, mask, streams, text :
      v = vga /\ m = Meant /\ mask = WantedMask /\ streams = MeantStreams /\ text = WantedText
  OBVIOUS
<1>4. screen.items # {} => Presents(v, m, mask, streams, text)
  BY DEF Visible
<1>5. CASE screen.items = {}
  BY <1>5 DEF Visible
<1>6. CASE screen.items # {}
  <2>1. Presents(v, m, mask, streams, text)
    BY <1>4, <1>6
  <2> QED
    BY <1>2, <1>3, <2>1, VisibleNext
<1> QED
  BY <1>5, <1>6

\* A pass begins with nothing in the accumulator.
LEMMA BeginKeeps ==
  ASSUME Paged(vga, enc)', Shaped', shown' = 0, enc'.acc = NoParity
  PROVE  Leads' /\ Accumulated'
<1>1. CacheSound(enc.cache)'
  BY DEF Paged
<1>2. ~cfg'.rgb3 => Chains(cfg, pass)'
  BY DEF Shaped
<1>3. ~cfg'.rgb3 => LeadsAt(shown, enc)'
  BY <1>1, <1>2, LeadsBegin
<1>4. ~Summing'
  BY DEF Summing
<1> QED
  BY <1>3, <1>4 DEF Leads, Accumulated, NoParity

LEMMA SamePaged ==
  ASSUME RasterInv, UNCHANGED <<vga, enc, sizes, cfg>>
  PROVE  Paged(vga, enc)'
<1> PICK v, e : v = vga /\ e = enc
  OBVIOUS
<1>1. Paged(v, e)
  BY DEF RasterInv
<1> QED
  BY <1>1, PagedNext

\* vga_leave() and vga_enter().
LEMMA LeavesKeeps ==
  ASSUME RasterInv, Leaves, cfg' = cfg,
         screen' = Image({}) \/ (screen' = screen /\ screen.items = {})
  PROVE  Paged(vga, enc)' /\ Visible' /\ refused' = FALSE /\ Sized' /\ enc'.acc = enc.acc
<1> PICK v, e, x : v = Entered /\ e = enc /\ x = Reentered(enc)
  OBVIOUS
<1>1. vga' = v /\ enc' = x /\ refused' = refused /\ sizes' = sizes
  BY DEF Leaves
<1>2. IsEncoder(e) /\ CacheSound(e.cache)
  BY DEF RasterInv, Paged
<1>3. x = [e EXCEPT !.ready = FALSE, !.mask = -1]
  BY DEF Reentered
<1>4. /\ x.raw = e.raw /\ x.cache = e.cache /\ x.acc = e.acc
      /\ x.cw = e.cw /\ x.headers = e.headers /\ x.mask = -1
      /\ x.ready = FALSE
      /\ x = [raw |-> x.raw, headers |-> x.headers, cw |-> x.cw,
              mask |-> x.mask, ready |-> x.ready, cache |-> x.cache,
              acc |-> x.acc]
  BY <1>2, <1>3 DEF IsEncoder
<1>5. IsEncoder(x)
  BY <1>2, <1>4 DEF IsEncoder
<1>6. Paged(v, x)
  BY <1>2, <1>4, <1>5, EnteredSound DEF Paged, ColourReady, MonoReady
<1>7. Paged(vga, enc)'
  BY <1>1, <1>6, PagedNext
<1>8. Visible'
  BY DEF Visible, Image
<1> QED
  BY <1>1, <1>4, <1>7, <1>8 DEF RasterInv, Sized

\* A pass that is over leaves nothing in the accumulator.
LEMMA StaysOver ==
  ASSUME RasterInv, phase # "done", shown = Len(pass), enc.acc = NoParity,
         enc'.acc = NoParity, Passing',
         UNCHANGED <<cfg, count, pass, shown, selecting>>
  PROVE  Leads' /\ Accumulated'
<1>1. Leads'
  <2>1. shown' = Len(pass')
    OBVIOUS
  <2> QED
    BY <2>1, LeadsEnd DEF Leads
<1>2. ~Summing'
  BY LastIsParity DEF Summing, Striped
<1> QED
  BY <1>1, <1>2 DEF Accumulated, NoParity

LEMMA SameShape ==
  ASSUME Shaped, phase # "done", UNCHANGED <<cfg, count, pass, selecting>>
  PROVE  Shaped'
<1> PICK c, n, p : c = cfg /\ n = count /\ p = pass
  OBVIOUS
<1>1. c = cfg' /\ n = count' /\ p = pass' /\ selecting' = selecting
  OBVIOUS
<1>2. Chains(cfg, pass)' = Chains(c, p) /\ Chains(cfg, pass) = Chains(c, p)
  BY <1>1
<1>3. InStripes(pass, count)' = InStripes(p, n) /\ InStripes(pass, count) = InStripes(p, n)
  BY <1>1
<1>4. AllData(pass)' = AllData(p) /\ AllData(pass) = AllData(p)
  BY <1>1
<1>5. Striped' = Striped /\ cfg'.rgb3 = cfg.rgb3
  BY DEF Striped
<1> QED
  BY <1>1, <1>2, <1>3, <1>4, <1>5 DEF Shaped

LEMMA StartKeeps == ASSUME RasterInv, Start, UNCHANGED raster PROVE RasterInv'
<1>1. /\ phase = "first" /\ phase' = "stream" /\ shown' = 0
      /\ pass' = Transmit(cfg, FirstData, count)
      /\ UNCHANGED <<cfg, base, count, window, selected, selecting, screen>>
      /\ UNCHANGED <<sizes, vga, enc, rescue, refused>>
  BY DEF Start, Begin, Geometry, Position, Selection, raster
<1>2. shown = 0 /\ ~selecting /\ count >= 3 /\ Cut
  BY <1>1 DEF RasterInv, Waits, SenderTyped
<1>3. SenderTyped' /\ Sized' /\ refused' = FALSE
  BY <1>1, StartTypes DEF RasterInv, Sized
<1>4. Paged(vga, enc)'
  BY <1>1, SamePaged
<1>5. Shaped'
  <2>1. ValidConfig(cfg)
    BY <1>2, Configured
  <2>2. PICK from \in Nat : from = FirstData
    BY DEF FirstData
  <2>3. from <= count' /\ count' \in Nat
    BY <1>1, <1>2, <2>2 DEF FirstData, Cut
  <2>4. pass' = Transmit(cfg, from, count')
    BY <1>1, <2>2
  <2> QED
    BY <1>1, <1>2, <2>1, <2>3, <2>4, TransmitShaped
<1>6. enc'.acc = NoParity
  BY <1>1 DEF RasterInv, Accumulated, Summing
<1>7. Leads' /\ Accumulated'
  BY <1>1, <1>4, <1>5, <1>6, BeginKeeps
<1>8. Visible'
  <2>1. WantedMask' = WantedMask /\ WantedText' = WantedText
    BY <1>1, <1>2 DEF WantedMask, WantedText, DisplayMask
  <2> QED
    BY <1>1, <2>1, VisibleStays DEF RasterInv
<1>9. Waits'
  BY <1>1 DEF Waits
<1> QED
  BY <1>3, <1>4, <1>5, <1>7, <1>8, <1>9 DEF RasterInv

\* The END_WINDOW symbol stays while the next pass begins.
LEMMA EndWindowStays ==
  ASSUME RasterInv, phase = "prompt", UNCHANGED <<vga, cfg, screen, sizes>>
  PROVE  Visible'
<1>1. EndWindow \in screen.items /\ EndWindow \in screen'.items
  BY DEF RasterInv, Waits
<1>2. WantedMask' = WantedMask /\ WantedText' = WantedText
  BY <1>1 DEF WantedMask, WantedText
<1> QED
  BY <1>2, VisibleStays DEF RasterInv

LEMMA ReplayKeeps ==
  ASSUME RasterInv, Replay, UNCHANGED <<sizes, vga, enc, refused>>
  PROVE  RasterInv'
<1>1. /\ phase = "prompt" /\ phase' = "stream" /\ shown' = 0
      /\ pass' = Replayed
      /\ UNCHANGED <<cfg, base, count, window, selected, selecting, screen>>
  BY DEF Replay, Begin, Geometry, Position, Selection
<1>2. Cut /\ Choosing /\ shown = Len(pass)
  BY <1>1 DEF RasterInv, Waits, SenderTyped
<1>3. SenderTyped' /\ Sized' /\ refused' = FALSE
  BY ReplayTypes DEF RasterInv, Sized
<1>4. Paged(vga, enc)'
  BY <1>1, SamePaged
<1>5. Shaped'
  <2>1. ValidConfig(cfg) /\ count' \in Nat
    BY <1>1, <1>2, Configured DEF Cut
  <2>2. CASE selecting
    <3>1. pass' = TransmitSelected(cfg, selected) /\ selecting'
      BY <1>1, <2>2 DEF Replayed
    <3>2. selected \subseteq 0..(count' - 1)
      BY <1>1, <1>2, <2>2 DEF Choosing
    <3> QED
      BY <1>1, <2>1, <3>1, <3>2, SelectedShaped
  <2>3. CASE ~selecting
    <3>1. pass' = Transmit(cfg, 0, count') /\ ~selecting'
      BY <1>1, <2>3 DEF Replayed
    <3>2. 0 \in Nat /\ 0 <= count'
      BY <2>1
    <3> QED
      BY <1>1, <2>1, <3>1, <3>2, TransmitShaped
  <2> QED
    BY <2>2, <2>3
<1>6. enc'.acc = NoParity
  BY <1>2, NothingLeft
<1>7. Leads' /\ Accumulated'
  BY <1>1, <1>4, <1>5, <1>6, BeginKeeps
<1>8. Visible'
  BY <1>1, EndWindowStays
<1>9. Waits'
  BY <1>1 DEF Waits
<1> QED
  BY <1>3, <1>4, <1>5, <1>7, <1>8, <1>9 DEF RasterInv

LEMMA MissingAllKeeps ==
  ASSUME RasterInv, MissingAll, Leaves
  PROVE  RasterInv'
<1>1. /\ phase = "prompt" /\ phase' = "stream" /\ shown' = 0
      /\ pass' = Transmit(cfg, 0, count) /\ ~selecting'
      /\ screen' = Image({}) /\ cfg' = cfg /\ count' = count
  BY DEF MissingAll, Begin, Geometry, Position
<1>2. Cut /\ shown = Len(pass)
  BY <1>1 DEF RasterInv, Waits, SenderTyped
<1>3. Paged(vga, enc)' /\ Visible' /\ refused' = FALSE /\ Sized' /\ enc'.acc = enc.acc
  BY <1>1, LeavesKeeps
<1>4. SenderTyped'
  BY MissingAllTypes DEF RasterInv
<1>5. Shaped'
  <2>1. ValidConfig(cfg) /\ count' \in Nat /\ 0 \in Nat /\ 0 <= count'
    BY <1>1, <1>2, Configured DEF Cut
  <2> QED
    BY <1>1, <2>1, TransmitShaped
<1>6. enc'.acc = NoParity
  BY <1>2, <1>3, NothingLeft
<1>7. Leads' /\ Accumulated'
  BY <1>1, <1>3, <1>5, <1>6, BeginKeeps
<1>8. Waits'
  BY <1>1 DEF Waits
<1> QED
  BY <1>3, <1>4, <1>5, <1>7, <1>8 DEF RasterInv

LEMMA MissingRangesKeeps ==
  ASSUME RasterInv, NEW ranges, \A r \in ranges : r \in Int \X Int,
         MissingRanges(ranges), Leaves
  PROVE  RasterInv'
<1>1. /\ phase = "prompt" /\ screen' = Image({}) /\ phase' = "stream"
      /\ selected' = ParseRanges(ranges, count)
      /\ UNCHANGED <<cfg, base, count, window>>
  BY DEF MissingRanges, Begin, Geometry, Position
<1>2. Cut /\ shown = Len(pass)
  BY <1>1 DEF RasterInv, Waits, SenderTyped
<1>3. Paged(vga, enc)' /\ Visible' /\ refused' = FALSE /\ Sized' /\ enc'.acc = enc.acc
  BY <1>1, LeavesKeeps
<1>4. SenderTyped'
  BY MissingRangesTypes DEF RasterInv
<1>5. enc.acc = NoParity /\ enc'.acc = NoParity
  BY <1>2, <1>3, NothingLeft
<1>6. Waits'
  BY <1>1 DEF Waits
<1>7. Shaped' /\ Leads' /\ Accumulated'
  <2>1. CASE selected' = {}
    <3>1. UNCHANGED <<pass, shown, selecting>>
      BY <2>1 DEF MissingRanges
    <3>2. Passing' /\ phase # "done"
      BY <1>1, <1>4 DEF SenderTyped
    <3>3. Shaped'
      BY <1>1, <3>1, <3>2, SameShape DEF RasterInv
    <3>4. Leads' /\ Accumulated'
      BY <1>1, <1>2, <1>5, <3>1, <3>2, StaysOver
    <3> QED
      BY <3>3, <3>4
  <2>2. CASE selected' # {}
    <3>1. PICK S : S = selected'
      OBVIOUS
    <3>2. selecting' /\ shown' = 0 /\ pass' = TransmitSelected(cfg, S)
      BY <2>2, <3>1 DEF MissingRanges, Begin
    <3>3. ValidConfig(cfg) /\ count' \in Nat /\ count \in Nat
      BY <1>1, <1>2, Configured DEF Cut
    <3>4. S \subseteq 0..(count' - 1)
      BY <1>1, <3>1, <3>3, ParsedRanges
    <3>5. Shaped'
      BY <1>1, <3>2, <3>3, <3>4, SelectedShaped
    <3>6. Leads' /\ Accumulated'
      BY <1>3, <1>5, <3>2, <3>5, BeginKeeps
    <3> QED
      BY <3>5, <3>6
  <2> QED
    BY <2>1, <2>2
<1> QED
  BY <1>3, <1>4, <1>6, <1>7 DEF RasterInv

LEMMA EnterKeeps ==
  ASSUME RasterInv, Enter, UNCHANGED <<sizes, vga, enc, refused>>
  PROVE  RasterInv'
<1>1. phase = "prompt" /\ selecting' = FALSE /\ cfg' = cfg
  BY DEF Enter, Geometry
<1>2. Cut /\ shown = Len(pass)
  BY <1>1 DEF RasterInv, Waits, SenderTyped
<1>3. SenderTyped' /\ Sized' /\ refused' = FALSE
  BY EnterTypes DEF RasterInv, Sized
<1>4. Paged(vga, enc)'
  BY <1>1, SamePaged
<1>5. enc'.acc = NoParity
  BY <1>2, NothingLeft
<1> PICK next : next = Fill(base + count)
  OBVIOUS
<1>6. CASE next = 0
  <2>1. phase' = "done" /\ screen' = Image({}) /\ UNCHANGED <<base, count, pass, shown>>
    BY <1>6 DEF Enter
  <2>2. Chains(cfg, pass)' = Chains(cfg, pass)
    <3> PICK c, p : c = cfg /\ p = pass
      OBVIOUS
    <3>1. c = cfg' /\ p = pass'
      BY <1>1, <2>1
    <3> QED
      BY <3>1
  <2>3. Shaped'
    BY <1>1, <2>1, <2>2 DEF RasterInv, Shaped
  <2>4. Leads' /\ Accumulated'
    BY <1>5, <2>1 DEF Leads, Accumulated, Summing, NoParity
  <2>5. Visible' /\ Waits'
    BY <2>1 DEF Visible, Waits, Image
  <2> QED
    BY <1>3, <1>4, <2>3, <2>4, <2>5 DEF RasterInv
<1>7. CASE next # 0
  <2>1. /\ pass' = Transmit(cfg, 0, count') /\ shown' = 0 /\ phase' = "stream"
        /\ screen' = screen /\ count' = next
    BY <1>7 DEF Enter, Begin
  <2>2. ValidConfig(cfg) /\ count' \in Nat /\ 0 \in Nat /\ 0 <= count'
    <3>1. count' \in Nat
      BY <1>3 DEF SenderTyped, Cut
    <3> QED
      BY <1>2, <3>1, Configured
  <2>3. Shaped'
    BY <1>1, <2>1, <2>2, TransmitShaped
  <2>4. Leads' /\ Accumulated'
    BY <1>4, <1>5, <2>1, <2>3, BeginKeeps
  <2>5. Visible' /\ Waits'
    BY <1>1, <2>1, EndWindowStays DEF Waits
  <2> QED
    BY <1>3, <1>4, <2>3, <2>4, <2>5 DEF RasterInv
<1> QED
  BY <1>6, <1>7

LEMMA EscKeeps ==
  ASSUME RasterInv, Pause \/ Resume \/ Cancel, Leaves
  PROVE  RasterInv'
<1>1. /\ phase \in {"first", "prompt", "paused"} /\ phase' \in {"stream", "paused", "cancelled"}
      /\ phase = "prompt" => phase' = "paused"
      /\ phase = "first" => phase' = "cancelled"
      /\ UNCHANGED <<cfg, base, count, window, pass, shown, selected, selecting>>
  BY DEF Pause, Resume, Cancel, Geometry, Position, Selection
<1>2. screen' = Image({}) \/ (screen' = screen /\ screen.items = {})
  BY DEF Pause, Resume, Cancel, RasterInv, Waits
<1>3. Paged(vga, enc)' /\ Visible' /\ refused' = FALSE /\ Sized' /\ enc'.acc = enc.acc
  BY <1>1, <1>2, LeavesKeeps
<1>4. SenderTyped'
  BY EscTypes DEF RasterInv
<1>5. Shaped'
  <2>1. phase # "done"
    BY <1>1
  <2> QED
    BY <1>1, <2>1, SameShape DEF RasterInv
<1>6. enc.acc = NoParity /\ enc'.acc = NoParity
  BY <1>1, <1>3 DEF RasterInv, Accumulated, Summing
<1>7. Leads' /\ Accumulated'
  <2>1. CASE phase = "first"
    BY <1>1, <1>6, <2>1 DEF Leads, Accumulated, Summing, NoParity
  <2>2. CASE phase \in {"prompt", "paused"}
    <3>1. shown = Len(pass) /\ phase # "done"
      BY <2>2 DEF RasterInv, Waits
    <3>2. Passing'
      BY <1>4 DEF SenderTyped
    <3> QED
      BY <1>1, <1>6, <3>1, <3>2, StaysOver
  <2> QED
    BY <1>1, <2>1, <2>2
<1>8. Waits'
  <2>1. phase' = "paused" => screen'.items = {} /\ phase = "prompt"
    BY DEF Pause, Resume, Cancel, Image
  <2>2. phase' = "paused" => shown' = Len(pass')
    BY <1>1, <2>1 DEF RasterInv, Waits
  <2> QED
    BY <1>1, <2>1, <2>2 DEF Waits
<1> QED
  BY <1>3, <1>4, <1>5, <1>7, <1>8 DEF RasterInv

LEMMA StutterKeeps ==
  ASSUME RasterInv, UNCHANGED <<sender, raster>>
  PROVE  RasterInv'
<1>1. /\ UNCHANGED <<cfg, length, failAt, phase, window, base, count, pass, shown>>
      /\ UNCHANGED <<selected, selecting, screen, pauses>>
      /\ UNCHANGED <<sizes, vga, enc, rescue, refused>>
  BY DEF sender, raster
<1>2. SenderTyped' /\ Sized' /\ refused' = FALSE
  <2>1. SenderTyped'
    BY <1>1 DEF RasterInv, SenderTyped, Cut, Passing, Choosing, OnScreen
  <2> QED
    BY <1>1, <2>1 DEF RasterInv, Sized
<1>3. Paged(vga, enc)'
  BY <1>1, SamePaged
<1>4. Visible'
  <2>1. WantedMask' = WantedMask /\ WantedText' = WantedText
    BY <1>1 DEF WantedMask, WantedText, DisplayMask
  <2> QED
    BY <1>1, <2>1, VisibleStays DEF RasterInv
<1>5. Waits'
  BY <1>1 DEF RasterInv, Waits
<1>6. Shaped'
  BY <1>1 DEF RasterInv, Shaped, Striped
<1>7. Leads'
  <2> PICK k, e : k = shown /\ e = enc
    OBVIOUS
  <2>1. shown' = k /\ enc' = e
    BY <1>1
  <2>2. CASE phase = "stream" /\ ~cfg.rgb3
    <3>1. LeadsAt(k, e)
      BY <2>2 DEF RasterInv, Leads
    <3>2. LeadsAt(shown, enc)'
      BY <1>1, <2>1, <3>1, LeadsNext
    <3> QED
      BY <3>2 DEF Leads
  <2>3. CASE ~(phase = "stream" /\ ~cfg.rgb3)
    BY <1>1, <2>3 DEF Leads
  <2> QED
    BY <2>2, <2>3
<1>8. Accumulated'
  <2> PICK k, a : k = shown /\ a = enc.acc
    OBVIOUS
  <2>1. shown' = k /\ enc'.acc = a
    BY <1>1
  <2>2. Summing' = Summing
    BY <1>1 DEF Summing, Striped, DataOf
  <2>3. CASE Summing
    <3>1. SumsAt(k, a)
      BY <2>3 DEF RasterInv, Accumulated
    <3>2. SumsAt(shown, enc.acc)'
      BY <1>1, <2>1, <3>1, SumsNextStep
    <3> QED
      BY <2>2, <2>3, <3>2 DEF Accumulated
  <2>4. CASE ~Summing
    BY <1>1, <2>2, <2>4 DEF RasterInv, Accumulated, NoParity
  <2> QED
    BY <2>3, <2>4
<1> QED
  BY <1>2, <1>3, <1>4, <1>5, <1>6, <1>7, <1>8 DEF RasterInv

-----------------------------------------------------------------------------
(* The first image.                                                        *)

FirstFrame(c) == Frame(Data(c - 1, FALSE))
FirstFrames(m) == [c \in 1..m |-> FirstFrame(c)]
FirstStreams(m) == [c \in 1..m |-> Encode(FirstFrame(c))]

\* Its items are in the order of their frames.
LEMMA FirstItems ==
  ASSUME Init
  PROVE  /\ Meant \in 1..3
         /\ \A c \in 1..Meant : InOrder(screen.items)[c] = Data(c - 1, FALSE)
         /\ \A c \in 1..Meant : WantedFrame(c) = FirstFrame(c)
<1> PICK m \in {1, 3} : m = Meant
  BY DEF Meant
<1> PICK items : items = screen.items
  OBVIOUS
<1>1. items = {Data(i, FALSE) : i \in IF cfg.rgb3 THEN 0..2 ELSE {0}} /\ screen.base = base
  BY DEF Init, Image
<1>2. PICK f : f = [k \in 1..m |-> Data(k - 1, FALSE)]
  OBVIOUS
<1>3. Numbered(items, f, m, -1)
  <2>1. ASSUME NEW i PROVE Data(i, FALSE).first = i
    BY DEF Data, Item
  <2>2. ASSUME NEW k \in 1..m PROVE f[k].first = -1 + k
    <3>1. PICK i \in Int : i = k - 1
      OBVIOUS
    <3>2. f[k] = Data(i, FALSE) /\ i = -1 + k
      BY <1>2, <3>1
    <3> QED
      BY <2>1, <3>2
  <2>3. items = {Data(i, FALSE) : i \in 0..(m - 1)}
    <3>1. CASE cfg.rgb3
      BY <1>1, <3>1 DEF Meant
    <3>2. CASE ~cfg.rgb3
      BY <1>1, <3>2 DEF Meant
    <3> QED
      BY <3>1, <3>2
  <2>4. items = {f[k] : k \in 1..m}
    <3> PICK D : D = [i \in 0..(m - 1) |-> Data(i, FALSE)]
      OBVIOUS
    <3>1. items = {D[i] : i \in 0..(m - 1)}
      BY <2>3
    <3>2. \A k \in 1..m : f[k] = D[k - 1]
      BY <1>2
    <3>3. ASSUME NEW x \in items PROVE x \in {f[k] : k \in 1..m}
      <4>1. PICK i \in 0..(m - 1) : x = D[i]
        BY <3>1
      <4>2. PICK k \in 1..m : k = i + 1
        OBVIOUS
      <4>3. f[k] = D[i]
        <5>1. k - 1 = i
          BY <4>2
        <5> QED
          BY <3>2, <5>1
      <4> QED
        BY <4>1, <4>3
    <3>4. ASSUME NEW k \in 1..m PROVE f[k] \in items
      <4>1. PICK i \in 0..(m - 1) : i = k - 1
        OBVIOUS
      <4> QED
        BY <3>1, <3>2, <4>1
    <3> QED
      BY <3>3, <3>4
  <2> QED
    BY <2>2, <2>4 DEF Numbered
<1>4. InTheOrder(items, f, m) /\ Cardinality(items) = m
  <2>1. m \in 1..3 /\ -1 \in Int
    OBVIOUS
  <2>2. InTheOrder(items, f, m)
    BY <1>3, <2>1, InOrderOf
  <2>3. Cardinality(items) = m
    BY <1>3, <2>1, NumberedBefore
  <2> QED
    BY <2>2, <2>3
<1>5. ASSUME NEW c \in 1..m
      PROVE  Channels(items)[c] = InOrder(items)[c] /\ Channels(items)[c] = Data(c - 1, FALSE)
  <2>1. Smaller(c, m) = c /\ c \in 1..3
    BY DEF Smaller
  <2>2. Channels(items)[c] = f[c]
    BY <1>4, <2>1 DEF InTheOrder
  <2>3. Channels(items)[c] = InOrder(items)[c]
    BY <1>4, <2>1 DEF Channels
  <2> QED
    BY <1>2, <2>2, <2>3
<1>6. ASSUME NEW c \in 1..m PROVE WantedFrame(c) = FirstFrame(c)
  <2>1. CASE cfg.rgb3
    BY <1>1, <1>5, <2>1 DEF WantedFrame, FirstFrame, Frame
  <2>2. CASE ~cfg.rgb3
    <3>1. c = 1 /\ items = {Data(0, FALSE)}
      BY <1>1, <2>2 DEF Meant
    <3>2. (CHOOSE i \in items : TRUE) = Data(0, FALSE)
      BY <3>1
    <3>3. WantedFrame(c) = [item |-> Data(0, FALSE), base |-> base]
      BY <1>1, <2>2, <3>2 DEF WantedFrame
    <3>4. FirstFrame(1) = [item |-> Data(0, FALSE), base |-> base]
      BY DEF FirstFrame, Frame
    <3> QED
      BY <3>1, <3>3, <3>4
  <2> QED
    BY <2>1, <2>2
<1>7. \A c \in 1..m : InOrder(items)[c] = Data(c - 1, FALSE)
  BY <1>5
<1>8. \A c \in 1..m : WantedFrame(c) = FirstFrame(c)
  BY <1>6
<1>9. Meant \in 1..3
  BY DEF Meant
<1> QED
  BY <1>7, <1>8, <1>9

\* What is drawn, and what the encoder holds of it.
LEMMA FirstDrawn ==
  ASSUME RasterInit
  PROVE  \E room, buffers \in BOOLEAN :
           /\ vga = ShowFull(Entered, Rasters(Meant, QrMask, MeantStreams), MeantStreams,
                             Invert, WantedText, room)
           /\ enc = [NewEncoder(buffers) EXCEPT
                       !.raw = FirstFrame(1), !.mask = QrMask,
                       !.headers = IF cfg.rgb3 THEN FirstFrames(Meant) ELSE <<>>,
                       !.cw = MeantStreams,
                       !.ready = IF cfg.rgb3 THEN room ELSE TRUE]
<1> PICK m \in 1..3 : m = Meant
  BY FirstItems DEF RasterInit
<1>1. PICK frames : frames = [c \in 1..m |-> Frame(InOrder(screen.items)[c])]
  OBVIOUS
<1>2. frames = FirstFrames(m)
  BY <1>1, FirstItems DEF RasterInit, FirstFrames, FirstFrame
<1>3. PICK streams : streams = [c \in DOMAIN frames |-> Encode(frames[c])]
  OBVIOUS
<1>4. DOMAIN frames = 1..m /\ \A c \in 1..m : frames[c] = FirstFrame(c)
  BY <1>2 DEF FirstFrames
<1>5. streams = MeantStreams
  BY <1>3, <1>4, FirstItems DEF RasterInit, MeantStreams
<1>6. [c \in DOMAIN frames |-> Drawn(QrMask, streams[c])] = Rasters(m, QrMask, streams)
  BY <1>4 DEF Rasters
<1>7. PICK text : text = IF cfg.rgb3 THEN "prompt" ELSE "blank"
  OBVIOUS
<1>8. text = WantedText
  <2>1. EndWindow \notin screen.items
    <3>1. EndWindow.kind = "END_WINDOW" /\ \A i : Data(i, FALSE).kind = "DATA"
      BY DEF EndWindow, Data, Item
    <3>2. screen.items = {Data(i, FALSE) : i \in IF cfg.rgb3 THEN 0..2 ELSE {0}}
      BY DEF RasterInit, Init, Image
    <3> QED
      BY <3>1, <3>2
  <2>2. shown = 0
    BY DEF RasterInit, Init
  <2> QED
    BY <1>7, <2>1, <2>2 DEF WantedText
<1>9. frames = [c \in 1..(IF cfg.rgb3 THEN 3 ELSE 1) |-> Frame(InOrder(screen.items)[c])]
  BY <1>1 DEF Meant
<1>10. PICK room \in BOOLEAN, buffers \in BOOLEAN :
        LET first == [c \in 1..(IF cfg.rgb3 THEN 3 ELSE 1) |-> Frame(InOrder(screen.items)[c])]
        IN /\ vga = FirstImage(room)
           /\ enc = [NewEncoder(buffers /\ cfg.chain = 2) EXCEPT
                       !.raw = first[1], !.mask = QrMask,
                       !.headers = IF cfg.rgb3 THEN first ELSE <<>>,
                       !.cw = [c \in DOMAIN first |-> Encode(first[c])],
                       !.ready = IF cfg.rgb3 THEN room ELSE TRUE]
  BY Zenon DEF RasterInit
<1>11. vga = ShowFull(Entered, Rasters(m, QrMask, streams), streams, Invert, text, room)
  <2>1. FirstImage(room) = ShowFull(Entered, [c \in DOMAIN frames |-> Drawn(QrMask, streams[c])],
                                    streams, Invert, text, room)
    BY <1>3, <1>7, <1>9 DEF FirstImage
  <2> QED
    BY <1>6, <1>10, <2>1
<1>12. frames[1] = FirstFrame(1)
  BY <1>4
<1>13. PICK b \in BOOLEAN : b = (buffers /\ cfg.chain = 2)
  OBVIOUS
<1>14. enc = [NewEncoder(b) EXCEPT
                !.raw = FirstFrame(1), !.mask = QrMask,
                !.headers = IF cfg.rgb3 THEN FirstFrames(m) ELSE <<>>,
                !.cw = streams, !.ready = IF cfg.rgb3 THEN room ELSE TRUE]
  <2>1. enc = [NewEncoder(buffers /\ cfg.chain = 2) EXCEPT
                 !.raw = frames[1], !.mask = QrMask,
                 !.headers = IF cfg.rgb3 THEN frames ELSE <<>>,
                 !.cw = [c \in DOMAIN frames |-> Encode(frames[c])],
                 !.ready = IF cfg.rgb3 THEN room ELSE TRUE]
    BY <1>10, <1>9, Zenon
  <2>2. NewEncoder(b) = NewEncoder(buffers /\ cfg.chain = 2)
    BY <1>13, Zenon
  <2> QED
    BY <1>2, <1>3, <1>12, <2>1, <2>2, Zenon
<1> QED
  BY <1>5, <1>8, <1>11, <1>14

LEMMA Starts == ASSUME RasterInit PROVE RasterInv
<1>1. /\ phase = "first" /\ shown = 0 /\ pass = <<>> /\ ~selecting
      /\ count >= 3 /\ rescue = 0 /\ refused = FALSE /\ sizes \in Payloads
  BY DEF RasterInit, Init
<1>2. SenderTyped
  BY InitSender DEF RasterInit
<1>3. Sized
  BY <1>1, RasterAssumption DEF Sized
<1>4. Waits
  BY <1>1 DEF Waits
<1>5. Shaped
  <2>1. Len(pass) = 0
    BY <1>1
  <2>2. Chains(cfg, pass) /\ InStripes(pass, count)
    BY <2>1 DEF Chains, InStripes
  <2> QED
    BY <1>1, <2>2 DEF Shaped
<1>6. PICK room \in BOOLEAN, buffers \in BOOLEAN :
        /\ vga = ShowFull(Entered, Rasters(Meant, QrMask, MeantStreams), MeantStreams,
                          Invert, WantedText, room)
        /\ enc = [NewEncoder(buffers) EXCEPT
                    !.raw = FirstFrame(1), !.mask = QrMask,
                    !.headers = IF cfg.rgb3 THEN FirstFrames(Meant) ELSE <<>>,
                    !.cw = MeantStreams,
                    !.ready = IF cfg.rgb3 THEN room ELSE TRUE]
  BY FirstDrawn
<1> PICK m, streams, text : m = Meant /\ streams = MeantStreams /\ text = WantedText
  OBVIOUS
<1>7. m \in 1..3 /\ m \in Nat \ {0} /\ m = IF cfg.rgb3 THEN 3 ELSE 1
  BY DEF Meant
<1>8. vga = ShowFull(Entered, Rasters(m, QrMask, streams), streams, Invert, text, room)
  BY <1>6
<1>9. /\ Sound(vga)
      /\ Displayed(vga) = [qr |-> Rasters(m, QrMask, streams), border |-> Invert, text |-> text]
      /\ Shadows(vga) = [placement |-> TRUE, qr |-> Rasters(m, QrMask, streams),
                         template |-> IF room THEN Drawn(QrMask, {}) ELSE NoRaster]
  <2> PICK v, w : v = Entered /\ w = vga
    OBVIOUS
  <2>1. Sound(v) /\ room \in BOOLEAN /\ m \in Nat \ {0}
    BY <1>6, <1>7, EnteredSound
  <2>2. w = ShowFull(v, Rasters(m, QrMask, streams), streams, Invert, text, room)
    BY <1>8
  <2> QED
    BY <2>1, <2>2, FullShows
<1>10. /\ vga.placement = TRUE /\ vga.qr = Rasters(m, QrMask, streams)
       /\ vga.template = IF room THEN Drawn(QrMask, {}) ELSE NoRaster
  BY <1>9 DEF Shadows
<1>11. DOMAIN vga.qr = 1..m
  BY <1>10 DEF Rasters
<1> PICK headers, ready, raw :
      /\ headers = IF cfg.rgb3 THEN FirstFrames(Meant) ELSE <<>>
      /\ ready = IF cfg.rgb3 THEN room ELSE TRUE
      /\ raw = FirstFrame(1)
  OBVIOUS
<1>12. enc = [NewEncoder(buffers) EXCEPT !.raw = raw, !.mask = QrMask, !.headers = headers,
                                         !.cw = streams, !.ready = ready]
  BY <1>6, Zenon
<1>13. enc = [raw |-> raw, headers |-> headers, cw |-> streams, mask |-> QrMask, ready |-> ready,
              cache |-> [buffers |-> buffers, valid |-> FALSE, key |-> <<>>,
                         raw |-> Frame(EndWindow), cw |-> {}],
              acc |-> NoParity]
  BY <1>12 DEF NewEncoder
<1>14. /\ enc.mask = QrMask /\ enc.cw = streams /\ enc.ready = ready /\ enc.acc = NoParity
       /\ enc.cache.valid = FALSE
  BY <1>13
<1>15. IsEncoder(enc)
  <2>1. IsCache(enc.cache)
    BY <1>13 DEF IsCache
  <2>2. enc.ready \in BOOLEAN
    BY <1>14
  <2>3. enc = [raw |-> enc.raw, headers |-> enc.headers, cw |-> enc.cw, mask |-> enc.mask,
               ready |-> enc.ready, cache |-> enc.cache, acc |-> enc.acc]
    BY <1>13
  <2> QED
    BY <2>1, <2>2, <2>3 DEF IsEncoder
<1>16. CacheSound(enc.cache)
  BY <1>14 DEF CacheSound
<1>17. Paged(vga, enc)
  <2>1. CASE cfg.rgb3
    <3>1. ColourReady(vga, enc)
      BY <1>7, <1>10, <1>11, <1>14, <2>1 DEF ColourReady
    <3> QED
      BY <1>9, <1>15, <1>16, <2>1, <3>1 DEF Paged
  <2>2. CASE ~cfg.rgb3
    <3>1. m = 1
      BY <1>7, <2>2
    <3>2. Holds(vga, 1, QrMask, streams)
      BY <1>10, <3>1 DEF Holds
    <3>3. MonoReady(vga, enc)
      BY <1>14, <3>2 DEF MonoReady
    <3> QED
      BY <1>9, <1>15, <1>16, <2>2, <3>3 DEF Paged
  <2> QED
    BY <2>1, <2>2
<1>18. Leads /\ Accumulated
  BY <1>1, <1>14 DEF Leads, Accumulated, Summing
<1>19. Visible
  <2>1. WantedMask = QrMask
    BY <1>1 DEF WantedMask, DisplayMask
  <2>2. Presents(vga, m, QrMask, streams, text)
    BY <1>9 DEF Presents
  <2> QED
    BY <2>1, <2>2 DEF Visible
<1> QED
  BY <1>1, <1>2, <1>3, <1>4, <1>5, <1>17, <1>18, <1>19 DEF RasterInv

-----------------------------------------------------------------------------
(* The theorems.                                                           *)

LEMMA RasterSteps == ASSUME RasterInv, [RasterNext]_<<sender, raster>> PROVE RasterInv'
<1>1. CASE Show /\ Shows(pass[shown + 1])
  BY <1>1, ShowKeeps
<1>2. CASE ShowEow /\ Shows({EndWindow})
  BY <1>2, ShowEowKeeps
<1>3. CASE Start /\ UNCHANGED raster
  BY <1>3, StartKeeps
<1>4. CASE Replay /\ UNCHANGED <<sizes, vga, enc, refused>>
  BY <1>4, ReplayKeeps
<1>5. CASE MissingAll /\ Leaves
  BY <1>5, MissingAllKeeps
<1>6. ASSUME NEW ranges \in Entries, MissingRanges(ranges), Leaves PROVE RasterInv'
  BY <1>6, MissingRangesKeeps, EntryAssumption
<1>7. CASE Enter /\ UNCHANGED <<sizes, vga, enc, refused>>
  BY <1>7, EnterKeeps
<1>8. CASE (Pause \/ Resume \/ Cancel) /\ Leaves
  BY <1>8, EscKeeps
<1>9. CASE UNCHANGED <<sender, raster>>
  BY <1>9, StutterKeeps
<1>10. CASE RasterNext
  <2>1. \/ Show /\ Shows(pass[shown + 1])
        \/ ShowEow /\ Shows({EndWindow})
        \/ Start /\ UNCHANGED raster
        \/ Replay /\ UNCHANGED <<sizes, vga, enc, refused>>
        \/ MissingAll /\ Leaves
        \/ \E ranges \in Entries : MissingRanges(ranges) /\ Leaves
        \/ Enter /\ UNCHANGED <<sizes, vga, enc, refused>>
        \/ (Pause \/ Resume \/ Cancel) /\ Leaves
    BY <1>10, Zenon DEF RasterNext
  <2> QED
    BY <1>1, <1>2, <1>3, <1>4, <1>5, <1>6, <1>7, <1>8, <2>1
<1> QED
  BY <1>9, <1>10

\* In every state the shadow rasters, the encoder, the chain cache and the
\* parity accumulator of the legacy sender agree with the pass it transmits,
\* for every command line, every length of the frames and all the memory it
\* gets or does not get.
THEOREM RasterStays == RasterSpec => []RasterInv
<1>1. RasterInit => RasterInv
  BY Starts
<1>2. RasterInv /\ [RasterNext]_<<sender, raster>> => RasterInv'
  BY RasterSteps
<1> QED
  BY <1>1, <1>2, PTL DEF RasterSpec

\* The page on the CRT is the image meant: whatever way show_frame(),
\* show_chain(), display_rgb_items() and flush_rgb_channel_parity() took, each
\* channel has the codewords of its frame as encoded from scratch.
THEOREM PageIsMeant == RasterSpec => []PageShows
<1>1. RasterInv => PageShows
  <2> SUFFICES ASSUME RasterInv, screen.items # {} PROVE PageShows
    BY DEF PageShows
  <2>1. Presents(vga, Meant, WantedMask, MeantStreams, WantedText)
    BY DEF RasterInv, Visible
  <2> PICK m, page : m = Meant /\ page = Displayed(vga)
    OBVIOUS
  <2>2. page = [qr |-> Rasters(m, WantedMask, MeantStreams), border |-> Invert,
                text |-> WantedText]
    BY <2>1 DEF Presents
  <2>3. Rasters(m, WantedMask, MeantStreams)
          = [c \in 1..m |-> Drawn(WantedMask, Encode(WantedFrame(c)))]
    BY DEF Rasters, MeantStreams
  <2>4. page.qr = [c \in 1..m |-> Drawn(WantedMask, Encode(WantedFrame(c)))]
    BY <2>2, <2>3
  <2>5. m = IF cfg.rgb3 THEN 3 ELSE 1
    BY DEF Meant
  <2> QED
    BY <2>2, <2>4, <2>5 DEF PageShows
<1> QED
  BY <1>1, RasterStays, PTL

\* No show_*() call is refused once the first image is up: every fast path is
\* ready where it is taken, and a stripe's parity is only asked of images that
\* follow one another.
THEOREM NothingRefused == RasterSpec => []NeverRefused
<1>1. RasterInv => NeverRefused
  BY DEF RasterInv, NeverRefused
<1> QED
  BY <1>1, RasterStays, PTL
=============================================================================
