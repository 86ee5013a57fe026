------------------------- MODULE StreamSenderProofs -------------------------
(***************************************************************************)
(* Theorems about the 16-bit sender, for every transfer: a symbol on the   *)
(* screen stays whole, every record is shown in order, and the sender      *)
(* stops for a reason only.                                                *)
(***************************************************************************)
EXTENDS StreamSender, Induction

-----------------------------------------------------------------------------
(* The inductive invariant.                                                *)

Total == Len(Kinds(transfer))
Upto(k) == 0..(k - 1)
Start == group.header.start

Pcs == {"start", "loop", "prepare", "focus", "play", "patched", "restore",
        "played", "tail", "tail_shown", "closing", "done", "failed"}
Playing == loop.pc \in {"play", "patched", "restore", "played"}
Ready == loop.pc = "focus" \/ Playing
InGroup == loop.pc = "prepare" \/ Ready
Over == loop.pc \in {"closing", "done", "failed"}
Leaving == loop.pc = "loop" /\ stream.count # 0 /\ Left < Width

StreamType == [window : Nat, index : 0..(transfer.window - 1), count : 0..transfer.window]
ScreenType == [mode : {"text", "blank", "plane", "mixed", "page"}, slot : Slots,
               mask : SUBSET All]
LoopType == [pc : Pcs, first : BOOLEAN, nextSlot : Slots, active : BOOLEAN,
             symbol : 0..5, result : {"done", "failed"}]

Typed ==
  /\ transfer \in Transfers
  /\ total \in Nat
  /\ global \in 0..Total
  /\ stream \in StreamType
  /\ group = [slot |-> group.slot, planes |-> group.planes, parity |-> group.parity,
              before |-> group.before, header |-> group.header]
  /\ group.slot \in Slots /\ group.planes \in 0..Width /\ group.parity \subseteq Upto(Total)
  /\ vram = [i \in Slots |-> vram[i]]
  /\ \A i \in Slots : vram[i] = [p \in All |-> vram[i][p]]
  /\ patches = [i \in Slots |-> patches[i]]
  /\ work.raster = work.codewords
  /\ work = [raster |-> work.raster, codewords |-> work.codewords]
  /\ screen \in ScreenType
  /\ page \in 0..1
  /\ pending = Nothing \/ pending.slot \in Slots
  /\ loop \in LoopType
  /\ fault \in {"none", "read", "escape"}

\* Where the stream stands is where the record taken next stands in its window.
InStream ==
  loop.pc # "start" /\ ~Over =>
    /\ total = Total
    /\ IF stream.count = 0 THEN global = Total
       ELSE /\ global = stream.window * transfer.window + stream.index
            /\ stream.index < stream.count
            /\ stream.count = Cut(Total - stream.window * transfer.window)

\* What a plane of the group that starts at a record holds.
PlaneOf(start, p, applied) ==
  [image |-> Genuine(start, p), patches |-> IF applied /\ p = 3 THEN {PatchOf(start)} ELSE {}]
WholeIn(slot, start, n, applied) ==
  \A p \in Group : p < n => vram[slot][p] = PlaneOf(start, p, applied)

\* The group in preparation or in play.
Applied == loop.pc \in {"patched", "played"}
Grouped ==
  /\ InGroup =>
       /\ Start \in Nat /\ group.header = Header(Start)
       /\ Index(Start) + Width <= Count(Start)
       /\ Start + Width <= Total
       /\ global = Start + group.planes
       /\ group.parity = Start..(global - 1)
       /\ ~Applied => WholeIn(group.slot, Start, group.planes, FALSE)
       /\ Applied => WholeIn(group.slot, Start, group.planes, TRUE)
       /\ loop.active
       /\ Applied \/ group.before = <<>>
  /\ loop.pc = "prepare" =>
       /\ loop.nextSlot = group.slot
       /\ group.planes < Width =>
            /\ stream.window = group.header.window
            /\ stream.index = group.header.index + group.planes
            /\ stream.count = group.header.count
  /\ Ready =>
       /\ group.planes = Width
       /\ loop.nextSlot = 1 - group.slot
       /\ Width = 4 => patches[group.slot] = PatchOf(Start)
  /\ Applied => group.before = IF Width = 4 THEN Plain(Genuine(Start, 3)) ELSE <<>>

\* Which symbol is next.
Symbols ==
  /\ loop.first => loop.pc \in {"start", "loop", "prepare", "focus", "tail", "tail_shown"} \/ Over
  /\ loop.pc = "tail" => stream.count # 0
  /\ loop.pc = "focus" => loop.symbol = 1 /\ loop.first
  /\ loop.pc = "play" => loop.symbol <= Width
  /\ loop.pc = "restore" => loop.symbol = 1
  /\ loop.pc = "patched" => loop.symbol = 4 /\ Width = 4
  /\ loop.pc = "played" => loop.symbol = Width + 1

\* The group that starts at d is held on the screen, its correction pending.
Held(slot, d) ==
  /\ WholeIn(slot, d, Width, TRUE)
  /\ pending = IF Width = 4 THEN [slot |-> slot, before |-> Plain(Genuine(d, 3))] ELSE Nothing
  /\ Width = 4 => patches[slot] = PatchOf(d)

\* The first symbol of the group in play is not on the screen yet.
Behind ==
  \/ loop.pc = "loop" /\ ~Leaving
  \/ loop.pc = "prepare"
  \/ loop.pc = "play" /\ loop.symbol = 0
BehindSlot == IF loop.pc = "loop" THEN 1 - loop.nextSlot ELSE 1 - group.slot
Started == Playing /\ ~Behind

Screen ==
  /\ loop.pc = "start" => loop.active
  /\ loop.pc \in {"start", "done", "failed"} => screen.mode = "text"
  /\ loop.active => screen.mode \notin {"mixed", "page"}
  /\ loop.pc \in {"tail", "tail_shown"} => ~loop.active
  /\ ~Over /\ ~loop.active => screen.mode # "plane"
  /\ ~Over /\ loop.first => screen.mode # "plane"
  /\ ~Over /\ screen.mode # "plane" => pending = Nothing
  /\ loop.pc = "loop" /\ ~loop.active => stream.count = 0 \/ Left < Width
  /\ Behind /\ screen.mode = "plane" =>
       /\ screen.slot = BehindSlot /\ screen.mask = Group
       /\ \E d \in Upto(Total) : Held(screen.slot, d)
  /\ Started =>
       /\ screen.mode = "plane" /\ screen.slot = group.slot
       /\ screen.mask = IF loop.pc = "played" THEN Group ELSE {loop.symbol - 1}
       /\ IF loop.pc = "restore"
          THEN pending # Nothing /\ \E d \in Upto(Total) : Held(1 - group.slot, d)
          ELSE pending = Nothing
  /\ screen.mode = "page" =>
       /\ ~loop.active
       /\ \E r \in Upto(Total) : vram[screen.slot] = [p \in All |-> Plain(GenuineData(r))]
       /\ screen.slot = 1 - page

\* The first record that has not been shown.
Reached ==
  IF Playing THEN Start + IF loop.symbol < Width THEN loop.symbol ELSE Width
  ELSE IF InGroup THEN Start ELSE global

Ordered ==
  /\ loop.pc = "start" => global = 0
  /\ ~Over => shown = Upto(Reached)
  /\ Over => \E k \in 0..Total : shown = Upto(k)
  /\ loop.pc = "done" \/ (loop.pc = "closing" /\ loop.result = "done") => shown = Upto(Total)

Reasons ==
  loop.pc = "failed" \/ (loop.pc = "closing" /\ loop.result = "failed") =>
    fault # "none" \/ (loop.active = FALSE /\ Short(global - 1))

IInv == Typed /\ InStream /\ Grouped /\ Symbols /\ Screen /\ Ordered /\ Reasons

-----------------------------------------------------------------------------
(* The records of the transfer.                                            *)

KindNames == {"session", "directory", "begin", "data", "part", "end", "finish"}

LEMMA Repeated ==
  ASSUME NEW m \in Nat, NEW S, NEW v \in S
  PROVE  [i \in 1..m |-> v] \in Seq(S) /\ Len([i \in 1..m |-> v]) = m
<1> DEFINE s == [i \in 1..m |-> v]
<1>1. s \in [1..m -> S]
  OBVIOUS
<1> HIDE DEF s
<1>2. s \in Seq(S) /\ Len(s) = m
  BY <1>1
<1> QED
  BY <1>2 DEF s

FileType == [full : Nat, part : 0..1, dirs : Nat]

LEMMA FileRecordsType ==
  ASSUME NEW f \in FileType
  PROVE  FileRecords(f) \in Nat
BY DEF FileType, FileRecords

LEMMA FileKindsType ==
  ASSUME NEW f \in FileType
  PROVE  FileKinds(f) \in Seq(KindNames) /\ Len(FileKinds(f)) = FileRecords(f)
<1> DEFINE a == [i \in 1..f.full |-> "data"]
           b == [i \in 1..f.part |-> "part"]
           e == [i \in 1..f.dirs |-> "directory"]
<1>1. f.full \in Nat /\ f.part \in Nat /\ f.dirs \in Nat
  BY DEF FileType
<1>2. /\ "begin" \in KindNames /\ "data" \in KindNames /\ "part" \in KindNames
      /\ "end" \in KindNames /\ "directory" \in KindNames
  BY DEF KindNames
<1>3. a \in Seq(KindNames) /\ Len(a) = f.full
  BY <1>1, <1>2, Repeated
<1>4. b \in Seq(KindNames) /\ Len(b) = f.part
  BY <1>1, <1>2, Repeated
<1>4a. e \in Seq(KindNames) /\ Len(e) = f.dirs
  BY <1>1, <1>2, Repeated
<1>5. FileKinds(f) = <<"begin">> \o a \o b \o <<"end">> \o e
  BY DEF FileKinds
<1> HIDE DEF a, b, e
<1>6. <<"begin">> \in Seq(KindNames) /\ <<"end">> \in Seq(KindNames)
  BY <1>2
<1>7. <<"begin">> \o a \in Seq(KindNames) /\ Len(<<"begin">> \o a) = 1 + f.full
  BY <1>1, <1>3, <1>6, ConcatProperties
<1> DEFINE c == <<"begin">> \o a
<1> HIDE DEF c
<1>8. c \o b \in Seq(KindNames) /\ Len(c \o b) = 1 + f.full + f.part
  <2>1. c \o b \in Seq(KindNames) /\ Len(c \o b) = Len(c) + Len(b)
    BY <1>4, <1>7, ConcatProperties DEF c
  <2> QED
    BY <1>4, <1>7, <2>1 DEF c
<1> DEFINE d == c \o b
<1> HIDE DEF d
<1>9. d \o <<"end">> \in Seq(KindNames) /\ Len(d \o <<"end">>) = 1 + f.full + f.part + 1
  BY <1>1, <1>6, <1>8, ConcatProperties DEF d
<1> DEFINE whole == d \o <<"end">>
<1> HIDE DEF whole
<1>10. whole \o e \in Seq(KindNames) /\ Len(whole \o e) = Len(whole) + Len(e)
  BY <1>9, <1>4a, ConcatProperties DEF whole
<1>11. FileKinds(f) = whole \o e
  BY <1>5 DEF c, d, whole
<1>12. Len(whole) = 2 + f.full + f.part
  BY <1>1, <1>9 DEF whole
<1> QED
  BY <1>1, <1>4a, <1>10, <1>11, <1>12 DEF FileRecords

\* Records that files have, up to each of them.
Sums(g, files) ==
  /\ g \in [0..Len(files) -> Nat]
  /\ g[0] = 0
  /\ \A i \in 1..Len(files) : g[i] = g[i - 1] + FileRecords(files[i])

AllKinds(files) == FlattenSeq([i \in DOMAIN files |-> FileKinds(files[i])])

LEMMA FilesKinds ==
  ASSUME NEW files \in Seq(FileType)
  PROVE  /\ AllKinds(files) \in Seq(KindNames)
         /\ \E g : Sums(g, files) /\ Len(AllKinds(files)) = g[Len(files)]
<1> DEFINE n == Len(files)
           seqs == [i \in DOMAIN files |-> FileKinds(files[i])]
           cost(i) == IF i \in 1..n THEN FileRecords(files[i]) ELSE 0
           G == [x \in Nat \X Nat |-> x[2] + cost(x[1])]
<1>1. n \in Nat /\ DOMAIN files = 1..n /\ \A i \in 1..n : files[i] \in FileType
  OBVIOUS
<1>2. \A i \in 1..n : /\ FileKinds(files[i]) \in Seq(KindNames)
                     /\ Len(FileKinds(files[i])) = FileRecords(files[i])
  BY <1>1, FileKindsType
<1>3. \A i \in 1..n : FileRecords(files[i]) \in Nat
  BY <1>1, FileRecordsType
<1>4. seqs \in Seq(Seq(KindNames)) /\ Len(seqs) = n /\ \A i \in 1..n : seqs[i] = FileKinds(files[i])
  <2>1. seqs \in [1..n -> Seq(KindNames)] /\ \A i \in 1..n : seqs[i] = FileKinds(files[i])
    BY <1>1, <1>2
  <2> HIDE DEF seqs
  <2> QED
    BY <1>1, <2>1
<1>5. \A i \in Nat : cost(i) \in Nat
  <2> SUFFICES ASSUME NEW i \in Nat PROVE cost(i) \in Nat
    OBVIOUS
  <2>1. CASE i \in 1..n
    BY <1>3, <2>1
  <2> QED
    BY <2>1
<1>6. G \in [Nat \X Nat -> Nat] /\ \A i, v \in Nat : G[<<i, v>>] = v + cost(i)
  <2> HIDE DEF cost
  <2>1. \A x \in Nat \X Nat : x[2] + cost(x[1]) \in Nat
    <3> SUFFICES ASSUME NEW x \in Nat \X Nat PROVE x[2] + cost(x[1]) \in Nat
      OBVIOUS
    <3>1. x[1] \in Nat /\ x[2] \in Nat
      OBVIOUS
    <3>2. cost(x[1]) \in Nat
      BY <1>5, <3>1
    <3> QED
      BY <3>1, <3>2
  <2>2. G \in [Nat \X Nat -> Nat]
    BY <2>1
  <2>3. \A i, v \in Nat : <<i, v>> \in Nat \X Nat /\ <<i, v>>[1] = i /\ <<i, v>>[2] = v
    OBVIOUS
  <2>4. \A i, v \in Nat : G[<<i, v>>] = v + cost(i)
    BY <2>3
  <2> QED
    BY <2>2, <2>4
<1> HIDE DEF G, n, seqs
<1>7. PICK g \in [0..n -> Nat] : Recurs(g, 0, G, 0, n)
  <2> DEFINE N == Nat
  <2>1. 0 \in N /\ G \in [Nat \X N -> N] /\ 0 \in Nat /\ n \in Nat /\ 0 <= n
    BY <1>1, <1>6
  <2> HIDE DEF N
  <2>2. \E g \in [0..n -> N] : Recurs(g, 0, G, 0, n)
    BY <2>1, Recursion
  <2> QED
    BY <2>2 DEF N
<1>8. g[0] = 0
  BY <1>1, <1>7 DEF Recurs
<1>9. \A i \in 1..n : g[i] = g[i - 1] + cost(i) /\ cost(i) = FileRecords(files[i])
  <2> SUFFICES ASSUME NEW i \in 1..n
               PROVE  g[i] = g[i - 1] + cost(i) /\ cost(i) = FileRecords(files[i])
    OBVIOUS
  <2>1. i \in 0..n /\ i # 0 /\ i - 1 \in 0..n /\ i \in Nat /\ g[i - 1] \in Nat
    BY <1>1, <1>7
  <2>2. g[i] = G[<<i, g[i - 1]>>]
    BY <1>7, <2>1 DEF Recurs
  <2>3. g[i] = g[i - 1] + cost(i)
    <3> HIDE DEF cost
    <3> QED
      BY <1>6, <2>1, <2>2
  <2> QED
    BY <2>3
<1> HIDE DEF cost
<1>10. \A i \in 1..n : g[i] = g[i - 1] + Len(seqs[i])
  BY <1>2, <1>4, <1>9
<1>11. FlattenSeq(seqs) \in Seq(KindNames) /\ Len(FlattenSeq(seqs)) = g[n]
  <2>1. g \in [0..Len(seqs) -> Nat] /\ \A i \in 1..Len(seqs) : g[i] = g[i - 1] + Len(seqs[i])
    BY <1>4, <1>7, <1>10
  <2>2. FlattenSeq(seqs) \in Seq(KindNames)
    BY <1>4, FlattenType
  <2>3. Len(FlattenSeq(seqs)) = g[Len(seqs)]
    BY <1>4, <1>8, <2>1, FlattenLen
  <2> QED
    BY <1>4, <2>2, <2>3
<1>12. Sums(g, files)
  BY <1>7, <1>8, <1>9 DEF Sums, n
<1>13. AllKinds(files) = FlattenSeq(seqs)
  BY DEF AllKinds, seqs
<1> QED
  BY <1>11, <1>12, <1>13 DEF n

\* The count of the first pass, from what is counted before the files.
UpTo(files, a) ==
  LET upto[i \in 0..Len(files)] ==
        IF i = 0 THEN a ELSE upto[i - 1] + FileRecords(files[i])
  IN upto[Len(files)]

LEMMA UpToSums ==
  ASSUME NEW files \in Seq(FileType), NEW a \in Nat, NEW g, Sums(g, files)
  PROVE  UpTo(files, a) = a + g[Len(files)] /\ g[Len(files)] \in Nat
<1> DEFINE n == Len(files)
           Solves(f) == f = [i \in 0..Len(files) |->
                               IF i = 0 THEN a ELSE f[i - 1] + FileRecords(files[i])]
           upto == CHOOSE f : Solves(f)
           h == [i \in 0..n |-> a + g[i]]
<1>1. UpTo(files, a) = upto[n]
  BY DEF UpTo
<1>2. n \in Nat /\ \A i \in 1..n : FileRecords(files[i]) \in Nat
  <2>1. n \in Nat /\ \A i \in 1..n : files[i] \in FileType
    OBVIOUS
  <2> QED
    BY <2>1, FileRecordsType
<1>3. g \in [0..n -> Nat] /\ g[0] = 0
  BY DEF Sums
<1>4. \A i \in 1..n : g[i] = g[i - 1] + FileRecords(files[i])
  BY DEF Sums
<1>5. \A i \in 0..n : h[i] = IF i = 0 THEN a ELSE h[i - 1] + FileRecords(files[i])
  <2> SUFFICES ASSUME NEW i \in 0..n
               PROVE  h[i] = IF i = 0 THEN a ELSE h[i - 1] + FileRecords(files[i])
    OBVIOUS
  <2>1. CASE i = 0
    BY <1>2, <1>3, <2>1
  <2>2. CASE i # 0
    <3>1. i \in 1..n /\ i - 1 \in 0..n /\ g[i - 1] \in Nat
      BY <1>2, <1>3, <2>2
    <3>2. h[i] = a + g[i] /\ h[i - 1] = a + g[i - 1]
      BY <3>1
    <3>3. g[i] = g[i - 1] + FileRecords(files[i])
      BY <1>4, <3>1
    <3>4. PICK x \in Nat, p \in Nat : x = FileRecords(files[i]) /\ p = g[i - 1]
      BY <1>2, <3>1
    <3> HIDE DEF h
    <3>5. h[i] = a + (p + x) /\ h[i - 1] = a + p
      BY <3>2, <3>3, <3>4
    <3> QED
      BY <2>2, <3>4, <3>5
  <2> QED
    BY <2>1, <2>2
<1>6. Solves(h)
  BY <1>5
<1>7. Solves(upto)
  <2> HIDE DEF Solves
  <2> QED
    BY <1>6
<1>8. \A i \in 0..n : upto[i] = IF i = 0 THEN a
                                ELSE upto[i - 1] + FileRecords(files[i])
  <2> HIDE DEF upto
  <2> QED
    BY <1>7
<1> HIDE DEF upto, n
<1> DEFINE T == {k \in Nat : k <= n => upto[k] = a + g[k]}
<1>9. 0 \in T
  <2>1. 0 \in 0..n
    BY <1>2
  <2>2. upto[0] = a
    BY <1>8, <2>1
  <2> QED
    BY <1>3, <2>2
<1>10. ASSUME NEW k \in Nat, k \in T PROVE k + 1 \in T
  <2> SUFFICES ASSUME k + 1 <= n PROVE upto[k + 1] = a + g[k + 1]
    OBVIOUS
  <2> DEFINE i == k + 1
  <2>1. i \in 1..n /\ i \in 0..n /\ i # 0 /\ i - 1 = k /\ k \in 0..n
    BY <1>2
  <2> HIDE DEF i
  <2>2. upto[k] = a + g[k] /\ g[k] \in Nat
    BY <1>2, <1>3, <1>10, <2>1
  <2>3. upto[i] = upto[k] + FileRecords(files[i])
    BY <1>8, <2>1
  <2>4. g[i] = g[k] + FileRecords(files[i])
    BY <1>4, <2>1
  <2>5. PICK x \in Nat : x = FileRecords(files[i])
    BY <1>2, <2>1
  <2>6. upto[i] = a + g[i]
    BY <2>2, <2>3, <2>4, <2>5
  <2> USE DEF i
  <2> QED
    BY <2>6
<1> HIDE DEF T
<1>11. Nat \subseteq T
  BY <1>9, <1>10, Induct
<1>12. upto[n] = a + g[n]
  BY <1>2, <1>11 DEF T
<1>13. g[n] \in Nat
  BY <1>2, <1>3
<1> QED
  BY <1>1, <1>12, <1>13 DEF n

\* Each record has a kind, and the first pass over the manifest counts them.
LEMMA KindsCounted ==
  ASSUME transfer \in Transfers
  PROVE  Kinds(transfer) \in Seq(KindNames) /\ Len(Kinds(transfer)) = Counted /\ Counted \in Nat
<1>1. PICK dirs, files : dirs = transfer.dirs /\ files = transfer.files
  OBVIOUS
<1>2. dirs \in Nat /\ files \in Seq(FileType)
  BY <1>1, TransfersAssumption DEF StreamAssumption, FileType
<1>3. Counted = UpTo(files, 2 + dirs)
  BY <1>1 DEF Counted, UpTo
<1> DEFINE directories == [i \in 1..dirs |-> "directory"]
           middle == AllKinds(files)
<1>4. Kinds(transfer) = <<"session">> \o directories \o middle \o <<"finish">>
  BY <1>1 DEF Kinds, AllKinds
<1>5. PICK g : Sums(g, files) /\ Len(middle) = g[Len(files)]
  BY <1>2, FilesKinds
<1>6. middle \in Seq(KindNames)
  BY <1>2, FilesKinds
<1>7. Counted = 2 + dirs + Len(middle) /\ Len(middle) \in Nat
  <2>1. 2 + dirs \in Nat
    BY <1>2
  <2>2. UpTo(files, 2 + dirs) = 2 + dirs + g[Len(files)] /\ g[Len(files)] \in Nat
    BY <1>2, <1>5, <2>1, UpToSums
  <2> QED
    BY <1>3, <1>5, <2>2
<1> HIDE DEF middle
<1>8. directories \in Seq(KindNames) /\ Len(directories) = dirs
  <2>1. "directory" \in KindNames
    BY DEF KindNames
  <2> QED
    BY <1>2, <2>1, Repeated
<1>9. /\ <<"session">> \in Seq(KindNames) /\ Len(<<"session">>) = 1
      /\ <<"finish">> \in Seq(KindNames) /\ Len(<<"finish">>) = 1
  <2>1. "session" \in KindNames /\ "finish" \in KindNames
    BY DEF KindNames
  <2> QED
    BY <2>1
<1> HIDE DEF directories
<1> DEFINE first == <<"session">> \o directories
           most == first \o middle
<1>10. first \in Seq(KindNames) /\ Len(first) = 1 + dirs
  BY <1>2, <1>8, <1>9, ConcatProperties
<1> HIDE DEF first
<1>11. most \in Seq(KindNames) /\ Len(most) = 1 + dirs + Len(middle)
  BY <1>2, <1>6, <1>7, <1>10, ConcatProperties
<1> DEFINE last == <<"finish">>
<1> HIDE DEF most, last
<1>12. last \in Seq(KindNames) /\ Len(last) = 1
  BY <1>9 DEF last
<1>13. most \o last \in Seq(KindNames) /\ Len(most \o last) = Len(most) + 1
  <2>1. most \in Seq(KindNames) /\ last \in Seq(KindNames)
    BY <1>11, <1>12
  <2>2. most \o last \in Seq(KindNames) /\ Len(most \o last) = Len(most) + Len(last)
    BY <2>1, ConcatProperties
  <2> QED
    BY <1>12, <2>2
<1>14. Kinds(transfer) = most \o last
  BY <1>4 DEF first, most, last
<1> QED
  BY <1>2, <1>7, <1>11, <1>13, <1>14

-----------------------------------------------------------------------------
(* Windows.                                                                *)

LEMMA Options ==
  ASSUME Typed
  PROVE  /\ transfer.window \in Nat /\ transfer.window >= 4
         /\ Width \in {3, 4}
         /\ Total \in Nat /\ Total = Counted
         /\ global \in Nat /\ global <= Total
<1>1. transfer \in Transfers /\ global \in 0..Total
  BY DEF Typed
<1>2. transfer.window \in Nat /\ transfer.window >= 4 /\ Width \in {3, 4}
  <2>1. transfer.width \in {3, 4} /\ transfer.window \in 4..128
    BY <1>1, TransfersAssumption DEF StreamAssumption
  <2> QED
    BY <2>1 DEF Width
<1>3. Total \in Nat /\ Total = Counted
  BY <1>1, KindsCounted DEF Total
<1> QED
  BY <1>1, <1>2, <1>3

LEMMA Taken ==
  ASSUME Typed, NEW g \in Nat
  PROVE  Kind(g) = "none" <=> g >= Total
<1>1. Kinds(transfer) \in Seq(KindNames)
  BY KindsCounted DEF Typed
<1>2. CASE g < Total
  <2>1. g + 1 \in 1..Len(Kinds(transfer))
    BY <1>2, Options DEF Total
  <2>2. Kinds(transfer)[g + 1] \in KindNames
    BY <1>1, <2>1
  <2>3. Kind(g) = Kinds(transfer)[g + 1]
    BY <1>2 DEF Kind, Total
  <2> QED
    BY <1>2, <2>2, <2>3, Options DEF KindNames
<1>3. CASE ~(g < Total)
  <2>1. Kind(g) = "none"
    BY <1>3 DEF Kind, Total
  <2> QED
    BY <1>3, <2>1, Options
<1> QED
  BY <1>2, <1>3

\* What depends on the transfer alone.
LEMMA Same ==
  ASSUME transfer' = transfer
  PROVE  /\ Total' = Total /\ Width' = Width /\ Group' = Group
         /\ \A n : Cut(n)' = Cut(n)
         /\ \A r : Header(r)' = Header(r) /\ PatchOf(r)' = PatchOf(r) /\ GenuineData(r)' = GenuineData(r)
         /\ \A r : Index(r)' = Index(r) /\ Count(r)' = Count(r)
         /\ \A r : Kind(r)' = Kind(r) /\ Short(r)' = Short(r)
         /\ \A r, p : Genuine(r, p)' = Genuine(r, p)
         /\ \A r, p, a : PlaneOf(r, p, a)' = PlaneOf(r, p, a)
BY DEF Total, Width, Group, Cut, Header, PatchOf, GenuineData, Genuine, Index, Count, Window,
       Kind, Short, PlaneOf

LEMMA SameHeld ==
  ASSUME transfer' = transfer, vram' = vram, pending' = pending, patches' = patches
  PROVE  /\ \A s, d, n, a : WholeIn(s, d, n, a)' = WholeIn(s, d, n, a)
         /\ \A s, d : Held(s, d)' = Held(s, d)
<1>1. \A s, d, n, a : WholeIn(s, d, n, a)' = WholeIn(s, d, n, a)
  BY Same DEF WholeIn
<1>2. \A s, d : Held(s, d)' = Held(s, d)
  BY <1>1, Same DEF Held
<1> QED
  BY <1>1, <1>2

InMotion == loop.pc # "start" /\ ~Over

\* The stream's place in the transfer, spelt out.
LEMMA AtStream ==
  ASSUME Typed, InStream, InMotion, stream.count # 0
  PROVE  \E b \in Nat :
           /\ b = stream.window * transfer.window
           /\ global = b + stream.index
           /\ stream.index \in Nat /\ stream.count \in Nat
           /\ stream.index < stream.count
           /\ stream.count = Cut(Total - b)
           /\ stream.count <= transfer.window
           /\ b + stream.count <= Total
           /\ global < Total
           /\ Window(global) = stream.window /\ Index(global) = stream.index
           /\ Count(global) = stream.count
<1>1. /\ stream.window \in Nat
      /\ stream.index \in Nat /\ stream.count \in Nat
  BY Options DEF Typed, StreamType
<1>2. transfer.window \in Nat /\ transfer.window >= 4 /\ Total \in Nat /\ global \in Nat
  BY Options
<1>3. PICK b : b = stream.window * transfer.window
  OBVIOUS
<1>4. b \in Nat
  BY <1>1, <1>2, <1>3
<1>5. global = b + stream.index /\ stream.index < stream.count /\ stream.count = Cut(Total - b)
  BY <1>3 DEF InStream, InMotion
<1>6. /\ stream.count = IF Total - b > transfer.window THEN transfer.window ELSE Total - b
      /\ stream.count <= transfer.window /\ b + stream.count <= Total
  BY <1>1, <1>2, <1>4, <1>5 DEF Cut
<1>7. global < Total
  BY <1>1, <1>2, <1>4, <1>5, <1>6
<1>8. stream.index \in 0..(transfer.window - 1)
  BY <1>1, <1>2, <1>5, <1>6
<1>9. global \div transfer.window = stream.window /\ global % transfer.window = stream.index
  <2>1. PICK q, n, r, a : q = stream.window /\ n = transfer.window /\ r = stream.index /\ a = global
    OBVIOUS
  <2>2. q \in Nat /\ n \in Nat /\ r \in 0..(n - 1) /\ a \in Nat /\ a = q * n + r
    BY <1>1, <1>2, <1>3, <1>5, <1>8, <2>1
  <2>3. a \div n = q /\ a % n = r
    BY <2>2, Quotient
  <2> QED
    BY <2>1, <2>3
<1>10. Window(global) = stream.window /\ Index(global) = stream.index
  BY <1>9 DEF Window, Index
<1>11. Count(global) = stream.count
  BY <1>3, <1>5, <1>10 DEF Count, Total
<1> QED
  BY <1>1, <1>3, <1>4, <1>5, <1>6, <1>7, <1>10, <1>11

\* The record taken is the next of the stream, and commits it.
LEMMA Commit ==
  ASSUME Typed, InStream, InMotion, stream.count # 0,
         transfer' = transfer, total' = total, global' = global + 1, stream' = Committed
  PROVE  /\ stream' \in StreamType /\ StreamType' = StreamType
         /\ global' \in 0..Total
         /\ InStream'
         /\ stream.index + 1 < stream.count => stream' = [stream EXCEPT !.index = stream.index + 1]
<1>1. PICK b \in Nat :
           /\ b = stream.window * transfer.window
           /\ global = b + stream.index
           /\ stream.index \in Nat /\ stream.count \in Nat
           /\ stream.index < stream.count
           /\ stream.count = Cut(Total - b)
           /\ stream.count <= transfer.window
           /\ b + stream.count <= Total
           /\ global < Total
  BY AtStream
<1>2. transfer.window \in Nat /\ transfer.window >= 4 /\ Total \in Nat /\ global \in Nat
  BY Options
<1>3. stream \in StreamType /\ stream.window \in Nat
  BY DEF Typed, StreamType
<1>4. total = Total
  BY DEF InStream, InMotion
<1>5. global' \in 0..Total
  BY <1>1, <1>2
<1>6. StreamType' = StreamType
  BY DEF StreamType
<1>7. Total' = Total /\ \A n : Cut(n)' = Cut(n)
  BY Same
<1>8. CASE stream.index + 1 < stream.count
  <2>1. stream' = [stream EXCEPT !.index = stream.index + 1]
    BY <1>8 DEF Committed
  <2>2. stream'.window = stream.window /\ stream'.index = stream.index + 1 /\ stream'.count = stream.count
    BY <1>3, <2>1 DEF StreamType
  <2>3. stream.index + 1 \in 0..(transfer.window - 1)
    BY <1>1, <1>2, <1>8
  <2>4. stream' \in StreamType
    BY <1>3, <2>1, <2>3 DEF StreamType
  <2>5. global' = b + stream'.index
    BY <1>1, <2>2
  <2>6. total' = Total' /\ stream'.window * transfer'.window = b
    BY <1>1, <1>4, <1>7, <2>2
  <2>7. stream'.count = IF Total' - b > transfer'.window THEN transfer'.window ELSE Total' - b
    BY <1>1, <1>7, <2>2 DEF Cut
  <2>8. InStream'
    BY <1>1, <1>8, <2>2, <2>5, <2>6, <2>7 DEF InStream, Cut
  <2> QED
    BY <1>5, <1>6, <2>1, <2>4, <2>8
<1>9. CASE ~(stream.index + 1 < stream.count)
  <2>1. stream' = [window |-> stream.window + 1, index |-> 0, count |-> Cut(total - global')]
    BY <1>9 DEF Committed
  <2>2. PICK rest : rest = Total - global'
    OBVIOUS
  <2>3. rest \in Nat
    BY <1>2, <1>5, <2>2
  <2>4. stream'.window = stream.window + 1 /\ stream'.index = 0 /\ stream'.count = Cut(rest)
    BY <1>4, <2>1, <2>2
  <2>5. Cut(rest) = IF rest > transfer.window THEN transfer.window ELSE rest
    BY DEF Cut
  <2>6. Cut(rest) \in 0..transfer.window /\ 0 \in 0..(transfer.window - 1) /\ stream.window + 1 \in Nat
    BY <1>2, <1>3, <2>3, <2>5
  <2>7. stream' \in StreamType
    BY <1>4, <2>1, <2>2, <2>6 DEF StreamType
  <2>8. stream.index + 1 = stream.count /\ global' = b + stream.count
    BY <1>1, <1>9
  <2>9. CASE Cut(rest) = 0
    <3>1. global' = Total
      BY <1>2, <1>5, <2>2, <2>3, <2>5, <2>9
    <3> QED
      BY <1>4, <1>5, <1>6, <1>7, <1>9, <2>4, <2>7, <2>9, <3>1 DEF InStream
  <2>10. CASE Cut(rest) # 0
    <3>1. stream.count = transfer.window
      <4>1. stream.count = IF Total - b > transfer.window THEN transfer.window ELSE Total - b
        BY <1>1 DEF Cut
      <4>2. stream.count # Total - b
        BY <1>1, <1>2, <1>5, <2>2, <2>3, <2>5, <2>8, <2>10
      <4> QED
        BY <4>1, <4>2
    <3>2. (stream.window + 1) * transfer.window = stream.window * transfer.window + transfer.window
      BY <1>2, <1>3
    <3>3. stream'.window * transfer'.window = global'
      BY <1>1, <2>4, <2>8, <3>1, <3>2
    <3>4. stream'.count = IF Total' - global' > transfer'.window THEN transfer'.window
                          ELSE Total' - global'
      BY <1>7, <2>2, <2>4, <2>5
    <3>5. global' = global' + stream'.index /\ stream'.index < stream'.count
      BY <1>2, <1>5, <2>4, <2>6, <2>10
    <3>6. InStream'
      BY <1>4, <1>7, <2>4, <2>10, <3>3, <3>4, <3>5 DEF InStream, Cut
    <3> QED
      BY <1>5, <1>6, <1>9, <2>7, <3>6
  <2> QED
    BY <2>9, <2>10
<1> QED
  BY <1>8, <1>9

-----------------------------------------------------------------------------
(* The steps.                                                              *)

USE DEF Slots, All, InGroup, Ready, Playing, Applied, Over, InMotion, Behind, Started

LEMMA Initially == Init => IInv
<1> SUFFICES ASSUME Init PROVE IInv
  OBVIOUS
<1>1. transfer \in Transfers /\ global = 0 /\ total = 0
  BY DEF Init
<1>2. Total \in Nat /\ transfer.window \in Nat /\ transfer.window >= 4 /\ Width \in {3, 4}
  <2>1. Total \in Nat
    BY <1>1, KindsCounted DEF Total
  <2>2. transfer.width \in {3, 4} /\ transfer.window \in 4..128
    BY <1>1, TransfersAssumption DEF StreamAssumption
  <2> QED
    BY <2>1, <2>2 DEF Width
<1>3. stream \in StreamType
  BY <1>2 DEF Init, StreamType
<1>4. screen \in ScreenType
  BY DEF Init, ScreenType
<1>5. loop \in LoopType
  BY DEF Init, LoopType, Pcs
<1>6. loop.pc = "start" /\ loop.active = TRUE /\ loop.first = TRUE /\ loop.result = "done" /\ screen.mode = "text"
      /\ pending = Nothing /\ shown = {}
  BY DEF Init
<1>7. Typed
  BY <1>1, <1>2, <1>3, <1>4, <1>5 DEF Init, Typed, Nothing, Upto
<1>8. InStream /\ Grouped /\ Symbols
  BY <1>6 DEF InStream, Grouped, Symbols, InGroup, Ready, Playing, Applied, Over
<1>9. Screen
  BY <1>6 DEF Screen, Behind, Started, Playing, Over
<1>10. Ordered /\ Reasons
  BY <1>1, <1>6 DEF Ordered, Reasons, Over, Reached, Playing, InGroup, Ready, Upto
<1> QED
  BY <1>7, <1>8, <1>9, <1>10 DEF IInv

LEMMA CountRecordsKeeps ==
  ASSUME IInv, CountRecords
  PROVE  IInv'
<1> USE DEF CountRecords
<1>1. Typed /\ Ordered /\ Screen
  BY DEF IInv
<1>2. transfer' = transfer /\ Total \in Nat /\ Total = Counted /\ Width \in {3, 4}
      /\ transfer.window \in Nat /\ transfer.window >= 4
  BY <1>1, Options
<1>3. Total' = Total /\ Width' = Width /\ StreamType' = StreamType
  BY <1>2, Same DEF StreamType
<1>4. loop \in LoopType /\ loop.pc = "start"
  BY <1>1 DEF Typed
<1>5. ASSUME NEW w, loop' = [loop EXCEPT !.pc = w], w \in {"loop", "failed"}
      PROVE  /\ loop' \in LoopType /\ loop'.pc = w
             /\ loop'.active = loop.active /\ loop'.first = loop.first
  BY <1>4, <1>5 DEF LoopType, Pcs
<1>6. global = 0 /\ shown = Upto(global) /\ screen.mode = "text" /\ pending = Nothing
      /\ 0 \in 0..Total /\ loop.active = TRUE
  BY <1>1, <1>2, <1>4 DEF Ordered, Screen, Reached, LoopType
<1>7. CASE /\ total' = Counted
           /\ stream' = [window |-> 0, index |-> 0, count |-> Cut(Counted)]
           /\ screen' = [mode |-> "blank", slot |-> 0, mask |-> {}]
           /\ loop' = [loop EXCEPT !.pc = "loop"]
           /\ fault' = fault
  <2>1. loop' \in LoopType /\ loop'.pc = "loop" /\ loop'.active = TRUE /\ loop'.first = loop.first
    BY <1>5, <1>6, <1>7
  <2>2. Cut(Total) \in 0..transfer.window /\ 0 \in 0..(transfer.window - 1)
    BY <1>2 DEF Cut
  <2>3. stream' \in StreamType /\ stream'.window = 0 /\ stream'.index = 0 /\ stream'.count = Cut(Total)
    BY <1>2, <1>7, <2>2 DEF StreamType
  <2>4. screen' \in ScreenType /\ screen'.mode = "blank"
    BY <1>7 DEF ScreenType
  <2>5. Typed'
    BY <1>1, <1>2, <1>3, <1>7, <2>1, <2>3, <2>4 DEF Typed
  <2>6. InStream'
    <3>1. stream'.window * transfer'.window = 0
      BY <1>2, <2>3
    <3>2. CASE Cut(Total) = 0
      BY <1>2, <1>3, <1>6, <1>7, <2>1, <2>3, <3>2 DEF InStream, Cut
    <3>3. CASE Cut(Total) # 0
      <4>1. 0 < Cut(Total)
        BY <1>2, <2>2, <3>3
      <4> QED
        BY <1>2, <1>3, <1>6, <1>7, <2>1, <2>3, <3>1, <3>3, <4>1 DEF InStream, Cut
    <3> QED
      BY <3>2, <3>3
  <2>7. Grouped' /\ Symbols'
    BY <2>1 DEF Grouped, Symbols
  <2>8. Screen'
    BY <1>6, <2>1, <2>4 DEF Screen
  <2>9. Ordered' /\ Reasons'
    BY <1>6, <2>1 DEF Ordered, Reasons, Reached, Upto
  <2> QED
    BY <2>5, <2>6, <2>7, <2>8, <2>9 DEF IInv
<1>8. CASE /\ fault' = "read" /\ loop' = [loop EXCEPT !.pc = "failed"]
           /\ UNCHANGED <<total, stream, screen>>
  <2>1. loop' \in LoopType /\ loop'.pc = "failed"
    BY <1>5, <1>8
  <2>2. Typed'
    BY <1>1, <1>2, <1>3, <1>8, <2>1 DEF Typed
  <2>3. InStream' /\ Grouped' /\ Symbols'
    BY <2>1 DEF InStream, Grouped, Symbols
  <2>4. Screen'
    BY <1>6, <1>8, <2>1 DEF Screen
  <2>5. Ordered' /\ Reasons'
    BY <1>3, <1>6, <1>8, <2>1 DEF Ordered, Reasons
  <2> QED
    BY <2>2, <2>3, <2>4, <2>5 DEF IInv
<1> QED
  BY <1>7, <1>8 DEF Goto

\* One plane of a slot is written.
LEMMA Written ==
  ASSUME Typed, transfer' = transfer, NEW g \in Slots, NEW p \in All, NEW v,
         vram' = [vram EXCEPT ![g][p] = v]
  PROVE  /\ vram' = [i \in Slots |-> vram'[i]]
         /\ \A i \in Slots : vram'[i] = [q \in All |-> vram'[i][q]]
         /\ \A i \in Slots, q \in All : vram'[i][q] = IF i = g /\ q = p THEN v ELSE vram[i][q]
         /\ \A d, n, a : \A i \in Slots : i # g => WholeIn(i, d, n, a)' = WholeIn(i, d, n, a)
         /\ \A i \in Slots : i # g => vram'[i] = vram[i]
<1>1. vram = [i \in Slots |-> vram[i]] /\ \A i \in Slots : vram[i] = [q \in All |-> vram[i][q]]
  BY DEF Typed
<1>2. vram' = [i \in Slots |-> IF i = g THEN [vram[g] EXCEPT ![p] = v] ELSE vram[i]]
  BY <1>1
<1>3. vram'[g] = [q \in All |-> IF q = p THEN v ELSE vram[g][q]]
  <2>1. vram'[g] = [vram[g] EXCEPT ![p] = v]
    BY <1>2
  <2>2. vram[g] = [q \in All |-> vram[g][q]]
    BY <1>1
  <2> QED
    BY <2>1, <2>2
<1>4. \A i \in Slots : i # g => vram'[i] = vram[i]
  BY <1>2
<1>5. \A i \in Slots, q \in All : vram'[i][q] = IF i = g /\ q = p THEN v ELSE vram[i][q]
  BY <1>3, <1>4
<1>6. \A i \in Slots : vram'[i] = [q \in All |-> vram'[i][q]]
  <2> SUFFICES ASSUME NEW i \in Slots PROVE vram'[i] = [q \in All |-> vram'[i][q]]
    OBVIOUS
  <2>1. CASE i = g
    BY <1>3, <2>1
  <2>2. CASE i # g
    BY <1>1, <1>4, <2>2
  <2> QED
    BY <2>1, <2>2
<1>7. \A d, n, a : \A i \in Slots : i # g => WholeIn(i, d, n, a)' = WholeIn(i, d, n, a)
  BY <1>4, Same DEF WholeIn
<1>8. vram' = [i \in Slots |-> vram'[i]]
  BY <1>2
<1> QED
  BY <1>4, <1>5, <1>6, <1>7, <1>8

LEMMA BeginGroupKeeps ==
  ASSUME IInv, BeginGroup
  PROVE  IInv'
<1> USE DEF BeginGroup, producer
<1>1. Typed /\ InStream /\ Symbols /\ Screen /\ Ordered
  BY DEF IInv
<1>2. transfer' = transfer /\ Total \in Nat /\ Width \in {3, 4} /\ global \in Nat
  BY <1>1, Options
<1>3. /\ Total' = Total /\ Width' = Width /\ StreamType' = StreamType
      /\ \A r : Header(r)' = Header(r) /\ Index(r)' = Index(r) /\ Count(r)' = Count(r)
  BY <1>2, Same DEF StreamType
<1>4. loop \in LoopType /\ loop.pc = "loop" /\ loop' = [loop EXCEPT !.pc = "prepare"]
      /\ stream.count # 0 /\ Left >= Width
  BY <1>1 DEF Typed, Goto
<1>5. loop' \in LoopType /\ loop'.pc = "prepare" /\ loop'.first = loop.first
      /\ loop'.active = loop.active /\ loop'.nextSlot = loop.nextSlot
  BY <1>4 DEF LoopType, Pcs
<1>6. PICK b \in Nat :
           /\ b = stream.window * transfer.window
           /\ global = b + stream.index
           /\ stream.index \in Nat /\ stream.count \in Nat
           /\ stream.index < stream.count
           /\ b + stream.count <= Total
           /\ Window(global) = stream.window /\ Index(global) = stream.index
           /\ Count(global) = stream.count
  BY <1>1, <1>4, AtStream
<1>7. stream.index + Width <= stream.count /\ ~(Left < Width)
  BY <1>2, <1>4, <1>6 DEF Left
<1>8. loop.active = TRUE
  BY <1>1, <1>4, <1>7 DEF Screen, LoopType
<1>9. /\ group'.slot = loop.nextSlot /\ group'.planes = 0 /\ group'.parity = {} /\ group'.before = <<>>
      /\ group'.header = Header(global) /\ Start' = global
  BY <1>6 DEF Header, Start
<1>10. Typed'
  <2>1. group' = [slot |-> group'.slot, planes |-> group'.planes, parity |-> group'.parity,
              before |-> group'.before, header |-> group'.header]
    OBVIOUS
  <2>2. loop.nextSlot \in Slots
    BY <1>4 DEF LoopType
  <2> QED
    BY <1>1, <1>2, <1>3, <1>5, <1>9, <2>1, <2>2 DEF Typed
<1>11. InStream'
  BY <1>1, <1>2, <1>3, <1>4, <1>5, Same DEF InStream, Cut
<1>12. Grouped'
  <2>1. group'.header.window = stream.window /\ group'.header.index = stream.index
        /\ group'.header.count = stream.count
    OBVIOUS
  <2>2. global + Width <= Total
    BY <1>2, <1>6, <1>7
  <2>3. \A s, d, a : WholeIn(s, d, 0, a)'
    BY <1>2, <1>3, Same DEF WholeIn, Group
  <2>4. {} = global..(global - 1) /\ global = global + 0 /\ stream.index = stream.index + 0
    BY <1>2, <1>6
  <2> QED
    BY <1>2, <1>3, <1>5, <1>6, <1>7, <1>8, <1>9, <2>1, <2>2, <2>3, <2>4 DEF Grouped
<1>13. Symbols'
  BY <1>1, <1>4, <1>5 DEF Symbols
<1>14. Screen'
  <2>1. BehindSlot' = BehindSlot
    BY <1>4, <1>5, <1>9 DEF BehindSlot
  <2>2. \A s, d : Held(s, d)' = Held(s, d)
    BY SameHeld
  <2>3. ~Leaving
    BY <1>4, <1>7 DEF Leaving
  <2> QED
    BY <1>1, <1>3, <1>4, <1>5, <1>8, <2>1, <2>2, <2>3, Same DEF Screen, Upto
<1>15. Ordered' /\ Reasons'
  BY <1>1, <1>4, <1>5, <1>9 DEF Ordered, Reasons, Reached
<1> QED
  BY <1>10, <1>11, <1>12, <1>13, <1>14, <1>15 DEF IInv

LEMMA StorePlaneKeeps ==
  ASSUME IInv, StorePlane
  PROVE  IInv'
<1> USE DEF producer
<1>1. Typed /\ InStream /\ Grouped /\ Symbols /\ Screen /\ Ordered
  BY DEF IInv
<1>2. /\ loop.pc = "prepare" /\ group.planes < Width /\ stream.count # 0
      /\ global' = global + 1 /\ stream' = Committed
      /\ UNCHANGED <<transfer, total, patches, screen, page, pending, loop, fault, shown>>
  BY DEF StorePlane
<1>3. Total \in Nat /\ Width \in {3, 4} /\ global \in Nat
  BY <1>1, Options
<1>4. /\ Total' = Total /\ Width' = Width /\ Group' = Group
      /\ \A r : Header(r)' = Header(r) /\ Index(r)' = Index(r) /\ Count(r)' = Count(r)
      /\ \A r : GenuineData(r)' = GenuineData(r) /\ PatchOf(r)' = PatchOf(r)
      /\ \A r, p : Genuine(r, p)' = Genuine(r, p)
  BY <1>2, Same
<1>5. loop \in LoopType /\ group.slot \in Slots /\ loop.active = TRUE
  BY <1>1, <1>2 DEF Typed, Grouped, LoopType
<1>6. /\ stream' \in StreamType /\ StreamType' = StreamType
      /\ global' \in 0..Total
      /\ InStream'
      /\ stream.index + 1 < stream.count => stream' = [stream EXCEPT !.index = stream.index + 1]
  BY <1>1, <1>2, Commit
<1>7. PICK p, g, start : p = group.planes /\ g = group.slot /\ start = Start
  OBVIOUS
<1>8. p \in All /\ g \in Slots /\ start \in Nat /\ p < Width /\ p \in Nat
  BY <1>1, <1>2, <1>3, <1>7 DEF Grouped, Typed
<1>9. global = start + p /\ group.header = Header(start) /\ start + Width <= Total
  BY <1>1, <1>2, <1>7 DEF Grouped
<1>10. PICK image : image = Genuine(start, p)
  OBVIOUS
<1>11. /\ vram' = [vram EXCEPT ![g][p] = Plain(image)]
       /\ work' = [work EXCEPT !.raster = image, !.codewords = image]
       /\ group' = [group EXCEPT !.planes = p + 1, !.parity = @ \union {global}]
  <2>1. Basis(group.header, group.planes, global) = image
    BY <1>7, <1>9, <1>10 DEF Genuine
  <2>2. \A x, d : Drawn(x, d) = x
    BY <1>1 DEF Drawn, Typed
  <2> QED
    BY <1>7, <2>1, <2>2 DEF StorePlane
<1>12. /\ group' = [slot |-> group'.slot, planes |-> group'.planes, parity |-> group'.parity,
                    before |-> group'.before, header |-> group'.header]
       /\ group'.slot = g /\ group'.planes = p + 1 /\ group'.parity = group.parity \union {global}
       /\ group'.header = group.header /\ group'.before = group.before
       /\ Start' = start
  BY <1>1, <1>7, <1>11 DEF Typed, Start
<1>13. /\ work'.raster = work'.codewords
       /\ work' = [raster |-> work'.raster, codewords |-> work'.codewords]
  BY <1>1, <1>11 DEF Typed
<1>14. /\ vram' = [i \in Slots |-> vram'[i]]
       /\ \A i \in Slots : vram'[i] = [q \in All |-> vram'[i][q]]
       /\ \A i \in Slots, q \in All : vram'[i][q] = IF i = g /\ q = p THEN Plain(image) ELSE vram[i][q]
       /\ \A d, n, a : \A i \in Slots : i # g => WholeIn(i, d, n, a)' = WholeIn(i, d, n, a)
       /\ \A i \in Slots : i # g => vram'[i] = vram[i]
  <2>1. PICK v : v = Plain(image)
    OBVIOUS
  <2>2. vram' = [vram EXCEPT ![g][p] = v]
    BY <1>11, <2>1
  <2> HIDE DEF Slots, All
  <2> QED
    BY <1>1, <1>2, <1>8, <2>1, <2>2, Written
<1>15. Typed'
  <2>1. group.parity \subseteq Upto(Total) /\ global \in Upto(Total)
    BY <1>1, <1>3, <1>8, <1>9 DEF Typed, Upto
  <2>2. group'.parity \subseteq Upto(Total) /\ p + 1 \in 0..Width
    BY <1>3, <1>8, <1>12, <2>1
  <2> QED
    BY <1>1, <1>2, <1>4, <1>6, <1>8, <1>12, <1>13, <1>14, <2>2 DEF Typed, Upto
<1>16. Grouped'
  <2>1. start..(global - 1) \union {global} = start..(global' - 1)
    BY <1>2, <1>3, <1>8, <1>9
  <2>2. group'.parity = start..(global' - 1)
    BY <1>1, <1>2, <1>7, <1>12, <2>1 DEF Grouped
  <2>3. WholeIn(g, start, p + 1, FALSE)'
    <3> SUFFICES ASSUME NEW q \in Group, q < p + 1
                 PROVE  vram'[g][q] = PlaneOf(start, q, FALSE)'
      BY <1>4 DEF WholeIn
    <3>1. q \in All /\ (q < p \/ q = p)
      BY <1>3, <1>8 DEF Group
    <3>2. PlaneOf(start, q, FALSE)' = Plain(Genuine(start, q))
      BY <1>4 DEF PlaneOf, Plain
    <3>3. CASE q = p
      BY <1>8, <1>10, <1>14, <3>1, <3>2, <3>3
    <3>4. CASE q < p
      <4>1. vram[g][q] = PlaneOf(start, q, FALSE)
        BY <1>1, <1>2, <1>7, <3>4 DEF Grouped, WholeIn
      <4>2. vram'[g][q] = vram[g][q]
        BY <1>8, <1>14, <3>1, <3>4
      <4> QED
        BY <3>2, <4>1, <4>2 DEF PlaneOf, Plain
    <3> QED
      BY <3>1, <3>3, <3>4
  <2>4. ASSUME p + 1 < Width
        PROVE  /\ stream'.window = group.header.window
               /\ stream'.index = group.header.index + (p + 1)
               /\ stream'.count = group.header.count
    <3>1. /\ stream.window = group.header.window
          /\ stream.index = group.header.index + p
          /\ stream.count = group.header.count
      BY <1>1, <1>2, <1>7 DEF Grouped
    <3>2. group.header.index = Index(start) /\ group.header.count = Count(start)
      BY <1>9 DEF Header
    <3>3. Index(start) + Width <= Count(start)
      BY <1>1, <1>2, <1>7 DEF Grouped
    <3>4. stream.index \in Nat /\ stream.count \in Nat
      BY <1>1, <1>2, AtStream
    <3>5. Index(start) \in Nat
      <4>1. transfer.window \in Nat /\ transfer.window > 0
        BY <1>1, Options
      <4> QED
        BY <1>8, <4>1 DEF Index
    <3>6. stream.index + 1 < stream.count /\ stream.index + 1 = group.header.index + (p + 1)
      BY <1>3, <1>8, <2>4, <3>1, <3>2, <3>3, <3>4, <3>5
    <3>7. stream' = [stream EXCEPT !.index = stream.index + 1]
      BY <1>6, <3>6
    <3> QED
      BY <1>1, <3>1, <3>6, <3>7 DEF Typed, StreamType
  <2>5. global' = start + (p + 1)
    BY <1>2, <1>8, <1>9
  <2> QED
    BY <1>1, <1>2, <1>4, <1>7, <1>9, <1>12, <2>2, <2>3, <2>4, <2>5 DEF Grouped
<1>17. Symbols'
  BY <1>1, <1>2 DEF Symbols
<1>18. Screen'
  <2>1. screen.mode # "page"
    BY <1>1, <1>5 DEF Screen
  <2>2. BehindSlot = 1 - g /\ BehindSlot' = 1 - g
    BY <1>2, <1>7, <1>12 DEF BehindSlot
  <2>3. \A d : Held(1 - g, d)' = Held(1 - g, d)
    <3>1. PICK o : o = 1 - g
      OBVIOUS
    <3>2. o \in Slots /\ o # g
      BY <1>8, <3>1
    <3>3. \A d, n, a : WholeIn(o, d, n, a)' = WholeIn(o, d, n, a)
      BY <1>14, <3>2
    <3>4. \A d : Held(o, d)' = Held(o, d)
      BY <1>2, <1>4, <3>3 DEF Held
    <3> QED
      BY <3>1, <3>4
  <2> QED
    BY <1>1, <1>2, <1>4, <1>5, <2>1, <2>2, <2>3 DEF Screen, Upto
<1>19. Ordered' /\ Reasons'
  BY <1>1, <1>2, <1>7, <1>12 DEF Ordered, Reasons, Reached
<1> QED
  BY <1>6, <1>15, <1>16, <1>17, <1>18, <1>19 DEF IInv

LEMMA TakeFailsKeeps ==
  ASSUME IInv, TakeFails
  PROVE  IInv'
<1> USE DEF TakeFails, producer, Abort
<1>1. Typed /\ InStream /\ Grouped /\ Symbols /\ Screen /\ Ordered
  BY DEF IInv
<1>2. transfer' = transfer /\ Total \in Nat /\ Width \in {3, 4} /\ global \in Nat
  BY <1>1, Options
<1>3. /\ Total' = Total /\ Width' = Width /\ StreamType' = StreamType
      /\ \A r : GenuineData(r)' = GenuineData(r)
  BY <1>2, Same DEF StreamType
<1>4. loop \in LoopType /\ loop' = [loop EXCEPT !.pc = "closing", !.result = "failed"]
      /\ loop.pc \in {"prepare", "tail"}
  BY <1>1 DEF Typed
<1>5. loop' \in LoopType /\ loop'.pc = "closing" /\ loop'.result = "failed"
      /\ loop'.active = loop.active
  BY <1>4 DEF LoopType, Pcs
<1>6. stream.count # 0
  <2>1. CASE loop.pc = "tail"
    BY <1>1, <2>1 DEF Symbols
  <2>2. CASE loop.pc = "prepare"
    <3>1. global < Total
      <4>1. group.planes < Width /\ global = Start + group.planes /\ Start + Width <= Total
            /\ Start \in Nat /\ group.planes \in 0..Width
        BY <1>1, <2>2 DEF Grouped, Typed
      <4> QED
        BY <1>2, <4>1
    <3> QED
      BY <1>1, <1>2, <1>4, <3>1 DEF InStream
  <2> QED
    BY <1>4, <2>1, <2>2
<1>7. global < Total
  BY <1>1, <1>4, <1>6, AtStream
<1>8. Kind(global) # "none"
  BY <1>1, <1>2, <1>7, Taken
<1>9. fault' = "read"
  BY <1>6, <1>8
<1>10. Typed'
  BY <1>1, <1>2, <1>3, <1>5, <1>9 DEF Typed
<1>11. InStream' /\ Grouped' /\ Symbols'
  BY <1>5 DEF InStream, Grouped, Symbols
<1>12. Screen'
  BY <1>1, <1>3, <1>5 DEF Screen, Upto
<1>13. Ordered'
  <2>1. Reached \in 0..Total
    <3>1. CASE loop.pc = "tail"
      <4>1. Reached = global
        BY <3>1 DEF Reached
      <4> QED
        BY <1>2, <1>7, <4>1
    <3>2. CASE loop.pc = "prepare"
      <4>1. Reached = Start /\ Start \in Nat /\ Start + Width <= Total
        BY <1>1, <3>2 DEF Reached, Grouped
      <4> QED
        BY <1>2, <4>1
    <3> QED
      BY <1>4, <3>1, <3>2
  <2> QED
    BY <1>1, <1>3, <1>4, <1>5, <2>1 DEF Ordered
<1>14. Reasons'
  BY <1>5, <1>9 DEF Reasons
<1> QED
  BY <1>10, <1>11, <1>12, <1>13, <1>14 DEF IInv

LEMMA GroupReadyKeeps ==
  ASSUME IInv, GroupReady
  PROVE  IInv'
<1> USE DEF producer
<1>1. Typed /\ InStream /\ Grouped /\ Symbols /\ Screen /\ Ordered
  BY DEF IInv
<1>2. /\ loop.pc = "prepare" /\ group.planes = Width
      /\ UNCHANGED <<transfer, total, global, stream, group, vram, screen, page, pending, fault, shown>>
  BY DEF GroupReady
<1>3. Total \in Nat /\ Width \in {3, 4} /\ global \in Nat
  BY <1>1, Options
<1>4. /\ Total' = Total /\ Width' = Width /\ Group' = Group /\ StreamType' = StreamType
      /\ \A r : Header(r)' = Header(r) /\ Index(r)' = Index(r) /\ Count(r)' = Count(r)
      /\ \A r : GenuineData(r)' = GenuineData(r) /\ PatchOf(r)' = PatchOf(r)
      /\ \A r, p : Genuine(r, p)' = Genuine(r, p)
      /\ \A s, d, n, a : WholeIn(s, d, n, a)' = WholeIn(s, d, n, a)
  <2>1. StreamType' = StreamType
    BY <1>2 DEF StreamType
  <2>2. \A r, p, a : PlaneOf(r, p, a)' = PlaneOf(r, p, a)
    BY <1>2, Same
  <2>3. \A s, d, n, a : WholeIn(s, d, n, a)' = WholeIn(s, d, n, a)
    BY <1>2, <2>2, Same DEF WholeIn
  <2> QED
    BY <1>2, <2>1, <2>3, Same
<1>5. PICK g, start : g = group.slot /\ start = Start
  OBVIOUS
<1>6. /\ g \in Slots /\ start \in Nat /\ global = start + Width /\ group.header = Header(start)
      /\ group.parity = start..(global - 1) /\ loop.nextSlot = g /\ loop.active = TRUE
      /\ start + Width <= Total /\ Start' = start /\ group'.slot = g
  BY <1>1, <1>2, <1>5 DEF Grouped, Typed, Start, LoopType
<1>7. /\ loop' = [loop EXCEPT !.pc = IF loop.first THEN "focus" ELSE "play",
                              !.symbol = IF loop.first THEN 1 ELSE 0, !.nextSlot = 1 - g]
  BY <1>6 DEF GroupReady, FirstSymbol, OtherSlot
<1>8. loop \in LoopType /\ 1 - g \in Slots
  BY <1>1, <1>6 DEF Typed
<1>9. /\ loop' \in LoopType /\ loop'.active = TRUE /\ loop'.first = loop.first /\ loop'.nextSlot = 1 - g
      /\ loop.first => loop'.pc = "focus" /\ loop'.symbol = 1
      /\ ~loop.first => loop'.pc = "play" /\ loop'.symbol = 0
      /\ loop'.pc \in {"focus", "play"}
  <2>1. PICK o : o = 1 - g
    OBVIOUS
  <2>2. o \in Slots /\ loop.active = TRUE
    BY <1>6, <1>8, <2>1
  <2>3. CASE loop.first
    <3>1. loop' = [loop EXCEPT !.pc = "focus", !.symbol = 1, !.nextSlot = o]
      BY <1>7, <2>1, <2>3
    <3>2. /\ loop' \in LoopType /\ loop'.active = TRUE /\ loop'.first = loop.first
          /\ loop'.nextSlot = o /\ loop'.pc = "focus" /\ loop'.symbol = 1
      <4>1. loop \in LoopType
        BY <1>8
      <4>2. "focus" \in Pcs /\ 1 \in 0..5
        BY DEF Pcs
      <4>3. loop' \in LoopType
        BY <2>2, <3>1, <4>1, <4>2 DEF LoopType
      <4>4. loop'.nextSlot = o /\ loop'.pc = "focus" /\ loop'.symbol = 1 /\ loop'.first = loop.first
        BY <3>1, <4>1 DEF LoopType
      <4>5. loop'.active = loop.active
        BY <3>1, <4>1 DEF LoopType
      <4> QED
        BY <2>2, <4>3, <4>4, <4>5
    <3> QED
      BY <2>1, <2>3, <3>2
  <2>4. CASE ~loop.first
    <3>1. loop' = [loop EXCEPT !.pc = "play", !.symbol = 0, !.nextSlot = o]
      BY <1>7, <2>1, <2>4
    <3>2. /\ loop' \in LoopType /\ loop'.active = TRUE /\ loop'.first = loop.first
          /\ loop'.nextSlot = o /\ loop'.pc = "play" /\ loop'.symbol = 0
      <4>1. loop \in LoopType
        BY <1>8
      <4>2. "play" \in Pcs /\ 0 \in 0..5
        BY DEF Pcs
      <4>3. loop' \in LoopType
        BY <2>2, <3>1, <4>1, <4>2 DEF LoopType
      <4>4. loop'.nextSlot = o /\ loop'.pc = "play" /\ loop'.symbol = 0 /\ loop'.first = loop.first
        BY <3>1, <4>1 DEF LoopType
      <4>5. loop'.active = loop.active
        BY <3>1, <4>1 DEF LoopType
      <4> QED
        BY <2>2, <4>3, <4>4, <4>5
    <3> QED
      BY <2>1, <2>4, <3>2
  <2> QED
    BY <2>3, <2>4
<1>10. /\ patches' = [i \in Slots |-> patches'[i]]
       /\ Width = 4 => patches'[g] = PatchOf(start)
       /\ patches'[1 - g] = patches[1 - g]
       /\ work'.raster = work'.codewords
       /\ work' = [raster |-> work'.raster, codewords |-> work'.codewords]
  <2>1. CASE Width = 4
    <3>1. <<group.header, group.parity>> = PatchOf(start)
      <4>1. start..(global - 1) = start..(start + 3)
        BY <1>3, <1>6, <2>1
      <4> QED
        BY <1>6, <4>1 DEF PatchOf
    <3>2. PICK patch : patch = PatchOf(start)
      OBVIOUS
    <3>3. patches' = [patches EXCEPT ![g] = patch]
      BY <1>5, <2>1, <3>1, <3>2 DEF GroupReady, Buffer
    <3>4. work' = [raster |-> Correction(patch), codewords |-> Correction(patch)]
      BY <1>5, <2>1, <3>1, <3>2 DEF GroupReady
    <3>5. patches = [i \in Slots |-> patches[i]]
      BY <1>1 DEF Typed
    <3>6. PICK o : o = 1 - g
      OBVIOUS
    <3>7. o \in Slots /\ o # g
      BY <1>6, <3>6
    <3>8. patches'[g] = patch /\ patches'[o] = patches[o] /\ patches' = [i \in Slots |-> patches'[i]]
      BY <1>6, <3>3, <3>5, <3>7
    <3> QED
      BY <3>2, <3>4, <3>6, <3>8
  <2>2. CASE Width # 4
    BY <1>1, <2>2 DEF GroupReady, Typed
  <2> QED
    BY <2>1, <2>2
<1>11. Typed'
  BY <1>1, <1>2, <1>4, <1>9, <1>10 DEF Typed
<1>12. InStream'
  BY <1>1, <1>2, <1>4, <1>9, Same DEF InStream, Cut
<1>13. Grouped'
  BY <1>1, <1>2, <1>3, <1>4, <1>5, <1>6, <1>9, <1>10 DEF Grouped
<1>14. Symbols'
  BY <1>1, <1>2, <1>3, <1>4, <1>9 DEF Symbols
<1>15. Screen'
  <2>1. screen.mode # "page"
    BY <1>1, <1>6 DEF Screen
  <2>2. CASE loop.first
    <3>1. screen.mode # "plane" /\ pending = Nothing
      BY <1>1, <1>2, <2>2 DEF Screen
    <3>2. loop'.pc = "focus" /\ loop'.active = TRUE /\ screen' = screen /\ pending' = pending
          /\ screen.mode # "mixed"
      BY <1>1, <1>2, <1>6, <1>9, <2>2 DEF Screen
    <3> QED
      BY <2>1, <3>1, <3>2 DEF Screen
  <2>3. CASE ~loop.first
    <3>1. BehindSlot = 1 - g /\ BehindSlot' = 1 - g
      BY <1>2, <1>5, <1>6, <1>9, <2>3 DEF BehindSlot
    <3>2. \A d : Held(1 - g, d)' = Held(1 - g, d)
      <4>1. PICK o : o = 1 - g
        OBVIOUS
      <4>2. patches'[o] = patches[o]
        BY <1>10, <4>1
      <4>3. \A d : Held(o, d)' = Held(o, d)
        BY <1>2, <1>4, <4>2 DEF Held
      <4> QED
        BY <4>1, <4>3
    <3> QED
      BY <1>1, <1>2, <1>4, <1>6, <1>9, <2>1, <2>3, <3>1, <3>2 DEF Screen, Upto
  <2> QED
    BY <2>2, <2>3
<1>16. Ordered' /\ Reasons'
  <2>1. Reached = start /\ Reached' = start
    BY <1>2, <1>3, <1>4, <1>5, <1>6, <1>9 DEF Reached
  <2> QED
    BY <1>1, <1>2, <1>9, <2>1 DEF Ordered, Reasons
<1> QED
  BY <1>11, <1>12, <1>13, <1>14, <1>15, <1>16 DEF IInv

\* What a step leaves alone when it neither takes a record nor draws.
LEMMA Unchanged ==
  ASSUME Typed, UNCHANGED <<producer, vram>>
  PROVE  /\ Total' = Total /\ Width' = Width /\ Group' = Group /\ StreamType' = StreamType
         /\ \A r : Header(r)' = Header(r) /\ Index(r)' = Index(r) /\ Count(r)' = Count(r)
         /\ \A r : GenuineData(r)' = GenuineData(r) /\ PatchOf(r)' = PatchOf(r)
         /\ \A r, p : Genuine(r, p)' = Genuine(r, p)
         /\ \A s, d, n, a : WholeIn(s, d, n, a)' = WholeIn(s, d, n, a)
<1>1. transfer' = transfer
  BY DEF producer
<1>2. StreamType' = StreamType
  BY <1>1 DEF StreamType
<1>3. \A r, p, a : PlaneOf(r, p, a)' = PlaneOf(r, p, a)
  BY <1>1, Same
<1>4. \A s, d, n, a : WholeIn(s, d, n, a)' = WholeIn(s, d, n, a)
  BY <1>1, <1>3, Same DEF WholeIn
<1> QED
  BY <1>1, <1>2, <1>4, Same

\* A plane alone shows its record, all of them none.
LEMMA Selected ==
  ASSUME Typed, Grouped, Ready, NEW s \in 0..Width, Select(s),
         s < Width => WholeIn(group.slot, Start, Width, FALSE)
  PROVE  /\ screen' \in ScreenType
         /\ screen'.mode = "plane" /\ screen'.slot = group.slot
         /\ screen'.mask = IF s < Width THEN {s} ELSE Group
         /\ shown' = IF s < Width THEN shown \union {Start + s} ELSE shown
<1>1. Width \in {3, 4} /\ s \in Nat /\ group.slot \in Slots /\ Group \subseteq All
  BY Options DEF Typed, Group
<1>2. CASE s < Width
  <2>1. s # Width /\ s \in Group
    BY <1>1, <1>2 DEF Group
  <2>2. screen' = [mode |-> "plane", slot |-> group.slot, mask |-> {s}]
    BY <2>1 DEF Select
  <2>3. shown' = shown \union
          {Start + p : p \in {q \in {s} : s < Width /\
                                vram[group.slot][q] = Plain(Genuine(Start, q))}}
    BY <2>1 DEF Select, Start
  <2>4. vram[group.slot][s] = Plain(Genuine(Start, s))
    BY <1>2, <2>1 DEF WholeIn, PlaneOf, Plain
  <2>5. {q \in {s} : s < Width /\ vram[group.slot][q] = Plain(Genuine(Start, q))} = {s}
    BY <1>2, <2>4
  <2>6. shown' = shown \union {Start + s}
    BY <2>3, <2>5
  <2>7. {s} \subseteq All
    BY <1>1, <2>1
  <2> QED
    BY <1>1, <1>2, <2>2, <2>6, <2>7 DEF ScreenType
<1>3. CASE ~(s < Width)
  <2>1. s = Width
    BY <1>1, <1>3
  <2>2. screen' = [mode |-> "plane", slot |-> group.slot, mask |-> Group]
    BY <2>1 DEF Select
  <2>3. {q \in Group : s < Width /\ vram[group.slot][q] = Plain(Genuine(group.header.start, q))} = {}
    BY <1>3
  <2>4. shown' = shown
    BY <2>1, <2>3 DEF Select
  <2> QED
    BY <1>1, <1>3, <2>2, <2>4 DEF ScreenType
<1> QED
  BY <1>2, <1>3

\* A record more on the screen.
LEMMA Extended ==
  ASSUME NEW k \in Nat
  PROVE  Upto(k) \union {k} = Upto(k + 1)
BY DEF Upto

LEMMA FocusKeeps ==
  ASSUME IInv, Focus
  PROVE  IInv'
<1>1. Typed /\ InStream /\ Grouped /\ Symbols /\ Screen /\ Ordered
  BY DEF IInv
<1>2. /\ loop.pc = "focus" /\ Select(0)
      /\ UNCHANGED <<producer, group, work, vram, patches, page, pending>>
      /\ \/ /\ loop' = [loop EXCEPT !.pc = "play", !.first = FALSE]
            /\ fault' = fault
         \/ loop' = [loop EXCEPT !.pc = "closing", !.result = "failed"] /\ fault' = "escape"
  BY DEF Focus, Abort
<1>3. Total \in Nat /\ Width \in {3, 4} /\ global \in Nat
  BY <1>1, Options
<1>4. /\ Total' = Total /\ Width' = Width /\ Group' = Group /\ StreamType' = StreamType
      /\ \A r : Header(r)' = Header(r) /\ Index(r)' = Index(r) /\ Count(r)' = Count(r)
      /\ \A r : GenuineData(r)' = GenuineData(r) /\ PatchOf(r)' = PatchOf(r)
      /\ \A r, p : Genuine(r, p)' = Genuine(r, p)
      /\ \A s, d, n, a : WholeIn(s, d, n, a)' = WholeIn(s, d, n, a)
  BY <1>1, <1>2, Unchanged
<1>5. PICK start : start = Start
  OBVIOUS
<1>6. /\ loop \in LoopType /\ loop.symbol = 1 /\ loop.first = TRUE /\ loop.active = TRUE
      /\ start \in Nat /\ start + Width <= Total /\ group.planes = Width /\ Start' = start
      /\ WholeIn(group.slot, Start, Width, FALSE) /\ group.slot \in Slots
      /\ screen.mode # "plane" /\ pending = Nothing
  BY <1>1, <1>2, <1>5 DEF Typed, Symbols, Grouped, Start, Screen, LoopType
<1>7. /\ screen' \in ScreenType
      /\ screen'.mode = "plane" /\ screen'.slot = group.slot
      /\ screen'.mask = {0}
      /\ shown' = shown \union {start + 0}
  <2>1. 0 \in 0..Width /\ 0 < Width
    BY <1>3
  <2> QED
    BY <1>1, <1>2, <1>5, <1>6, <2>1, Selected
<1>8. shown' = Upto(start + 1) /\ start + 1 \in 0..Total /\ Upto(start + 1) \subseteq Upto(Total)
  <2>1. shown = Upto(start)
    BY <1>1, <1>2, <1>5 DEF Ordered, Reached
  <2>2. start + 0 = start /\ start + 1 \in 0..Total
    BY <1>3, <1>6
  <2> QED
    BY <1>3, <1>6, <1>7, <2>1, <2>2, Extended DEF Upto
<1>9. CASE loop' = [loop EXCEPT !.pc = "play", !.first = FALSE] /\ fault' = fault
  <2>1. /\ loop' \in LoopType /\ loop'.pc = "play" /\ loop'.first = FALSE /\ loop'.active = TRUE
        /\ loop'.symbol = 1 /\ loop'.nextSlot = loop.nextSlot
    BY <1>6, <1>9 DEF LoopType, Pcs
  <2>2. Typed'
    BY <1>1, <1>2, <1>4, <1>7, <1>9, <2>1 DEF Typed, producer
  <2>3. InStream'
    BY <1>1, <1>2, <1>4, <2>1, Same DEF InStream, Cut, producer
  <2>4. Grouped'
    BY <1>1, <1>2, <1>4, <1>5, <1>6, <2>1 DEF Grouped, producer
  <2>5. Symbols'
    BY <1>3, <1>4, <2>1 DEF Symbols
  <2>6. Screen'
    <3>1. {0} = {1 - 1}
      OBVIOUS
    <3> QED
      BY <1>2, <1>6, <1>7, <2>1, <3>1 DEF Screen
  <2>7. Ordered' /\ Reasons'
    BY <1>3, <1>4, <1>6, <1>8, <2>1 DEF Ordered, Reasons, Reached
  <2> QED
    BY <2>2, <2>3, <2>4, <2>5, <2>6, <2>7 DEF IInv
<1>10. CASE loop' = [loop EXCEPT !.pc = "closing", !.result = "failed"] /\ fault' = "escape"
  <2>1. /\ loop' \in LoopType /\ loop'.pc = "closing" /\ loop'.result = "failed" /\ loop'.active = TRUE
    BY <1>6, <1>10 DEF LoopType, Pcs
  <2>2. Typed'
    BY <1>1, <1>2, <1>4, <1>7, <1>10, <2>1 DEF Typed, producer
  <2>3. InStream' /\ Grouped' /\ Symbols'
    BY <2>1 DEF InStream, Grouped, Symbols
  <2>4. Screen'
    BY <1>7, <2>1 DEF Screen
  <2>5. Ordered' /\ Reasons'
    BY <1>4, <1>8, <1>10, <2>1 DEF Ordered, Reasons
  <2> QED
    BY <2>2, <2>3, <2>4, <2>5 DEF IInv
<1> QED
  BY <1>2, <1>9, <1>10

LEMMA ApplyCorrectionKeeps ==
  ASSUME IInv, ApplyCorrection
  PROVE  IInv'
<1>1. Typed /\ InStream /\ Grouped /\ Symbols /\ Screen /\ Ordered
  BY DEF IInv
<1>2. /\ loop.pc = "play" /\ loop.symbol = 4 /\ loop' = [loop EXCEPT !.pc = "patched"]
      /\ UNCHANGED <<transfer, total, global, stream, work, patches, screen, page, pending, fault, shown>>
  BY DEF ApplyCorrection, Goto, producer
<1>3. Total \in Nat /\ Width = 4 /\ global \in Nat
  BY <1>1, <1>2, Options DEF Symbols
<1>4. /\ Total' = Total /\ Width' = Width /\ Group' = Group /\ StreamType' = StreamType
      /\ \A r : Header(r)' = Header(r) /\ Index(r)' = Index(r) /\ Count(r)' = Count(r)
      /\ \A r : GenuineData(r)' = GenuineData(r) /\ PatchOf(r)' = PatchOf(r)
      /\ \A r, p : Genuine(r, p)' = Genuine(r, p)
      /\ \A r, p, a : PlaneOf(r, p, a)' = PlaneOf(r, p, a)
  BY <1>2, Same DEF StreamType
<1>5. PICK g, start : g = group.slot /\ start = Start
  OBVIOUS
<1>6. /\ loop \in LoopType /\ loop.active = TRUE
      /\ start \in Nat /\ start + Width <= Total /\ group.planes = Width
      /\ WholeIn(g, start, Width, FALSE) /\ g \in Slots
      /\ patches[g] = PatchOf(start)
  BY <1>1, <1>2, <1>3, <1>5 DEF Typed, Grouped, LoopType
<1>7. vram[g][3] = Plain(Genuine(start, 3)) /\ 3 \in Group /\ 3 \in All
  BY <1>3, <1>6 DEF WholeIn, PlaneOf, Plain, Group
<1>8. Patched(Plain(Genuine(start, 3)), PatchOf(start)) = PlaneOf(start, 3, TRUE)
  BY DEF Patched, Plain, PlaneOf
<1>9. PICK v : v = PlaneOf(start, 3, TRUE)
  OBVIOUS
<1>10. vram' = [vram EXCEPT ![g][3] = v]
  <2>1. vram' = [vram EXCEPT ![g][3] = Patched(@, PatchOf(start))]
    BY <1>5, <1>6 DEF ApplyCorrection, Buffer
  <2>2. vram' = [vram EXCEPT ![g][3] = Patched(vram[g][3], PatchOf(start))]
    BY <2>1
  <2> QED
    BY <1>7, <1>8, <1>9, <2>2
<1>11. /\ vram' = [i \in Slots |-> vram'[i]]
       /\ \A i \in Slots : vram'[i] = [q \in All |-> vram'[i][q]]
       /\ \A i \in Slots, q \in All : vram'[i][q] = IF i = g /\ q = 3 THEN v ELSE vram[i][q]
  <2> HIDE DEF Slots, All
  <2> QED
    BY <1>1, <1>2, <1>6, <1>7, <1>10, Written
<1>12. group' = [group EXCEPT !.before = Plain(Genuine(start, 3))]
  BY <1>5, <1>7 DEF ApplyCorrection
<1>13. /\ group' = [slot |-> group'.slot, planes |-> group'.planes, parity |-> group'.parity,
                    before |-> group'.before, header |-> group'.header]
       /\ group'.slot = g /\ group'.planes = group.planes /\ group'.parity = group.parity
       /\ group'.header = group.header /\ group'.before = Plain(Genuine(start, 3))
       /\ Start' = start
  BY <1>1, <1>5, <1>12 DEF Typed, Start
<1>14. loop' \in LoopType /\ loop'.pc = "patched" /\ loop'.symbol = 4 /\ loop'.active = TRUE
       /\ loop'.first = loop.first /\ loop'.nextSlot = loop.nextSlot
  BY <1>2, <1>6 DEF LoopType, Pcs
<1>15. Typed'
  <2>1. group'.slot \in Slots /\ group'.planes \in 0..Width /\ group'.parity \subseteq Upto(Total)
    BY <1>1, <1>6, <1>13 DEF Typed
  <2> QED
    BY <1>1, <1>2, <1>4, <1>11, <1>13, <1>14, <2>1 DEF Typed
<1>16. InStream'
  BY <1>1, <1>2, <1>4, <1>14, Same DEF InStream, Cut
<1>17. WholeIn(g, start, Width, TRUE)'
  <2> SUFFICES ASSUME NEW p \in Group, p < Width
               PROVE  vram'[g][p] = PlaneOf(start, p, TRUE)
    BY <1>4 DEF WholeIn
  <2>1. p \in All
    BY <1>3 DEF Group
  <2>2. CASE p = 3
    BY <1>6, <1>9, <1>11, <2>1, <2>2
  <2>3. CASE p # 3
    <3>1. vram'[g][p] = vram[g][p]
      BY <1>6, <1>11, <2>1, <2>3
    <3>2. vram[g][p] = PlaneOf(start, p, FALSE)
      BY <1>6 DEF WholeIn
    <3> QED
      BY <2>3, <3>1, <3>2 DEF PlaneOf
  <2> QED
    BY <2>2, <2>3
<1>18. Grouped'
  BY <1>1, <1>2, <1>3, <1>4, <1>5, <1>6, <1>13, <1>14, <1>17 DEF Grouped, Plain
<1>19. Symbols'
  BY <1>1, <1>2, <1>3, <1>4, <1>14 DEF Symbols
<1>20. Screen'
  BY <1>1, <1>2, <1>5, <1>6, <1>13, <1>14 DEF Screen
<1>21. Ordered' /\ Reasons'
  BY <1>1, <1>2, <1>3, <1>4, <1>5, <1>13, <1>14 DEF Ordered, Reasons, Reached
<1> QED
  BY <1>15, <1>16, <1>18, <1>19, <1>20, <1>21 DEF IInv

LEMMA ShowSymbolKeeps ==
  ASSUME IInv, ShowSymbol
  PROVE  IInv'
<1>1. Typed /\ InStream /\ Grouped /\ Symbols /\ Screen /\ Ordered
  BY DEF IInv
<1>2. /\ (loop.pc = "play" /\ loop.symbol < 4) \/ loop.pc = "patched"
      /\ Select(loop.symbol)
      /\ loop' = [loop EXCEPT !.symbol = loop.symbol + 1,
                    !.pc = IF loop.symbol = 0 /\ pending # Nothing THEN "restore"
                           ELSE IF loop.symbol = Width THEN "played" ELSE "play"]
      /\ UNCHANGED <<producer, group, work, vram, patches, page, pending, fault>>
  BY DEF ShowSymbol
<1>3. Total \in Nat /\ Width \in {3, 4} /\ global \in Nat
  BY <1>1, Options
<1>4. /\ Total' = Total /\ Width' = Width /\ Group' = Group /\ StreamType' = StreamType
      /\ \A r : Header(r)' = Header(r) /\ Index(r)' = Index(r) /\ Count(r)' = Count(r)
      /\ \A r : GenuineData(r)' = GenuineData(r) /\ PatchOf(r)' = PatchOf(r)
      /\ \A r, p : Genuine(r, p)' = Genuine(r, p)
      /\ \A s, d, n, a : WholeIn(s, d, n, a)' = WholeIn(s, d, n, a)
  BY <1>1, <1>2, Unchanged
<1>5. PICK s, g, start : s = loop.symbol /\ g = group.slot /\ start = Start
  OBVIOUS
<1>6. /\ loop \in LoopType /\ loop.active = TRUE /\ loop.first = FALSE
      /\ start \in Nat /\ start + Width <= Total /\ group.planes = Width /\ Start' = start
      /\ g \in Slots /\ s \in 0..5 /\ s \in 0..Width /\ loop.nextSlot = 1 - g
  <2>1. /\ loop \in LoopType /\ loop.active = TRUE /\ loop.first = FALSE
        /\ loop.symbol \in 0..5 /\ group.slot \in Slots
    BY <1>1, <1>2 DEF Typed, Symbols, Grouped, LoopType
  <2>2. /\ Start \in Nat /\ Start + Width <= Total /\ group.planes = Width /\ Start' = Start
        /\ loop.nextSlot = 1 - group.slot
    BY <1>1, <1>2 DEF Grouped, Start
  <2>3. loop.symbol <= Width
    <3>1. CASE loop.pc = "play"
      BY <1>1, <3>1 DEF Symbols
    <3>2. CASE loop.pc = "patched"
      <4>1. loop.symbol = 4 /\ Width = 4
        BY <1>1, <3>2 DEF Symbols
      <4> QED
        BY <4>1
    <3> QED
      BY <1>2, <3>1, <3>2
  <2>4. loop.symbol \in 0..Width
    BY <1>3, <2>1, <2>3
  <2> QED
    BY <1>5, <2>1, <2>2, <2>4
<1>7. s < Width => loop.pc = "play" /\ WholeIn(g, start, Width, FALSE) /\ group.before = <<>>
  <2> SUFFICES ASSUME s < Width
               PROVE  loop.pc = "play" /\ WholeIn(g, start, Width, FALSE) /\ group.before = <<>>
    OBVIOUS
  <2>1. loop.pc # "patched"
    BY <1>1, <1>3, <1>5 DEF Symbols
  <2>2. loop.pc = "play"
    BY <1>2, <2>1
  <2> QED
    BY <1>1, <1>5, <1>6, <2>2 DEF Grouped
<1>8. /\ screen' \in ScreenType
      /\ screen'.mode = "plane" /\ screen'.slot = g
      /\ screen'.mask = IF s < Width THEN {s} ELSE Group
      /\ shown' = IF s < Width THEN shown \union {start + s} ELSE shown
  BY <1>1, <1>2, <1>5, <1>6, <1>7, Selected
<1>9. shown = Upto(start + (IF s < Width THEN s ELSE Width))
  BY <1>1, <1>2, <1>5 DEF Ordered, Reached
<1>10. PICK w : w = IF s = 0 /\ pending # Nothing THEN "restore"
                    ELSE IF s = Width THEN "played" ELSE "play"
  OBVIOUS
<1>11. s + 1 \in 0..5
  BY <1>3, <1>6
<1>12. /\ loop' \in LoopType /\ loop'.pc = w /\ loop'.symbol = s + 1 /\ loop'.first = FALSE
       /\ loop'.active = TRUE /\ loop'.nextSlot = loop.nextSlot
  <2>1. loop' = [loop EXCEPT !.symbol = s + 1, !.pc = w]
    BY <1>2, <1>5, <1>10
  <2>2. w \in Pcs
    BY <1>10 DEF Pcs
  <2>3. PICK n : n = s + 1
    OBVIOUS
  <2>4. loop' \in LoopType /\ loop'.pc = w /\ loop'.symbol = n
    BY <1>6, <1>11, <2>1, <2>2, <2>3 DEF LoopType
  <2>5. loop'.first = loop.first /\ loop'.active = loop.active /\ loop'.nextSlot = loop.nextSlot
    BY <1>6, <2>1 DEF LoopType
  <2> QED
    BY <1>6, <2>3, <2>4, <2>5
<1>13. w \in {"restore", "play", "played"} /\ (w = "played" <=> s = Width)
       /\ (w = "restore" <=> s = 0 /\ pending # Nothing)
  BY <1>3, <1>10
<1>14. InStream'
  BY <1>1, <1>2, <1>4, <1>12, <1>13, Same DEF InStream, Cut, producer
<1>15. Grouped'
  <2>1. CASE s < Width
    <3>1. w # "played" /\ group.before = <<>>
      BY <1>3, <1>6, <1>7, <1>13, <2>1
    <3> QED
      BY <1>1, <1>2, <1>4, <1>5, <1>6, <1>7, <1>12, <1>13, <2>1, <3>1 DEF Grouped, producer
  <2>2. CASE ~(s < Width)
    <3>1. s = Width /\ w = "played"
      BY <1>3, <1>6, <1>13, <2>2
    <3>2. WholeIn(g, start, Width, TRUE)
      <4>1. CASE loop.pc = "patched"
        BY <1>1, <1>5, <1>6, <4>1 DEF Grouped
      <4>2. CASE loop.pc = "play"
        <5>1. loop.symbol < 4
          BY <1>2, <4>2
        <5>2. Width = 3 /\ WholeIn(g, start, Width, FALSE)
          <6>1. Width = 3
            BY <1>3, <1>5, <3>1, <5>1
          <6> QED
            BY <1>1, <1>5, <1>6, <4>2, <6>1 DEF Grouped
        <5>3. \A p \in Group : p # 3
          BY <5>2 DEF Group
        <5> QED
          BY <5>2, <5>3 DEF WholeIn, PlaneOf
      <4> QED
        BY <1>2, <4>1, <4>2
    <3>3. group.before = IF Width = 4 THEN Plain(Genuine(Start, 3)) ELSE <<>>
      <4>1. CASE loop.pc = "patched"
        BY <1>1, <4>1 DEF Grouped
      <4>2. CASE loop.pc = "play"
        <5>1. loop.symbol < 4
          BY <1>2, <4>2
        <5>2. Width = 3 /\ group.before = <<>>
          <6>1. Width = 3
            BY <1>3, <1>5, <3>1, <5>1
          <6> QED
            BY <1>1, <4>2, <6>1 DEF Grouped
        <5> QED
          BY <5>2
      <4> QED
        BY <1>2, <4>1, <4>2
    <3> QED
      BY <1>1, <1>2, <1>4, <1>5, <1>6, <1>12, <3>1, <3>2, <3>3 DEF Grouped, producer, Plain
  <2> QED
    BY <2>1, <2>2
<1>16. Symbols'
  <2>1. s + 1 <= Width \/ s = Width
    BY <1>3, <1>6
  <2>2. w = "restore" => s + 1 = 1
    BY <1>13
  <2> QED
    BY <1>3, <1>4, <1>6, <1>12, <1>13, <2>1, <2>2 DEF Symbols
<1>17. Typed'
  BY <1>1, <1>2, <1>4, <1>8, <1>12 DEF Typed, producer
<1>18. Screen'
  <2>1. (s + 1) - 1 = s /\ s + 1 # 0
    BY <1>6
  <2>2. screen'.mask = IF w = "played" THEN Group' ELSE {loop'.symbol - 1}
    <3>1. w = "played" <=> ~(s < Width)
      BY <1>3, <1>6, <1>13
    <3> QED
      BY <1>4, <1>8, <1>12, <2>1, <3>1
  <2>3. IF w = "restore"
        THEN pending # Nothing /\ \E d \in Upto(Total) : Held(1 - g, d)
        ELSE pending = Nothing
    <3>1. CASE s = 0
      <4>1. Behind /\ loop.pc = "play"
        <5>1. 0 < Width
          BY <1>3
        <5>2. loop.pc = "play" /\ loop.symbol = 0
          BY <1>5, <1>7, <3>1, <5>1
        <5> QED
          BY <5>2
      <4>2. CASE pending = Nothing
        BY <1>13, <4>2
      <4>3. CASE pending # Nothing
        <5>1. screen.mode = "plane"
          BY <1>1, <4>1, <4>3 DEF Screen
        <5>2. BehindSlot = 1 - g
          BY <1>5, <4>1 DEF BehindSlot
        <5> QED
          BY <1>1, <1>13, <3>1, <4>1, <4>3, <5>1, <5>2 DEF Screen
      <4> QED
        BY <4>2, <4>3
    <3>2. CASE s # 0
      <4>1. Started /\ loop.pc # "restore"
        BY <1>2, <1>5, <3>2
      <4> QED
        BY <1>1, <1>13, <3>2, <4>1 DEF Screen
    <3> QED
      BY <3>1, <3>2
  <2>4. \A o, d : Held(o, d)' = Held(o, d)
    BY <1>2, SameHeld DEF producer
  <2>5. ~Behind' /\ Started'
    BY <1>12, <1>13, <2>1
  <2>6. group'.slot = g /\ pending' = pending /\ ~Over' /\ loop'.pc \in {"restore", "play", "played"}
    BY <1>2, <1>5, <1>12, <1>13
  <2> QED
    BY <1>4, <1>8, <1>12, <2>2, <2>3, <2>4, <2>5, <2>6 DEF Screen
<1>19. Ordered' /\ Reasons'
  <2>1. Reached' = start + (IF s + 1 < Width THEN s + 1 ELSE Width)
    BY <1>4, <1>6, <1>12, <1>13 DEF Reached
  <2>2. shown' = Upto(Reached')
    <3>1. CASE s < Width
      <4>1. shown' = Upto(start + s) \union {start + s}
        BY <1>8, <1>9, <3>1
      <4>2. start + s \in Nat /\ Reached' = (start + s) + 1
        BY <1>3, <1>6, <2>1, <3>1
      <4> QED
        BY <4>1, <4>2, Extended
    <3>2. CASE ~(s < Width)
      <4>1. Reached' = start + Width
        BY <1>3, <1>6, <2>1, <3>2
      <4> QED
        BY <1>8, <1>9, <3>2, <4>1
    <3> QED
      BY <3>1, <3>2
  <2>3. Upto(Reached)' = Upto(Reached')
    OBVIOUS
  <2> QED
    BY <1>12, <1>13, <2>2, <2>3 DEF Ordered, Reasons
<1> QED
  BY <1>14, <1>15, <1>16, <1>17, <1>18, <1>19 DEF IInv

LEMMA RestoreHiddenKeeps ==
  ASSUME IInv, RestoreHidden
  PROVE  IInv'
<1>1. Typed /\ InStream /\ Grouped /\ Symbols /\ Screen /\ Ordered
  BY DEF IInv
<1>2. /\ loop.pc = "restore" /\ vram' = Restored
      /\ UNCHANGED <<transfer, total, global, stream, group, work, patches, screen, page, fault, shown>>
  BY DEF RestoreHidden, producer
<1>3. Total \in Nat /\ Width \in {3, 4} /\ global \in Nat
  BY <1>1, Options
<1>4. /\ Total' = Total /\ Width' = Width /\ Group' = Group /\ StreamType' = StreamType
      /\ \A r : Header(r)' = Header(r) /\ Index(r)' = Index(r) /\ Count(r)' = Count(r)
      /\ \A r : GenuineData(r)' = GenuineData(r) /\ PatchOf(r)' = PatchOf(r)
      /\ \A r, p : Genuine(r, p)' = Genuine(r, p)
  BY <1>2, Same DEF StreamType
<1>5. PICK g, o, start : g = group.slot /\ o = 1 - g /\ start = Start
  OBVIOUS
<1>6. /\ loop \in LoopType /\ loop.active = TRUE
      /\ WholeIn(g, start, Width, FALSE) /\ g \in Slots
      /\ screen.mode = "plane" /\ screen.slot = g /\ screen.mask = {loop.symbol - 1}
      /\ pending # Nothing /\ loop.symbol = 1 /\ group.planes = Width
  BY <1>1, <1>2, <1>5 DEF Typed, Grouped, LoopType, Screen, Symbols
<1>7. o \in Slots /\ o # g
  BY <1>5, <1>6
<1>8. PICK d \in Upto(Total) : Held(o, d)
  BY <1>1, <1>2, <1>5 DEF Screen
<1>9. /\ Width = 4 /\ pending = [slot |-> o, before |-> Plain(Genuine(d, 3))]
      /\ patches[o] = PatchOf(d) /\ vram[o][3] = PlaneOf(d, 3, TRUE)
  <2>1. Width = 4
    BY <1>6, <1>8 DEF Held
  <2>2. 3 \in Group /\ 3 < Width
    BY <2>1 DEF Group
  <2> QED
    BY <1>8, <2>1, <2>2 DEF Held, WholeIn
<1>10. PICK v : v = Plain(Genuine(d, 3))
  OBVIOUS
<1>11. vram' = [vram EXCEPT ![o][3] = v]
  <2>1. Patched(PlaneOf(d, 3, TRUE), PatchOf(d)) = Plain(Genuine(d, 3))
    <3>1. PlaneOf(d, 3, TRUE) = [image |-> Genuine(d, 3), patches |-> {PatchOf(d)}]
      BY DEF PlaneOf
    <3>2. PICK x, y : x = Genuine(d, 3) /\ y = PatchOf(d)
      OBVIOUS
    <3>3. Patched([image |-> x, patches |-> {y}], y) = [[image |-> x, patches |-> {y}] EXCEPT !.patches = {}]
      BY DEF Patched
    <3>4. [[image |-> x, patches |-> {y}] EXCEPT !.patches = {}] = [image |-> x, patches |-> {}]
      OBVIOUS
    <3> QED
      BY <3>1, <3>2, <3>3, <3>4 DEF Plain
  <2>2. vram' = [vram EXCEPT ![o][3] = Patched(@, PatchOf(d))]
    BY <1>2, <1>9 DEF Restored, Buffer
  <2>3. vram' = [vram EXCEPT ![o][3] = Patched(vram[o][3], PatchOf(d))]
    BY <2>2
  <2> QED
    BY <1>9, <1>10, <2>1, <2>3
<1>12. /\ vram' = [i \in Slots |-> vram'[i]]
       /\ \A i \in Slots : vram'[i] = [q \in All |-> vram'[i][q]]
       /\ \A i \in Slots, q \in All : vram'[i][q] = IF i = o /\ q = 3 THEN v ELSE vram[i][q]
       /\ \A e, n, a : \A i \in Slots : i # o => WholeIn(i, e, n, a)' = WholeIn(i, e, n, a)
  <2>1. 3 \in All /\ transfer' = transfer
    BY <1>2
  <2> HIDE DEF Slots, All
  <2> QED
    BY <1>1, <1>7, <1>11, <2>1, Written
<1>13. pending' = Nothing /\ loop' = [loop EXCEPT !.pc = "play"]
  <2>1. vram'[o][3] = v
    BY <1>7, <1>12
  <2> QED
    BY <1>9, <1>10, <2>1 DEF RestoreHidden, Goto
<1>14. loop' \in LoopType /\ loop'.pc = "play" /\ loop'.symbol = 1 /\ loop'.active = TRUE
       /\ loop'.first = loop.first /\ loop'.nextSlot = loop.nextSlot
  BY <1>6, <1>13 DEF LoopType, Pcs
<1>15. WholeIn(g, start, Width, FALSE)'
  <2>1. PICK n : n = Width
    OBVIOUS
  <2>2. \A e, m, a : \A i \in Slots : i # o => WholeIn(i, e, m, a)' = WholeIn(i, e, m, a)
    BY <1>12
  <2>3. g # o /\ g \in Slots
    BY <1>6, <1>7
  <2>4. \A e, m, a : WholeIn(g, e, m, a)' = WholeIn(g, e, m, a)
    <3> HIDE DEF Slots
    <3> QED
      BY <2>2, <2>3
  <2>5. WholeIn(g, start, n, FALSE)'
    BY <1>6, <2>1, <2>4
  <2>6. Width' = n
    BY <1>4, <2>1
  <2> QED
    BY <2>5, <2>6 DEF WholeIn
<1>16. Typed'
  BY <1>1, <1>2, <1>4, <1>12, <1>13, <1>14 DEF Typed
<1>17. InStream'
  BY <1>1, <1>2, <1>4, <1>14, Same DEF InStream, Cut
<1>18. Grouped'
  BY <1>1, <1>2, <1>4, <1>5, <1>6, <1>14, <1>15 DEF Grouped, Start
<1>19. Symbols'
  BY <1>1, <1>2, <1>3, <1>4, <1>14 DEF Symbols
<1>20. Screen'
  BY <1>1, <1>2, <1>5, <1>6, <1>13, <1>14 DEF Screen
<1>21. Ordered' /\ Reasons'
  BY <1>1, <1>2, <1>3, <1>4, <1>6, <1>14 DEF Ordered, Reasons, Reached, Start
<1> QED
  BY <1>16, <1>17, <1>18, <1>19, <1>20, <1>21 DEF IInv

LEMMA GroupPlayedKeeps ==
  ASSUME IInv, GroupPlayed
  PROVE  IInv'
<1>1. Typed /\ InStream /\ Grouped /\ Symbols /\ Screen /\ Ordered
  BY DEF IInv
<1>2. /\ loop.pc = "played" /\ loop' = [loop EXCEPT !.pc = "loop"]
      /\ UNCHANGED <<producer, group, work, vram, patches, screen, page, fault, shown>>
  BY DEF GroupPlayed, Goto
<1>3. Total \in Nat /\ Width \in {3, 4} /\ global \in Nat
  BY <1>1, Options
<1>4. /\ Total' = Total /\ Width' = Width /\ Group' = Group /\ StreamType' = StreamType
      /\ \A r : GenuineData(r)' = GenuineData(r) /\ PatchOf(r)' = PatchOf(r)
      /\ \A r, p : Genuine(r, p)' = Genuine(r, p)
      /\ \A s, d, n, a : WholeIn(s, d, n, a)' = WholeIn(s, d, n, a)
  BY <1>1, <1>2, Unchanged
<1>5. PICK g, start : g = group.slot /\ start = Start
  OBVIOUS
<1>6. /\ loop \in LoopType /\ loop.active = TRUE /\ loop.first = FALSE
      /\ start \in Nat /\ start + Width <= Total /\ group.planes = Width
      /\ WholeIn(g, start, Width, TRUE) /\ g \in Slots /\ loop.nextSlot = 1 - g
      /\ global = start + Width
      /\ Width = 4 => patches[g] = PatchOf(start)
      /\ group.before = IF Width = 4 THEN Plain(Genuine(start, 3)) ELSE <<>>
  BY <1>1, <1>2, <1>5 DEF Typed, Grouped, LoopType, Symbols
<1>7. /\ screen.mode = "plane" /\ screen.slot = g /\ screen.mask = Group /\ pending = Nothing
      /\ loop.symbol = Width + 1
  BY <1>1, <1>2, <1>5 DEF Screen, Symbols
<1>8. loop' \in LoopType /\ loop'.pc = "loop" /\ loop'.active = TRUE
      /\ loop'.first = FALSE /\ loop'.nextSlot = loop.nextSlot
  BY <1>2, <1>6 DEF LoopType, Pcs
<1>9. pending' = IF Width = 4 THEN [slot |-> g, before |-> Plain(Genuine(start, 3))] ELSE Nothing
  <2>1. CASE Width = 4
    <3>1. PICK i : i = Genuine(start, 3)
      OBVIOUS
    <3>2. group.before = [image |-> i, patches |-> {}]
      BY <1>6, <2>1, <3>1 DEF Plain
    <3>3. [image |-> i, patches |-> {}] # <<>>
      <4>1. DOMAIN [image |-> i, patches |-> {}] = {"image", "patches"} /\ DOMAIN <<>> = {}
        OBVIOUS
      <4> QED
        BY <4>1
    <3>4. pending' = [slot |-> group.slot, before |-> group.before]
      BY <3>2, <3>3 DEF GroupPlayed
    <3> QED
      BY <1>5, <1>6, <2>1, <3>4
  <2>2. CASE Width # 4
    BY <1>6, <1>7, <2>2 DEF GroupPlayed
  <2> QED
    BY <2>1, <2>2
<1>10. Held(g, start)'
  BY <1>2, <1>4, <1>6, <1>9 DEF Held
<1>11. Typed'
  <2>1. pending' = Nothing \/ pending'.slot \in Slots
    BY <1>6, <1>9
  <2> QED
    BY <1>1, <1>2, <1>4, <1>8, <2>1 DEF Typed, producer, Nothing
<1>12. InStream'
  BY <1>1, <1>2, <1>4, <1>8, Same DEF InStream, Cut, producer
<1>13. Grouped' /\ Symbols'
  BY <1>8 DEF Grouped, Symbols
<1>14. Screen'
  <2>1. BehindSlot' = g
    <3>1. 1 - (1 - g) = g
      BY <1>6
    <3> QED
      BY <1>6, <1>8, <3>1 DEF BehindSlot
  <2>2. start \in Upto(Total)
    BY <1>3, <1>6 DEF Upto
  <2> QED
    BY <1>2, <1>4, <1>7, <1>8, <1>10, <2>1, <2>2 DEF Screen
<1>15. Ordered' /\ Reasons'
  <2>1. ~(loop.symbol < Width)
    BY <1>3, <1>7
  <2>2. Reached = global /\ Reached' = global
    BY <1>2, <1>5, <1>6, <1>8, <2>1 DEF Reached, producer
  <2> QED
    BY <1>1, <1>2, <1>8, <2>2 DEF Ordered, Reasons
<1> QED
  BY <1>11, <1>12, <1>13, <1>14, <1>15 DEF IInv

LEMMA RestoreShownKeeps ==
  ASSUME IInv, RestoreShown
  PROVE  IInv'
<1>1. Typed /\ InStream /\ Screen /\ Ordered /\ Symbols /\ Reasons
  BY DEF IInv
<1>2. /\ \/ loop.pc = "loop" /\ stream.count # 0 /\ Left < Width
         \/ loop.pc = "closing"
      /\ loop.active /\ pending # Nothing /\ vram' = Restored /\ pending' = Nothing
      /\ UNCHANGED <<transfer, total, global, stream, group, work, patches, screen, page, loop,
                     fault, shown>>
  BY DEF RestoreShown, producer
<1>3. /\ Total' = Total /\ Width' = Width /\ StreamType' = StreamType
      /\ \A r : Short(r)' = Short(r)
  BY <1>2, Same DEF StreamType
<1>4. PICK o, v : o = pending.slot /\ v = Patched(vram[pending.slot][3], patches[Buffer(pending.slot)])
  OBVIOUS
<1>5. o \in Slots /\ 3 \in All
  BY <1>1, <1>2, <1>4 DEF Typed
<1>6. vram' = [vram EXCEPT ![o][3] = v]
  BY <1>2, <1>4 DEF Restored
<1>7. /\ vram' = [i \in Slots |-> vram'[i]]
      /\ \A i \in Slots : vram'[i] = [q \in All |-> vram'[i][q]]
  <2>1. transfer' = transfer
    BY <1>2
  <2> HIDE DEF Slots, All
  <2> QED
    BY <1>1, <1>5, <1>6, <2>1, Written
<1>8. Typed'
  BY <1>1, <1>2, <1>3, <1>7 DEF Typed
<1>9. InStream'
  BY <1>1, <1>2, <1>3, Same DEF InStream, Cut
<1>10. Grouped' /\ Symbols'
  BY <1>1, <1>2 DEF Grouped, Symbols
<1>11. Left' = Left
  BY <1>2 DEF Left
<1>12. Screen'
  <2>1. screen.mode # "page"
    BY <1>1, <1>2 DEF Screen
  <2> QED
    BY <1>1, <1>2, <1>3, <1>11, <2>1 DEF Screen, Leaving
<1>13. Ordered' /\ Reasons'
  BY <1>1, <1>2, <1>3 DEF Ordered, Reasons, Reached
<1> QED
  BY <1>8, <1>9, <1>10, <1>12, <1>13 DEF IInv

LEMMA LeavePlanesKeeps ==
  ASSUME IInv, LeavePlanes
  PROVE  IInv'
<1>1. Typed /\ InStream /\ Screen /\ Ordered /\ Symbols /\ Reasons
  BY DEF IInv
<1>2. /\ loop.pc = "loop" /\ stream.count # 0 /\ Left < Width /\ loop.active /\ pending = Nothing
      /\ screen' = [screen EXCEPT !.mode = "mixed", !.mask = All]
      /\ loop' = [loop EXCEPT !.active = FALSE]
      /\ UNCHANGED <<producer, group, work, vram, patches, page, pending, fault, shown>>
  BY DEF LeavePlanes
<1>3. /\ Total' = Total /\ Width' = Width /\ StreamType' = StreamType
  BY <1>1, <1>2, Unchanged
<1>4. loop' \in LoopType /\ loop'.pc = "loop" /\ loop'.active = FALSE /\ loop'.first = loop.first
  BY <1>1, <1>2 DEF LoopType, Typed
<1>5. screen' \in ScreenType /\ screen'.mode = "mixed"
  BY <1>1, <1>2 DEF ScreenType, Typed
<1>6. Typed'
  BY <1>1, <1>2, <1>3, <1>4, <1>5 DEF Typed, producer
<1>7. InStream'
  BY <1>1, <1>2, <1>3, <1>4, Same DEF InStream, Cut, producer
<1>8. Grouped' /\ Symbols'
  BY <1>4 DEF Grouped, Symbols
<1>9. Left' = Left
  BY <1>2 DEF Left, producer
<1>10. Screen'
  BY <1>2, <1>3, <1>4, <1>5, <1>9 DEF Screen
<1>11. Ordered' /\ Reasons'
  BY <1>1, <1>2, <1>4 DEF Ordered, Reasons, Reached, producer
<1> QED
  BY <1>6, <1>7, <1>8, <1>10, <1>11 DEF IInv

LEMMA BeginTailKeeps ==
  ASSUME IInv, BeginTail
  PROVE  IInv'
<1>1. Typed /\ InStream /\ Screen /\ Ordered /\ Symbols /\ Reasons
  BY DEF IInv
<1>2. /\ loop.pc = "loop" /\ stream.count # 0 /\ ~loop.active
      /\ loop' = [loop EXCEPT !.pc = "tail"]
      /\ UNCHANGED <<producer, group, work, vram, patches, screen, page, pending, fault, shown>>
  BY DEF BeginTail, Goto
<1>3. /\ Total' = Total /\ Width' = Width /\ StreamType' = StreamType
      /\ \A r : GenuineData(r)' = GenuineData(r)
  BY <1>1, <1>2, Unchanged
<1>4. loop' \in LoopType /\ loop'.pc = "tail" /\ loop'.active = FALSE /\ loop'.first = loop.first
  BY <1>1, <1>2 DEF LoopType, Typed, Pcs
<1>5. Typed'
  BY <1>1, <1>2, <1>3, <1>4 DEF Typed, producer
<1>6. InStream'
  BY <1>1, <1>2, <1>3, <1>4, Same DEF InStream, Cut, producer
<1>7. Grouped' /\ Symbols'
  BY <1>2, <1>4 DEF Grouped, Symbols, producer
<1>8. Screen'
  BY <1>1, <1>2, <1>3, <1>4 DEF Screen, Upto
<1>9. Ordered' /\ Reasons'
  BY <1>1, <1>2, <1>4 DEF Ordered, Reasons, Reached, producer
<1> QED
  BY <1>5, <1>6, <1>7, <1>8, <1>9 DEF IInv

LEMMA ReenterPlanesKeeps ==
  ASSUME IInv, ReenterPlanes
  PROVE  IInv'
<1>1. Typed /\ InStream /\ Screen /\ Ordered /\ Symbols /\ Reasons
  BY DEF IInv
<1>2. /\ loop.pc = "tail_shown"
      /\ UNCHANGED <<producer, group, work, vram, patches, page, pending, fault, shown>>
  BY DEF ReenterPlanes
<1>3. /\ Total' = Total /\ Width' = Width /\ StreamType' = StreamType
      /\ \A r : GenuineData(r)' = GenuineData(r)
  BY <1>1, <1>2, Unchanged
<1>4. loop \in LoopType /\ loop.active = FALSE /\ screen.mode # "plane" /\ pending = Nothing
      /\ Left' = Left
  BY <1>1, <1>2 DEF Typed, Screen, LoopType, Left, producer
<1>5. CASE /\ stream.count # 0 /\ Left >= Width
           /\ screen' = [mode |-> "blank", slot |-> 0, mask |-> {}]
           /\ loop' = [loop EXCEPT !.pc = "loop", !.active = TRUE, !.nextSlot = 0]
  <2>1. loop' \in LoopType /\ loop'.pc = "loop" /\ loop'.active = TRUE
    <3>1. loop' = [loop EXCEPT !.pc = "loop", !.active = TRUE, !.nextSlot = 0]
      BY <1>5
    <3>2. "loop" \in Pcs /\ 0 \in Slots
      BY DEF Pcs
    <3>3. loop \in LoopType
      BY <1>4
    <3>4. loop' \in LoopType
      BY <3>1, <3>2, <3>3 DEF LoopType
    <3>5. loop'.pc = "loop" /\ loop'.active = TRUE
      BY <3>1, <3>3 DEF LoopType
    <3> QED
      BY <3>4, <3>5
  <2>2. screen' \in ScreenType /\ screen'.mode = "blank"
    BY <1>5 DEF ScreenType
  <2>3. Typed'
    BY <1>1, <1>2, <1>3, <2>1, <2>2 DEF Typed, producer
  <2>4. InStream'
    BY <1>1, <1>2, <1>3, <2>1, Same DEF InStream, Cut, producer
  <2>5. Grouped' /\ Symbols'
    BY <2>1 DEF Grouped, Symbols
  <2>6. Screen'
    BY <1>2, <1>4, <2>1, <2>2 DEF Screen
  <2>7. Ordered' /\ Reasons'
    BY <1>1, <1>2, <2>1 DEF Ordered, Reasons, Reached, producer
  <2> QED
    BY <2>3, <2>4, <2>5, <2>6, <2>7 DEF IInv
<1>6. CASE /\ ~(stream.count # 0 /\ Left >= Width)
           /\ loop' = [loop EXCEPT !.pc = "loop"] /\ screen' = screen
  <2>1. loop' \in LoopType /\ loop'.pc = "loop" /\ loop'.active = FALSE /\ loop'.first = loop.first
    BY <1>4, <1>6 DEF LoopType, Pcs
  <2>2. Typed'
    BY <1>1, <1>2, <1>3, <1>6, <2>1 DEF Typed, producer
  <2>3. InStream'
    BY <1>1, <1>2, <1>3, <2>1, Same DEF InStream, Cut, producer
  <2>4. Grouped' /\ Symbols'
    BY <2>1 DEF Grouped, Symbols
  <2>5. stream.count = 0 \/ Left < Width
    <3>1. Left \in Int /\ Width \in {3, 4}
      BY <1>1, Options DEF Left, Typed, StreamType
    <3> QED
      BY <1>6, <3>1
  <2>6. Screen'
    BY <1>1, <1>2, <1>3, <1>4, <1>6, <2>1, <2>5 DEF Screen, Upto, producer
  <2>7. Ordered' /\ Reasons'
    BY <1>1, <1>2, <2>1 DEF Ordered, Reasons, Reached, producer
  <2> QED
    BY <2>2, <2>3, <2>4, <2>6, <2>7 DEF IInv
<1> QED
  BY <1>5, <1>6 DEF ReenterPlanes, Goto

LEMMA FinishKeeps ==
  ASSUME IInv, Finish
  PROVE  IInv'
<1>1. Typed /\ InStream /\ Screen /\ Ordered /\ Symbols /\ Reasons
  BY DEF IInv
<1>2. /\ loop.pc = "loop" /\ stream.count = 0
      /\ loop' = [loop EXCEPT !.pc = "closing",
                              !.result = IF Kind(global) = "none" THEN "done" ELSE "failed"]
      /\ UNCHANGED <<producer, group, work, vram, patches, screen, page, pending, fault, shown>>
  BY DEF Finish
<1>3. /\ Total' = Total /\ Width' = Width /\ StreamType' = StreamType
      /\ \A r : GenuineData(r)' = GenuineData(r)
  BY <1>1, <1>2, Unchanged
<1>4. Total \in Nat /\ global = Total
  BY <1>1, <1>2, Options DEF InStream
<1>5. Kind(global) = "none"
  BY <1>1, <1>4, Taken
<1>6. loop' = [loop EXCEPT !.pc = "closing", !.result = "done"]
  BY <1>2, <1>5
<1>7. loop' \in LoopType /\ loop'.pc = "closing" /\ loop'.result = "done" /\ loop'.active = loop.active
  BY <1>1, <1>6 DEF LoopType, Typed, Pcs
<1>8. Typed'
  BY <1>1, <1>2, <1>3, <1>7 DEF Typed, producer
<1>9. InStream' /\ Grouped' /\ Symbols'
  BY <1>7 DEF InStream, Grouped, Symbols
<1>10. Screen'
  BY <1>1, <1>2, <1>3, <1>7 DEF Screen, Upto
<1>11. Ordered' /\ Reasons'
  <2>1. shown' = Upto(Total)
    BY <1>1, <1>2, <1>4 DEF Ordered, Reached
  <2> QED
    BY <1>3, <1>4, <1>7, <2>1 DEF Ordered, Reasons
<1> QED
  BY <1>8, <1>9, <1>10, <1>11 DEF IInv

LEMMA CloseKeeps ==
  ASSUME IInv, Close
  PROVE  IInv'
<1>1. Typed /\ Ordered /\ Reasons
  BY DEF IInv
<1>2. /\ loop.pc = "closing" /\ screen' = [mode |-> "text", slot |-> 0, mask |-> {}]
      /\ loop' = [loop EXCEPT !.pc = loop.result]
      /\ UNCHANGED <<producer, group, work, vram, patches, page, pending, fault, shown>>
  BY DEF Close, Goto
<1>3. /\ Total' = Total /\ Width' = Width /\ StreamType' = StreamType
      /\ \A r : Short(r)' = Short(r)
  BY <1>1, <1>2, Unchanged, Same DEF producer
<1>4. /\ loop' \in LoopType /\ loop'.pc = loop.result /\ loop.result \in {"done", "failed"}
      /\ loop'.active = loop.active /\ loop'.result = loop.result
  BY <1>1, <1>2 DEF LoopType, Typed, Pcs
<1>5. screen' \in ScreenType /\ screen'.mode = "text"
  BY <1>2 DEF ScreenType
<1>6. Typed'
  BY <1>1, <1>2, <1>3, <1>4, <1>5 DEF Typed, producer
<1>7. InStream' /\ Grouped' /\ Symbols' /\ Screen'
  BY <1>4, <1>5 DEF InStream, Grouped, Symbols, Screen
<1>8. Ordered' /\ Reasons'
  BY <1>1, <1>2, <1>3, <1>4 DEF Ordered, Reasons, producer
<1> QED
  BY <1>6, <1>7, <1>8 DEF IInv

LEMMA ShowTailKeeps ==
  ASSUME IInv, ShowTail
  PROVE  IInv'
<1>1. Typed /\ InStream /\ Screen /\ Ordered /\ Symbols /\ Reasons
  BY DEF IInv
<1>2. /\ loop.pc = "tail" /\ global' = global + 1
      /\ UNCHANGED <<transfer, total, group, patches, pending, fault>>
  BY DEF ShowTail
<1>3. Total \in Nat /\ Width \in {3, 4} /\ global \in Nat
  BY <1>1, Options
<1>4. /\ Total' = Total /\ Width' = Width
      /\ \A r : GenuineData(r)' = GenuineData(r) /\ Short(r)' = Short(r)
  BY <1>2, Same
<1>5. stream.count # 0 /\ loop \in LoopType /\ loop.active = FALSE /\ screen.mode # "plane"
      /\ pending = Nothing /\ page \in 0..1
  BY <1>1, <1>2 DEF Symbols, Typed, Screen, LoopType
<1>6. /\ global < Total
      /\ Window(global) = stream.window /\ Index(global) = stream.index /\ Count(global) = stream.count
  BY <1>1, <1>2, <1>5, AtStream
<1>7. shown = Upto(global) /\ global \in 0..Total /\ global + 1 \in 0..Total /\ global \in Upto(Total)
  BY <1>1, <1>2, <1>3, <1>6 DEF Ordered, Reached, Upto
<1>8. CASE Encodable
  <2>1. PICK image : image = GenuineData(global)
    OBVIOUS
  <2>2. Data(stream.window, stream.index, stream.count, global) = image
    BY <1>6, <2>1 DEF GenuineData
  <2>3. /\ work' = [raster |-> image, codewords |-> image]
        /\ vram' = [vram EXCEPT ![page] = [p \in All |-> Plain(image)]]
        /\ screen' = [mode |-> "page", slot |-> page, mask |-> All]
        /\ page' = 1 - page
        /\ shown' = shown \union {global}
        /\ stream' = Committed
        /\ loop' = [loop EXCEPT !.pc = "tail_shown"]
    BY <1>8, <2>1, <2>2 DEF ShowTail, Goto
  <2>4. /\ stream' \in StreamType /\ StreamType' = StreamType
        /\ global' \in 0..Total
        /\ InStream'
    BY <1>1, <1>2, <1>5, <2>3, Commit
  <2>5. PICK g, drawn : g = page /\ drawn = [p \in All |-> Plain(image)]
    OBVIOUS
  <2>6. /\ vram' = [i \in Slots |-> vram'[i]]
        /\ \A i \in Slots : vram'[i] = [q \in All |-> vram'[i][q]]
        /\ vram'[g] = drawn
    <3>1. vram' = [vram EXCEPT ![g] = drawn] /\ g \in Slots
      BY <1>5, <2>3, <2>5
    <3>2. vram = [i \in Slots |-> vram[i]] /\ \A i \in Slots : vram[i] = [q \in All |-> vram[i][q]]
      BY <1>1 DEF Typed
    <3>3. vram' = [i \in Slots |-> IF i = g THEN drawn ELSE vram[i]]
      BY <3>1, <3>2
    <3>4. drawn = [q \in All |-> drawn[q]]
      BY <2>5
    <3>5. ASSUME NEW i \in Slots PROVE vram'[i] = [q \in All |-> vram'[i][q]]
      <4>1. CASE i = g
        <5>1. vram'[i] = drawn
          BY <3>1, <3>3, <4>1
        <5> QED
          BY <3>4, <5>1
      <4>2. CASE i # g
        <5>1. vram'[i] = vram[i]
          BY <3>3, <4>2
        <5> QED
          BY <3>2, <5>1
      <4> QED
        BY <4>1, <4>2
    <3> QED
      BY <3>1, <3>3, <3>5
  <2>7. /\ loop' \in LoopType /\ loop'.pc = "tail_shown" /\ loop'.active = FALSE
        /\ loop'.first = loop.first
    BY <1>5, <2>3 DEF LoopType, Pcs
  <2>8. /\ screen' \in ScreenType /\ screen'.mode = "page" /\ screen'.slot = g
        /\ page' \in 0..1 /\ screen'.slot = 1 - page'
    <3>1. screen' = [mode |-> "page", slot |-> g, mask |-> All] /\ g \in Slots /\ page' = 1 - g
      BY <1>5, <2>3, <2>5
    <3>2. screen' \in ScreenType /\ screen'.mode = "page" /\ screen'.slot = g
      BY <3>1 DEF ScreenType
    <3>3. 1 - g \in 0..1 /\ 1 - (1 - g) = g
      BY <3>1
    <3> QED
      BY <3>1, <3>2, <3>3
  <2>9. work'.raster = work'.codewords /\ work' = [raster |-> work'.raster, codewords |-> work'.codewords]
    BY <2>3
  <2>10. Typed'
    BY <1>1, <1>2, <1>4, <2>4, <2>6, <2>7, <2>8, <2>9 DEF Typed
  <2>11. Grouped' /\ Symbols'
    BY <2>7 DEF Grouped, Symbols
  <2>12. Screen'
    <3>1. vram'[screen'.slot] = [p \in All |-> Plain(GenuineData(global))]
      BY <2>1, <2>5, <2>6, <2>8
    <3>2. PICK r : r = global
      OBVIOUS
    <3>3. r \in Upto(Total) /\ vram'[screen'.slot] = [p \in All |-> Plain(GenuineData(r)')]
      BY <1>4, <1>7, <3>1, <3>2
    <3>4. \E e \in Upto(Total') : vram'[screen'.slot] = [p \in All |-> Plain(GenuineData(e)')]
      BY <1>4, <3>3
    <3> QED
      BY <1>2, <1>5, <2>7, <2>8, <3>4 DEF Screen
  <2>13. Ordered' /\ Reasons'
    <3>1. shown' = Upto(global + 1)
      BY <1>3, <1>7, <2>3, Extended
    <3>2. Reached' = global + 1
      BY <1>2, <2>7 DEF Reached
    <3> QED
      BY <2>7, <3>1, <3>2 DEF Ordered, Reasons
  <2> QED
    BY <2>4, <2>10, <2>11, <2>12, <2>13 DEF IInv
<1>9. CASE ~Encodable
  <2>1. /\ loop' = [loop EXCEPT !.pc = "closing", !.result = "failed"]
        /\ UNCHANGED <<stream, work, vram, screen, page, shown>>
    BY <1>9 DEF ShowTail, Abort
  <2>2. /\ loop' \in LoopType /\ loop'.pc = "closing" /\ loop'.active = FALSE
        /\ loop'.result = "failed"
    BY <1>5, <2>1 DEF LoopType, Pcs
  <2>3. Typed'
    <3>1. StreamType' = StreamType
      BY <1>2 DEF StreamType
    <3> QED
      BY <1>1, <1>2, <1>4, <1>7, <2>1, <2>2, <3>1 DEF Typed
  <2>4. InStream' /\ Grouped' /\ Symbols'
    BY <2>2 DEF InStream, Grouped, Symbols
  <2>5. Screen'
    BY <1>1, <1>4, <2>1, <2>2 DEF Screen, Upto
  <2>6. Ordered'
    BY <1>4, <1>7, <2>1, <2>2 DEF Ordered
  <2>7. Reasons'
    <3>1. global' - 1 = global
      BY <1>2, <1>3
    <3>2. Short(global)
      BY <1>9 DEF Encodable
    <3>3. PICK r : r = global
      OBVIOUS
    <3>4. Short(r)'
      BY <1>4, <3>2, <3>3
    <3>5. Short(global - 1)'
      BY <3>1, <3>3, <3>4 DEF Short, Kind
    <3> QED
      BY <2>2, <3>5 DEF Reasons
  <2> QED
    BY <2>3, <2>4, <2>5, <2>6, <2>7 DEF IInv
<1> QED
  BY <1>8, <1>9

LEMMA Stutters ==
  ASSUME IInv, UNCHANGED vars
  PROVE  IInv'
<1>1. Typed /\ InStream /\ Grouped /\ Symbols /\ Screen /\ Ordered /\ Reasons
  BY DEF IInv
<1>2. UNCHANGED <<producer, group, work, vram, patches, screen, page, pending, loop, fault, shown>>
  BY DEF vars, producer
<1>3. /\ Total' = Total /\ Width' = Width /\ StreamType' = StreamType /\ Group' = Group
      /\ \A r : Header(r)' = Header(r) /\ Index(r)' = Index(r) /\ Count(r)' = Count(r)
      /\ \A r : GenuineData(r)' = GenuineData(r) /\ PatchOf(r)' = PatchOf(r)
      /\ \A r, p : Genuine(r, p)' = Genuine(r, p)
      /\ \A s, d, n, a : WholeIn(s, d, n, a)' = WholeIn(s, d, n, a)
  BY <1>1, <1>2, Unchanged
<1>4. \A s, d : Held(s, d)' = Held(s, d)
  BY <1>2, SameHeld DEF producer
<1>5. Typed'
  BY <1>1, <1>2, <1>3 DEF Typed, producer
<1>6. InStream'
  BY <1>1, <1>2, <1>3, Same DEF InStream, Cut, producer
<1>7. Grouped'
  <2>1. global' = global /\ stream' = stream
    BY <1>2 DEF producer
  <2> QED
    BY <1>1, <1>2, <1>3, <2>1 DEF Grouped, Start
<1>8. Symbols'
  BY <1>1, <1>2, <1>3 DEF Symbols, producer
<1>9. Screen'
  <2>1. Left' = Left /\ Leaving' = Leaving /\ BehindSlot' = BehindSlot
    BY <1>2, <1>3 DEF producer, Left, Leaving, BehindSlot
  <2>2. stream' = stream
    BY <1>2 DEF producer
  <2> QED
    BY <1>1, <1>2, <1>3, <1>4, <2>1, <2>2 DEF Screen
<1>10. Ordered'
  <2>1. Reached' = Reached /\ global' = global
    BY <1>2, <1>3 DEF Reached, Start, producer
  <2> QED
    BY <1>1, <1>2, <1>3, <2>1 DEF Ordered
<1>11. Reasons'
  BY <1>1, <1>2 DEF Reasons, Short, Kind, producer
<1> QED
  BY <1>5, <1>6, <1>7, <1>8, <1>9, <1>10, <1>11 DEF IInv

LEMMA Inductive == IInv /\ [Next]_vars => IInv'
<1> SUFFICES ASSUME IInv, [Next]_vars PROVE IInv'
  OBVIOUS
<1>1. CASE CountRecords
  BY <1>1, CountRecordsKeeps
<1>2. CASE Prepare
  BY <1>2, BeginGroupKeeps, StorePlaneKeeps, TakeFailsKeeps, GroupReadyKeeps DEF Prepare
<1>3. CASE Play
  BY <1>3, FocusKeeps, ApplyCorrectionKeeps, ShowSymbolKeeps, RestoreHiddenKeeps, GroupPlayedKeeps
     DEF Play
<1>4. CASE ShowTails
  BY <1>4, RestoreShownKeeps, LeavePlanesKeeps, BeginTailKeeps, ShowTailKeeps, ReenterPlanesKeeps
     DEF ShowTails
<1>5. CASE Finish
  BY <1>5, FinishKeeps
<1>6. CASE Close
  BY <1>6, CloseKeeps
<1>7. CASE UNCHANGED vars
  BY <1>7, Stutters
<1> QED
  BY <1>1, <1>2, <1>3, <1>4, <1>5, <1>6, <1>7 DEF Next

LEMMA Invariant == Spec => []IInv
<1>1. Init => IInv
  BY Initially
<1>2. IInv /\ [Next]_vars => IInv'
  BY Inductive
<1> QED
  BY <1>1, <1>2, PTL DEF Spec

-----------------------------------------------------------------------------
(* The theorems.                                                           *)

\* What was shown is a prefix of the stream.
LEMMA ShownUpto ==
  ASSUME IInv
  PROVE  \E k \in 0..Total : shown = Upto(k)
<1>1. Typed /\ Ordered /\ Grouped
  BY DEF IInv
<1>2. Total \in Nat /\ Width \in {3, 4} /\ global \in 0..Total
  BY <1>1, Options DEF Typed
<1>3. CASE Over
  BY <1>1, <1>3 DEF Ordered
<1>4. CASE ~Over
  <2>1. CASE ~InGroup
    <3>1. Reached = global
      BY <2>1 DEF Reached
    <3> QED
      BY <1>1, <1>2, <1>4, <3>1 DEF Ordered
  <2>2. CASE InGroup
    <3>1. Start \in Nat /\ Start + Width <= Total
      BY <1>1, <2>2 DEF Grouped
    <3>2. PICK s : s = loop.symbol
      OBVIOUS
    <3>3. s \in 0..5
      BY <1>1, <3>2 DEF Typed, LoopType
    <3>4. Reached = Start \/ Reached = Start + (IF s < Width THEN s ELSE Width)
      BY <2>2, <3>2 DEF Reached
    <3>5. Reached \in 0..Total
      BY <1>2, <3>1, <3>3, <3>4
    <3> QED
      BY <1>1, <1>4, <3>5 DEF Ordered
  <2> QED
    BY <2>1, <2>2
<1> QED
  BY <1>3, <1>4

LEMMA TypesFollow == IInv => TypeOK
<1> SUFFICES ASSUME IInv PROVE TypeOK
  OBVIOUS
<1>1. Typed
  BY DEF IInv
<1>2. Total \in Nat /\ Width \in {3, 4} /\ global \in Nat /\ global <= Total
  BY <1>1, Options
<1>3. Records = Upto(Total)
  BY DEF Records, Upto, Total
<1>4. shown \subseteq Upto(Total)
  <2>1. PICK k \in 0..Total : shown = Upto(k)
    BY ShownUpto
  <2> QED
    BY <1>2, <2>1 DEF Upto
<1>5. /\ transfer \in Transfers /\ total \in Nat /\ global \in 0..Len(Kinds(transfer))
      /\ stream.window \in Nat /\ stream.count \in 0..transfer.window
      /\ stream.index \in 0..transfer.window - 1
  BY <1>1 DEF Typed, StreamType, Total
<1>6. /\ group.slot \in Slots /\ group.planes \in 0..Width /\ group.parity \subseteq Records
      /\ page \in 0..1 /\ fault \in {"none", "read", "escape"}
  BY <1>1, <1>3 DEF Typed
<1>7. /\ screen.mode \in {"text", "blank", "plane", "mixed", "page"}
      /\ screen.slot \in Slots /\ screen.mask \subseteq All
  BY <1>1 DEF Typed, ScreenType
<1>8. pending.slot \in Slots \union {Nothing.slot}
  BY <1>1 DEF Typed, Nothing
<1>9. /\ loop.pc \in {"start", "loop", "prepare", "focus", "play", "patched", "restore",
                      "played", "tail", "tail_shown", "closing", "done", "failed"}
      /\ loop.symbol \in 0..5 /\ loop.nextSlot \in Slots
  BY <1>1 DEF Typed, LoopType, Pcs
<1> QED
  BY <1>3, <1>4, <1>5, <1>6, <1>7, <1>8, <1>9 DEF TypeOK

LEMMA HeldFollows == IInv => HeldWhole
<1> SUFFICES ASSUME IInv PROVE HeldWhole
  OBVIOUS
<1>1. Typed /\ Grouped /\ Symbols /\ Screen
  BY DEF IInv
<1>2. Total \in Nat /\ Width \in {3, 4}
  BY <1>1, Options
<1>3. Records = Upto(Total)
  BY DEF Records, Upto, Total
<1> DEFINE slot == vram[screen.slot]
           whole(start) == \A p \in Group :
             slot[p] = [image |-> Genuine(start, p),
                        patches |-> IF p = 3 THEN {PatchOf(start)} ELSE {}]
<1>4. \A d : WholeIn(screen.slot, d, Width, TRUE) => whole(d)
  <2>1. \A p \in Group : p < Width
    BY <1>2 DEF Group
  <2> QED
    BY <2>1 DEF WholeIn, PlaneOf
<1>5. ASSUME screen.mode = "plane", loop.pc # "patched", loop.pc # "closing",
             ~(loop.pc = "loop" /\ stream.count # 0 /\ Left < Width)
      PROVE  \/ \E p \in Group, start \in Records :
                  screen.mask = {p} /\ slot[p] = Plain(Genuine(start, p))
             \/ screen.mask = Group /\ \E start \in Records : whole(start)
  <2>1. loop.pc \in {"loop", "prepare", "play", "restore", "played"}
    BY <1>1, <1>5 DEF Typed, LoopType, Pcs, Screen, Symbols
  <2>2. CASE Behind
    <3>1. screen.mask = Group /\ \E d \in Upto(Total) : Held(screen.slot, d)
      BY <1>1, <1>5, <2>2 DEF Screen
    <3> QED
      BY <1>3, <1>4, <3>1 DEF Held
  <2>3. CASE ~Behind
    <3>1. Started
      BY <1>5, <2>1, <2>3 DEF Leaving
    <3>2. /\ screen.slot = group.slot
          /\ screen.mask = IF loop.pc = "played" THEN Group ELSE {loop.symbol - 1}
      BY <1>1, <3>1 DEF Screen
    <3>3. Start \in Nat /\ Start + Width <= Total /\ group.planes = Width
      BY <1>1, <3>1 DEF Grouped
    <3>4. Start \in Records
      BY <1>2, <1>3, <3>3 DEF Upto
    <3>5. CASE loop.pc = "played"
      <4>1. WholeIn(screen.slot, Start, Width, TRUE)
        BY <1>1, <3>2, <3>3, <3>5 DEF Grouped
      <4> QED
        BY <1>4, <3>2, <3>4, <3>5, <4>1
    <3>6. CASE loop.pc # "played"
      <4>1. WholeIn(screen.slot, Start, Width, FALSE)
        BY <1>1, <1>5, <3>1, <3>2, <3>3, <3>6 DEF Grouped
      <4>2. PICK p : p = loop.symbol - 1
        OBVIOUS
      <4>3. p \in Group /\ p < Width
        <5>1. loop.symbol \in 0..5
          BY <1>1 DEF Typed, LoopType
        <5>2. loop.symbol # 0 /\ loop.symbol <= Width
          <6>1. CASE loop.pc = "play"
            BY <1>1, <2>3, <6>1 DEF Symbols
          <6>2. CASE loop.pc = "restore"
            <7>1. loop.symbol = 1
              BY <1>1, <6>2 DEF Symbols
            <7> QED
              BY <1>2, <7>1
          <6> QED
            BY <1>5, <3>1, <3>6, <6>1, <6>2
        <5> QED
          BY <1>2, <4>2, <5>1, <5>2 DEF Group
      <4>4. slot[p] = Plain(Genuine(Start, p))
        BY <4>1, <4>3 DEF WholeIn, PlaneOf, Plain
      <4> QED
        BY <3>2, <3>4, <3>6, <4>2, <4>3, <4>4
    <3> QED
      BY <3>5, <3>6
  <2> QED
    BY <2>2, <2>3
<1>6. screen.mode = "page" =>
        \E r \in Records : slot = [p \in All |-> Plain(GenuineData(r))]
  BY <1>1, <1>3 DEF Screen
<1> QED
  BY <1>5, <1>6 DEF HeldWhole

LEMMA OrderFollows == IInv => AllInOrder
<1> SUFFICES ASSUME IInv PROVE AllInOrder
  OBVIOUS
<1>1. Typed /\ Ordered
  BY DEF IInv
<1>2. Total \in Nat
  BY <1>1, Options
<1>3. Records = Upto(Total)
  BY DEF Records, Upto, Total
<1>4. PICK k \in 0..Total : shown = Upto(k)
  BY ShownUpto
<1>5. Cardinality(Upto(k)) = k
  <2>1. Cardinality(0..(k - 1)) = IF 0 > k - 1 THEN 0 ELSE (k - 1) - 0 + 1
    BY <1>2, FS_Interval
  <2> QED
    BY <1>2, <2>1 DEF Upto
<1>6. {r \in Upto(Total) : r < k} = Upto(k)
  BY <1>2 DEF Upto
<1>7. shown = {r \in Records : r < Cardinality(shown)}
  BY <1>3, <1>4, <1>5, <1>6
<1>8. loop.pc = "done" => shown = Records
  BY <1>1, <1>3 DEF Ordered
<1> QED
  BY <1>7, <1>8 DEF AllInOrder

LEMMA ReasonFollows == IInv => StopsForAReason
BY DEF IInv, Reasons, StopsForAReason

\* Every variable keeps its type, for every width, window and manifest that
\* the command line admits.
THEOREM TypesHold == Spec => []TypeOK
BY Invariant, TypesFollow, PTL

\* What a camera reads of a held symbol is whole: a plane of one group, all of
\* them with their own correction, or a DATA record, while the next group is
\* prepared in the other slot (stream_plane_prepare(), stream_plane_play()).
THEOREM HeldSymbols == Spec => []HeldWhole
BY Invariant, HeldFollows, PTL

\* No record is left out, repeated out of order or dropped at the end, though
\* the stream is taken once, forwards, by groups and by tails
\* (run_plane_stream_transfer()).
THEOREM RecordsInOrder == Spec => []AllInOrder
BY Invariant, OrderFollows, PTL

\* The sender gives up for an unreadable file, Esc or a short record in a tail
\* only: the correction that is taken back leaves plane 3 as it was, and the
\* records taken are those that were counted.
THEOREM FailsForAReason == Spec => []StopsForAReason
BY Invariant, ReasonFollows, PTL
=============================================================================
