---------------------------- MODULE RecordsProofs ----------------------------
(***************************************************************************)
(* Proofs about Records, for every disk, selection, command line and       *)
(* sequence of changes of the files, and for every number of               *)
(* reconstructions, resets, kills and failures of the phone's storage:     *)
(* what a reconstruction has given its own name is whole, a complete       *)
(* session can be followed to its end, and one that is valid has brought   *)
(* all that was selected.                                                  *)
(***************************************************************************)
EXTENDS Records, Induction

-----------------------------------------------------------------------------
(* Sequences, whatever they are made of.                                   *)

LEMMA SeqFacts ==
  ASSUME NEW s, IsSeq(s)
  PROVE  Len(s) \in Nat /\ DOMAIN s = 1..Len(s)
<1> QED
  BY LenProperties DEF IsSeq

LEMMA SeqIsSeq ==
  ASSUME NEW S, NEW s \in Seq(S)
  PROVE  IsSeq(s)
<1>1. PICK n \in Nat : n = Len(s)
  BY LenProperties
<1>2. s \in [1..n -> S] /\ DOMAIN s = 1..n
  BY <1>1, LenProperties
<1>3. s = [i \in 1..n |-> s[i]]
  BY <1>2
<1>4. \A i \in 1..n : s[i] \in {s[j] : j \in DOMAIN s}
  BY <1>2
<1>5. [i \in 1..n |-> s[i]] \in Seq({s[j] : j \in DOMAIN s})
  BY <1>4
<1> QED
  BY <1>3, <1>5 DEF IsSeq

LEMMA SeqAppend ==
  ASSUME NEW s, IsSeq(s), NEW x
  PROVE  /\ IsSeq(Append(s, x)) /\ Len(Append(s, x)) = Len(s) + 1
         /\ \A i \in 1..(Len(s) + 1) :
              Append(s, x)[i] = IF i = Len(s) + 1 THEN x ELSE s[i]
<1> DEFINE S == {s[i] : i \in DOMAIN s} \cup {x}
<1>1. s \in Seq(S) /\ x \in S
  BY SeqMonotonic DEF IsSeq
<1> HIDE DEF S
<1>2. Append(s, x) \in Seq(S) /\ Len(Append(s, x)) = Len(s) + 1
  BY <1>1, AppendProperties
<1>3. IsSeq(Append(s, x))
  BY <1>2, SeqIsSeq
<1>4. \A i \in 1..(Len(s) + 1) : Append(s, x)[i] = IF i = Len(s) + 1 THEN x ELSE s[i]
  BY <1>1, LenProperties
<1> QED
  BY <1>2, <1>3, <1>4

LEMMA SeqConcat ==
  ASSUME NEW s, IsSeq(s), NEW t, IsSeq(t)
  PROVE  /\ IsSeq(s \o t) /\ Len(s \o t) = Len(s) + Len(t)
         /\ \A i \in 1..(Len(s) + Len(t)) :
              (s \o t)[i] = IF i <= Len(s) THEN s[i] ELSE t[i - Len(s)]
<1> DEFINE S == {s[i] : i \in DOMAIN s} \cup {t[i] : i \in DOMAIN t}
<1>1. s \in Seq(S) /\ t \in Seq(S)
  BY SeqMonotonic DEF IsSeq
<1> HIDE DEF S
<1>2. s \o t \in Seq(S)
  BY <1>1, ConcatProperties
<1>3. IsSeq(s \o t)
  BY <1>2, SeqIsSeq
<1> QED
  BY <1>1, <1>3, ConcatProperties

LEMMA SeqExcept ==
  ASSUME NEW s, IsSeq(s), NEW i \in 1..Len(s), NEW x
  PROVE  /\ IsSeq([s EXCEPT ![i] = x]) /\ Len([s EXCEPT ![i] = x]) = Len(s)
         /\ \A j \in 1..Len(s) : [s EXCEPT ![i] = x][j] = IF j = i THEN x ELSE s[j]
<1> DEFINE S == {s[j] : j \in DOMAIN s} \cup {x}
<1>1. s \in Seq(S) /\ x \in S
  BY SeqMonotonic DEF IsSeq
<1> HIDE DEF S
<1>2. [s EXCEPT ![i] = x] \in Seq(S)
  BY <1>1, ExceptSeq
<1>3. IsSeq([s EXCEPT ![i] = x])
  BY <1>2, SeqIsSeq
<1> QED
  BY <1>1, <1>3, ExceptSeq

-----------------------------------------------------------------------------
(* The manifest.                                                           *)

\* Entries that say of a node what it was when it was selected.
NodeNames(t) == {t[n].name : n \in DOMAIN t}
FirstSizes(t) == {t[n].sizes[1] : n \in DOMAIN t}
IsEntry(t, e) ==
  /\ e.kind = t[e.node].kind /\ e.size = t[e.node].sizes[1]
  /\ e.path # <<>> /\ Last(e.path) = t[e.node].name
Entries(t) ==
  {e \in [kind : {"file", "dir"}, node : DOMAIN t, path : Seq(NodeNames(t)),
          size : FirstSizes(t)] : IsEntry(t, e)}

LEMMA OwnEntry ==
  ASSUME NEW t \in Trees, NEW n \in DOMAIN t
  PROVE  Entry(t[n].kind, n, <<t[n].name>>, t[n].sizes[1]) \in Entries(t)
<1>1. PICK e : e = Entry(t[n].kind, n, <<t[n].name>>, t[n].sizes[1])
  OBVIOUS
<1>2. e = [kind |-> t[n].kind, node |-> n, path |-> <<t[n].name>>, size |-> t[n].sizes[1]]
  BY <1>1 DEF Entry
<1>3. PICK q : q = <<t[n].name>>
  OBVIOUS
<1>4. t[n].name \in NodeNames(t) /\ t[n].sizes[1] \in FirstSizes(t)
  BY DEF NodeNames, FirstSizes
<1>5. q \in Seq(NodeNames(t)) /\ q # <<>> /\ Last(q) = t[n].name
  BY <1>3, <1>4 DEF Last
<1>6. t[n].kind \in {"file", "dir"}
  BY TreesAssumption
<1>7. e \in [kind : {"file", "dir"}, node : DOMAIN t, path : Seq(NodeNames(t)),
            size : FirstSizes(t)]
  BY <1>2, <1>3, <1>4, <1>5, <1>6
<1>8. IsEntry(t, e)
  BY <1>2, <1>3, <1>5 DEF IsEntry
<1>9. e \in Entries(t)
  BY <1>7, <1>8 DEF Entries
<1> QED
  BY <1>1, <1>9

\* The name of the directory before the path makes no other entry of it.
LEMMA EntryBelow ==
  ASSUME NEW t, NEW n \in DOMAIN t, NEW e \in Entries(t)
  PROVE  [e EXCEPT !.path = <<t[n].name>> \o @] \in Entries(t)
<1>1. PICK q \in Seq(NodeNames(t)) : q = e.path
  BY DEF Entries
<1>2. PICK h : h = <<t[n].name>>
  OBVIOUS
<1>3. t[n].name \in NodeNames(t)
  BY DEF NodeNames
<1>4. h \in Seq(NodeNames(t)) /\ Len(h) = 1
  BY <1>2, <1>3
<1>5. PICK w : w = h \o q
  OBVIOUS
<1>6. /\ w \in Seq(NodeNames(t)) /\ Len(w) = 1 + Len(q)
      /\ \A i \in 1..(1 + Len(q)) : w[i] = IF i <= 1 THEN h[i] ELSE q[i - 1]
  <2>1. PICK S : S = NodeNames(t)
    OBVIOUS
  <2>2. h \in Seq(S) /\ q \in Seq(S)
    BY <1>4, <2>1
  <2>3. /\ h \o q \in Seq(S) /\ Len(h \o q) = Len(h) + Len(q)
        /\ \A i \in 1..(Len(h) + Len(q)) :
             (h \o q)[i] = IF i <= Len(h) THEN h[i] ELSE q[i - Len(h)]
    BY <2>2, ConcatProperties
  <2> QED
    BY <1>4, <1>5, <2>1, <2>3
<1>7. q # <<>> /\ Last(q) = t[e.node].name
  BY <1>1 DEF Entries, IsEntry
<1>8. Len(q) \in Nat \ {0}
  BY <1>1, <1>7, EmptySeq
<1>9. w # <<>> /\ Last(w) = Last(q)
  <2>1. Len(w) \in Nat \ {0, 1}
    BY <1>6, <1>8
  <2>2. w # <<>>
    BY <2>1
  <2>3. w[Len(w)] = q[Len(w) - 1] /\ Len(w) - 1 = Len(q)
    BY <1>6, <1>8
  <2> QED
    BY <2>2, <2>3 DEF Last
<1>10. PICK d : d = [e EXCEPT !.path = w]
  OBVIOUS
<1>11. e \in [kind : {"file", "dir"}, node : DOMAIN t, path : Seq(NodeNames(t)),
             size : FirstSizes(t)] /\ IsEntry(t, e)
  BY DEF Entries
<1>12. d \in [kind : {"file", "dir"}, node : DOMAIN t, path : Seq(NodeNames(t)),
             size : FirstSizes(t)]
  BY <1>6, <1>10, <1>11
<1>13. d.path = w /\ d.kind = e.kind /\ d.node = e.node /\ d.size = e.size
  BY <1>10, <1>11
<1>14. IsEntry(t, d)
  BY <1>7, <1>9, <1>11, <1>13 DEF IsEntry
<1>15. d \in Entries(t)
  BY <1>12, <1>14 DEF Entries
<1> QED
  BY <1>1, <1>2, <1>5, <1>10, <1>15

LEMMA ScanPathType ==
  ASSUME NEW t \in Trees, NEW calls \in [DOMAIN t -> Seq(Entries(t))]
  PROVE  ScanPath(t, calls) \in [DOMAIN t -> Seq(Entries(t))]
<1> SUFFICES ASSUME NEW n \in DOMAIN t
             PROVE  ScanPath(t, calls)[n] \in Seq(Entries(t))
  BY DEF ScanPath
<1> DEFINE child(k) == IF t[k].name = Manifest THEN <<>> ELSE calls[k]
           lists == [i \in DOMAIN t[n].children |-> child(t[n].children[i])]
           below == FlattenSeq(lists)
           inside(e) == [e EXCEPT !.path = <<t[n].name>> \o @]
           own == Entry(t[n].kind, n, <<t[n].name>>, t[n].sizes[1])
           under == [i \in DOMAIN below |-> inside(below[i])]
<1>1. ScanPath(t, calls)[n] = <<own>> \o (IF t[n].kind = "dir" THEN under ELSE <<>>)
  BY DEF ScanPath
<1>2. t[n].children \in Seq(DOMAIN t)
  BY TreesAssumption
<1>3. \A k \in DOMAIN t : child(k) \in Seq(Entries(t))
  OBVIOUS
<1>4. lists \in Seq(Seq(Entries(t)))
  <2>1. PICK c \in Seq(DOMAIN t) : c = t[n].children
    BY <1>2
  <2>2. DOMAIN c = 1..Len(c) /\ Len(c) \in Nat /\ \A i \in 1..Len(c) : c[i] \in DOMAIN t
    BY LenProperties, ElementOfSeq
  <2> HIDE DEF child
  <2>3. \A i \in 1..Len(c) : child(c[i]) \in Seq(Entries(t))
    BY <1>3, <2>2
  <2>4. [i \in 1..Len(c) |-> child(c[i])] \in Seq(Seq(Entries(t)))
    BY <2>2, <2>3
  <2> QED
    BY <2>1, <2>2, <2>4
<1> HIDE DEF lists
<1>5. below \in Seq(Entries(t))
  BY <1>4, FlattenType
<1> HIDE DEF below
<1>6. \A e \in Entries(t) : inside(e) \in Entries(t)
  BY EntryBelow
<1>7. under \in Seq(Entries(t))
  <2>1. PICK m \in Nat : m = Len(below)
    BY <1>5, LenProperties
  <2>2. DOMAIN below = 1..m /\ \A i \in 1..m : below[i] \in Entries(t)
    BY <1>5, <2>1, LenProperties, ElementOfSeq
  <2> HIDE DEF inside
  <2>3. \A i \in 1..m : inside(below[i]) \in Entries(t)
    BY <1>6, <2>2
  <2>4. [i \in 1..m |-> inside(below[i])] \in Seq(Entries(t))
    BY <2>1, <2>3
  <2> QED
    BY <2>2, <2>4
<1>8. own \in Entries(t)
  BY OwnEntry
<1> HIDE DEF own, under
<1>9. <<own>> \in Seq(Entries(t)) /\ <<>> \in Seq(Entries(t))
  BY <1>8
<1>10. <<own>> \o under \in Seq(Entries(t)) /\ <<own>> \o <<>> \in Seq(Entries(t))
  BY <1>7, <1>9, ConcatProperties
<1> QED
  BY <1>1, <1>10

LEMMA ScanType ==
  ASSUME NEW t \in Trees, NEW n \in DOMAIN t
  PROVE  Scan(t, n) \in Seq(Entries(t))
<1> DEFINE T == [DOMAIN t -> Seq(Entries(t))]
           m == Cardinality(DOMAIN t)
           none == [k \in DOMAIN t |-> <<>>]
           G == [x \in Nat \X T |-> ScanPath(t, x[2])]
           Scans(f) == f = [d \in 0..m |-> IF d = 0 THEN none ELSE ScanPath(t, f[d - 1])]
           scan == CHOOSE f : Scans(f)
<1>1. m \in Nat
  BY TreesAssumption, FS_CardinalityType
<1>2. none \in T
  OBVIOUS
<1>3. \A c \in T : ScanPath(t, c) \in T
  BY ScanPathType
<1> HIDE DEF T, m, none
<1>4. G \in [Nat \X T -> T] /\ \A k \in Nat, c \in T : G[<<k, c>>] = ScanPath(t, c)
  BY <1>3
<1> HIDE DEF G
<1>5. PICK f \in [0..m -> T] : Recurs(f, none, G, 0, m)
  BY <1>1, <1>2, <1>4, Recursion
<1>6. Scans(f)
  <2>1. ASSUME NEW d \in 0..m
        PROVE  f[d] = IF d = 0 THEN none ELSE ScanPath(t, f[d - 1])
    <3>1. CASE d = 0
      BY <1>5, <3>1 DEF Recurs
    <3>2. CASE d # 0
      <4>1. d - 1 \in 0..m /\ d \in Nat /\ f[d - 1] \in T
        BY <1>1, <1>5, <3>2
      <4>2. f[d] = G[<<d, f[d - 1]>>]
        BY <1>5, <3>2 DEF Recurs
      <4> QED
        BY <1>4, <3>2, <4>1, <4>2
    <3> QED
      BY <3>1, <3>2
  <2> QED
    BY <1>5, <2>1
<1>7. Scans(scan)
  <2> HIDE DEF Scans
  <2> QED
    BY <1>6
<1>8. Scan(t, n) = scan[m][n]
  BY DEF Scan, m, none
<1> HIDE DEF scan
<1>9. \A d \in 0..m : scan[d] = IF d = 0 THEN none ELSE ScanPath(t, scan[d - 1])
  BY <1>7
<1> DEFINE U == {d \in Nat : d <= m => scan[d] \in T}
<1>10. 0 \in U
  BY <1>1, <1>2, <1>9
<1>11. ASSUME NEW d \in Nat, d \in U PROVE d + 1 \in U
  <2> SUFFICES ASSUME d + 1 <= m PROVE scan[d + 1] \in T
    OBVIOUS
  <2>1. scan[d] \in T /\ d + 1 \in 0..m /\ d + 1 # 0 /\ (d + 1) - 1 = d
    BY <1>1, <1>11
  <2>2. scan[d + 1] = ScanPath(t, scan[d])
    BY <1>9, <2>1
  <2> QED
    BY <1>3, <2>1, <2>2
<1> HIDE DEF U
<1>12. m \in U
  BY <1>1, <1>10, <1>11, Induct
<1>13. scan[m] \in T
  BY <1>1, <1>12 DEF U
<1> QED
  BY <1>8, <1>13 DEF T

LEMMA ManifestType ==
  ASSUME NEW t \in Trees, NEW s \in Seq(DOMAIN t)
  PROVE  ManifestOf(t, s) \in Seq(Entries(t))
<1>1. DOMAIN s = 1..Len(s) /\ Len(s) \in Nat /\ \A i \in 1..Len(s) : s[i] \in DOMAIN t
  BY LenProperties, ElementOfSeq
<1>2. \A i \in 1..Len(s) : Scan(t, s[i]) \in Seq(Entries(t))
  BY <1>1, ScanType
<1>3. [i \in DOMAIN s |-> Scan(t, s[i])] \in Seq(Seq(Entries(t)))
  BY <1>1, <1>2
<1> QED
  BY <1>3, FlattenType DEF ManifestOf

\* Two files of the manifest have numbers of their own.
IsFile(k) == k \in 1..Len(manifest) /\ manifest[k].kind = "file"

LEMMA FileIdOrder ==
  ASSUME Len(manifest) \in Nat, NEW j, NEW k, IsFile(j), IsFile(k), j < k
  PROVE  FileId(j) # FileId(k)
<1> DEFINE upto(i) == {x \in 1..i : manifest[x].kind = "file"}
<1>1. j \in Nat /\ k \in Nat
  BY DEF IsFile
<1>2. IsFiniteSet(1..k) /\ IsFiniteSet(1..j)
  BY <1>1, FS_Interval
<1>3. upto(k) \subseteq 1..k /\ upto(j) \subseteq 1..j
  OBVIOUS
<1>4. IsFiniteSet(upto(k)) /\ IsFiniteSet(upto(j))
  BY <1>2, <1>3, FS_Subset
<1>5. upto(j) \subseteq upto(k) /\ k \in upto(k) /\ k \notin upto(j)
  BY <1>1 DEF IsFile
<1>6. FileId(j) = Cardinality(upto(j)) /\ FileId(k) = Cardinality(upto(k))
  BY DEF FileId
<1> HIDE DEF upto
<1>7. PICK U, V : U = upto(j) /\ V = upto(k)
  OBVIOUS
<1>8. IsFiniteSet(V) /\ U \subseteq V /\ U # V
  BY <1>4, <1>5, <1>7
<1>9. Cardinality(U) \in Nat /\ Cardinality(V) \in Nat
  BY <1>4, <1>7, FS_CardinalityType
<1>10. Cardinality(U) <= Cardinality(V) /\ Cardinality(U) # Cardinality(V)
  <2>1. U \in SUBSET V
    BY <1>8
  <2>2. Cardinality(U) <= Cardinality(V)
    BY <1>8, <2>1, FS_Subset
  <2>3. Cardinality(V) = Cardinality(U) => V = U
    BY <1>8, <2>1, FS_Subset
  <2> QED
    BY <1>8, <2>2, <2>3
<1> QED
  BY <1>6, <1>7, <1>10

LEMMA FileIdInjective ==
  ASSUME Len(manifest) \in Nat, NEW j, NEW k, IsFile(j), IsFile(k), FileId(j) = FileId(k)
  PROVE  j = k
<1>1. j \in Nat /\ k \in Nat
  BY DEF IsFile
<1>2. ~(j < k) /\ ~(k < j)
  BY FileIdOrder
<1> QED
  BY <1>1, <1>2

-----------------------------------------------------------------------------
(* read_piece().                                                           *)

\* The file n as start_file() and read_piece() leave it as long as it has not
\* changed: what was read, and then the halves of the ring from the one in use
\* on, are its first blocks.
Pieces(f, B, a, b) ==
  /\ a <= b /\ b <= f.at /\ f.at <= Len(B)
  /\ f.read = SubSeq(B, 1, a)
  /\ f.disk[f.slot] = SubSeq(B, a + 1, b)
  /\ f.disk[3 - f.slot] = SubSeq(B, b + 1, f.at)
  /\ a = b => b = f.at
Ring(f, n) ==
  /\ f = [node |-> n, at |-> f.at, disk |-> f.disk, slot |-> f.slot, error |-> f.error,
          read |-> f.read]
  /\ f.disk = [i \in 1..2 |-> f.disk[i]]
  /\ f.at \in Nat /\ f.slot \in 1..2 /\ f.error \in BOOLEAN
InOrder(f, n) == Ring(f, n) /\ \E a \in Nat, b \in Nat : Pieces(f, Blocks(n, 0), a, b)

LEMMA BlocksSeq ==
  ASSUME tree \in Trees, NEW n \in DOMAIN tree
  PROVE  /\ tree[n].sizes[1] \in Nat
         /\ Len(Blocks(n, 0)) = tree[n].sizes[1]
         /\ IsSeq(Blocks(n, 0))
<1>1. PICK m \in Nat : m = tree[n].sizes[1]
  BY TreesAssumption
<1> DEFINE S == {<<n, 0, i>> : i \in 1..m}
<1>2. Blocks(n, 0) = [i \in 1..m |-> <<n, 0, i>>]
  BY <1>1 DEF Blocks
<1>3. \A i \in 1..m : <<n, 0, i>> \in S
  OBVIOUS
<1> HIDE DEF S
<1>4. PICK B : B = [i \in 1..m |-> <<n, 0, i>>]
  OBVIOUS
<1>5. B \in Seq(S) /\ Len(B) = m
  BY <1>3, <1>4
<1> QED
  BY <1>1, <1>2, <1>4, <1>5, SeqIsSeq

LEMMA PartLength ==
  ASSUME NEW B, IsSeq(B), NEW i \in Nat, NEW j \in Nat, i <= j, j <= Len(B)
  PROVE  /\ IsSeq(SubSeq(B, i + 1, j)) /\ Len(SubSeq(B, i + 1, j)) = j - i
         /\ SubSeq(B, i + 1, j) = <<>> <=> i = j
<1>1. PICK m \in Nat : m = Len(B)
  BY SeqFacts
<1>2. \A k \in (i + 1)..j : B[k] \in {B[x] : x \in DOMAIN B}
  BY <1>1, SeqFacts
<1>3. PICK s : s = SubSeq(B, i + 1, j)
  OBVIOUS
<1>4. s \in Seq({B[x] : x \in DOMAIN B})
  BY <1>2, <1>3, SubSeqProperties
<1>5. Len(s) = j - i
  <2>1. Len(s) = IF i + 1 <= j THEN j - (i + 1) + 1 ELSE 0
    BY <1>2, <1>3, SubSeqProperties
  <2> QED
    BY <2>1
<1>6. s = <<>> <=> Len(s) = 0
  BY <1>4, EmptySeq
<1>7. IsSeq(s)
  BY <1>4, SeqIsSeq
<1> QED
  BY <1>3, <1>5, <1>6, <1>7

LEMMA PartEmpty ==
  ASSUME NEW B, IsSeq(B), NEW i \in Nat, NEW j \in Nat, i <= j, j <= Len(B),
         SubSeq(B, i + 1, j) = <<>>
  PROVE  i = j
BY PartLength

LEMMA PartOfPart ==
  ASSUME NEW B, IsSeq(B), NEW a \in Nat, NEW b \in Nat, a <= b, b <= Len(B),
         NEW i \in Nat, NEW j \in Nat, i <= j, j <= b - a
  PROVE  SubSeq(SubSeq(B, a + 1, b), i + 1, j) = SubSeq(B, (a + i) + 1, a + j)
<1>1. PICK m \in Nat : m = Len(B)
  BY SeqFacts
<1>2. CASE i = j
  <2>1. j < i + 1 /\ a + j < (a + i) + 1 /\ {i + 1, j, (a + i) + 1, a + j} \subseteq Int
    BY <1>2
  <2> QED
    BY <2>1, SubSeqEmpty
<1>3. CASE i # j
  <2>1. PICK x, y, u, v : x = a + 1 /\ y = b /\ u = i + 1 /\ v = j
    OBVIOUS
  <2>2. x \in 1..Len(B) /\ y \in 1..Len(B) /\ u \in 1..(y - x + 1) /\ v \in 1..(y - x + 1)
    BY <1>1, <1>3, <2>1
  <2>3. PICK S : B \in Seq(S)
    BY DEF IsSeq
  <2>4. SubSeq(SubSeq(B, x, y), u, v) = SubSeq(B, x + u - 1, x + v - 1)
    BY <2>2, <2>3, SubSeqOfSubSeq
  <2>5. x + u - 1 = (a + i) + 1 /\ x + v - 1 = a + j
    BY <2>1
  <2> QED
    BY <2>1, <2>4, <2>5
<1> QED
  BY <1>2, <1>3

LEMMA PartsJoin ==
  ASSUME NEW B, IsSeq(B), NEW a \in Nat, NEW b \in Nat, a <= b, b <= Len(B)
  PROVE  SubSeq(B, 1, a) \o SubSeq(B, a + 1, b) = SubSeq(B, 1, b)
<1>1. PICK m \in Nat : m = Len(B)
  BY SeqFacts
<1>2. PICK x : x = 1
  OBVIOUS
<1>3. x \in 1..(Len(B) + 1) /\ a \in (x - 1)..Len(B) /\ b \in a..Len(B)
  BY <1>1, <1>2
<1>4. PICK S : B \in Seq(S)
  BY DEF IsSeq
<1>5. SubSeq(B, x, a) \o SubSeq(B, a + 1, b) = SubSeq(B, x, b)
  BY <1>3, <1>4, ConcatAdjacentSubSeq
<1> QED
  BY <1>2, <1>5

\* What is next of the file goes into the half in use, which has run out.
LEMMA FreadWhole ==
  ASSUME tree \in Trees, NEW n \in DOMAIN tree, version[n] = 0, NEW f, Ring(f, n),
         f.at <= Len(Blocks(n, 0)), NEW failed \in BOOLEAN
  PROVE  \E c \in Nat : /\ f.at <= c /\ c <= Len(Blocks(n, 0))
                        /\ Fread(f, failed) = SubSeq(Blocks(n, 0), f.at + 1, c)
                        /\ Len(Fread(f, failed)) = c - f.at
<1>1. PICK B : B = Blocks(n, 0)
  OBVIOUS
<1>2. PICK m \in Nat : m = Len(B)
  BY <1>1, BlocksSeq
<1>3. IsSeq(B) /\ f.node = n /\ f.at \in Nat /\ f.at <= m
  BY <1>1, <1>2, BlocksSeq DEF Ring
<1>4. DiskBuffer \in Nat
  BY RecordsAssumption
<1>5. SizeNow(n) = m
  BY <1>1, <1>2, BlocksSeq DEF SizeNow
<1> DEFINE c == IF failed THEN f.at
                ELSE IF f.at + DiskBuffer < m THEN f.at + DiskBuffer ELSE m
<1>6. c \in Nat /\ f.at <= c /\ c <= m
  BY <1>3, <1>4
<1>7. Fread(f, failed) = IF failed THEN <<>> ELSE SubSeq(B, f.at + 1, c)
  <2>1. ~(SizeNow(f.node) < 0)
    BY <1>3, <1>5
  <2>2. Blocks(f.node, version[f.node]) = B
    BY <1>1, <1>3
  <2> QED
    BY <1>2, <2>1, <2>2 DEF Fread
<1> HIDE DEF c
<1>8. Len(SubSeq(B, f.at + 1, c)) = c - f.at
  BY <1>2, <1>3, <1>6, PartLength
<1>10. CASE failed
  <2>1. c = f.at
    BY <1>10 DEF c
  <2>2. SubSeq(B, f.at + 1, c) = <<>>
    BY <1>3, <1>6, <2>1, SubSeqEmpty
  <2> QED
    BY <1>1, <1>2, <1>3, <1>6, <1>7, <1>8, <1>10, <2>1, <2>2
<1>11. CASE ~failed
  BY <1>1, <1>2, <1>6, <1>7, <1>8, <1>11
<1> QED
  BY <1>10, <1>11

LEMMA FilledFields ==
  ASSUME NEW n, NEW f, Ring(f, n), NEW i \in 1..2, NEW failed \in BOOLEAN,
         NEW got, got = Fread(f, failed), Len(got) \in Nat, NEW g, g = Filled(f, i, failed)
  PROVE  /\ Ring(g, n) /\ g.disk[i] = got /\ g.disk[3 - i] = f.disk[3 - i]
         /\ g.at = f.at + Len(got) /\ g.slot = f.slot /\ g.read = f.read
<1>1. f.at \in Nat /\ f.slot \in 1..2 /\ f.error \in BOOLEAN
  BY DEF Ring
<1>2. PICK at0, disk0, slot0, error0, read0 :
        f = [node |-> n, at |-> at0, disk |-> disk0, slot |-> slot0, error |-> error0,
             read |-> read0]
  BY DEF Ring
<1>3. PICK at, disk, error : /\ at = f.at + Len(got) /\ disk = [f.disk EXCEPT ![i] = got]
                             /\ error = IF failed THEN TRUE ELSE f.error
  OBVIOUS
<1>4. g = [f EXCEPT !.disk = disk, !.at = at, !.error = error]
  BY <1>2, <1>3 DEF Filled
<1>5. g = [node |-> n, at |-> at, disk |-> disk, slot |-> slot0, error |-> error, read |-> read0]
  BY <1>2, <1>4
<1>6. f.disk = [j \in 1..2 |-> f.disk[j]]
  BY DEF Ring
<1>7. disk = [j \in 1..2 |-> disk[j]] /\ disk[i] = got /\ disk[3 - i] = f.disk[3 - i]
  <2>1. 3 - i \in 1..2 /\ 3 - i # i
    OBVIOUS
  <2> QED
    BY <1>3, <1>6, <2>1
<1>8. at \in Nat /\ error \in BOOLEAN
  <2>1. at \in Nat
    BY <1>1, <1>3
  <2>2. error \in BOOLEAN
    <3>1. CASE failed = TRUE
      BY <1>3, <3>1
    <3>2. CASE failed = FALSE
      BY <1>1, <1>3, <3>2
    <3> QED
      BY <3>1, <3>2
  <2> QED
    BY <2>1, <2>2
<1>9. /\ g.at = at /\ g.disk = disk /\ g.slot = f.slot /\ g.error = error /\ g.read = f.read
      /\ g.node = n
  BY <1>2, <1>5
<1>10. g = [node |-> n, at |-> g.at, disk |-> g.disk, slot |-> g.slot, error |-> g.error,
            read |-> g.read]
  BY <1>5
<1>11. Ring(g, n)
  BY <1>1, <1>7, <1>8, <1>9, <1>10 DEF Ring
<1> QED
  BY <1>3, <1>7, <1>9, <1>11

\* A fill of the half in use when it is empty, and with it the other one.
LEMMA FilledInOrder ==
  ASSUME tree \in Trees, NEW n \in DOMAIN tree, version[n] = 0, NEW f, InOrder(f, n),
         f.disk[f.slot] = <<>>, NEW failed \in BOOLEAN
  PROVE  InOrder(Filled(f, f.slot, failed), n)
<1>1. PICK B : B = Blocks(n, 0)
  OBVIOUS
<1>2. PICK a \in Nat : \E b \in Nat : Pieces(f, B, a, b)
  BY <1>1 DEF InOrder
<1>3. PICK b \in Nat : Pieces(f, B, a, b)
  BY <1>2
<1>4. Ring(f, n)
  BY DEF InOrder
<1>5. PICK m \in Nat : m = Len(B)
  BY <1>1, BlocksSeq
<1>6. a <= b /\ b <= f.at /\ f.at <= m /\ f.at \in Nat
  BY <1>3, <1>4, <1>5 DEF Pieces, Ring
<1>7. a = f.at /\ b = f.at
  <2>1. SubSeq(B, a + 1, b) = <<>>
    BY <1>3 DEF Pieces
  <2>2. IsSeq(B) /\ b <= Len(B)
    BY <1>1, <1>5, <1>6, BlocksSeq
  <2>3. a = b
    BY <1>6, <2>1, <2>2, PartLength
  <2> QED
    BY <1>3, <2>3 DEF Pieces
<1>8. PICK c \in Nat : /\ f.at <= c /\ c <= m
                       /\ Fread(f, failed) = SubSeq(B, f.at + 1, c)
                       /\ Len(Fread(f, failed)) = c - f.at
  BY <1>1, <1>4, <1>5, <1>6, FreadWhole
<1>9. PICK got : got = Fread(f, failed)
  OBVIOUS
<1>10. PICK g : g = Filled(f, f.slot, failed)
  OBVIOUS
<1>11. f.slot \in 1..2 /\ Len(got) \in Nat /\ f.at + Len(got) = c
  BY <1>4, <1>6, <1>8, <1>9 DEF Ring
<1>12. /\ Ring(g, n) /\ g.disk[f.slot] = got /\ g.disk[3 - f.slot] = f.disk[3 - f.slot]
       /\ g.at = f.at + Len(got) /\ g.slot = f.slot /\ g.read = f.read
  BY <1>4, <1>9, <1>10, <1>11, FilledFields
<1>13. g.at = c
  BY <1>11, <1>12
<1>18. f.disk[3 - f.slot] = <<>> /\ SubSeq(B, c + 1, c) = <<>>
  <2>1. f.disk[3 - f.slot] = SubSeq(B, b + 1, f.at)
    BY <1>3 DEF Pieces
  <2>2. \A i \in Nat : SubSeq(B, i + 1, i) = <<>>
    BY SubSeqEmpty
  <2> QED
    BY <1>6, <1>7, <2>1, <2>2
<1>19. Pieces(g, B, a, c)
  <2>1. g.read = SubSeq(B, 1, a)
    BY <1>3, <1>12 DEF Pieces
  <2>2. g.disk[g.slot] = SubSeq(B, a + 1, c)
    BY <1>7, <1>8, <1>9, <1>12
  <2>3. g.disk[3 - g.slot] = SubSeq(B, c + 1, g.at)
    BY <1>12, <1>13, <1>18
  <2> QED
    BY <1>5, <1>6, <1>7, <1>8, <1>13, <2>1, <2>2, <2>3 DEF Pieces
<1>20. InOrder(g, n)
  BY <1>1, <1>12, <1>19 DEF InOrder
<1> QED
  BY <1>10, <1>20

LEMMA StartedInOrder ==
  ASSUME tree \in Trees, NEW n \in DOMAIN tree, version[n] = 0, NEW failed \in BOOLEAN
  PROVE  InOrder(Started(n, failed), n)
<1>1. PICK B : B = Blocks(n, 0)
  OBVIOUS
<1>2. PICK m \in Nat : m = Len(B)
  BY <1>1, BlocksSeq
<1>3. PICK f : f = [node |-> n, at |-> 0, disk |-> <<<<>>, <<>>>>, slot |-> 1,
                    error |-> FALSE, read |-> <<>>]
  OBVIOUS
<1>4. Ring(f, n) /\ f.slot = 1 /\ f.at = 0 /\ f.disk[1] = <<>> /\ f.disk[2] = <<>> /\ f.read = <<>>
  BY <1>3 DEF Ring
<1>5. SubSeq(B, 1, 0) = <<>> /\ SubSeq(B, 0 + 1, 0) = <<>>
  BY SubSeqEmpty
<1>6. Pieces(f, B, 0, 0)
  <2>1. 3 - f.slot = 2 /\ 0 <= Len(B) /\ 0 <= 0 /\ f.at = 0 /\ 0 <= f.at
    BY <1>2, <1>4
  <2>2. f.read = SubSeq(B, 1, 0) /\ f.disk[f.slot] = SubSeq(B, 0 + 1, 0)
        /\ f.disk[3 - f.slot] = SubSeq(B, 0 + 1, f.at) /\ f.at <= Len(B)
    BY <1>4, <1>5, <2>1
  <2> QED
    BY <2>1, <2>2, Zenon DEF Pieces
<1>7. InOrder(f, n)
  BY <1>1, <1>4, <1>6 DEF InOrder
<1>8. PICK g : g = Filled(f, 1, FALSE)
  OBVIOUS
<1>9. InOrder(g, n)
  BY <1>4, <1>7, <1>8, FilledInOrder
<1>10. g = [f EXCEPT !.disk[1] = Fread(f, FALSE), !.at = @ + Len(Fread(f, FALSE)),
                     !.error = IF FALSE THEN TRUE ELSE @]
  BY <1>8 DEF Filled
<1>11. g.slot = 1 /\ g.read = <<>> /\ g.disk[2] = <<>>
  BY <1>3, <1>10
<1>12. Ring(g, n)
  BY <1>9 DEF InOrder
<1>13. PICK a \in Nat : \E b \in Nat : Pieces(g, B, a, b)
  BY <1>1, <1>9 DEF InOrder
<1>14. PICK b \in Nat : Pieces(g, B, a, b)
  BY <1>13
<1>15. a <= b /\ b <= g.at /\ g.at <= m /\ g.at \in Nat
  BY <1>2, <1>12, <1>14 DEF Pieces, Ring
<1>16. IsSeq(B) /\ b <= m /\ a <= m
  BY <1>1, <1>2, <1>15, BlocksSeq
<1>17. a = 0
  <2>1. SubSeq(B, 0 + 1, a) = <<>>
    BY <1>11, <1>14 DEF Pieces
  <2> QED
    BY <1>2, <1>16, <2>1, PartLength
<1>18. b = g.at
  <2>1. SubSeq(B, b + 1, g.at) = <<>>
    <3>1. g.disk[3 - g.slot] = SubSeq(B, b + 1, g.at) /\ 3 - g.slot = 2
      BY <1>11, <1>14 DEF Pieces
    <3> QED
      BY <1>11, <3>1
  <2> QED
    BY <1>2, <1>15, <1>16, <2>1, PartEmpty
<1>19. PICK c \in Nat : /\ g.at <= c /\ c <= m
                        /\ Fread(g, failed) = SubSeq(B, g.at + 1, c)
                        /\ Len(Fread(g, failed)) = c - g.at
  BY <1>1, <1>2, <1>12, <1>15, FreadWhole
<1>20. PICK got : got = Fread(g, failed)
  OBVIOUS
<1>21. PICK h : h = Filled(g, 2, failed)
  OBVIOUS
<1>22. Len(got) \in Nat /\ g.at + Len(got) = c
  <2>1. PICK at \in Nat : at = g.at
    BY <1>15
  <2>2. Len(got) = c - at /\ at <= c
    BY <1>19, <1>20, <2>1
  <2> QED
    BY <2>1, <2>2
<1>23. /\ Ring(h, n) /\ h.disk[2] = got /\ h.disk[3 - 2] = g.disk[3 - 2]
       /\ h.at = g.at + Len(got) /\ h.slot = g.slot /\ h.read = g.read
  BY <1>12, <1>20, <1>21, <1>22, FilledFields
<1>24. h.disk[1] = g.disk[1] /\ h.slot = 1 /\ h.at = c
  BY <1>11, <1>22, <1>23
<1>28. Pieces(h, B, a, b)
  <2>1. h.read = SubSeq(B, 1, a) /\ h.disk[h.slot] = SubSeq(B, a + 1, b)
    BY <1>11, <1>14, <1>23, <1>24 DEF Pieces
  <2>2. h.disk[3 - h.slot] = SubSeq(B, b + 1, h.at)
    <3>1. 3 - h.slot = 2
      BY <1>24
    <3> QED
      BY <1>18, <1>19, <1>20, <1>23, <1>24, <3>1
  <2>3. a = b => b = h.at
    <3> SUFFICES ASSUME a = b PROVE b = h.at
      OBVIOUS
    <3>1. g.at = 0
      BY <1>17, <1>18
    <3>2. Fread(f, FALSE) = <<>>
      <4>1. g.disk[1] = SubSeq(B, 1, 0)
        BY <1>11, <1>14, <1>17 DEF Pieces
      <4>2. g.disk[1] = Fread(f, FALSE)
        BY <1>3, <1>10
      <4> QED
        BY <1>5, <4>1, <4>2
    <3>3. m = 0
      <4>1. SizeNow(n) = m /\ f.node = n /\ f.at = 0
        BY <1>1, <1>2, <1>3, BlocksSeq DEF SizeNow
      <4>2. Blocks(f.node, version[f.node]) = B /\ ~(SizeNow(f.node) < 0)
        BY <1>1, <4>1
      <4>3. DiskBuffer \in Nat \ {0}
        BY RecordsAssumption
      <4>4. PICK e \in Nat : e = IF f.at + DiskBuffer < m THEN f.at + DiskBuffer ELSE m
        BY <4>1, <4>3
      <4>5. Fread(f, FALSE) = SubSeq(B, 0 + 1, e)
        BY <1>2, <4>1, <4>2, <4>4 DEF Fread
      <4>6. e = 0
        <5>1. 0 <= e /\ e <= m
          BY <4>1, <4>3, <4>4
        <5>2. PICK z \in Nat : z = 0
          OBVIOUS
        <5>3. SubSeq(B, z + 1, e) = <<>> /\ z <= e
          BY <3>2, <4>5, <5>1, <5>2
        <5>4. z = e
          BY <1>2, <1>16, <5>1, <5>3, PartEmpty
        <5> QED
          BY <5>2, <5>4
      <4> QED
        BY <4>1, <4>3, <4>4, <4>6
    <3> QED
      BY <1>15, <1>19, <1>24, <3>3
  <2> QED
    BY <1>2, <1>15, <1>18, <1>19, <1>24, <2>1, <2>2, <2>3 DEF Pieces
<1>29. InOrder(h, n)
  BY <1>1, <1>23, <1>28 DEF InOrder
<1>30. Started(n, failed) = h
  BY <1>3, <1>8, <1>21 DEF Started
<1> QED
  BY <1>29, <1>30

Bytes(n) == {Blocks(n, 0)[i] : i \in DOMAIN Blocks(n, 0)}
Files(n) ==
  [node : {n}, at : Nat, disk : [1..2 -> Seq(Bytes(n))], slot : 1..2, error : BOOLEAN,
   read : Seq(Bytes(n))]

LEMMA InOrderType ==
  ASSUME tree \in Trees, NEW n \in DOMAIN tree, NEW f, InOrder(f, n)
  PROVE  f \in Files(n)
<1>1. PICK B : B = Blocks(n, 0)
  OBVIOUS
<1>2. PICK a \in Nat : \E b \in Nat : Pieces(f, B, a, b)
  BY <1>1 DEF InOrder
<1>3. PICK b \in Nat : Pieces(f, B, a, b)
  BY <1>2
<1>4. PICK m \in Nat : m = Len(B)
  BY <1>1, BlocksSeq
<1>5. PICK S : S = Bytes(n)
  OBVIOUS
<1>6. \A i \in 1..m : B[i] \in S
  BY <1>1, <1>4, <1>5, BlocksSeq, SeqFacts DEF Bytes
<1>7. \A i, j \in Nat : j <= m => SubSeq(B, i + 1, j) \in Seq(S)
  <2>1. ASSUME NEW i \in Nat, NEW j \in Nat, j <= m PROVE SubSeq(B, i + 1, j) \in Seq(S)
    <3>1. \A k \in (i + 1)..j : B[k] \in S
      BY <1>6, <2>1
    <3> QED
      BY <3>1, SubSeqProperties
  <2> QED
    BY <2>1
<1>8. Ring(f, n)
  BY DEF InOrder
<1>9. a <= m /\ b <= m /\ f.at <= m /\ f.at \in Nat
  BY <1>3, <1>4, <1>8 DEF Pieces, Ring
<1>10. f.read \in Seq(S)
  <2>1. PICK z \in Nat : z = 0
    OBVIOUS
  <2>2. SubSeq(B, z + 1, a) \in Seq(S)
    BY <1>7, <1>9
  <2>3. f.read = SubSeq(B, z + 1, a)
    BY <1>3, <2>1 DEF Pieces
  <2> QED
    BY <2>2, <2>3
<1>11. f.disk[f.slot] \in Seq(S) /\ f.disk[3 - f.slot] \in Seq(S)
  BY <1>3, <1>7, <1>9 DEF Pieces
<1>12. f.disk[1] \in Seq(S) /\ f.disk[2] \in Seq(S)
  <2>1. f.slot = 1 \/ f.slot = 2
    BY <1>8 DEF Ring
  <2>2. 3 - 1 = 2 /\ 3 - 2 = 1
    OBVIOUS
  <2> QED
    BY <1>11, <2>1, <2>2
<1>13. f.disk \in [1..2 -> Seq(S)]
  <2>1. \A i \in 1..2 : f.disk[i] \in Seq(S)
    BY <1>12
  <2> QED
    BY <1>8, <2>1 DEF Ring
<1>14. f.at \in Nat /\ f.slot \in 1..2 /\ f.error \in BOOLEAN
  BY <1>8 DEF Ring
<1>15. f = [node |-> n, at |-> f.at, disk |-> f.disk, slot |-> f.slot, error |-> f.error,
            read |-> f.read]
  BY <1>8 DEF Ring
<1>16. f \in [node : {n}, at : Nat, disk : [1..2 -> Seq(S)], slot : 1..2, error : BOOLEAN,
              read : Seq(S)]
  BY <1>10, <1>13, <1>14, <1>15
<1> QED
  BY <1>5, <1>16 DEF Files

\* What is copied goes from the half in use to what was read; the halves
\* change places when it has run out.
LEMMA CopiedInOrder ==
  ASSUME tree \in Trees, NEW n \in DOMAIN tree, NEW g, InOrder(g, n),
         NEW half, half = g.disk[g.slot], half # <<>>,
         NEW k \in Nat, k <= Len(half), k # 0, NEW rest, rest = SubSeq(half, k + 1, Len(half))
  PROVE  InOrder([g EXCEPT !.disk[g.slot] = rest, !.read = @ \o SubSeq(half, 1, k),
                           !.slot = IF rest = <<>> THEN 3 - @ ELSE @], n)
<1>1. PICK B : B = Blocks(n, 0)
  OBVIOUS
<1>2. PICK a \in Nat : \E b \in Nat : Pieces(g, B, a, b)
  BY <1>1 DEF InOrder
<1>3. PICK b \in Nat : Pieces(g, B, a, b)
  BY <1>2
<1>4. Ring(g, n)
  BY DEF InOrder
<1>5. PICK m \in Nat : m = Len(B)
  BY <1>1, BlocksSeq
<1>6. a <= b /\ b <= g.at /\ g.at <= m /\ g.at \in Nat /\ b <= m
  BY <1>3, <1>4, <1>5 DEF Pieces, Ring
<1>7. IsSeq(B)
  BY <1>1, BlocksSeq
<1>8. half = SubSeq(B, a + 1, b)
  BY <1>3 DEF Pieces
<1>9. IsSeq(half) /\ Len(half) = b - a
  BY <1>5, <1>6, <1>7, <1>8, PartLength
<1>10. a + k \in Nat /\ a + k <= b
  BY <1>6, <1>9
<1>11. rest = SubSeq(B, (a + k) + 1, b)
  <2>1. PICK j \in Nat : j = Len(half)
    BY <1>9, SeqFacts
  <2>2. j <= b - a /\ a + j = b /\ k <= j
    BY <1>6, <1>9, <2>1
  <2>3. SubSeq(SubSeq(B, a + 1, b), k + 1, j) = SubSeq(B, (a + k) + 1, a + j)
    BY <1>5, <1>6, <1>7, <2>2, PartOfPart
  <2> QED
    BY <1>8, <2>1, <2>2, <2>3
<1>12. SubSeq(half, 1, k) = SubSeq(B, a + 1, a + k)
  <2>1. PICK z \in Nat : z = 0
    OBVIOUS
  <2>2. z <= k /\ k <= b - a
    BY <1>9, <2>1
  <2>3. SubSeq(SubSeq(B, a + 1, b), z + 1, k) = SubSeq(B, (a + z) + 1, a + k)
    BY <1>5, <1>6, <1>7, <2>2, PartOfPart
  <2> QED
    BY <1>8, <2>1, <2>3
<1>13. g.read = SubSeq(B, 1, a)
  BY <1>3 DEF Pieces
<1>14. g.read \o SubSeq(half, 1, k) = SubSeq(B, 1, a + k)
  <2>1. PICK c \in Nat : c = a + k
    OBVIOUS
  <2>2. a <= c /\ c <= Len(B)
    BY <1>5, <1>6, <1>10, <2>1
  <2>3. SubSeq(B, 1, a) \o SubSeq(B, a + 1, c) = SubSeq(B, 1, c)
    BY <1>7, <2>2, PartsJoin
  <2> QED
    BY <1>12, <1>13, <2>1, <2>3
<1>15. rest = <<>> => a + k = b
  <2>1. PICK c \in Nat : c = a + k
    OBVIOUS
  <2> QED
    BY <1>5, <1>6, <1>7, <1>10, <1>11, <2>1, PartEmpty
<1>16. PICK h : h = [g EXCEPT !.disk[g.slot] = rest, !.read = @ \o SubSeq(half, 1, k),
                              !.slot = IF rest = <<>> THEN 3 - @ ELSE @]
  OBVIOUS
<1>17. PICK read : read = SubSeq(B, 1, a + k)
  OBVIOUS
<1>18. PICK slot : slot = IF rest = <<>> THEN 3 - g.slot ELSE g.slot
  OBVIOUS
<1>19. g.slot \in 1..2 /\ g.error \in BOOLEAN /\ g.disk = [i \in 1..2 |-> g.disk[i]]
  BY <1>4 DEF Ring
<1>20. PICK d : d = [g.disk EXCEPT ![g.slot] = rest]
  OBVIOUS
<1>21. h = [node |-> n, at |-> g.at, disk |-> d, slot |-> slot, error |-> g.error, read |-> read]
  <2>1. PICK at0, disk0, slot0, error0, read0 :
          g = [node |-> n, at |-> at0, disk |-> disk0, slot |-> slot0, error |-> error0,
               read |-> read0]
    BY <1>4 DEF Ring
  <2>2. h = [g EXCEPT !.disk = d, !.read = read, !.slot = slot]
    BY <1>14, <1>16, <1>17, <1>18, <1>20, <2>1
  <2> QED
    BY <2>1, <2>2
<1>22. /\ d = [i \in 1..2 |-> d[i]] /\ d[g.slot] = rest /\ 3 - g.slot \in 1..2
       /\ d[3 - g.slot] = g.disk[3 - g.slot]
  <2>1. 3 - g.slot \in 1..2 /\ 3 - g.slot # g.slot
    BY <1>19
  <2> QED
    BY <1>19, <1>20, <2>1
<1>23. slot \in 1..2
  BY <1>18, <1>19
<1>24. Ring(h, n)
  BY <1>6, <1>19, <1>21, <1>22, <1>23 DEF Ring
<1>25. g.disk[3 - g.slot] = SubSeq(B, b + 1, g.at)
  BY <1>3 DEF Pieces
<1>26. h.at = g.at /\ h.disk = d /\ h.slot = slot /\ h.read = read
  BY <1>21
<1>27. CASE rest = <<>>
  <2>1. a + k = b
    BY <1>15, <1>27
  <2>2. slot = 3 - g.slot /\ 3 - slot = g.slot
    BY <1>18, <1>19, <1>27
  <2>3. h.disk[h.slot] = SubSeq(B, b + 1, g.at) /\ h.disk[3 - h.slot] = <<>>
    BY <1>22, <1>25, <1>26, <1>27, <2>2
  <2>4. SubSeq(B, g.at + 1, g.at) = <<>>
    BY <1>6, SubSeqEmpty
  <2>5. Pieces(h, B, b, g.at)
    BY <1>5, <1>6, <1>17, <1>26, <2>1, <2>3, <2>4 DEF Pieces
  <2> QED
    BY <1>1, <1>6, <1>16, <1>24, <2>5 DEF InOrder
<1>28. CASE rest # <<>>
  <2>1. PICK c \in Nat : c = a + k
    OBVIOUS
  <2>2. slot = g.slot /\ c <= b
    BY <1>10, <1>18, <1>28, <2>1
  <2>3. c # b
    <3>1. SUFFICES ASSUME c = b PROVE FALSE
      OBVIOUS
    <3>2. SubSeq(B, b + 1, b) = <<>>
      BY SubSeqEmpty
    <3> QED
      BY <1>11, <1>28, <2>1, <3>1, <3>2
  <2>4. h.disk[h.slot] = SubSeq(B, c + 1, b) /\ h.disk[3 - h.slot] = SubSeq(B, b + 1, h.at)
    BY <1>11, <1>22, <1>25, <1>26, <2>1, <2>2
  <2>5. Pieces(h, B, c, b)
    BY <1>5, <1>6, <1>17, <1>26, <2>1, <2>2, <2>3, <2>4 DEF Pieces
  <2> QED
    BY <1>1, <1>16, <1>24, <2>5 DEF InOrder
<1> QED
  BY <1>27, <1>28

\* Files in order, of which no less was read than of f.
Later(f, n) == {g \in Files(n) : InOrder(g, n) /\ Len(f.read) <= Len(g.read)}
Rounds(f, n) == {[file |-> g, left |-> k] : g \in Later(f, n), k \in Nat}

LEMMA RoundInOrder ==
  ASSUME tree \in Trees, NEW n \in DOMAIN tree, version[n] = 0, NEW f, InOrder(f, n),
         NEW left \in Nat, NEW size, NEW failed \in BOOLEAN
  PROVE  Round([file |-> f, left |-> left], size, failed) \in Rounds(f, n)
<1> DEFINE s == [file |-> f, left |-> left]
           g == IF f.disk[f.slot] = <<>> THEN Filled(f, f.slot, failed) ELSE f
           half == g.disk[g.slot]
           k == IF Len(half) < left THEN Len(half) ELSE left
           rest == SubSeq(half, k + 1, Len(half))
           copied == [g EXCEPT !.disk[g.slot] = rest, !.read = @ \o SubSeq(half, 1, k),
                               !.slot = IF rest = <<>> THEN 3 - @ ELSE @]
<1>1. s.file = f /\ s.left = left
  OBVIOUS
<1>2. Round(s, size, failed) = IF s.left = 0 \/ Len(f.read) >= size THEN s
                              ELSE IF half = <<>> THEN [file |-> g, left |-> 0]
                              ELSE [file |-> copied, left |-> s.left - k]
  BY DEF Round
<1>3. InOrder(g, n)
  BY FilledInOrder
<1>4. IsSeq(half)
  <2>1. PICK h : h = g
    OBVIOUS
  <2>2. h \in Files(n)
    BY <1>3, <2>1, InOrderType
  <2>3. h.disk[h.slot] \in Seq(Bytes(n))
    BY <2>2 DEF Files
  <2> QED
    BY <2>1, <2>3, SeqIsSeq
<1>8. /\ f.read \in Seq(Bytes(n)) /\ Len(f.read) \in Nat
      /\ g.read = f.read /\ DOMAIN g = {"node", "at", "disk", "slot", "error", "read"}
  <2>1. PICK h : h = g
    OBVIOUS
  <2>2. f \in Files(n) /\ h \in Files(n)
    BY <1>3, <2>1, InOrderType
  <2>3. h.read = f.read
    BY <2>1, <2>2 DEF Filled, Files
  <2>4. DOMAIN h = {"node", "at", "disk", "slot", "error", "read"}
    BY <2>2 DEF Files
  <2>5. f.read \in Seq(Bytes(n))
    BY <2>2 DEF Files
  <2> QED
    BY <2>1, <2>3, <2>4, <2>5, LenProperties
<1> HIDE DEF g
<1>5. CASE left = 0 \/ Len(f.read) >= size
  <2>1. Round(s, size, failed) = [file |-> f, left |-> left] /\ left \in Nat
    BY <1>1, <1>2, <1>5
  <2>2. Len(f.read) <= Len(f.read)
    BY <1>8
  <2>3. f \in Later(f, n)
    BY <2>2, InOrderType DEF Later
  <2> QED
    BY <2>1, <2>3 DEF Rounds
<1>6. CASE ~(left = 0 \/ Len(f.read) >= size) /\ half = <<>>
  <2>1. Round(s, size, failed) = [file |-> g, left |-> 0] /\ 0 \in Nat
    BY <1>1, <1>2, <1>6
  <2>2. Len(f.read) <= Len(g.read)
    BY <1>8
  <2>3. g \in Later(f, n)
    BY <1>3, <2>2, InOrderType DEF Later
  <2> QED
    BY <2>1, <2>3 DEF Rounds
<1>7. CASE ~(left = 0 \/ Len(f.read) >= size) /\ half # <<>>
  <2>1. Len(half) \in Nat \ {0}
    BY <1>4, <1>7, EmptySeq DEF IsSeq
  <2>2. k \in Nat /\ k <= Len(half) /\ k # 0 /\ k <= left
    BY <1>7, <2>1
  <2>3. PICK half1, rest1 : half1 = half /\ rest1 = rest
    OBVIOUS
  <2>8. PICK k1 \in Nat : k1 = k
    BY <2>2
  <2>4. InOrder([g EXCEPT !.disk[g.slot] = rest1, !.read = @ \o SubSeq(half1, 1, k1),
                          !.slot = IF rest1 = <<>> THEN 3 - @ ELSE @], n)
    <3>1. half1 = g.disk[g.slot] /\ half1 # <<>> /\ k1 <= Len(half1) /\ k1 # 0
          /\ rest1 = SubSeq(half1, k1 + 1, Len(half1))
      BY <1>7, <2>2, <2>3, <2>8
    <3> QED
      BY <1>3, <3>1, CopiedInOrder
  <2>5. InOrder(copied, n)
    BY <2>3, <2>4, <2>8
  <2>6. left - k \in Nat
    BY <2>2
  <2>7. Round(s, size, failed) = [file |-> copied, left |-> left - k]
    BY <1>1, <1>2, <1>7
  <2>9. Len(f.read) <= Len(copied.read)
    <3>1. PICK new : new = SubSeq(half, 1, k)
      OBVIOUS
    <3>2. IsSeq(new) /\ Len(new) \in Nat
      <4>1. PICK z \in Nat : z = 0
        OBVIOUS
      <4>2. IsSeq(SubSeq(half, z + 1, k))
        BY <1>4, <2>2, <4>1, PartLength
      <4> QED
        BY <3>1, <4>1, <4>2, SeqFacts
    <3>3. IsSeq(g.read) /\ g.read = f.read
      BY <1>8, SeqIsSeq
    <3>4. Len(g.read \o new) = Len(g.read) + Len(new)
      BY <3>2, <3>3, SeqConcat
    <3>5. copied.read = g.read \o new
      BY <1>8, <3>1
    <3> QED
      BY <1>8, <3>2, <3>3, <3>4, <3>5
  <2> HIDE DEF copied, k
  <2>10. copied \in Later(f, n)
    BY <2>5, <2>9, InOrderType DEF Later
  <2> QED
    BY <2>6, <2>7, <2>10 DEF Rounds
<1> QED
  BY <1>5, <1>6, <1>7

\* read_piece() takes the blocks of a file that has not changed one after the
\* other and leaves the ring in order, wherever a record ends or a read fails.
LEMMA ReadPieceInOrder ==
  ASSUME tree \in Trees, NEW n \in DOMAIN tree, version[n] = 0, NEW f, InOrder(f, n),
         NEW want \in Nat, NEW size, NEW failed \in BOOLEAN
  PROVE  /\ InOrder(ReadPiece(f, want, size, failed), n)
         /\ Len(f.read) <= Len(ReadPiece(f, want, size, failed).read)
<1> DEFINE T == Rounds(f, n)
           a == [file |-> f, left |-> want]
           round(s) == Round(s, size, failed)
           G == [x \in Nat \X T |-> round(x[2])]
           Solves(h) == h = [k \in 0..want |-> IF k = 0 THEN a ELSE round(h[k - 1])]
           after == CHOOSE h : Solves(h)
<1>0. Len(f.read) \in Nat
  BY InOrderType, LenProperties DEF Files
<1>1. a \in T
  BY <1>0, InOrderType DEF Rounds, Later
<1>2. \A s \in T : round(s) \in T
  <2>1. ASSUME NEW s \in T PROVE round(s) \in T
    <3>1. PICK g \in Later(f, n), k \in Nat : s = [file |-> g, left |-> k]
      BY <2>1 DEF Rounds
    <3>2. InOrder(g, n) /\ Len(f.read) <= Len(g.read) /\ g \in Files(n)
      BY <3>1 DEF Later
    <3>3. round(s) \in Rounds(g, n)
      BY <3>1, <3>2, RoundInOrder
    <3>4. Later(g, n) \subseteq Later(f, n)
      <4>1. ASSUME NEW h \in Later(g, n) PROVE h \in Later(f, n)
        <5>1. h \in Files(n) /\ InOrder(h, n) /\ Len(g.read) <= Len(h.read)
          BY <4>1 DEF Later
        <5>2. Len(g.read) \in Nat /\ Len(h.read) \in Nat
          BY <3>2, <5>1, LenProperties DEF Files
        <5> QED
          BY <1>0, <3>2, <5>1, <5>2 DEF Later
      <4> QED
        BY <4>1
    <3> QED
      BY <3>3, <3>4 DEF Rounds
  <2> QED
    BY <2>1
<1>3. \A s \in T : InOrder(s.file, n) /\ Len(f.read) <= Len(s.file.read)
  BY DEF Rounds, Later
<1>4. ReadPiece(f, want, size, failed) = after[want].file
  BY DEF ReadPiece
<1> HIDE DEF T, a, round
<1>5. G \in [Nat \X T -> T] /\ \A k \in Nat, s \in T : G[<<k, s>>] = round(s)
  BY <1>2
<1> HIDE DEF G
<1>6. want \in Nat /\ 0 <= want
  OBVIOUS
<1>7. PICK h \in [0..want -> T] : Recurs(h, a, G, 0, want)
  <2>1. PICK z \in Nat, m \in Nat : z = 0 /\ m = want /\ z <= m
    OBVIOUS
  <2>2. PICK V, e, H : V = T /\ e = a /\ H = G
    OBVIOUS
  <2>3. e \in V /\ H \in [Nat \X V -> V]
    BY <1>1, <1>5, <2>2
  <2>4. \E h \in [z..m -> V] : Recurs(h, e, H, z, m)
    BY <2>1, <2>3, Recursion
  <2> QED
    BY <2>1, <2>2, <2>4
<1>8. Solves(h)
  <2>1. ASSUME NEW k \in 0..want
        PROVE  h[k] = IF k = 0 THEN a ELSE round(h[k - 1])
    <3>1. CASE k = 0
      BY <1>7, <3>1 DEF Recurs
    <3>2. CASE k # 0
      <4>1. k - 1 \in 0..want /\ k \in Nat /\ h[k - 1] \in T
        BY <1>7, <3>2
      <4>2. h[k] = G[<<k, h[k - 1]>>]
        BY <1>7, <3>2 DEF Recurs
      <4> QED
        BY <1>5, <3>2, <4>1, <4>2
    <3> QED
      BY <3>1, <3>2
  <2> QED
    BY <1>7, <2>1
<1>9. Solves(after)
  <2> HIDE DEF Solves
  <2> QED
    BY <1>8
<1> HIDE DEF after
<1>10. \A k \in 0..want : after[k] = IF k = 0 THEN a ELSE round(after[k - 1])
  BY <1>9
<1> DEFINE U == {k \in Nat : k <= want => after[k] \in T}
<1>11. 0 \in U
  BY <1>1, <1>10
<1>12. ASSUME NEW k \in Nat, k \in U PROVE k + 1 \in U
  <2> SUFFICES ASSUME k + 1 <= want PROVE after[k + 1] \in T
    OBVIOUS
  <2>1. after[k] \in T /\ k + 1 \in 0..want /\ k + 1 # 0 /\ (k + 1) - 1 = k
    BY <1>12
  <2>2. after[k + 1] = round(after[k])
    BY <1>10, <2>1
  <2> QED
    BY <1>2, <2>1, <2>2
<1> HIDE DEF U
<1>13. want \in U
  BY <1>11, <1>12, Induct
<1>14. after[want] \in T
  BY <1>13 DEF U
<1> QED
  BY <1>3, <1>4, <1>14

\* Once all of it has been read it is the file as it was selected.
LEMMA WholeIsBlocks ==
  ASSUME tree \in Trees, NEW n \in DOMAIN tree, NEW f, InOrder(f, n),
         Len(f.read) >= tree[n].sizes[1]
  PROVE  f.read = Blocks(n, 0)
<1>1. PICK B : B = Blocks(n, 0)
  OBVIOUS
<1>2. PICK m \in Nat : m = Len(B) /\ m = tree[n].sizes[1]
  BY <1>1, BlocksSeq
<1>3. PICK a \in Nat : \E b \in Nat : Pieces(f, B, a, b)
  BY <1>1 DEF InOrder
<1>4. PICK b \in Nat : Pieces(f, B, a, b)
  BY <1>3
<1>5. f.at \in Nat
  BY DEF InOrder, Ring
<1>6. a <= m /\ f.read = SubSeq(B, 1, a)
  BY <1>2, <1>4, <1>5 DEF Pieces
<1>7. PICK z \in Nat : z = 0
  OBVIOUS
<1>8. IsSeq(B) /\ z <= a
  BY <1>1, <1>7, BlocksSeq
<1>9. Len(SubSeq(B, z + 1, a)) = a - z
  BY <1>2, <1>6, <1>8, PartLength
<1>10. a = m
  <2>1. Len(f.read) = a
    BY <1>6, <1>7, <1>9
  <2> QED
    BY <1>2, <1>6, <2>1
<1>11. SubSeq(B, 1, Len(B)) = B
  BY <1>8, SubSeqFull DEF IsSeq
<1> QED
  BY <1>1, <1>2, <1>6, <1>10, <1>11

-----------------------------------------------------------------------------
(* The names of documents.                                                 *)

IsName(name) == name = <<name[1], name[2], name[3]>> /\ name[2] \in Int /\ name[3] \in Int

Variant(name, k) ==
  IF name[3] < 0 THEN <<name[1], name[2] + k, -1>> ELSE <<name[1], name[2], k>>

\* As there are more names to choose from than documents, one is not taken.
LEMMA NotTaken ==
  ASSUME IsSeq(docs), NEW parent, NEW name, IsName(name)
  PROVE  \E k \in 0..Len(docs) : ~Taken(parent, Variant(name, k))
<1>1. PICK n \in Nat : n = Len(docs) /\ DOMAIN docs = 1..n
  BY SeqFacts
<1> SUFFICES ASSUME \A k \in 0..n : Taken(parent, Variant(name, k)) PROVE FALSE
  BY <1>1
<1> DEFINE of(k) == CHOOSE d \in 1..n : docs[d].name = Variant(name, k)
           f == [k \in 0..n |-> of(k)]
<1>2. \A k \in 0..n : \E d \in 1..n : docs[d].name = Variant(name, k)
  BY <1>1 DEF Taken
<1>3. \A k \in 0..n : of(k) \in 1..n /\ docs[of(k)].name = Variant(name, k)
  BY <1>2
<1> HIDE DEF of
<1>4. PICK A, B : A = 0..n /\ B = 1..n
  OBVIOUS
<1>5. f \in [A -> B]
  BY <1>3, <1>4
<1>6. IsFiniteSet(A) /\ IsFiniteSet(B) /\ Cardinality(B) < Cardinality(A)
  <2>1. PICK z \in Int, o \in Int, m \in Int : z = 0 /\ o = 1 /\ m = n
    OBVIOUS
  <2>2. IsFiniteSet(z..m) /\ Cardinality(z..m) = IF z > m THEN 0 ELSE m - z + 1
    BY FS_Interval
  <2>3. IsFiniteSet(o..m) /\ Cardinality(o..m) = IF o > m THEN 0 ELSE m - o + 1
    BY FS_Interval
  <2>4. z..m = A /\ o..m = B
    BY <1>4, <2>1
  <2>5. Cardinality(A) = n + 1 /\ Cardinality(B) = n
    BY <2>1, <2>2, <2>3, <2>4
  <2> QED
    BY <2>2, <2>3, <2>4, <2>5
<1> HIDE DEF f
<1>7. \E x, y \in A : x # y /\ f[x] = f[y]
  BY <1>5, <1>6, FS_PigeonHole
<1>8. PICK x \in 0..n : \E y \in 0..n : x # y /\ f[x] = f[y]
  BY <1>4, <1>7
<1>9. PICK y \in 0..n : x # y /\ f[x] = f[y]
  BY <1>8
<1>10. Variant(name, x) = Variant(name, y)
  <2>1. f[x] = of(x) /\ f[y] = of(y)
    BY DEF f
  <2> QED
    BY <1>3, <1>9, <2>1
<1>11. name[2] \in Int
  BY DEF IsName
<1>12. CASE name[3] < 0
  <2>1. Variant(name, x)[2] = Variant(name, y)[2]
    BY <1>10
  <2>2. name[2] + x = name[2] + y
    BY <1>12, <2>1 DEF Variant
  <2> QED
    BY <1>9, <1>11, <2>2
<1>13. CASE ~(name[3] < 0)
  <2>1. Variant(name, x)[3] = Variant(name, y)[3]
    BY <1>10
  <2> QED
    BY <1>9, <1>13, <2>1 DEF Variant
<1> QED
  BY <1>12, <1>13

LEMMA UnusedIsVariant ==
  ASSUME IsSeq(docs), NEW parent, NEW name, IsName(name)
  PROVE  \E k \in Nat : Unused(parent, name) = Variant(name, k)
<1>1. PICK n \in Nat : n = Len(docs)
  BY SeqFacts
<1> DEFINE T == {k \in 0..n : ~Taken(parent, Variant(name, k))}
           First(k) == ~Taken(parent, Variant(name, k))
                       /\ \A j \in 0..(k - 1) : Taken(parent, Variant(name, j))
<1>2. T \subseteq Nat /\ T # {}
  BY <1>1, NotTaken
<1>3. PICK k \in T : \A j \in T : k <= j
  <2> HIDE DEF T
  <2> QED
    BY <1>2, LeastExists
<1>4. k \in 0..n /\ First(k)
  <2>1. ASSUME NEW j \in 0..(k - 1) PROVE Taken(parent, Variant(name, j))
    <3>1. j \in 0..n /\ ~(k <= j)
      BY <1>1, <1>3
    <3> QED
      BY <1>3, <3>1
  <2> QED
    BY <1>3, <2>1
<1>5. Unused(parent, name) = Variant(name, CHOOSE i \in 0..n : First(i))
  <2>1. Unused(parent, name) = Variant(name, CHOOSE i \in 0..Len(docs) : First(i))
    BY DEF Unused, Variant
  <2> HIDE DEF First
  <2> QED
    BY <1>1, <2>1
<1> DEFINE c == CHOOSE i \in 0..n : First(i)
<1> HIDE DEF First
<1>6. c \in 0..n
  BY <1>4
<1>7. Unused(parent, name) = Variant(name, c)
  BY <1>5
<1> HIDE DEF c
<1>8. c \in Nat
  BY <1>1, <1>6
<1> QED
  BY <1>7, <1>8

\* A name that is not partial stays what it is but for its suffix, and one
\* that is partial stays so.
LEMMA UnusedName ==
  ASSUME IsSeq(docs), NEW parent, NEW name, IsName(name)
  PROVE  /\ IsName(Unused(parent, name)) /\ Unused(parent, name)[1] = name[1]
         /\ name[3] = -1 => Unused(parent, name)[3] = -1
         /\ name[3] >= 0 => Unused(parent, name)[3] >= 0
<1>1. PICK k \in Nat : Unused(parent, name) = Variant(name, k)
  BY UnusedIsVariant
<1>2. PICK u : u = Unused(parent, name)
  OBVIOUS
<1>3. name[2] \in Int /\ name[3] \in Int
  BY DEF IsName
<1>4. CASE name[3] < 0
  <2>1. u = <<name[1], name[2] + k, -1>>
    BY <1>1, <1>2, <1>4 DEF Variant
  <2>2. u[1] = name[1] /\ u[2] = name[2] + k /\ u[3] = -1
    BY <2>1
  <2>3. IsName(u)
    BY <1>3, <2>1, <2>2 DEF IsName
  <2> QED
    BY <1>2, <1>3, <1>4, <2>2, <2>3
<1>5. CASE ~(name[3] < 0)
  <2>1. u = <<name[1], name[2], k>>
    BY <1>1, <1>2, <1>5 DEF Variant
  <2>2. u[1] = name[1] /\ u[2] = name[2] /\ u[3] = k
    BY <2>1
  <2>3. IsName(u)
    BY <1>3, <2>1, <2>2 DEF IsName
  <2> QED
    BY <1>2, <1>3, <1>5, <2>2, <2>3
<1> QED
  BY <1>4, <1>5

-----------------------------------------------------------------------------
(* The sender.                                                             *)

NameOf(k) == tree[manifest[k].node].name

\* A record names the file it begins, and a checksum is that of the file as it
\* was when it was selected.
Begins(x) ==
  \E k \in Nat : IsFile(k) /\ x.body.file = FileId(k) /\ Last(x.body.path) = NameOf(k)
Finishes(x) ==
  \E k \in Nat : IsFile(k) /\ x.body.file = FileId(k)
                 /\ x.body.crc = Blocks(manifest[k].node, 0)
Truthful(x) == (x.type = "FILE_BEGIN" => Begins(x)) /\ (x.type = "FILE_END" => Finishes(x))
AllTruthful(s) == IsSeq(s) /\ \A i \in 1..Len(s) : Truthful(s[i])

\* The producer q between two records: what it has read of a file that has
\* not changed is in order.
ProducerFields == {"state", "next", "id", "file", "files", "dirs", "total", "finished"}
Reads(q) ==
  q.state = 2 =>
    /\ IsFile(q.next - 1)
    /\ version[manifest[q.next - 1].node] = 0 => InOrder(q.file, manifest[q.next - 1].node)
IsProducer(q) == DOMAIN q = ProducerFields /\ q.next \in Nat \ {0} /\ Reads(q)

SenderInv ==
  /\ tree \in Trees /\ manifest \in Seq(Entries(tree))
  /\ version \in [DOMAIN tree -> Nat]
  /\ IsProducer(p)
  /\ AllTruthful(window) /\ AllTruthful(sent)

LEMMA FileEntry ==
  ASSUME manifest \in Seq(Entries(tree)), NEW k, IsFile(k)
  PROVE  /\ k \in Nat /\ manifest[k].node \in DOMAIN tree
         /\ manifest[k].size = tree[manifest[k].node].sizes[1]
         /\ Last(manifest[k].path) = NameOf(k)
<1>1. k \in 1..Len(manifest) /\ Len(manifest) \in Nat
  BY LenProperties DEF IsFile
<1>2. manifest[k] \in Entries(tree)
  BY <1>1, ElementOfSeq
<1>3. PICK e : e = manifest[k]
  OBVIOUS
<1>4. e.node \in DOMAIN tree /\ IsEntry(tree, e)
  BY <1>2, <1>3 DEF Entries
<1> QED
  BY <1>1, <1>3, <1>4 DEF IsEntry, NameOf

LEMMA TruthfulAppend ==
  ASSUME NEW s, AllTruthful(s), NEW x, Truthful(x)
  PROVE  AllTruthful(Append(s, x))
<1>1. IsSeq(s)
  BY DEF AllTruthful
<1>2. PICK n \in Nat : n = Len(s)
  BY <1>1, SeqFacts
<1>3. PICK t : t = Append(s, x)
  OBVIOUS
<1>4. /\ IsSeq(t) /\ Len(t) = n + 1
      /\ \A i \in 1..(n + 1) : t[i] = IF i = n + 1 THEN x ELSE s[i]
  BY <1>1, <1>2, <1>3, SeqAppend
<1>5. ASSUME NEW i \in 1..(n + 1) PROVE Truthful(t[i])
  <2>1. CASE i = n + 1
    BY <1>4, <2>1
  <2>2. CASE i # n + 1
    <3>1. i \in 1..n /\ t[i] = s[i]
      BY <1>4, <2>2
    <3> QED
      BY <1>2, <3>1 DEF AllTruthful
  <2> QED
    BY <2>1, <2>2
<1> QED
  BY <1>3, <1>4, <1>5 DEF AllTruthful

LEMMA TruthfulConcat ==
  ASSUME NEW s, AllTruthful(s), NEW t, AllTruthful(t)
  PROVE  AllTruthful(s \o t)
<1>1. IsSeq(s) /\ IsSeq(t)
  BY DEF AllTruthful
<1>2. PICK n \in Nat, m \in Nat : n = Len(s) /\ m = Len(t)
  BY <1>1, SeqFacts
<1>3. PICK u : u = s \o t
  OBVIOUS
<1>4. /\ IsSeq(u) /\ Len(u) = n + m
      /\ \A i \in 1..(n + m) : u[i] = IF i <= n THEN s[i] ELSE t[i - n]
  BY <1>1, <1>2, <1>3, SeqConcat
<1>5. ASSUME NEW i \in 1..(n + m) PROVE Truthful(u[i])
  <2>1. CASE i <= n
    <3>1. i \in 1..n /\ u[i] = s[i]
      BY <1>4, <2>1
    <3> QED
      BY <1>2, <3>1 DEF AllTruthful
  <2>2. CASE ~(i <= n)
    <3>1. i - n \in 1..m /\ u[i] = t[i - n]
      BY <1>4, <2>2
    <3> QED
      BY <1>2, <3>1 DEF AllTruthful
  <2> QED
    BY <2>1, <2>2
<1> QED
  BY <1>3, <1>4, <1>5 DEF AllTruthful

LEMMA TruthfulEmpty == AllTruthful(<<>>)
<1>1. PICK s : s = <<>>
  OBVIOUS
<1>2. s \in Seq({}) /\ Len(s) = 0
  BY <1>1, EmptySeq
<1>3. IsSeq(s)
  BY <1>2, SeqIsSeq
<1>4. \A i \in 1..Len(s) : Truthful(s[i])
  BY <1>2
<1> QED
  BY <1>1, <1>3, <1>4 DEF AllTruthful

\* What the manifest says of a record does not change.
LEMMA FilesSame ==
  ASSUME tree' = tree, manifest' = manifest
  PROVE  /\ \A k : IsFile(k)' <=> IsFile(k)
         /\ \A k : FileId(k)' = FileId(k)
         /\ \A k : NameOf(k)' = NameOf(k)
         /\ \A n, v : Blocks(n, v)' = Blocks(n, v)
<1>1. \A k : IsFile(k)' <=> IsFile(k)
  BY DEF IsFile
<1>2. \A k : FileId(k)' = FileId(k)
  BY DEF FileId
<1>3. \A k : NameOf(k)' = NameOf(k)
  BY DEF NameOf
<1>4. \A n, v : Blocks(n, v)' = Blocks(n, v)
  BY DEF Blocks
<1> QED
  BY <1>1, <1>2, <1>3, <1>4

LEMMA TruthfulSame ==
  ASSUME tree' = tree, manifest' = manifest, NEW s, AllTruthful(s)
  PROVE  AllTruthful(s)'
<1>1. ASSUME NEW x, Begins(x) PROVE Begins(x)'
  BY <1>1, FilesSame DEF Begins
<1>2. ASSUME NEW x, Finishes(x) PROVE Finishes(x)'
  BY <1>2, FilesSame DEF Finishes
<1>3. ASSUME NEW x, Truthful(x) PROVE Truthful(x)'
  BY <1>1, <1>2, <1>3 DEF Truthful
<1> QED
  BY <1>3 DEF AllTruthful, IsSeq

LEMMA ProducerSame ==
  ASSUME tree' = tree, manifest' = manifest, version' = version, NEW q, IsProducer(q)
  PROVE  IsProducer(q)'
<1>1. ASSUME NEW f, NEW n, InOrder(f, n) PROVE InOrder(f, n)'
  BY <1>1, FilesSame DEF InOrder, Ring, Pieces
<1> QED
  BY <1>1, FilesSame DEF IsProducer, Reads

LEMMA SenderKeeps ==
  ASSUME SenderInv, tree' = tree, manifest' = manifest, version' = version,
         IsProducer(p'), AllTruthful(window'), AllTruthful(sent')
  PROVE  SenderInv'
<1>1. PICK q, w, s : q = p' /\ w = window' /\ s = sent'
  OBVIOUS
<1>2. IsProducer(q) /\ AllTruthful(w) /\ AllTruthful(s)
  BY <1>1
<1>3. IsProducer(q)' /\ AllTruthful(w)' /\ AllTruthful(s)'
  <2>1. IsProducer(q)'
    BY <1>2, ProducerSame
  <2>2. AllTruthful(w)'
    BY <1>2, TruthfulSame
  <2>3. AllTruthful(s)'
    BY <1>2, TruthfulSame
  <2> QED
    BY <2>1, <2>2, <2>3
<1>4. (tree \in Trees /\ manifest \in Seq(Entries(tree)) /\ version \in [DOMAIN tree -> Nat])'
  BY DEF SenderInv
<1> QED
  BY <1>1, <1>3, <1>4 DEF SenderInv

LEMMA ProducesKeeps ==
  ASSUME SenderInv, NEW type, NEW body, NEW q, IsProducer(q),
         Truthful(Record(type, body)), Produces(type, body, q)
  PROVE  SenderInv'
<1>1. tree' = tree /\ manifest' = manifest /\ version' = version /\ sent' = sent
  BY DEF Produces
<1>2. IsProducer(p')
  <2>1. PICK i : i = q.id + 1
    OBVIOUS
  <2>2. PICK r : r = [q EXCEPT !.id = i]
    OBVIOUS
  <2>3. p' = r
    BY <2>1, <2>2 DEF Produces
  <2>4. DOMAIN q = ProducerFields
    BY DEF IsProducer
  <2>5. DOMAIN r = ProducerFields /\ r.next = q.next /\ r.state = q.state /\ r.file = q.file
    BY <2>2, <2>4 DEF ProducerFields
  <2>6. IsProducer(r)
    BY <2>5 DEF IsProducer, Reads
  <2> QED
    BY <2>3, <2>6
<1>3. AllTruthful(window')
  <2>1. PICK x : x = Record(type, body)
    OBVIOUS
  <2>2. window' = Append(window, x)
    BY <2>1 DEF Produces
  <2>3. AllTruthful(window)
    BY DEF SenderInv
  <2> QED
    BY <2>1, <2>2, <2>3, TruthfulAppend
<1>4. AllTruthful(sent')
  BY <1>1 DEF SenderInv
<1> QED
  BY <1>1, <1>2, <1>3, <1>4, SenderKeeps

LEMMA FailsKeeps ==
  ASSUME SenderInv, Fails
  PROVE  SenderInv'
<1> QED
  BY SenderKeeps, TruthfulEmpty DEF Fails, SenderInv

\* Records of the other types say nothing that could be false.
LEMMA OtherTypes ==
  ASSUME NEW type, type \notin {"FILE_BEGIN", "FILE_END"}, NEW body
  PROVE  Truthful(Record(type, body))
<1> QED
  BY DEF Truthful, Record

LEMMA SessionRecordKeeps ==
  ASSUME SenderInv, SessionRecord
  PROVE  SenderInv'
<1>1. PICK q : q = [p EXCEPT !.state = 1]
  OBVIOUS
<1>2. DOMAIN p = ProducerFields /\ p.next \in Nat \ {0}
  BY DEF SenderInv, IsProducer
<1>3. DOMAIN q = ProducerFields /\ q.state = 1 /\ q.next = p.next
  BY <1>1, <1>2 DEF ProducerFields
<1>4. IsProducer(q)
  BY <1>2, <1>3 DEF IsProducer, Reads
<1>5. Truthful(Record("SESSION", <<>>))
  BY OtherTypes
<1>6. Produces("SESSION", <<>>, q)
  BY <1>1 DEF SessionRecord
<1> QED
  BY <1>4, <1>5, <1>6, ProducesKeeps

LEMMA ManifestRecordKeeps ==
  ASSUME SenderInv, ManifestRecord
  PROVE  SenderInv'
<1>1. PICK e : e = manifest[p.next]
  OBVIOUS
<1>2. PICK body : body = [path |-> e.path, file |-> FileId(p.next), size |-> e.size]
  OBVIOUS
<1>3. PICK q : q = [p EXCEPT !.next = @ + 1]
  OBVIOUS
<1>4. IF e.kind = "dir"
      THEN Produces("DIRECTORY", body, [q EXCEPT !.dirs = @ + 1])
      ELSE IF ~Matches(e.node) THEN Fails
      ELSE \E failed \in BOOLEAN :
             Produces("FILE_BEGIN", body,
               [q EXCEPT !.state = 2, !.files = @ + 1, !.total = (@ + e.size) % Word,
                         !.file = Started(e.node, failed)])
  BY <1>1, <1>2, <1>3 DEF ManifestRecord
<1>5. p.state = 1 /\ ~(p.next > Len(manifest))
  BY DEF ManifestRecord, Closing
<1>6. DOMAIN p = ProducerFields /\ p.next \in Nat \ {0}
  BY DEF SenderInv, IsProducer
<1>7. DOMAIN q = ProducerFields /\ q.state = 1 /\ q.next = p.next + 1
  BY <1>3, <1>5, <1>6 DEF ProducerFields
<1>8. p.next \in 1..Len(manifest) /\ e \in Entries(tree)
  <2>1. manifest \in Seq(Entries(tree)) /\ Len(manifest) \in Nat
    BY LenProperties DEF SenderInv
  <2>2. p.next \in 1..Len(manifest)
    BY <1>5, <1>6, <2>1
  <2> QED
    BY <1>1, <2>1, <2>2, ElementOfSeq
<1>9. CASE e.kind = "dir"
  <2>1. PICK r : r = [q EXCEPT !.dirs = @ + 1]
    OBVIOUS
  <2>2. DOMAIN r = ProducerFields /\ r.state = 1 /\ r.next = p.next + 1
    BY <1>7, <2>1 DEF ProducerFields
  <2>3. IsProducer(r)
    BY <1>6, <2>2 DEF IsProducer, Reads
  <2>4. Produces("DIRECTORY", body, r) /\ Truthful(Record("DIRECTORY", body))
    BY <1>4, <1>9, <2>1, OtherTypes
  <2> QED
    BY <2>3, <2>4, ProducesKeeps
<1>10. CASE e.kind # "dir" /\ ~Matches(e.node)
  BY <1>4, <1>10, FailsKeeps
<1>11. CASE e.kind # "dir" /\ Matches(e.node)
  <2>1. PICK failed \in BOOLEAN :
             Produces("FILE_BEGIN", body,
               [q EXCEPT !.state = 2, !.files = @ + 1, !.total = (@ + e.size) % Word,
                         !.file = Started(e.node, failed)])
    BY <1>4, <1>11
  <2>2. PICK r : r = [q EXCEPT !.state = 2, !.files = @ + 1, !.total = (@ + e.size) % Word,
                               !.file = Started(e.node, failed)]
    OBVIOUS
  <2>3. /\ DOMAIN r = ProducerFields /\ r.state = 2 /\ r.next = p.next + 1
        /\ r.file = Started(e.node, failed)
    BY <1>7, <2>2 DEF ProducerFields
  <2>4. e.kind = "file" /\ e.node \in DOMAIN tree
    BY <1>8, <1>11 DEF Entries
  <2>5. IsFile(p.next) /\ (p.next + 1) - 1 = p.next
    BY <1>1, <1>6, <1>8, <2>4 DEF IsFile
  <2>6. version[e.node] = 0 /\ tree \in Trees
    BY <1>11 DEF Matches, SenderInv
  <2>7. InOrder(r.file, e.node)
    BY <2>3, <2>4, <2>6, StartedInOrder
  <2>8. IsProducer(r)
    <3>1. r.next - 1 = p.next /\ r.next \in Nat \ {0}
      BY <1>6, <2>3
    <3>2. manifest[r.next - 1].node = e.node /\ IsFile(r.next - 1)
      BY <1>1, <2>5, <3>1
    <3> QED
      BY <2>3, <2>7, <3>1, <3>2 DEF IsProducer, Reads
  <2>9. Truthful(Record("FILE_BEGIN", body))
    <3>1. PICK x : x = Record("FILE_BEGIN", body)
      OBVIOUS
    <3>2. x.type = "FILE_BEGIN" /\ x.body.file = FileId(p.next) /\ x.body.path = e.path
      BY <1>2, <3>1 DEF Record
    <3>3. manifest \in Seq(Entries(tree))
      BY DEF SenderInv
    <3>4. PICK k \in Nat : k = p.next
      BY <1>6
    <3>5. IsFile(k) /\ x.body.file = FileId(k) /\ x.body.path = manifest[k].path
      BY <1>1, <2>5, <3>2, <3>4
    <3>6. Last(manifest[k].path) = NameOf(k)
      BY <3>3, <3>5, FileEntry
    <3>7. Begins(x)
      BY <3>5, <3>6 DEF Begins
    <3> QED
      BY <3>1, <3>2, <3>7 DEF Truthful
  <2>10. Produces("FILE_BEGIN", body, r)
    BY <2>1, <2>2
  <2> QED
    BY <2>8, <2>9, <2>10, ProducesKeeps
<1> QED
  BY <1>9, <1>10, <1>11

LEMMA CurrentFile ==
  ASSUME SenderInv, p.state = 2
  PROVE  /\ IsFile(p.next - 1) /\ Current = manifest[p.next - 1]
         /\ Current.node \in DOMAIN tree /\ Current.size = tree[Current.node].sizes[1]
         /\ version[Current.node] = 0 => InOrder(p.file, Current.node)
<1>1. IsProducer(p) /\ manifest \in Seq(Entries(tree))
  BY DEF SenderInv
<1>2. IsFile(p.next - 1)
  BY <1>1 DEF IsProducer, Reads
<1>3. PICK k : k = p.next - 1
  OBVIOUS
<1>4. manifest[k].node \in DOMAIN tree /\ manifest[k].size = tree[manifest[k].node].sizes[1]
  BY <1>1, <1>2, <1>3, FileEntry
<1> QED
  BY <1>1, <1>2, <1>3, <1>4 DEF IsProducer, Reads, Current

LEMMA DataRecordKeeps ==
  ASSUME SenderInv, DataRecord
  PROVE  SenderInv'
<1>1. p.state = 2
  BY DEF DataRecord
<1>2. PICK failed \in BOOLEAN :
        LET f == ReadPiece(p.file, Piece, Current.size, failed)
            new == SubSeq(f.read, Len(p.file.read) + 1, Len(f.read))
        IN IF (new = <<>> \/ f.error) /\ Len(f.read) < Current.size THEN Fails
           ELSE Produces("FILE_DATA",
                  [file |-> FileId(p.next - 1), offset |-> Len(p.file.read), data |-> new],
                  [p EXCEPT !.file = f])
  BY DEF DataRecord
<1>3. PICK f : f = ReadPiece(p.file, Piece, Current.size, failed)
  OBVIOUS
<1>4. PICK body : body = [file |-> FileId(p.next - 1), offset |-> Len(p.file.read),
                          data |-> SubSeq(f.read, Len(p.file.read) + 1, Len(f.read))]
  OBVIOUS
<1>5. PICK q : q = [p EXCEPT !.file = f]
  OBVIOUS
<1>6. Fails \/ Produces("FILE_DATA", body, q)
  BY <1>2, <1>3, <1>4, <1>5
<1>7. DOMAIN p = ProducerFields /\ p.next \in Nat \ {0} /\ tree \in Trees
  BY DEF SenderInv, IsProducer
<1>8. DOMAIN q = ProducerFields /\ q.state = 2 /\ q.next = p.next /\ q.file = f
  BY <1>1, <1>5, <1>7 DEF ProducerFields
<1>9. version[Current.node] = 0 => InOrder(f, Current.node)
  <2> SUFFICES ASSUME version[Current.node] = 0 PROVE InOrder(f, Current.node)
    OBVIOUS
  <2>1. Piece \in Nat
    BY RecordsAssumption
  <2>2. Current.node \in DOMAIN tree /\ InOrder(p.file, Current.node)
    BY <1>1, CurrentFile
  <2> QED
    BY <1>3, <1>7, <2>1, <2>2, ReadPieceInOrder
<1>10. IsProducer(q)
  BY <1>1, <1>7, <1>8, <1>9, CurrentFile DEF IsProducer, Reads
<1>11. Truthful(Record("FILE_DATA", body))
  BY OtherTypes
<1> QED
  BY <1>6, <1>10, <1>11, FailsKeeps, ProducesKeeps

LEMMA EndRecordKeeps ==
  ASSUME SenderInv, EndRecord
  PROVE  SenderInv'
<1>1. p.state = 2 /\ WholeRead
  BY DEF EndRecord
<1>2. PICK n : n = Current.node
  OBVIOUS
<1>3. CASE ~Unchanged(Current.node)
  BY <1>3, FailsKeeps DEF EndRecord
<1>4. CASE Unchanged(Current.node)
  <2>1. PICK body : body = [file |-> FileId(p.next - 1), size |-> Current.size,
                            crc |-> p.file.read]
    OBVIOUS
  <2>2. PICK q : q = [p EXCEPT !.state = 1, !.file = <<>>]
    OBVIOUS
  <2>3. Produces("FILE_END", body, q)
    BY <1>4, <2>1, <2>2 DEF EndRecord
  <2>4. DOMAIN p = ProducerFields /\ p.next \in Nat \ {0} /\ tree \in Trees
    BY DEF SenderInv, IsProducer
  <2>5. DOMAIN q = ProducerFields /\ q.state = 1 /\ q.next = p.next
    BY <2>2, <2>4 DEF ProducerFields
  <2>6. IsProducer(q)
    BY <2>4, <2>5 DEF IsProducer, Reads
  <2>7. p.file.read = Blocks(n, 0)
    <3>1. n \in DOMAIN tree /\ Current.size = tree[n].sizes[1]
      BY <1>1, <1>2, CurrentFile
    <3>2. version[n] = 0
      BY <1>2, <1>4 DEF Unchanged, Matches
    <3>3. InOrder(p.file, n)
      BY <1>1, <1>2, <3>2, CurrentFile
    <3>4. Len(p.file.read) >= tree[n].sizes[1]
      BY <1>1, <3>1 DEF WholeRead
    <3> QED
      BY <2>4, <3>1, <3>3, <3>4, WholeIsBlocks
  <2>8. Truthful(Record("FILE_END", body))
    <3>1. PICK x : x = Record("FILE_END", body)
      OBVIOUS
    <3>2. x.type = "FILE_END" /\ x.body.file = FileId(p.next - 1) /\ x.body.crc = Blocks(n, 0)
      BY <2>1, <2>7, <3>1 DEF Record
    <3>3. PICK k \in Nat : k = p.next - 1
      BY <2>4
    <3>4. IsFile(k) /\ manifest[k].node = n
      BY <1>1, <1>2, <3>3, CurrentFile
    <3>5. Finishes(x)
      BY <3>2, <3>3, <3>4 DEF Finishes
    <3> QED
      BY <3>1, <3>2, <3>5 DEF Truthful
  <2> QED
    BY <2>3, <2>6, <2>8, ProducesKeeps
<1> QED
  BY <1>3, <1>4

LEMMA TransferEndKeeps ==
  ASSUME SenderInv, TransferEnd
  PROVE  SenderInv'
<1>1. PICK body : body = [files |-> p.files, dirs |-> p.dirs, total |-> p.total]
  OBVIOUS
<1>2. PICK q : q = [p EXCEPT !.state = 6]
  OBVIOUS
<1>3. Produces("TRANSFER_END", body, q)
  BY <1>1, <1>2 DEF TransferEnd
<1>4. DOMAIN p = ProducerFields /\ p.next \in Nat \ {0}
  BY DEF SenderInv, IsProducer
<1>5. DOMAIN q = ProducerFields /\ q.state = 6 /\ q.next = p.next
  BY <1>2, <1>4 DEF ProducerFields
<1>6. IsProducer(q)
  BY <1>4, <1>5 DEF IsProducer, Reads
<1>7. Truthful(Record("TRANSFER_END", body))
  BY OtherTypes
<1> QED
  BY <1>3, <1>6, <1>7, ProducesKeeps

LEMMA FinishedKeeps ==
  ASSUME SenderInv, Finished
  PROVE  SenderInv'
<1>1. PICK q : q = [p EXCEPT !.finished = TRUE]
  OBVIOUS
<1>2. p' = q /\ p.state = 6
  BY <1>1 DEF Finished
<1>3. DOMAIN p = ProducerFields /\ p.next \in Nat \ {0}
  BY DEF SenderInv, IsProducer
<1>4. DOMAIN q = ProducerFields /\ q.state = 6 /\ q.next = p.next
  BY <1>1, <1>2, <1>3 DEF ProducerFields
<1>5. IsProducer(p')
  BY <1>2, <1>3, <1>4 DEF IsProducer, Reads
<1>6. AllTruthful(window') /\ AllTruthful(sent')
  BY DEF Finished, SenderInv
<1> QED
  BY <1>5, <1>6, SenderKeeps DEF Finished

LEMMA TransmitKeeps ==
  ASSUME SenderInv, Transmit
  PROVE  SenderInv'
<1>1. AllTruthful(window) /\ AllTruthful(sent) /\ IsProducer(p)
  BY DEF SenderInv
<1>2. AllTruthful(sent')
  <2>1. sent' = sent \o window
    BY DEF Transmit
  <2> QED
    BY <1>1, <2>1, TruthfulConcat
<1>3. AllTruthful(window')
  BY TruthfulEmpty DEF Transmit
<1> QED
  BY <1>1, <1>2, <1>3, SenderKeeps DEF Transmit

\* A file that has changed never is again as it was.
LEMMA ChangeKeeps ==
  ASSUME SenderInv, NEW n \in DOMAIN tree, Change(n)
  PROVE  SenderInv'
<1>1. UNCHANGED <<tree, manifest, p, window, sent>> /\ version' = [version EXCEPT ![n] = @ + 1]
  BY DEF Change
<1>2. version \in [DOMAIN tree -> Nat]
  BY DEF SenderInv
<1>3. version' \in [DOMAIN tree -> Nat] /\ \A m \in DOMAIN tree : version'[m] = 0 => version[m] = 0
  BY <1>1, <1>2
<1>4. AllTruthful(window)' /\ AllTruthful(sent)'
  <2>1. PICK w, s : w = window /\ s = sent /\ w = window' /\ s = sent'
    BY <1>1
  <2>2. AllTruthful(w) /\ AllTruthful(s)
    BY <2>1 DEF SenderInv
  <2>3. AllTruthful(w)'
    BY <1>1, <2>2, TruthfulSame
  <2>4. AllTruthful(s)'
    BY <1>1, <2>2, TruthfulSame
  <2> QED
    BY <2>1, <2>3, <2>4
<1>5. IsProducer(p)'
  <2>1. PICK q : q = p /\ q = p'
    BY <1>1
  <2>2. IsProducer(q)
    BY <2>1 DEF SenderInv
  <2>3. IsProducer(q)'
    <3>1. ASSUME NEW f, NEW m, InOrder(f, m) PROVE InOrder(f, m)'
      BY <1>1, <3>1, FilesSame DEF InOrder, Ring, Pieces
    <3>2. ASSUME q.state = 2
          PROVE  /\ IsFile(q.next - 1)'
                 /\ (version[manifest[q.next - 1].node] = 0
                     => InOrder(q.file, manifest[q.next - 1].node))'
      <4>1. PICK k : k = q.next - 1
        OBVIOUS
      <4>2. IsFile(k) /\ (version[manifest[k].node] = 0 => InOrder(q.file, manifest[k].node))
        BY <2>2, <3>2, <4>1 DEF IsProducer, Reads
      <4>3. IsFile(k)'
        BY <1>1, <4>2, FilesSame
      <4>4. manifest \in Seq(Entries(tree))
        BY DEF SenderInv
      <4>5. manifest[k].node \in DOMAIN tree
        BY <4>2, <4>4, FileEntry
      <4>6. PICK m : m = manifest[k].node
        OBVIOUS
      <4>7. version'[m] = 0 => InOrder(q.file, m)'
        BY <1>3, <3>1, <4>2, <4>5, <4>6
      <4> QED
        BY <1>1, <4>1, <4>3, <4>6, <4>7
    <3> QED
      BY <2>2, <3>2 DEF IsProducer, Reads
  <2> QED
    BY <2>1, <2>3
<1>6. (tree \in Trees /\ manifest \in Seq(Entries(tree)))'
  BY <1>1 DEF SenderInv
<1> QED
  BY <1>1, <1>3, <1>4, <1>5, <1>6 DEF SenderInv

LEMMA ProduceKeeps ==
  ASSUME SenderInv, Produce
  PROVE  SenderInv'
<1> QED
  BY SessionRecordKeeps, ManifestRecordKeeps, DataRecordKeeps, EndRecordKeeps,
     TransferEndKeeps, FinishedKeeps, TransmitKeeps, ChangeKeeps DEF Produce

-----------------------------------------------------------------------------
(* The receiver.                                                           *)

IsDoc(d) == DOMAIN d = {"parent", "name", "kind", "data", "by"} /\ IsName(d.name)
Documents == IsSeq(docs) /\ \A i \in 1..Len(docs) : IsDoc(docs[i])

\* The file that r writes is its own and not yet final, and holds what r has
\* written; its final name is that of the file with its number.
Owns(r, open) ==
  open # NoFile =>
    /\ DOMAIN open = {"id", "size", "written", "final", "doc"}
    /\ open.doc \in 1..Len(docs)
    /\ docs[open.doc].by = r /\ docs[open.doc].name[3] >= 0
    /\ docs[open.doc].data = open.written
    /\ IsName(open.final) /\ open.final[3] = -1
    /\ \E k \in Nat : IsFile(k) /\ open.id = FileId(k) /\ open.final[1] = NameOf(k)

TaskFields ==
  {"pc", "frames", "at", "open", "known", "files", "dirs", "total", "name", "result"}
IsTask(t) ==
  /\ DOMAIN t = TaskFields
  /\ AllTruthful(t.frames) /\ t.at \in 0..Len(t.frames)
  /\ t.pc \in {"dir", "mkdir", "create"} =>
       /\ t.at # Len(t.frames)
       /\ t.frames[t.at + 1].type \in {"DIRECTORY", "FILE_BEGIN"}
  /\ t.pc = "create" =>
       /\ t.frames[t.at + 1].type = "FILE_BEGIN"
       /\ IsName(t.name) /\ t.name[3] = -1
       /\ t.name[1] = Last(t.frames[t.at + 1].body.path)

ReceiverInv ==
  /\ Documents /\ DOMAIN task = Readers
  /\ \A r \in Readers : IsTask(task[r]) /\ Owns(r, task[r].open)

RecordsInv == SenderInv /\ ReceiverInv /\ FinalIsWhole

LEMMA TaskSame ==
  ASSUME tree' = tree, manifest' = manifest, NEW t, IsTask(t)
  PROVE  IsTask(t)'
<1>1. PICK s : s = t.frames
  OBVIOUS
<1>2. AllTruthful(s)'
  BY <1>1, TruthfulSame DEF IsTask
<1> QED
  BY <1>1, <1>2 DEF IsTask, IsName

LEMMA OwnsSame ==
  ASSUME tree' = tree, manifest' = manifest, NEW r, NEW o, Owns(r, o),
         o # NoFile => o.doc \in 1..Len(docs') /\ docs'[o.doc] = docs[o.doc]
  PROVE  Owns(r, o)'
<1> SUFFICES ASSUME o # NoFile PROVE Owns(r, o)'
  BY DEF Owns, NoFile
<1>1. PICK k \in Nat : IsFile(k) /\ o.id = FileId(k) /\ o.final[1] = NameOf(k)
  BY DEF Owns
<1>2. (IsFile(k) /\ o.id = FileId(k) /\ o.final[1] = NameOf(k))'
  BY <1>1, FilesSame
<1> QED
  BY <1>2 DEF Owns, IsName

\* A step of r, which changes no documents of others.
LEMMA ReaderKeeps ==
  ASSUME ReceiverInv, tree' = tree, manifest' = manifest, NEW r \in Readers, NEW t,
         Goes(r, t), IsTask(t), Owns(r, t.open)', Documents',
         \A i \in 1..Len(docs) : docs[i].by # r => i \in 1..Len(docs') /\ docs'[i] = docs[i]
  PROVE  ReceiverInv'
<1>1. DOMAIN task = Readers /\ task' = [task EXCEPT ![r] = t]
  BY DEF ReceiverInv, Goes
<1>2. DOMAIN task' = Readers /\ task'[r] = t
  BY <1>1
<1>3. ASSUME NEW s \in Readers PROVE (IsTask(task[s]) /\ Owns(s, task[s].open))'
  <2>1. CASE s = r
    <3>1. IsTask(t)' /\ Owns(r, t.open)'
      BY TaskSame
    <3>2. PICK u : u = task'[s] /\ u = t
      BY <1>2, <2>1
    <3> QED
      BY <2>1, <3>1, <3>2
  <2>2. CASE s # r
    <3>1. PICK u : u = task[s] /\ u = task'[s]
      BY <1>1, <2>2
    <3>2. IsTask(u) /\ Owns(s, u.open)
      BY <3>1 DEF ReceiverInv
    <3>3. PICK o : o = u.open
      OBVIOUS
    <3>4. Owns(s, o)
      BY <3>2, <3>3
    <3>5. o # NoFile => o.doc \in 1..Len(docs') /\ docs'[o.doc] = docs[o.doc]
      BY <2>2, <3>4 DEF Owns
    <3>6. Owns(s, o)'
      BY <3>4, <3>5, OwnsSame
    <3>7. IsTask(u)'
      BY <3>2, TaskSame
    <3> QED
      BY <3>1, <3>3, <3>6, <3>7
  <2> QED
    BY <2>1, <2>2
<1> QED
  BY <1>2, <1>3 DEF ReceiverInv

\* What FinalIsWhole says of a document.
Whole(d) ==
  d.by # "user" /\ d.kind = "file" /\ d.name[3] < 0 =>
    \E n \in DOMAIN tree : tree[n].name = d.name[1] /\ d.data = Blocks(n, 0)

LEMMA FinalIsWholeDef ==
  FinalIsWhole <=> \A i \in DOMAIN docs : Whole(docs[i])
<1> QED
  BY DEF FinalIsWhole, Whole

LEMMA WholeSame ==
  ASSUME tree' = tree, NEW d, Whole(d)
  PROVE  Whole(d)'
<1> QED
  BY DEF Whole, Blocks

LEMMA DocumentsSame ==
  ASSUME docs' = docs, tree' = tree, ReceiverInv, FinalIsWhole
  PROVE  Documents' /\ FinalIsWhole'
<1>1. \A n : Blocks(n, 0)' = Blocks(n, 0)
  BY DEF Blocks
<1>2. FinalIsWhole'
  BY <1>1 DEF FinalIsWhole
<1>3. Documents'
  BY DEF ReceiverInv, Documents, IsDoc, IsName, IsSeq
<1> QED
  BY <1>2, <1>3

\* A step of r that leaves the documents alone.
LEMMA GoesKeeps ==
  ASSUME ReceiverInv, FinalIsWhole, tree' = tree, manifest' = manifest, docs' = docs,
         NEW r \in Readers, NEW t, Goes(r, t), IsTask(t), Owns(r, t.open)
  PROVE  ReceiverInv' /\ FinalIsWhole'
<1>1. Documents' /\ FinalIsWhole'
  BY DocumentsSame
<1>2. \A i \in 1..Len(docs) : docs[i].by # r => i \in 1..Len(docs') /\ docs'[i] = docs[i]
  OBVIOUS
<1>3. PICK o : o = t.open
  OBVIOUS
<1>4. Owns(r, o)'
  <2>1. o # NoFile => o.doc \in 1..Len(docs') /\ docs'[o.doc] = docs[o.doc]
    BY <1>3 DEF Owns
  <2> QED
    BY <1>3, <2>1, OwnsSame
<1> QED
  BY <1>1, <1>2, <1>3, <1>4, ReaderKeeps

LEMMA IdleTask ==
  /\ DOMAIN Idle = TaskFields /\ Idle.pc = "idle" /\ Idle.at = 0
  /\ Idle.frames = <<>> /\ Idle.open = NoFile
<1> QED
  BY DEF Idle, TaskFields

LEMMA EndsKeeps ==
  ASSUME ReceiverInv, FinalIsWhole, tree' = tree, manifest' = manifest, docs' = docs,
         NEW r \in Readers, NEW result, Ends(r, result)
  PROVE  ReceiverInv' /\ FinalIsWhole'
<1>1. PICK t : t = [Idle EXCEPT !.pc = "done", !.result = result, !.known = task[r].known]
  OBVIOUS
<1>2. /\ DOMAIN t = TaskFields /\ t.pc = "done" /\ t.at = 0 /\ t.frames = <<>>
      /\ t.open = NoFile
  BY <1>1, IdleTask DEF TaskFields
<1>3. IsTask(t)
  <2>1. AllTruthful(t.frames) /\ Len(t.frames) = 0
    BY <1>2, TruthfulEmpty, EmptySeq
  <2> QED
    BY <1>2, <2>1 DEF IsTask
<1>4. Owns(r, t.open)
  BY <1>2 DEF Owns
<1>5. Goes(r, t)
  BY <1>1 DEF Ends
<1> QED
  BY <1>3, <1>4, <1>5, GoesKeeps

LEMMA PressKeeps ==
  ASSUME SenderInv, ReceiverInv, FinalIsWhole, UNCHANGED sender, NEW r \in Readers, Press(r)
  PROVE  ReceiverInv' /\ FinalIsWhole'
<1>1. tree' = tree /\ manifest' = manifest /\ docs' = docs
  BY DEF sender, Press
<1>2. PICK t : t = [Idle EXCEPT !.pc = "next", !.frames = sent]
  OBVIOUS
<1>3. DOMAIN t = TaskFields /\ t.pc = "next" /\ t.at = 0 /\ t.frames = sent /\ t.open = NoFile
  BY <1>2, IdleTask DEF TaskFields
<1>4. AllTruthful(sent) /\ Len(sent) \in Nat
  BY SeqFacts DEF SenderInv, AllTruthful
<1>5. IsTask(t)
  BY <1>3, <1>4 DEF IsTask
<1>6. Owns(r, t.open)
  BY <1>3 DEF Owns
<1>7. Goes(r, t)
  BY <1>2 DEF Press
<1> QED
  BY <1>1, <1>5, <1>6, <1>7, GoesKeeps

\* The record that r has before it.
LEMMA RecFacts ==
  ASSUME ReceiverInv, NEW r \in Readers, NEW t, t = task[r], t.at # Len(t.frames)
  PROVE  /\ Len(t.frames) \in Nat /\ t.at \in Nat /\ t.at + 1 <= Len(t.frames)
         /\ Rec(r) = t.frames[t.at + 1] /\ Truthful(Rec(r))
<1>1. IsTask(t)
  BY DEF ReceiverInv
<1>2. AllTruthful(t.frames) /\ t.at \in 0..Len(t.frames)
  BY <1>1 DEF IsTask
<1>3. Len(t.frames) \in Nat
  BY <1>2, SeqFacts DEF AllTruthful
<1>4. t.at + 1 \in 1..Len(t.frames)
  BY <1>2, <1>3
<1>5. Rec(r) = t.frames[t.at + 1]
  BY DEF Rec
<1> QED
  BY <1>2, <1>3, <1>4, <1>5 DEF AllTruthful

\* A task that goes on to the next frame.
LEMMA OnwardTask ==
  ASSUME NEW t, DOMAIN t = TaskFields, AllTruthful(t.frames), t.at \in Nat,
         Len(t.frames) \in Nat, t.at + 1 <= Len(t.frames)
  PROVE  IsTask(Onward(t)) /\ Onward(t).open = t.open
<1>1. PICK u : u = Onward(t)
  OBVIOUS
<1>2. u = [t EXCEPT !.pc = "next", !.at = @ + 1]
  BY <1>1 DEF Onward
<1>3. /\ DOMAIN u = TaskFields /\ u.pc = "next" /\ u.at = t.at + 1 /\ u.frames = t.frames
      /\ u.open = t.open
  BY <1>2 DEF TaskFields
<1>4. u.at \in 0..Len(u.frames)
  BY <1>3
<1>5. IsTask(u)
  BY <1>3, <1>4 DEF IsTask
<1> QED
  BY <1>1, <1>3, <1>5

LEMMA TakeSessionKeeps ==
  ASSUME ReceiverInv, FinalIsWhole, UNCHANGED sender, NEW r \in Readers,
         task[r].at # Len(task[r].frames), TakeSession(r)
  PROVE  ReceiverInv' /\ FinalIsWhole'
<1>1. tree' = tree /\ manifest' = manifest /\ docs' = docs
  BY DEF sender, TakeSession
<1>2. PICK t : t = task[r]
  OBVIOUS
<1>3. IsTask(t) /\ Owns(r, t.open)
  BY <1>2 DEF ReceiverInv
<1>4. Len(t.frames) \in Nat /\ t.at \in Nat /\ t.at + 1 <= Len(t.frames)
  BY <1>2, RecFacts
<1>5. PICK u : u = Onward(t)
  OBVIOUS
<1>6. IsTask(u) /\ u.open = t.open
  BY <1>3, <1>4, <1>5, OnwardTask DEF IsTask
<1>7. Goes(r, u)
  BY <1>2, <1>5 DEF TakeSession
<1> QED
  BY <1>1, <1>3, <1>6, <1>7, GoesKeeps

LEMMA TakePathKeeps ==
  ASSUME ReceiverInv, FinalIsWhole, UNCHANGED sender, NEW r \in Readers,
         task[r].at # Len(task[r].frames), TakePath(r)
  PROVE  ReceiverInv' /\ FinalIsWhole'
<1>1. tree' = tree /\ manifest' = manifest /\ docs' = docs
  BY DEF sender, TakePath
<1>2. CASE Rec(r).type = "FILE_BEGIN" /\ task[r].open # NoFile
  <2>1. Ends(r, "nested")
    BY <1>2 DEF TakePath
  <2> QED
    BY <1>1, <2>1, EndsKeeps
<1>3. CASE ~(Rec(r).type = "FILE_BEGIN" /\ task[r].open # NoFile)
  <2>1. PICK t : t = task[r]
    OBVIOUS
  <2>2. IsTask(t) /\ Owns(r, t.open)
    BY <2>1 DEF ReceiverInv
  <2>3. PICK u : u = [t EXCEPT !.pc = "dir"]
    OBVIOUS
  <2>4. Goes(r, u)
    BY <1>3, <2>1, <2>3 DEF TakePath
  <2>5. /\ DOMAIN u = TaskFields /\ u.pc = "dir" /\ u.at = t.at /\ u.frames = t.frames
        /\ u.open = t.open
    BY <2>2, <2>3 DEF IsTask, TaskFields
  <2>6. t.frames[t.at + 1].type \in {"DIRECTORY", "FILE_BEGIN"} /\ t.at # Len(t.frames)
    BY <2>1 DEF TakePath, Rec
  <2>7. IsTask(u)
    BY <2>2, <2>5, <2>6 DEF IsTask
  <2> QED
    BY <1>1, <2>2, <2>4, <2>5, <2>7, GoesKeeps
<1> QED
  BY <1>2, <1>3

\* A change of the document that r writes.
LEMMA ChangesOwn ==
  ASSUME ReceiverInv, FinalIsWhole, tree' = tree, manifest' = manifest, NEW r \in Readers,
         NEW i \in 1..Len(docs), docs[i].by = r, NEW x, docs' = [docs EXCEPT ![i] = x],
         IsDoc(x), Whole(x), NEW t, Goes(r, t), IsTask(t), Owns(r, t.open)'
  PROVE  ReceiverInv' /\ FinalIsWhole'
<1>1. IsSeq(docs)
  BY DEF ReceiverInv, Documents
<1>2. PICK n \in Nat : n = Len(docs) /\ DOMAIN docs = 1..n
  BY <1>1, SeqFacts
<1>3. PICK e : e = docs'
  OBVIOUS
<1>4. IsSeq(e) /\ Len(e) = n /\ \A j \in 1..n : e[j] = IF j = i THEN x ELSE docs[j]
  BY <1>1, <1>2, <1>3, SeqExcept
<1>5. Documents'
  <2>1. \A j \in 1..n : IsDoc(e[j])
    BY <1>2, <1>4 DEF ReceiverInv, Documents
  <2> QED
    BY <1>3, <1>4, <2>1 DEF Documents, IsSeq, IsDoc, IsName
<1>6. \A j \in 1..Len(docs) : docs[j].by # r => j \in 1..Len(docs') /\ docs'[j] = docs[j]
  BY <1>2, <1>3, <1>4
<1>7. FinalIsWhole'
  <2>1. ASSUME NEW j \in 1..n PROVE Whole(e[j])'
    <3>1. Whole(e[j])
      <4>1. CASE j = i
        BY <1>4, <4>1
      <4>2. CASE j # i
        BY <1>2, <1>4, <4>2, FinalIsWholeDef
      <4> QED
        BY <4>1, <4>2
    <3>2. PICK d : d = e[j]
      OBVIOUS
    <3>3. Whole(d)'
      BY <3>1, <3>2, WholeSame
    <3> QED
      BY <3>2, <3>3
  <2>2. DOMAIN e = 1..n
    BY <1>4, SeqFacts
  <2> QED
    BY <1>3, <2>1, <2>2 DEF FinalIsWhole, Whole
<1> QED
  BY <1>5, <1>6, <1>7, ReaderKeeps

LEMMA TakeDataKeeps ==
  ASSUME ReceiverInv, FinalIsWhole, UNCHANGED sender, NEW r \in Readers,
         task[r].at # Len(task[r].frames), TakeData(r)
  PROVE  ReceiverInv' /\ FinalIsWhole'
<1>1. tree' = tree /\ manifest' = manifest
  BY DEF sender
<1>2. PICK t, o : t = task[r] /\ o = task[r].open
  OBVIOUS
<1>3. PICK data : data = Rec(r).body.data
  OBVIOUS
<1>4. CASE Ends(r, "gap") /\ docs' = docs
  BY <1>1, <1>4, EndsKeeps
<1>5. CASE ~(Ends(r, "gap") /\ docs' = docs)
  <2>1. /\ o # NoFile /\ docs' = [docs EXCEPT ![o.doc].data = @ \o data]
        /\ Goes(r, Onward([t EXCEPT !.open.written = @ \o data, !.total = @ + Len(data)]))
    BY <1>2, <1>3, <1>5 DEF TakeData
  <2>2. IsTask(t) /\ Owns(r, o)
    BY <1>2 DEF ReceiverInv
  <2>3. PICK i \in 1..Len(docs) : i = o.doc
    BY <2>1, <2>2 DEF Owns
  <2>4. /\ DOMAIN o = {"id", "size", "written", "final", "doc"}
        /\ docs[i].by = r /\ docs[i].name[3] >= 0 /\ docs[i].data = o.written
    BY <2>1, <2>2, <2>3 DEF Owns
  <2>5. PICK all : all = o.written \o data
    OBVIOUS
  <2>6. PICK x : x = [docs[i] EXCEPT !.data = all]
    OBVIOUS
  <2>7. docs' = [docs EXCEPT ![i] = x]
    BY <2>1, <2>3, <2>4, <2>5, <2>6
  <2>8. IsDoc(docs[i])
    BY DEF ReceiverInv, Documents
  <2>9. /\ DOMAIN x = {"parent", "name", "kind", "data", "by"}
        /\ x.name = docs[i].name /\ x.by = r /\ x.data = all
    BY <2>4, <2>6, <2>8 DEF IsDoc
  <2>10. IsDoc(x)
    BY <2>8, <2>9 DEF IsDoc
  <2>11. Whole(x)
    <3>1. x.name[3] \in Int
      BY <2>10 DEF IsDoc, IsName
    <3> QED
      BY <2>4, <2>9, <3>1 DEF Whole
  <2>12. PICK q : q = [o EXCEPT !.written = all]
    OBVIOUS
  <2>13. PICK total : total = t.total + Len(data)
    OBVIOUS
  <2>14. PICK u : u = [t EXCEPT !.open = q, !.total = total]
    OBVIOUS
  <2>15. DOMAIN t = TaskFields
    BY <2>2 DEF IsTask
  <2>16. u = [t EXCEPT !.open.written = @ \o data, !.total = @ + Len(data)]
    BY <1>2, <2>5, <2>12, <2>13, <2>14, <2>15 DEF TaskFields
  <2>17. /\ DOMAIN u = TaskFields /\ u.open = q /\ u.at = t.at /\ u.frames = t.frames
    BY <2>14, <2>15 DEF TaskFields
  <2>18. Len(t.frames) \in Nat /\ t.at \in Nat /\ t.at + 1 <= Len(t.frames)
    BY <1>2, RecFacts
  <2>19. AllTruthful(u.frames)
    BY <2>2, <2>17 DEF IsTask
  <2>20. PICK v : v = Onward(u)
    OBVIOUS
  <2>21. IsTask(v) /\ v.open = q
    BY <2>17, <2>18, <2>19, <2>20, OnwardTask
  <2>22. Owns(r, q)'
    <3>1. /\ DOMAIN q = {"id", "size", "written", "final", "doc"}
          /\ q.id = o.id /\ q.final = o.final /\ q.doc = i /\ q.written = all
      BY <2>3, <2>4, <2>12
    <3>2. PICK k \in Nat : IsFile(k) /\ o.id = FileId(k) /\ o.final[1] = NameOf(k)
      BY <2>1, <2>2 DEF Owns
    <3>3. (IsFile(k) /\ q.id = FileId(k) /\ q.final[1] = NameOf(k))'
      BY <1>1, <3>1, <3>2, FilesSame
    <3>4. IsName(q.final) /\ q.final[3] = -1
      BY <2>1, <2>2, <3>1 DEF Owns
    <3>5. PICK e : e = docs'
      OBVIOUS
    <3>6. IsSeq(docs)
      BY DEF ReceiverInv, Documents
    <3>7. Len(e) = Len(docs) /\ e[i] = x
      BY <2>7, <3>5, <3>6, SeqExcept
    <3>8. i \in 1..Len(e) /\ e[i].by = r /\ e[i].name[3] >= 0 /\ e[i].data = q.written
      BY <2>4, <2>9, <3>1, <3>7
    <3> QED
      BY <3>1, <3>3, <3>4, <3>5, <3>8 DEF Owns, IsName
  <2>23. Goes(r, v)
    BY <2>1, <2>16, <2>20
  <2>24. Owns(r, v.open)'
    BY <2>21, <2>22
  <2> QED
    BY <1>1, <2>4, <2>7, <2>10, <2>11, <2>21, <2>23, <2>24, ChangesOwn
<1> QED
  BY <1>4, <1>5

LEMMA TakeEndKeeps ==
  ASSUME SenderInv, ReceiverInv, FinalIsWhole, UNCHANGED sender, NEW r \in Readers,
         task[r].at # Len(task[r].frames), TakeEnd(r)
  PROVE  ReceiverInv' /\ FinalIsWhole'
<1>1. tree' = tree /\ manifest' = manifest
  BY DEF sender
<1>2. PICK t, o : t = task[r] /\ o = task[r].open
  OBVIOUS
<1>3. PICK body : body = Rec(r).body
  OBVIOUS
<1>4. CASE Ends(r, "mismatch") /\ docs' = docs
  BY <1>1, <1>4, EndsKeeps
<1>5. CASE ~(Ends(r, "mismatch") /\ docs' = docs)
  <2>1. /\ o # NoFile /\ o.id = body.file /\ o.written = body.crc
        /\ docs' = [docs EXCEPT ![o.doc].name = Granted(docs[o.doc].parent, o.final)]
        /\ Goes(r, Onward([t EXCEPT !.open = NoFile, !.files = @ + 1]))
    BY <1>2, <1>3, <1>5 DEF TakeEnd
  <2>2. IsTask(t) /\ Owns(r, o)
    BY <1>2 DEF ReceiverInv
  <2>3. PICK i \in 1..Len(docs) : i = o.doc
    BY <2>1, <2>2 DEF Owns
  <2>4. /\ docs[i].by = r /\ docs[i].data = o.written
        /\ IsName(o.final) /\ o.final[3] = -1
    BY <2>1, <2>2, <2>3 DEF Owns
  <2>5. PICK name : name = Granted(docs[i].parent, o.final)
    OBVIOUS
  <2>6. PICK x : x = [docs[i] EXCEPT !.name = name]
    OBVIOUS
  <2>7. docs' = [docs EXCEPT ![i] = x]
    BY <2>1, <2>3, <2>5, <2>6
  <2>8. IsDoc(docs[i]) /\ IsSeq(docs)
    BY DEF ReceiverInv, Documents
  <2>9. IsName(name) /\ name[1] = o.final[1]
    <3>1. PICK parent : parent = docs[i].parent
      OBVIOUS
    <3>2. name = Unused(parent, o.final)
      BY <2>5, <3>1 DEF Granted
    <3> QED
      BY <2>4, <2>8, <3>2, UnusedName
  <2>10. /\ DOMAIN x = {"parent", "name", "kind", "data", "by"}
         /\ x.name = name /\ x.data = docs[i].data
    BY <2>6, <2>8 DEF IsDoc
  <2>11. IsDoc(x)
    BY <2>9, <2>10 DEF IsDoc
  <2>12. PICK k \in Nat : IsFile(k) /\ o.id = FileId(k) /\ o.final[1] = NameOf(k)
    BY <2>1, <2>2 DEF Owns
  <2>13. PICK j \in Nat : /\ IsFile(j) /\ body.file = FileId(j)
                          /\ body.crc = Blocks(manifest[j].node, 0)
    <3>1. Truthful(Rec(r)) /\ Rec(r).type = "FILE_END"
      BY RecFacts DEF TakeEnd
    <3> QED
      BY <1>3, <3>1 DEF Truthful, Finishes
  <2>14. manifest \in Seq(Entries(tree)) /\ Len(manifest) \in Nat
    BY LenProperties DEF SenderInv
  <2>15. j = k
    BY <2>1, <2>12, <2>13, <2>14, FileIdInjective
  <2>16. Whole(x)
    <3>1. PICK n : n = manifest[k].node
      OBVIOUS
    <3>2. n \in DOMAIN tree
      BY <2>12, <2>14, <3>1, FileEntry
    <3>3. tree[n].name = x.name[1] /\ x.data = Blocks(n, 0)
      BY <2>1, <2>4, <2>9, <2>10, <2>12, <2>13, <2>15, <3>1 DEF NameOf
    <3> QED
      BY <3>2, <3>3 DEF Whole
  <2>17. PICK u : u = [t EXCEPT !.open = NoFile, !.files = @ + 1]
    OBVIOUS
  <2>18. DOMAIN u = TaskFields /\ u.open = NoFile /\ u.at = t.at /\ u.frames = t.frames
    BY <2>2, <2>17 DEF IsTask, TaskFields
  <2>19. Len(t.frames) \in Nat /\ t.at \in Nat /\ t.at + 1 <= Len(t.frames)
    BY <1>2, RecFacts
  <2>20. AllTruthful(u.frames)
    BY <2>2, <2>18 DEF IsTask
  <2>21. PICK v : v = Onward(u)
    OBVIOUS
  <2>22. IsTask(v) /\ v.open = NoFile
    BY <2>18, <2>19, <2>20, <2>21, OnwardTask
  <2>23. Goes(r, v)
    BY <2>1, <2>17, <2>21
  <2>24. Owns(r, v.open)'
    BY <2>22 DEF Owns, NoFile
  <2> QED
    BY <1>1, <2>4, <2>7, <2>11, <2>16, <2>22, <2>23, <2>24, ChangesOwn
<1> QED
  BY <1>4, <1>5

LEMMA TakeKeeps ==
  ASSUME SenderInv, ReceiverInv, FinalIsWhole, UNCHANGED sender, NEW r \in Readers, Take(r)
  PROVE  ReceiverInv' /\ FinalIsWhole'
<1>1. tree' = tree /\ manifest' = manifest
  BY DEF sender
<1>2. CASE docs' = docs /\ \E result : Ends(r, result)
  BY <1>1, <1>2, EndsKeeps
<1>3. CASE /\ task[r].at # Len(task[r].frames)
           /\ TakeSession(r) \/ TakePath(r) \/ TakeData(r) \/ TakeEnd(r)
  BY <1>3, TakeSessionKeeps, TakePathKeeps, TakeDataKeeps, TakeEndKeeps
<1>4. CASE TakeSummary(r)
  <2>1. docs' = docs /\ \E result : Ends(r, result)
    BY <1>4 DEF TakeSummary
  <2> QED
    BY <1>1, <2>1, EndsKeeps
<1> QED
  BY <1>2, <1>3, <1>4 DEF Take

\* A task with other folders known, counters or position within the record.
LEMMA SameRecordTask ==
  ASSUME NEW t, IsTask(t), t.pc \in {"dir", "mkdir"}, NEW u, DOMAIN u = TaskFields,
         u.pc \in {"dir", "mkdir"}, u.frames = t.frames, u.at = t.at
  PROVE  IsTask(u)
<1> QED
  BY DEF IsTask

LEMMA KnowsKeeps ==
  ASSUME NEW r \in Readers, IsTask(task[r]), task[r].pc \in {"dir", "mkdir"}, NEW d
  PROVE  IsTask(Knows(r, d)) /\ Knows(r, d).open = task[r].open
<1>1. PICK t, known : /\ t = task[r]
                      /\ known = Known(t.known, SubSeq(Folder(r), 1, NextPart(r)), d)
  OBVIOUS
<1>2. PICK u : u = [t EXCEPT !.pc = "dir", !.known = known]
  OBVIOUS
<1>3. Knows(r, d) = u
  BY <1>1, <1>2 DEF Knows
<1>4. DOMAIN t = TaskFields
  BY <1>1 DEF IsTask
<1>5. /\ DOMAIN u = TaskFields /\ u.pc = "dir" /\ u.frames = t.frames /\ u.at = t.at
      /\ u.open = t.open
  BY <1>2, <1>4 DEF TaskFields
<1>6. IsTask(u)
  BY <1>1, <1>5, SameRecordTask
<1> QED
  BY <1>1, <1>3, <1>5, <1>6

LEMMA FindKeeps ==
  ASSUME ReceiverInv, FinalIsWhole, UNCHANGED sender, NEW r \in Readers, Find(r)
  PROVE  ReceiverInv' /\ FinalIsWhole'
<1>1. tree' = tree /\ manifest' = manifest /\ docs' = docs
  BY DEF sender, Find
<1>2. PICK t : t = task[r]
  OBVIOUS
<1>3. IsTask(t) /\ Owns(r, t.open) /\ t.pc = "dir" /\ DOMAIN t = TaskFields
  BY <1>2 DEF ReceiverInv, Find, At, IsTask
<1>4. PICK found : found = {d \in DOMAIN docs : docs[d].parent = Above(r)
                                               /\ docs[d].name = Final(Folder(r)[NextPart(r)])}
  OBVIOUS
<1>5. PICK in : in = t.known[Folder(r)]
  OBVIOUS
<1>6. IF Unknown(r) # {}
      THEN IF found = {} THEN Goes(r, [t EXCEPT !.pc = "mkdir"])
           ELSE Goes(r, Knows(r, CHOOSE d \in found : TRUE))
      ELSE IF Rec(r).type = "DIRECTORY"
      THEN Goes(r, Onward([t EXCEPT !.dirs = @ + 1]))
      ELSE Goes(r, [t EXCEPT !.pc = "create",
                             !.name = Unused(in, Final(Last(Rec(r).body.path)))])
  BY <1>2, <1>4, <1>5 DEF Find
<1>7. CASE Goes(r, [t EXCEPT !.pc = "mkdir"])
  <2>1. PICK u : u = [t EXCEPT !.pc = "mkdir"]
    OBVIOUS
  <2>2. /\ DOMAIN u = TaskFields /\ u.pc = "mkdir" /\ u.frames = t.frames /\ u.at = t.at
        /\ u.open = t.open
    BY <1>3, <2>1 DEF TaskFields
  <2>3. IsTask(u)
    BY <1>3, <2>2, SameRecordTask
  <2> QED
    BY <1>1, <1>3, <1>7, <2>1, <2>2, <2>3, GoesKeeps
<1>8. CASE Goes(r, Knows(r, CHOOSE d \in found : TRUE))
  <2>1. PICK d, u : d = (CHOOSE e \in found : TRUE) /\ u = Knows(r, d)
    OBVIOUS
  <2>2. IsTask(u) /\ u.open = t.open
    BY <1>2, <1>3, <2>1, KnowsKeeps
  <2>3. Goes(r, u)
    BY <1>8, <2>1
  <2> QED
    BY <1>1, <1>3, <2>2, <2>3, GoesKeeps
<1>9. Len(t.frames) \in Nat /\ t.at \in Nat /\ t.at + 1 <= Len(t.frames)
      /\ Rec(r) = t.frames[t.at + 1] /\ Truthful(Rec(r)) /\ t.at # Len(t.frames)
  <2>1. t.at # Len(t.frames)
    BY <1>3 DEF IsTask
  <2> QED
    BY <1>2, <2>1, RecFacts
<1>10. CASE Goes(r, Onward([t EXCEPT !.dirs = @ + 1]))
  <2>1. PICK u : u = [t EXCEPT !.dirs = @ + 1]
    OBVIOUS
  <2>2. DOMAIN u = TaskFields /\ u.frames = t.frames /\ u.at = t.at /\ u.open = t.open
    BY <1>3, <2>1 DEF TaskFields
  <2>3. AllTruthful(u.frames)
    BY <1>3, <2>2 DEF IsTask
  <2>4. PICK v : v = Onward(u)
    OBVIOUS
  <2>5. IsTask(v) /\ v.open = t.open
    BY <1>9, <2>2, <2>3, <2>4, OnwardTask
  <2>6. Goes(r, v)
    BY <1>10, <2>1, <2>4
  <2> QED
    BY <1>1, <1>3, <2>5, <2>6, GoesKeeps
<1>11. CASE /\ Rec(r).type # "DIRECTORY"
            /\ Goes(r, [t EXCEPT !.pc = "create",
                                 !.name = Unused(in, Final(Last(Rec(r).body.path)))])
  <2>1. PICK last : last = Last(Rec(r).body.path)
    OBVIOUS
  <2>2. PICK f : f = Final(last)
    OBVIOUS
  <2>3. f = <<last, 0, -1>>
    BY <2>2 DEF Final
  <2>4. IsName(f) /\ f[3] = -1 /\ f[1] = last
    BY <2>3 DEF IsName
  <2>5. PICK name : name = Unused(in, f)
    OBVIOUS
  <2>6. IsSeq(docs)
    BY DEF ReceiverInv, Documents
  <2>7. IsName(name) /\ name[3] = -1 /\ name[1] = last
    BY <2>4, <2>5, <2>6, UnusedName
  <2>8. PICK u : u = [t EXCEPT !.pc = "create", !.name = name]
    OBVIOUS
  <2>9. /\ DOMAIN u = TaskFields /\ u.pc = "create" /\ u.name = name
        /\ u.frames = t.frames /\ u.at = t.at /\ u.open = t.open
    BY <1>3, <2>8 DEF TaskFields
  <2>10. u.frames[u.at + 1] = Rec(r) /\ Rec(r).type = "FILE_BEGIN"
    BY <1>3, <1>9, <1>11, <2>9 DEF IsTask
  <2>11. IsTask(u)
    BY <1>3, <2>1, <2>7, <2>9, <2>10 DEF IsTask
  <2>12. Goes(r, u)
    BY <1>11, <2>1, <2>2, <2>5, <2>8
  <2> QED
    BY <1>1, <1>3, <2>9, <2>11, <2>12, GoesKeeps
<1> QED
  BY <1>6, <1>7, <1>8, <1>10, <1>11

\* A document that r makes.
LEMMA MakesOwn ==
  ASSUME ReceiverInv, FinalIsWhole, tree' = tree, manifest' = manifest, NEW r \in Readers,
         NEW x, docs' = Append(docs, x), IsDoc(x), Whole(x),
         NEW t, Goes(r, t), IsTask(t), Owns(r, t.open)'
  PROVE  ReceiverInv' /\ FinalIsWhole'
<1>1. IsSeq(docs)
  BY DEF ReceiverInv, Documents
<1>2. PICK n \in Nat : n = Len(docs) /\ DOMAIN docs = 1..n
  BY <1>1, SeqFacts
<1>3. PICK e : e = docs'
  OBVIOUS
<1>4. /\ IsSeq(e) /\ Len(e) = n + 1
      /\ \A j \in 1..(n + 1) : e[j] = IF j = n + 1 THEN x ELSE docs[j]
  BY <1>1, <1>2, <1>3, SeqAppend
<1>5. \A j \in 1..n : j \in 1..(n + 1) /\ e[j] = docs[j]
  BY <1>4
<1>6. \A j \in 1..(n + 1) : j \in 1..n \/ e[j] = x
  BY <1>4
<1>7. Documents'
  <2>1. \A j \in 1..(n + 1) : IsDoc(e[j])
    BY <1>2, <1>5, <1>6 DEF ReceiverInv, Documents
  <2> QED
    BY <1>3, <1>4, <2>1 DEF Documents, IsSeq, IsDoc, IsName
<1>8. \A j \in 1..Len(docs) : docs[j].by # r => j \in 1..Len(docs') /\ docs'[j] = docs[j]
  BY <1>2, <1>3, <1>4, <1>5
<1>9. FinalIsWhole'
  <2>1. ASSUME NEW j \in 1..(n + 1) PROVE Whole(e[j])'
    <3>1. Whole(e[j])
      BY <1>2, <1>5, <1>6, FinalIsWholeDef
    <3>2. PICK d : d = e[j]
      OBVIOUS
    <3>3. Whole(d)'
      BY <3>1, <3>2, WholeSame
    <3> QED
      BY <3>2, <3>3
  <2>2. DOMAIN e = 1..(n + 1)
    BY <1>4, SeqFacts
  <2> QED
    BY <1>3, <2>1, <2>2 DEF FinalIsWhole, Whole
<1> QED
  BY <1>7, <1>8, <1>9, ReaderKeeps

LEMMA MakeFolderKeeps ==
  ASSUME ReceiverInv, FinalIsWhole, UNCHANGED sender, NEW r \in Readers, MakeFolder(r)
  PROVE  ReceiverInv' /\ FinalIsWhole'
<1>1. tree' = tree /\ manifest' = manifest
  BY DEF sender
<1>2. CASE Ends(r, "storage") /\ docs' = docs
  BY <1>1, <1>2, EndsKeeps
<1>3. CASE ~(Ends(r, "storage") /\ docs' = docs)
  <2>1. PICK parent, f : parent = Above(r) /\ f = Final(Folder(r)[NextPart(r)])
    OBVIOUS
  <2>2. Creates(r, parent, f, "dir") /\ Goes(r, Knows(r, Len(docs) + 1))
    BY <1>3, <2>1 DEF MakeFolder
  <2>3. PICK name : name = Granted(parent, f)
    OBVIOUS
  <2>4. PICK x : x = Doc(parent, name, "dir", r)
    OBVIOUS
  <2>5. docs' = Append(docs, x)
    BY <2>2, <2>3, <2>4 DEF Creates
  <2>6. IsSeq(docs)
    BY DEF ReceiverInv, Documents
  <2>7. IsName(f)
    <3>1. PICK part : part = Folder(r)[NextPart(r)]
      OBVIOUS
    <3>2. f = <<part, 0, -1>>
      BY <2>1, <3>1 DEF Final
    <3> QED
      BY <3>2 DEF IsName
  <2>8. IsName(name)
    BY <2>3, <2>6, <2>7, UnusedName DEF Granted
  <2>9. x = [parent |-> parent, name |-> name, kind |-> "dir", data |-> <<>>, by |-> r]
    BY <2>4 DEF Doc
  <2>10. IsDoc(x) /\ Whole(x)
    BY <2>8, <2>9 DEF IsDoc, Whole
  <2>11. IsTask(task[r]) /\ task[r].pc = "mkdir" /\ Owns(r, task[r].open)
    BY DEF ReceiverInv, MakeFolder, At
  <2>12. PICK d, u, o : d = Len(docs) + 1 /\ u = Knows(r, d) /\ o = task[r].open
    OBVIOUS
  <2>13. IsTask(u) /\ u.open = o
    BY <2>11, <2>12, KnowsKeeps
  <2>14. Owns(r, o)'
    <3>1. PICK n \in Nat : n = Len(docs)
      BY <2>6, SeqFacts
    <3>2. /\ Len(docs') = n + 1
          /\ \A j \in 1..(n + 1) : docs'[j] = IF j = n + 1 THEN x ELSE docs[j]
      BY <2>5, <2>6, <3>1, SeqAppend
    <3>3. o # NoFile => o.doc \in 1..n
      BY <2>11, <2>12, <3>1 DEF Owns
    <3>4. o # NoFile => o.doc \in 1..Len(docs') /\ docs'[o.doc] = docs[o.doc]
      BY <3>2, <3>3
    <3> QED
      BY <1>1, <2>11, <2>12, <3>4, OwnsSame
  <2>15. Goes(r, u)
    BY <2>2, <2>12
  <2> QED
    BY <1>1, <2>5, <2>10, <2>13, <2>14, <2>15, MakesOwn
<1> QED
  BY <1>2, <1>3

LEMMA CreateFileKeeps ==
  ASSUME ReceiverInv, FinalIsWhole, UNCHANGED sender, NEW r \in Readers, CreateFile(r)
  PROVE  ReceiverInv' /\ FinalIsWhole'
<1>1. tree' = tree /\ manifest' = manifest
  BY DEF sender
<1>2. CASE Ends(r, "storage") /\ docs' = docs
  BY <1>1, <1>2, EndsKeeps
<1>3. CASE ~(Ends(r, "storage") /\ docs' = docs)
  <2>1. PICK t, body, in : t = task[r] /\ body = Rec(r).body /\ in = task[r].known[Folder(r)]
    OBVIOUS
  <2>2. PICK name, n : name = t.name /\ n = Len(docs)
    OBVIOUS
  <2>3. PICK o : o = [id |-> body.file, size |-> body.size, written |-> <<>>,
                      final |-> name, doc |-> n + 1]
    OBVIOUS
  <2>4. /\ Creates(r, in, <<name[1], name[2], 0>>, "file")
        /\ Goes(r, Onward([t EXCEPT !.open = o]))
    BY <1>3, <2>1, <2>2, <2>3 DEF CreateFile
  <2>5. IsTask(t) /\ t.pc = "create" /\ DOMAIN t = TaskFields
    BY <2>1 DEF ReceiverInv, CreateFile, At, IsTask
  <2>6. /\ t.at # Len(t.frames) /\ t.frames[t.at + 1].type = "FILE_BEGIN"
        /\ IsName(name) /\ name[3] = -1 /\ name[1] = Last(t.frames[t.at + 1].body.path)
    BY <2>2, <2>5 DEF IsTask
  <2>7. /\ Len(t.frames) \in Nat /\ t.at \in Nat /\ t.at + 1 <= Len(t.frames)
        /\ Rec(r) = t.frames[t.at + 1] /\ Truthful(Rec(r))
    BY <2>1, <2>6, RecFacts
  <2>8. IsSeq(docs) /\ n \in Nat
    BY <2>2, SeqFacts DEF ReceiverInv, Documents
  <2>9. PICK partial : partial = <<name[1], name[2], 0>>
    OBVIOUS
  <2>10. IsName(partial) /\ partial[3] >= 0
    BY <2>6, <2>9 DEF IsName
  <2>11. PICK g : g = Granted(in, partial)
    OBVIOUS
  <2>12. IsName(g) /\ g[3] >= 0
    BY <2>8, <2>10, <2>11, UnusedName DEF Granted
  <2>13. PICK x : x = Doc(in, g, "file", r)
    OBVIOUS
  <2>14. docs' = Append(docs, x)
    BY <2>4, <2>9, <2>11, <2>13 DEF Creates
  <2>15. x = [parent |-> in, name |-> g, kind |-> "file", data |-> <<>>, by |-> r]
    BY <2>13 DEF Doc
  <2>16. IsDoc(x) /\ Whole(x)
    <3>1. ~(x.name[3] < 0)
      BY <2>12, <2>15 DEF IsName
    <3> QED
      BY <2>12, <2>15, <3>1 DEF IsDoc, Whole
  <2>17. PICK u : u = [t EXCEPT !.open = o]
    OBVIOUS
  <2>18. DOMAIN u = TaskFields /\ u.open = o /\ u.at = t.at /\ u.frames = t.frames
    BY <2>5, <2>17 DEF TaskFields
  <2>19. AllTruthful(u.frames)
    BY <2>5, <2>18 DEF IsTask
  <2>20. PICK v : v = Onward(u)
    OBVIOUS
  <2>21. IsTask(v) /\ v.open = o
    BY <2>7, <2>18, <2>19, <2>20, OnwardTask
  <2>22. Owns(r, o)'
    <3>1. /\ DOMAIN o = {"id", "size", "written", "final", "doc"}
          /\ o.id = body.file /\ o.written = <<>> /\ o.final = name /\ o.doc = n + 1
      BY <2>3
    <3>2. PICK e : e = docs'
      OBVIOUS
    <3>3. /\ Len(e) = n + 1
          /\ \A j \in 1..(n + 1) : e[j] = IF j = n + 1 THEN x ELSE docs[j]
      BY <2>2, <2>8, <2>14, <3>2, SeqAppend
    <3>4. n + 1 \in 1..(n + 1)
      BY <2>8
    <3>5. e[n + 1] = x
      BY <3>3, <3>4
    <3>6. o.doc \in 1..Len(e) /\ e[o.doc].by = r /\ e[o.doc].name[3] >= 0
          /\ e[o.doc].data = o.written
      BY <2>12, <2>15, <3>1, <3>3, <3>4, <3>5
    <3>7. PICK k \in Nat : /\ IsFile(k) /\ body.file = FileId(k)
                           /\ Last(body.path) = NameOf(k)
      BY <2>1, <2>6, <2>7 DEF Truthful, Begins
    <3>8. o.id = FileId(k) /\ o.final[1] = NameOf(k)
      BY <2>1, <2>6, <2>7, <3>1, <3>7
    <3>9. (IsFile(k) /\ o.id = FileId(k) /\ o.final[1] = NameOf(k))'
      BY <1>1, <3>7, <3>8, FilesSame
    <3>10. IsName(o.final) /\ o.final[3] = -1
      BY <2>6, <3>1
    <3> QED
      BY <3>1, <3>2, <3>6, <3>9, <3>10 DEF Owns, IsName
  <2>23. Goes(r, v)
    BY <2>4, <2>17, <2>20
  <2>24. Owns(r, v.open)'
    BY <2>21, <2>22
  <2> QED
    BY <1>1, <2>14, <2>16, <2>21, <2>23, <2>24, MakesOwn
<1> QED
  BY <1>2, <1>3

\* All readers end at once; what they wrote stays.
LEMMA KillKeeps ==
  ASSUME ReceiverInv, FinalIsWhole, UNCHANGED sender, Kill
  PROVE  ReceiverInv' /\ FinalIsWhole'
<1>1. tree' = tree /\ manifest' = manifest /\ docs' = docs
  BY DEF sender, Kill
<1>2. PICK t : t = [Idle EXCEPT !.pc = "done", !.result = "killed"]
  OBVIOUS
<1>3. /\ DOMAIN t = TaskFields /\ t.pc = "done" /\ t.at = 0 /\ t.frames = <<>>
      /\ t.open = NoFile
  BY <1>2, IdleTask DEF TaskFields
<1>4. IsTask(t)
  <2>1. AllTruthful(t.frames) /\ Len(t.frames) = 0
    BY <1>3, TruthfulEmpty, EmptySeq
  <2> QED
    BY <1>3, <2>1 DEF IsTask
<1>5. DOMAIN task' = Readers /\ \A r \in Readers : task'[r] = t \/ task'[r] = task[r]
  BY <1>2 DEF Kill
<1>6. ASSUME NEW r \in Readers PROVE (IsTask(task[r]) /\ Owns(r, task[r].open))'
  <2>1. PICK u, o : u = task'[r] /\ o = u.open
    OBVIOUS
  <2>2. IsTask(u) /\ Owns(r, o)
    BY <1>3, <1>4, <1>5, <2>1 DEF ReceiverInv, Owns
  <2>3. IsTask(u)'
    BY <1>1, <2>2, TaskSame
  <2>4. o # NoFile => o.doc \in 1..Len(docs') /\ docs'[o.doc] = docs[o.doc]
    BY <1>1, <2>2 DEF Owns
  <2>5. Owns(r, o)'
    BY <1>1, <2>2, <2>4, OwnsSame
  <2> QED
    BY <2>1, <2>3, <2>5
<1>7. Documents' /\ FinalIsWhole'
  BY <1>1, DocumentsSame
<1> QED
  BY <1>5, <1>6, <1>7 DEF ReceiverInv

\* Whatever leaves tasks and documents alone.
LEMMA ReceiverSame ==
  ASSUME ReceiverInv, FinalIsWhole, tree' = tree, manifest' = manifest, docs' = docs,
         task' = task
  PROVE  ReceiverInv' /\ FinalIsWhole'
<1>1. ASSUME NEW r \in Readers PROVE (IsTask(task[r]) /\ Owns(r, task[r].open))'
  <2>1. PICK u, o : u = task[r] /\ u = task'[r] /\ o = u.open
    OBVIOUS
  <2>2. IsTask(u) /\ Owns(r, o)
    BY <2>1 DEF ReceiverInv
  <2>3. IsTask(u)'
    BY <2>2, TaskSame
  <2>4. o # NoFile => o.doc \in 1..Len(docs') /\ docs'[o.doc] = docs[o.doc]
    BY <2>2 DEF Owns
  <2>5. Owns(r, o)'
    BY <2>2, <2>4, OwnsSame
  <2> QED
    BY <2>1, <2>3, <2>5
<1>2. Documents' /\ FinalIsWhole'
  BY DocumentsSame
<1> QED
  BY <1>1, <1>2 DEF ReceiverInv

LEMMA ReconstructKeeps ==
  ASSUME SenderInv, ReceiverInv, FinalIsWhole, UNCHANGED sender, Reconstruct
  PROVE  ReceiverInv' /\ FinalIsWhole'
<1>1. tree' = tree /\ manifest' = manifest
  BY DEF sender
<1>2. ASSUME NEW r \in Readers, Step(r) PROVE ReceiverInv' /\ FinalIsWhole'
  <2>1. CASE TouchesStorage(r) /\ StorageFails(r)
    <3>1. docs' = docs /\ Ends(r, "storage")
      BY <2>1 DEF StorageFails
    <3> QED
      BY <1>1, <3>1, EndsKeeps
  <2> QED
    BY <1>2, <2>1, TakeKeeps, FindKeeps, MakeFolderKeeps, CreateFileKeeps DEF Step
<1>3. CASE Reset
  BY <1>1, <1>3, ReceiverSame DEF Reset
<1> QED
  BY <1>2, <1>3, PressKeeps, KillKeeps DEF Reconstruct

-----------------------------------------------------------------------------

LEMMA RecordsInit ==
  ASSUME Init
  PROVE  RecordsInv
<1>1. tree \in Trees /\ selection \in Selections /\ manifest = ManifestOf(tree, selection)
  BY DEF Init
<1>2. manifest \in Seq(Entries(tree))
  <2>1. selection \in Seq(DOMAIN tree)
    BY <1>1, TreesAssumption
  <2> QED
    BY <1>1, <2>1, ManifestType
<1>3. IsProducer(p)
  BY DEF Init, IsProducer, ProducerFields, Reads
<1>4. SenderInv
  BY <1>1, <1>2, <1>3, TruthfulEmpty DEF Init, SenderInv
<1>5. PICK e \in Existing : docs = [k \in DOMAIN e |-> Doc(Root, Final(e[k]), "file", "user")]
  BY DEF Init
<1>6. PICK n \in Nat : n = Len(e) /\ DOMAIN e = 1..n
  BY ExistingAssumption, SeqFacts
<1>7. ASSUME NEW k \in 1..n PROVE IsDoc(docs[k]) /\ docs[k].by = "user"
  <2>1. PICK x, name, f : x = docs[k] /\ name = e[k] /\ f = Final(name)
    OBVIOUS
  <2>2. f = <<name, 0, -1>>
    BY <2>1 DEF Final
  <2>3. x = Doc(Root, f, "file", "user")
    BY <1>5, <1>6, <2>1
  <2>4. x = [parent |-> Root, name |-> f, kind |-> "file", data |-> <<>>, by |-> "user"]
    BY <2>3 DEF Doc
  <2>5. IsName(f)
    BY <2>2 DEF IsName
  <2> QED
    BY <2>1, <2>4, <2>5 DEF IsDoc
<1>8. DOMAIN docs = 1..n /\ docs \in Seq({docs[k] : k \in DOMAIN docs})
  <2>1. PICK S : S = {docs[k] : k \in DOMAIN docs}
    OBVIOUS
  <2>2. DOMAIN docs = 1..n /\ docs = [k \in 1..n |-> docs[k]]
    BY <1>5, <1>6
  <2>3. \A k \in 1..n : docs[k] \in S
    BY <2>1, <2>2
  <2>4. [k \in 1..n |-> docs[k]] \in Seq(S)
    BY <2>3
  <2> QED
    BY <2>1, <2>2, <2>4
<1>9. Documents
  <2>1. IsSeq(docs)
    BY <1>8 DEF IsSeq
  <2>2. Len(docs) = n
    BY <1>6, <1>8, <2>1, SeqFacts
  <2> QED
    BY <1>7, <2>1, <2>2 DEF Documents
<1>10. FinalIsWhole
  BY <1>7, <1>8 DEF FinalIsWhole
<1>11. \A r \in Readers : IsTask(task[r]) /\ Owns(r, task[r].open)
  <2>1. PICK t : t = Idle
    OBVIOUS
  <2>2. AllTruthful(t.frames) /\ Len(t.frames) = 0
    BY <2>1, IdleTask, TruthfulEmpty, EmptySeq
  <2>3. IsTask(t)
    BY <2>1, <2>2, IdleTask DEF IsTask
  <2>4. \A r \in Readers : task[r] = t
    BY <2>1 DEF Init
  <2>5. t.open = NoFile
    BY <2>1, IdleTask
  <2> QED
    BY <2>3, <2>4, <2>5 DEF Owns
<1>12. DOMAIN task = Readers
  BY DEF Init
<1>13. ReceiverInv
  BY <1>9, <1>11, <1>12 DEF ReceiverInv
<1> QED
  BY <1>4, <1>10, <1>13 DEF RecordsInv

LEMMA RecordsNext ==
  ASSUME RecordsInv, [Next]_vars
  PROVE  RecordsInv'
<1>1. SenderInv /\ ReceiverInv /\ FinalIsWhole
  BY DEF RecordsInv
<1>2. CASE Produce /\ UNCHANGED receiver
  <2>1. SenderInv'
    BY <1>1, <1>2, ProduceKeeps
  <2>2. tree' = tree /\ manifest' = manifest
    BY <1>2 DEF Produce, SessionRecord, ManifestRecord, DataRecord, EndRecord, TransferEnd,
       Finished, Transmit, Change, Produces, Fails
  <2>3. docs' = docs /\ task' = task
    BY <1>2 DEF receiver
  <2>4. ReceiverInv' /\ FinalIsWhole'
    BY <1>1, <2>2, <2>3, ReceiverSame
  <2> QED
    BY <2>1, <2>4 DEF RecordsInv
<1>3. ASSUME UNCHANGED sender PROVE SenderInv'
  <2>1. UNCHANGED <<tree, manifest, version, p, window, sent>>
    BY <1>3 DEF sender
  <2>2. IsProducer(p') /\ AllTruthful(window') /\ AllTruthful(sent')
    BY <1>1, <2>1 DEF SenderInv
  <2> QED
    BY <1>1, <2>1, <2>2, SenderKeeps
<1>4. CASE Reconstruct /\ UNCHANGED sender
  BY <1>1, <1>3, <1>4, ReconstructKeeps DEF RecordsInv
<1>5. CASE UNCHANGED vars
  <2>1. UNCHANGED sender /\ UNCHANGED receiver
    BY <1>5 DEF vars
  <2>2. tree' = tree /\ manifest' = manifest /\ docs' = docs /\ task' = task
    BY <2>1 DEF sender, receiver
  <2> QED
    BY <1>1, <1>3, <2>1, <2>2, ReceiverSame DEF RecordsInv
<1> QED
  BY <1>2, <1>4, <1>5 DEF Next

\* The inductive invariant: the records are true of the files as they were
\* selected, and each reconstruction writes a document of its own.
THEOREM RecordsStay == Spec => []RecordsInv
<1> QED
  BY RecordsInit, RecordsNext, PTL DEF Spec

\* Whatever a reconstruction has given its own name is a selected file as it
\* was when it was selected, whatever happened to files, storage and app.
THEOREM FinalStaysWhole == Spec => []FinalIsWhole
<1>1. RecordsInv => FinalIsWhole
  BY DEF RecordsInv
<1> QED
  BY <1>1, RecordsStay, PTL

-----------------------------------------------------------------------------
(* What a reconstruction makes of the records of a session.                *)

\* How a reconstruction stands: whether a file is open, which, of what size and
\* with what written to it, and the counts so far.
ViewFields == {"open", "id", "size", "written", "files", "dirs", "total"}
IsView(v) ==
  /\ DOMAIN v = ViewFields
  /\ v.open \in {0, 1} /\ v.files \in Nat /\ v.dirs \in Nat /\ v.total \in Nat
NoView == [open |-> 0, id |-> 0, size |-> 0, written |-> <<>>, files |-> 0, dirs |-> 0,
           total |-> 0]

\* A reconstruction that stands as a takes the record x and then stands as b.
Takes(a, x, b) ==
  \/ x.type = "SESSION" /\ b = a
  \/ x.type = "DIRECTORY" /\ b = [a EXCEPT !.dirs = @ + 1]
  \/ /\ x.type = "FILE_BEGIN" /\ a.open = 0
     /\ b = [a EXCEPT !.open = 1, !.id = x.body.file, !.size = x.body.size, !.written = <<>>]
  \/ /\ x.type = "FILE_DATA" /\ a.open = 1
     /\ x.body.file = a.id /\ x.body.offset = Len(a.written)
     /\ b = [a EXCEPT !.written = @ \o x.body.data, !.total = @ + Len(x.body.data)]
  \/ /\ x.type = "FILE_END" /\ a.open = 1
     /\ x.body.file = a.id /\ x.body.size = a.size
     /\ Len(a.written) = a.size /\ a.written = x.body.crc
     /\ b = [a EXCEPT !.open = 0, !.files = @ + 1]
  \/ /\ x.type = "TRANSFER_END" /\ a.open = 0
     /\ x.body.files = a.files /\ x.body.dirs = a.dirs
     /\ x.body.total = a.total % Word /\ a.total <= AllBytes
     /\ b = a

\* v says how a reconstruction stands after each of the records s.
Follows(s, v) ==
  /\ IsSeq(s) /\ v[0] = NoView
  /\ \A i \in 0..Len(s) : IsView(v[i])
  /\ \A i \in 1..Len(s) : s[i].id = i - 1 /\ Takes(v[i - 1], s[i], v[i])

Said == sent \o window
Ended(s) == s # <<>> /\ Last(s).type = "TRANSFER_END"

\* The producer q and a reconstruction that has taken what it has produced.
Agrees(q, v) ==
  /\ v.dirs = q.dirs /\ v.files + v.open = q.files
  /\ v.open = IF q.state = 2 THEN 1 ELSE 0
  /\ IF q.state = 2
     THEN /\ v.id = FileId(q.next - 1) /\ v.size = manifest[q.next - 1].size
          /\ v.written = q.file.read
          /\ v.total = Totals(manifest)[q.next - 2] + Len(q.file.read)
     ELSE v.total = Totals(manifest)[q.next - 1]

\* The file being read has changed: no more than a part of it is sent.
Altered(q) == q.state = 2 /\ version[manifest[q.next - 1].node] # 0
Counts(q) ==
  /\ q.state \in {0, 1, 2, 6} /\ q.next \in 1..(Len(manifest) + 1)
  /\ q.total = Totals(manifest)[q.next - 1] % Word

\* A session that ends is one that a reconstruction can follow to its end.
StreamInv ==
  /\ Counts(p)
  /\ p.state # 6 => \A i \in 1..Len(Said) : Said[i].type # "TRANSFER_END"
  /\ phase = "filling" /\ ~Altered(p) =>
       p.id = Len(Said) /\ \E v : Follows(Said, v) /\ Agrees(p, v[Len(Said)])
  /\ Ended(sent) => \E v : Follows(sent, v)

LEMMA TotalsFacts ==
  ASSUME tree \in Trees, manifest \in Seq(Entries(tree)), NEW n \in Nat, n = Len(manifest),
         NEW T, T = Totals(manifest)
  PROVE  /\ T[0] = 0
         /\ \A k \in 0..n : T[k] \in Nat
         /\ \A k \in 1..n :
              T[k] = T[k - 1] + (IF manifest[k].kind = "file" THEN manifest[k].size ELSE 0)
<1> DEFINE size(k) == IF manifest[k].kind = "file" THEN manifest[k].size ELSE 0
           G == [x \in Nat \X Nat |-> IF x[1] \in 1..n THEN x[2] + size(x[1]) ELSE 0]
           Solves(h) == h = [k \in 0..n |-> IF k = 0 THEN 0 ELSE h[k - 1] + size(k)]
           total == CHOOSE h : Solves(h)
<1>1. \A k \in 1..n : size(k) \in Nat
  <2>1. ASSUME NEW k \in 1..n PROVE manifest[k].size \in Nat
    <3>1. PICK e \in Entries(tree) : e = manifest[k]
      BY ElementOfSeq
    <3>2. e.size = tree[e.node].sizes[1] /\ e.node \in DOMAIN tree
      BY DEF Entries, IsEntry
    <3> QED
      BY <3>1, <3>2, TreesAssumption
  <2> QED
    BY <2>1
<1> HIDE DEF size
<1>2. G \in [Nat \X Nat -> Nat] /\ \A k \in 1..n, x \in Nat : G[<<k, x>>] = x + size(k)
  BY <1>1
<1> HIDE DEF G
<1>3. PICK h \in [0..n -> Nat] : Recurs(h, 0, G, 0, n)
  <2>1. PICK z \in Nat : z = 0 /\ z <= n
    OBVIOUS
  <2>2. \E h \in [z..n -> Nat] : Recurs(h, z, G, z, n)
    BY <1>2, <2>1, Recursion
  <2> QED
    BY <2>1, <2>2
<1>4. Solves(h)
  <2>1. ASSUME NEW k \in 0..n PROVE h[k] = IF k = 0 THEN 0 ELSE h[k - 1] + size(k)
    <3>1. CASE k = 0
      BY <1>3, <3>1 DEF Recurs
    <3>2. CASE k # 0
      <4>1. k - 1 \in 0..n /\ k \in 1..n /\ h[k - 1] \in Nat
        BY <1>3, <3>2
      <4>2. h[k] = G[<<k, h[k - 1]>>]
        BY <1>3, <3>2 DEF Recurs
      <4> QED
        BY <1>2, <3>2, <4>1, <4>2
    <3> QED
      BY <3>1, <3>2
  <2> QED
    BY <1>3, <2>1
<1>5. Solves(total)
  <2> HIDE DEF Solves
  <2> QED
    BY <1>4
<1>6. T = total
  BY DEF Totals, size
<1> HIDE DEF total
<1>7. \A k \in 0..n : T[k] = IF k = 0 THEN 0 ELSE T[k - 1] + size(k)
  BY <1>5, <1>6
<1> DEFINE U == {k \in Nat : k <= n => T[k] \in Nat}
<1>8. 0 \in U
  BY <1>7
<1>9. ASSUME NEW k \in Nat, k \in U PROVE k + 1 \in U
  <2> SUFFICES ASSUME k + 1 <= n PROVE T[k + 1] \in Nat
    OBVIOUS
  <2>1. T[k] \in Nat /\ k + 1 \in 0..n /\ k + 1 \in 1..n /\ k + 1 # 0 /\ (k + 1) - 1 = k
    BY <1>9
  <2>2. T[k + 1] = T[k] + size(k + 1)
    BY <1>7, <2>1
  <2> QED
    BY <1>1, <2>1, <2>2
<1> HIDE DEF U
<1>10. Nat \subseteq U
  BY <1>8, <1>9, Induct
<1>11. \A k \in 0..n : T[k] \in Nat
  BY <1>10 DEF U
<1>12. \A k \in 1..n : T[k] = T[k - 1] + size(k)
  BY <1>7
<1> QED
  BY <1>7, <1>11, <1>12 DEF size

\* There are never more bytes than in all.
LEMMA TotalsUp ==
  ASSUME tree \in Trees, manifest \in Seq(Entries(tree)), NEW k \in 0..Len(manifest)
  PROVE  Totals(manifest)[k] <= AllBytes /\ AllBytes \in Nat
<1>1. PICK n \in Nat : n = Len(manifest)
  BY LenProperties
<1>2. PICK T : T = Totals(manifest)
  OBVIOUS
<1>3. /\ \A i \in 0..n : T[i] \in Nat
      /\ \A i \in 1..n :
           T[i] = T[i - 1] + (IF manifest[i].kind = "file" THEN manifest[i].size ELSE 0)
  BY <1>1, <1>2, TotalsFacts
<1>4. ASSUME NEW i \in 1..n PROVE T[i - 1] <= T[i]
  <2>1. PICK x : x = IF manifest[i].kind = "file" THEN manifest[i].size ELSE 0
    OBVIOUS
  <2>2. x \in Nat
    <3>1. PICK e \in Entries(tree) : e = manifest[i]
      BY <1>1, ElementOfSeq
    <3>2. e.size = tree[e.node].sizes[1] /\ e.node \in DOMAIN tree
      BY DEF Entries, IsEntry
    <3>3. e.size \in Nat
      BY <3>2, TreesAssumption
    <3> QED
      BY <2>1, <3>1, <3>3
  <2>3. T[i] = T[i - 1] + x /\ T[i - 1] \in Nat
    BY <1>3, <2>1
  <2> QED
    BY <2>2, <2>3
<1> DEFINE U == {d \in Nat : d <= n - k => T[k] <= T[k + d]}
<1>5. 0 \in U
  BY <1>1, <1>3
<1>6. ASSUME NEW d \in Nat, d \in U PROVE d + 1 \in U
  <2> SUFFICES ASSUME d + 1 <= n - k PROVE T[k] <= T[k + (d + 1)]
    OBVIOUS
  <2>1. PICK i : i = k + (d + 1)
    OBVIOUS
  <2>2. i \in 1..n /\ i - 1 = k + d /\ k + d \in 0..n /\ k \in 0..n /\ i \in 0..n
    BY <1>1, <2>1
  <2>3. T[k] <= T[k + d]
    BY <1>1, <1>6
  <2>4. T[k + d] <= T[i]
    BY <1>4, <2>2
  <2>5. T[k] \in Nat /\ T[k + d] \in Nat /\ T[i] \in Nat
    BY <1>3, <2>2
  <2> QED
    BY <2>1, <2>3, <2>4, <2>5
<1> HIDE DEF U
<1>7. n - k \in Nat /\ k + (n - k) = n /\ n \in 0..n
  BY <1>1
<1>8. n - k \in U
  BY <1>5, <1>6, <1>7, Induct
<1>9. T[k] <= T[k + (n - k)]
  BY <1>7, <1>8 DEF U
<1> QED
  BY <1>1, <1>2, <1>3, <1>7, <1>9 DEF AllBytes

\* A total is the same if it is reduced at every step.
LEMMA SumModulo ==
  ASSUME NEW x \in Nat, NEW y \in Nat, NEW n \in Nat, n > 0
  PROVE  ((x % n) + y) % n = (x + y) % n
<1>1. PICK q, r : q = x \div n /\ r = x % n
  OBVIOUS
<1>2. q \in Nat /\ r \in 0..(n - 1) /\ x = q * n + r
  BY <1>1, Division
<1>3. PICK c, d : c = (r + y) \div n /\ d = (r + y) % n
  OBVIOUS
<1>4. r + y \in Nat
  BY <1>2
<1>5. c \in Nat /\ d \in 0..(n - 1) /\ r + y = c * n + d
  BY <1>3, <1>4, Division
<1>6. x + y = (q + c) * n + d
  <2>1. q * n \in Nat /\ c * n \in Nat /\ (q + c) * n = q * n + c * n
    BY <1>2, <1>5
  <2> QED
    BY <1>2, <1>5, <2>1
<1>7. PICK e : e = q + c
  OBVIOUS
<1>8. PICK a \in Nat : a = x + y
  OBVIOUS
<1>9. e \in Nat /\ a = e * n + d
  BY <1>2, <1>5, <1>6, <1>7, <1>8
<1>10. a % n = d
  BY <1>5, <1>9, Quotient
<1> QED
  BY <1>1, <1>3, <1>8, <1>10

\* What was read before and what is new is what has been read.
New(f, g) == SubSeq(g.read, Len(f.read) + 1, Len(g.read))

LEMMA ReadGrows ==
  ASSUME tree \in Trees, NEW n \in DOMAIN tree, NEW f, InOrder(f, n), NEW g, InOrder(g, n),
         Len(f.read) <= Len(g.read)
  PROVE  /\ f.read \o New(f, g) = g.read /\ Len(f.read) \in Nat /\ Len(New(f, g)) \in Nat
         /\ Len(g.read) = Len(f.read) + Len(New(f, g))
<1>1. PICK B : B = Blocks(n, 0)
  OBVIOUS
<1>2. PICK m \in Nat : m = Len(B) /\ m = tree[n].sizes[1]
  BY <1>1, BlocksSeq
<1>3. IsSeq(B)
  BY <1>1, BlocksSeq
<1>4. ASSUME NEW h, InOrder(h, n)
      PROVE  \E a \in Nat : a <= m /\ h.read = SubSeq(B, 1, a) /\ Len(h.read) = a
  <2>1. PICK a \in Nat : \E b \in Nat : Pieces(h, B, a, b)
    BY <1>1, <1>4 DEF InOrder
  <2>2. PICK b \in Nat : Pieces(h, B, a, b)
    BY <2>1
  <2>3. h.at \in Nat
    BY <1>4 DEF InOrder, Ring
  <2>4. a <= m /\ h.read = SubSeq(B, 1, a)
    BY <1>2, <2>2, <2>3 DEF Pieces
  <2>5. PICK z \in Nat : z = 0 /\ z <= a
    OBVIOUS
  <2>6. Len(SubSeq(B, z + 1, a)) = a - z
    BY <1>2, <1>3, <2>4, <2>5, PartLength
  <2>7. Len(h.read) = a
    BY <2>4, <2>5, <2>6
  <2> QED
    BY <2>4, <2>7
<1>5. PICK a \in Nat : a <= m /\ f.read = SubSeq(B, 1, a) /\ Len(f.read) = a
  BY <1>4
<1>6. PICK c \in Nat : c <= m /\ g.read = SubSeq(B, 1, c) /\ Len(g.read) = c
  BY <1>4
<1>7. PICK s : s = g.read
  OBVIOUS
<1>8. PICK z \in Nat : z = 0 /\ z <= a /\ z <= c
  OBVIOUS
<1>9. a <= c
  BY <1>5, <1>6
<1>10. IsSeq(s) /\ Len(s) = c
  <2>1. IsSeq(SubSeq(B, z + 1, c))
    BY <1>2, <1>3, <1>6, <1>8, PartLength
  <2> QED
    BY <1>6, <1>7, <1>8, <2>1
<1>11. SubSeq(s, 1, a) = f.read
  <2>1. a <= c - z
    BY <1>8, <1>9
  <2>2. SubSeq(SubSeq(B, z + 1, c), z + 1, a) = SubSeq(B, (z + z) + 1, z + a)
    BY <1>2, <1>3, <1>6, <1>8, <2>1, PartOfPart
  <2> QED
    BY <1>5, <1>6, <1>7, <1>8, <2>2
<1>12. SubSeq(s, 1, a) \o SubSeq(s, a + 1, c) = SubSeq(s, 1, c)
  BY <1>9, <1>10, PartsJoin
<1>13. SubSeq(s, 1, c) = s
  BY <1>10, SubSeqFull DEF IsSeq
<1>14. Len(SubSeq(s, a + 1, c)) = c - a
  BY <1>9, <1>10, PartLength
<1>15. PICK new : new = SubSeq(s, a + 1, c) /\ new = New(f, g)
  BY <1>5, <1>6, <1>7 DEF New
<1>16. Len(new) \in Nat /\ c = a + Len(new)
  BY <1>9, <1>14, <1>15
<1> QED
  BY <1>5, <1>6, <1>7, <1>11, <1>12, <1>13, <1>15, <1>16

LEMMA SameSequence ==
  ASSUME NEW s, IsSeq(s), NEW t, IsSeq(t), Len(s) = Len(t),
         \A i \in 1..Len(s) : s[i] = t[i]
  PROVE  s = t
<1>1. PICK n \in Nat : n = Len(s)
  BY SeqFacts
<1>2. DOMAIN s = 1..n /\ DOMAIN t = 1..n
  BY <1>1, SeqFacts
<1>3. \A u : IsSeq(u) => u = [i \in DOMAIN u |-> u[i]]
  <2>1. ASSUME NEW u, IsSeq(u) PROVE u = [i \in DOMAIN u |-> u[i]]
    <3>1. PICK S : u \in Seq(S)
      BY <2>1 DEF IsSeq
    <3>2. u \in [1..Len(u) -> S]
      BY <3>1, LenProperties
    <3> QED
      BY <3>2
  <2> QED
    BY <2>1
<1>4. s = [i \in 1..n |-> s[i]] /\ t = [i \in 1..n |-> t[i]]
  BY <1>2, <1>3
<1> QED
  BY <1>1, <1>4

LEMMA ConcatAppend ==
  ASSUME NEW s, IsSeq(s), NEW t, IsSeq(t), NEW x
  PROVE  s \o Append(t, x) = Append(s \o t, x)
<1>1. PICK n \in Nat, m \in Nat : n = Len(s) /\ m = Len(t)
  BY SeqFacts
<1>2. PICK u : u = Append(t, x)
  OBVIOUS
<1>3. IsSeq(u) /\ Len(u) = m + 1 /\ \A i \in 1..(m + 1) : u[i] = IF i = m + 1 THEN x ELSE t[i]
  BY <1>1, <1>2, SeqAppend
<1>4. PICK a : a = s \o u
  OBVIOUS
<1>5. /\ IsSeq(a) /\ Len(a) = n + (m + 1)
      /\ \A i \in 1..(n + (m + 1)) : a[i] = IF i <= n THEN s[i] ELSE u[i - n]
  <2>1. PICK k \in Nat : k = m + 1
    OBVIOUS
  <2>2. /\ IsSeq(a) /\ Len(a) = n + k
        /\ \A i \in 1..(n + k) : a[i] = IF i <= n THEN s[i] ELSE u[i - n]
    <3>1. IsSeq(u) /\ Len(u) = k
      BY <1>3, <2>1
    <3> QED
      BY <1>1, <1>4, <3>1, SeqConcat
  <2> QED
    BY <2>1, <2>2
<1>6. PICK b : b = s \o t
  OBVIOUS
<1>7. /\ IsSeq(b) /\ Len(b) = n + m
      /\ \A i \in 1..(n + m) : b[i] = IF i <= n THEN s[i] ELSE t[i - n]
  BY <1>1, <1>6, SeqConcat
<1>8. PICK c : c = Append(b, x)
  OBVIOUS
<1>9. /\ IsSeq(c) /\ Len(c) = (n + m) + 1
      /\ \A i \in 1..((n + m) + 1) : c[i] = IF i = (n + m) + 1 THEN x ELSE b[i]
  BY <1>7, <1>8, SeqAppend
<1>10. ASSUME NEW i \in 1..((n + m) + 1) PROVE a[i] = c[i]
  <2>1. CASE i <= n
    <3>1. i \in 1..(n + (m + 1)) /\ i \in 1..(n + m) /\ i # (n + m) + 1
      BY <2>1
    <3> QED
      BY <1>5, <1>7, <1>9, <2>1, <3>1
  <2>2. CASE ~(i <= n) /\ i # (n + m) + 1
    <3>1. i \in 1..(n + (m + 1)) /\ i \in 1..(n + m) /\ i - n \in 1..(m + 1) /\ i - n # m + 1
      BY <2>2
    <3> QED
      BY <1>3, <1>5, <1>7, <1>9, <2>2, <3>1
  <2>3. CASE i = (n + m) + 1
    <3>1. i \in 1..(n + (m + 1)) /\ ~(i <= n) /\ i - n \in 1..(m + 1) /\ i - n = m + 1
      BY <2>3
    <3> QED
      BY <1>3, <1>5, <1>9, <2>3, <3>1
  <2> QED
    BY <2>1, <2>2, <2>3
<1>11. Len(a) = Len(c)
  BY <1>5, <1>9
<1>12. a = c
  BY <1>5, <1>9, <1>10, <1>11, SameSequence
<1> QED
  BY <1>2, <1>4, <1>6, <1>8, <1>12

LEMMA FollowsAppend ==
  ASSUME NEW s, NEW v, Follows(s, v), NEW x, x.id = Len(s), NEW b, IsView(b),
         Takes(v[Len(s)], x, b)
  PROVE  \E w : Follows(Append(s, x), w) /\ w[Len(Append(s, x))] = b
<1>1. IsSeq(s)
  BY DEF Follows
<1>2. PICK n \in Nat : n = Len(s)
  BY <1>1, SeqFacts
<1>3. PICK t : t = Append(s, x)
  OBVIOUS
<1>4. /\ IsSeq(t) /\ Len(t) = n + 1
      /\ \A i \in 1..(n + 1) : t[i] = IF i = n + 1 THEN x ELSE s[i]
  BY <1>1, <1>2, <1>3, SeqAppend
<1>5. PICK w : w = [i \in 0..(n + 1) |-> IF i = n + 1 THEN b ELSE v[i]]
  OBVIOUS
<1>6. w[n + 1] = b /\ \A i \in 0..n : w[i] = v[i]
  BY <1>5
<1>7. /\ v[0] = NoView /\ \A i \in 0..n : IsView(v[i])
      /\ \A i \in 1..n : s[i].id = i - 1 /\ Takes(v[i - 1], s[i], v[i])
  BY <1>2 DEF Follows
<1>8. w[0] = NoView
  BY <1>6, <1>7
<1>9. ASSUME NEW i \in 0..(n + 1) PROVE IsView(w[i])
  <2>1. i = n + 1 \/ i \in 0..n
    OBVIOUS
  <2> QED
    BY <1>6, <1>7, <2>1
<1>10. ASSUME NEW i \in 1..(n + 1) PROVE t[i].id = i - 1 /\ Takes(w[i - 1], t[i], w[i])
  <2>1. CASE i = n + 1
    <3>1. i - 1 = n /\ n \in 0..n /\ t[i] = x /\ w[i] = b /\ w[i - 1] = v[n]
      BY <1>4, <1>6, <2>1
    <3> QED
      BY <1>2, <3>1
  <2>2. CASE i # n + 1
    <3>1. i \in 1..n /\ i \in 0..n /\ i - 1 \in 0..n
      BY <2>2
    <3>2. t[i] = s[i] /\ w[i] = v[i] /\ w[i - 1] = v[i - 1]
      BY <1>4, <1>6, <2>2, <3>1
    <3> QED
      BY <1>7, <3>1, <3>2
  <2> QED
    BY <2>1, <2>2
<1>11. Follows(t, w)
  BY <1>4, <1>8, <1>9, <1>10 DEF Follows
<1> QED
  BY <1>3, <1>4, <1>6, <1>11

LEMMA FollowsSame ==
  ASSUME tree' = tree, manifest' = manifest
  PROVE  /\ AllBytes' = AllBytes
         /\ \A s, v : Follows(s, v) => Follows(s, v)'
         /\ \A q, v : Agrees(q, v) => Agrees(q, v)'
<1>1. AllBytes' = AllBytes
  BY DEF AllBytes
<1>2. \A a, x, b : Takes(a, x, b) => Takes(a, x, b)'
  BY <1>1 DEF Takes
<1>3. \A s, v : Follows(s, v) => Follows(s, v)'
  BY <1>2 DEF Follows, IsSeq, IsView, NoView
<1>4. \A q, v : Agrees(q, v) => Agrees(q, v)'
  BY FilesSame DEF Agrees
<1> QED
  BY <1>1, <1>3, <1>4

LEMMA ConcatEmpty ==
  ASSUME NEW s, IsSeq(s)
  PROVE  s \o <<>> = s
<1>1. PICK z : z = <<>>
  OBVIOUS
<1>2. IsSeq(z) /\ Len(z) = 0
  BY <1>1, TruthfulEmpty, EmptySeq DEF AllTruthful
<1>3. PICK t : t = s \o z
  OBVIOUS
<1>4. PICK n \in Nat : n = Len(s)
  BY SeqFacts
<1>5. IsSeq(t) /\ Len(t) = n + 0 /\ \A i \in 1..(n + 0) : t[i] = IF i <= n THEN s[i] ELSE z[i - n]
  BY <1>2, <1>3, <1>4, SeqConcat
<1>6. Len(t) = Len(s) /\ \A i \in 1..Len(t) : t[i] = s[i]
  BY <1>4, <1>5
<1>7. t = s
  BY <1>5, <1>6, SameSequence
<1> QED
  BY <1>1, <1>3, <1>7

LEMMA SaidFacts ==
  ASSUME SenderInv
  PROVE  /\ IsSeq(sent) /\ IsSeq(window) /\ IsSeq(Said)
         /\ Len(sent) \in Nat /\ Len(Said) \in Nat /\ Len(sent) <= Len(Said)
         /\ \A i \in 1..Len(sent) : Said[i] = sent[i]
<1>1. IsSeq(sent) /\ IsSeq(window)
  BY DEF SenderInv, AllTruthful
<1>2. PICK n \in Nat, m \in Nat : n = Len(sent) /\ m = Len(window)
  BY <1>1, SeqFacts
<1>3. PICK t : t = Said
  OBVIOUS
<1>4. /\ IsSeq(t) /\ Len(t) = n + m
      /\ \A i \in 1..(n + m) : t[i] = IF i <= n THEN sent[i] ELSE window[i - n]
  BY <1>1, <1>2, <1>3, SeqConcat DEF Said
<1>5. \A i \in 1..n : i \in 1..(n + m) /\ i <= n
  BY <1>2
<1> QED
  BY <1>1, <1>2, <1>3, <1>4, <1>5

LEMMA StreamSame ==
  ASSUME tree' = tree, manifest' = manifest
  PROVE  /\ \A q : Counts(q) => Counts(q)'
         /\ version' = version => \A q : Altered(q)' => Altered(q)
         /\ \A q : Altered(q)' <=> q.state = 2 /\ version'[manifest[q.next - 1].node] # 0
<1> QED
  BY DEF Counts, Altered

\* The facts about the next state of which StreamInv' consists.
LEMMA StreamKeeps ==
  ASSUME tree' = tree, manifest' = manifest, Counts(p'),
         NEW s, s = Said', p'.state # 6 => \A i \in 1..Len(s) : s[i].type # "TRANSFER_END",
         phase' = "filling" /\ ~Altered(p)' =>
           p'.id = Len(s) /\ \E v : Follows(s, v) /\ Agrees(p', v[Len(s)]),
         Ended(sent') => \E v : Follows(sent', v)
  PROVE  StreamInv'
<1>1. PICK q, t : q = p' /\ t = sent'
  OBVIOUS
<1>2. Counts(q)'
  BY <1>1, StreamSame
<1>3. phase' = "filling" /\ ~Altered(p)' =>
           q.id = Len(s) /\ \E v : Follows(s, v)' /\ Agrees(q, v[Len(s)])'
  BY <1>1, FollowsSame
<1>4. Ended(t) => \E v : Follows(t, v)'
  BY <1>1, FollowsSame
<1> QED
  BY <1>1, <1>2, <1>3, <1>4 DEF StreamInv

LEMMA ProducesStream ==
  ASSUME StreamInv, SenderInv, phase = "filling", NEW type, NEW body,
         NEW q, DOMAIN q = ProducerFields, q.id = p.id, Counts(q),
         q.state # 6 => p.state # 6 /\ type # "TRANSFER_END",
         ~Altered(q) =>
           /\ ~Altered(p)
           /\ \A a : IsView(a) /\ Agrees(p, a) =>
                \E b : IsView(b) /\ Takes(a, Record(type, body), b) /\ Agrees(q, b),
         Produces(type, body, q)
  PROVE  StreamInv'
<1>1. /\ tree' = tree /\ manifest' = manifest /\ version' = version /\ sent' = sent
      /\ phase' = phase
  BY DEF Produces
<1>2. PICK x : x = Record(type, body)
  OBVIOUS
<1>3. x.type = type /\ x.id = p.id
  BY <1>2 DEF Record
<1>4. PICK i : i = q.id + 1
  OBVIOUS
<1>5. PICK r : r = [q EXCEPT !.id = i]
  OBVIOUS
<1>6. p' = r
  BY <1>4, <1>5 DEF Produces
<1>7. /\ r.id = i /\ r.state = q.state /\ r.next = q.next /\ r.file = q.file
      /\ r.files = q.files /\ r.dirs = q.dirs /\ r.total = q.total
  BY <1>5 DEF ProducerFields
<1>8. Counts(r) /\ (Altered(r) <=> Altered(q)) /\ \A b : Agrees(q, b) => Agrees(r, b)
  BY <1>7 DEF Counts, Altered, Agrees
<1>9. PICK s : s = Said
  OBVIOUS
<1>10. PICK n \in Nat : n = Len(s) /\ IsSeq(s)
  BY <1>9, SaidFacts
<1>11. PICK t : t = Append(s, x)
  OBVIOUS
<1>12. Said' = t
  <2>1. window' = Append(window, x)
    BY <1>2 DEF Produces
  <2>2. sent \o Append(window, x) = t
    BY <1>9, <1>11, SaidFacts, ConcatAppend DEF Said
  <2> QED
    BY <1>1, <2>1, <2>2 DEF Said
<1>13. /\ IsSeq(t) /\ Len(t) = n + 1
       /\ \A j \in 1..(n + 1) : t[j] = IF j = n + 1 THEN x ELSE s[j]
  BY <1>10, <1>11, SeqAppend
<1>14. ASSUME r.state # 6, NEW j \in 1..(n + 1) PROVE t[j].type # "TRANSFER_END"
  <2>1. p.state # 6 /\ type # "TRANSFER_END"
    BY <1>7, <1>14
  <2>2. \A k \in 1..n : s[k].type # "TRANSFER_END"
    BY <1>9, <1>10, <2>1 DEF StreamInv
  <2> QED
    BY <1>3, <1>13, <2>1, <2>2
<1>15. ASSUME ~Altered(r)
       PROVE  r.id = n + 1 /\ \E v : Follows(t, v) /\ Agrees(r, v[n + 1])
  <2>1. p.id = n /\ \E v : Follows(s, v) /\ Agrees(p, v[n])
    BY <1>8, <1>9, <1>10, <1>15 DEF StreamInv
  <2>2. PICK v : Follows(s, v) /\ Agrees(p, v[n])
    BY <2>1
  <2>3. IsView(v[n])
    BY <1>10, <2>2 DEF Follows
  <2>4. PICK b : IsView(b) /\ Takes(v[n], x, b) /\ Agrees(q, b)
    BY <1>2, <1>8, <1>15, <2>2, <2>3
  <2>5. x.id = n
    BY <1>3, <2>1
  <2>6. \E w : Follows(t, w) /\ w[Len(t)] = b
    BY <1>10, <1>11, <2>2, <2>4, <2>5, FollowsAppend
  <2>7. PICK w : Follows(t, w) /\ w[n + 1] = b
    BY <1>13, <2>6
  <2> QED
    BY <1>4, <1>7, <1>8, <2>1, <2>4, <2>7
<1>16. Altered(p)' <=> Altered(r)
  BY <1>1, <1>6 DEF Altered
<1>17. Ended(sent') => \E v : Follows(sent', v)
  BY <1>1 DEF StreamInv
<1> QED
  BY <1>1, <1>6, <1>8, <1>12, <1>13, <1>14, <1>15, <1>16, <1>17, StreamKeeps

LEMMA FailsStream ==
  ASSUME StreamInv, SenderInv, Fails
  PROVE  StreamInv'
<1>1. /\ tree' = tree /\ manifest' = manifest /\ sent' = sent /\ p' = p
      /\ window' = <<>> /\ phase' = "ended"
  BY DEF Fails
<1>2. Said' = sent
  BY <1>1, SaidFacts, ConcatEmpty DEF Said
<1>3. p.state # 6 => \A i \in 1..Len(sent) : sent[i].type # "TRANSFER_END"
  <2>1. \A i \in 1..Len(sent) : i \in 1..Len(Said) /\ Said[i] = sent[i]
    BY SaidFacts
  <2> QED
    BY <2>1 DEF StreamInv
<1> QED
  BY <1>1, <1>2, <1>3, StreamKeeps DEF StreamInv

LEMMA FinishedStream ==
  ASSUME StreamInv, SenderInv, Finished
  PROVE  StreamInv'
<1>1. PICK q : q = [p EXCEPT !.finished = TRUE]
  OBVIOUS
<1>2. /\ tree' = tree /\ manifest' = manifest /\ version' = version /\ sent' = sent
      /\ window' = window /\ phase' = phase /\ p' = q
  BY <1>1 DEF Finished
<1>3. DOMAIN p = ProducerFields
  BY DEF SenderInv, IsProducer
<1>4. /\ q.id = p.id /\ q.state = p.state /\ q.next = p.next /\ q.file = p.file
      /\ q.files = p.files /\ q.dirs = p.dirs /\ q.total = p.total
  BY <1>1, <1>3 DEF ProducerFields
<1>5. (Counts(p) => Counts(q)) /\ (Altered(p) <=> Altered(q))
      /\ \A b : Agrees(p, b) => Agrees(q, b)
  BY <1>4 DEF Counts, Altered, Agrees
<1>6. Altered(p)' <=> Altered(q)
  BY <1>2 DEF Altered
<1>7. PICK s : s = Said /\ s = Said'
  BY <1>2 DEF Said
<1>8. phase = "filling" /\ ~Altered(q) =>
        q.id = Len(s) /\ \E v : Follows(s, v) /\ Agrees(q, v[Len(s)])
  BY <1>4, <1>5, <1>7 DEF StreamInv
<1>9. Counts(q) /\ (q.state # 6 => \A i \in 1..Len(s) : s[i].type # "TRANSFER_END")
  BY <1>4, <1>5, <1>7 DEF StreamInv
<1>10. Ended(sent') => \E v : Follows(sent', v)
  BY <1>2 DEF StreamInv
<1> QED
  BY <1>2, <1>6, <1>7, <1>8, <1>9, <1>10, StreamKeeps

\* A window that is shown ends the session only if the producer has ended it.
LEMMA TransmitStream ==
  ASSUME StreamInv, SenderInv, Transmit
  PROVE  StreamInv'
<1>1. /\ tree' = tree /\ manifest' = manifest /\ version' = version /\ p' = p
      /\ sent' = Said /\ window' = <<>> /\ phase = "filling"
  BY DEF Transmit, Said
<1>2. PICK s : s = Said
  OBVIOUS
<1>3. IsSeq(s) /\ Len(s) \in Nat
  BY <1>2, SaidFacts
<1>4. Said' = s
  BY <1>1, <1>2, <1>3, ConcatEmpty DEF Said
<1>5. ASSUME Ended(s) PROVE \E v : Follows(s, v)
  <2>1. Len(s) \in 1..Len(s) /\ s[Len(s)].type = "TRANSFER_END"
    BY <1>3, <1>5, EmptySeq DEF Ended, Last, IsSeq
  <2>2. p.state = 6
    BY <1>2, <2>1 DEF StreamInv
  <2>3. ~Altered(p)
    BY <2>2 DEF Altered
  <2> QED
    BY <1>1, <1>2, <2>3 DEF StreamInv
<1>6. Altered(p)' <=> Altered(p)
  BY <1>1 DEF Altered
<1>7. /\ Counts(p) /\ (p.state # 6 => \A i \in 1..Len(s) : s[i].type # "TRANSFER_END")
      /\ ~Altered(p) => p.id = Len(s) /\ \E v : Follows(s, v) /\ Agrees(p, v[Len(s)])
  BY <1>1, <1>2 DEF StreamInv
<1> QED
  BY <1>1, <1>2, <1>4, <1>5, <1>6, <1>7, StreamKeeps

LEMMA ChangeStream ==
  ASSUME StreamInv, SenderInv, NEW n \in DOMAIN tree, Change(n)
  PROVE  StreamInv'
<1>1. /\ tree' = tree /\ manifest' = manifest /\ version' = [version EXCEPT ![n] = @ + 1]
      /\ p' = p /\ sent' = sent /\ window' = window /\ phase' = phase
  BY DEF Change
<1>2. version \in [DOMAIN tree -> Nat]
  BY DEF SenderInv
<1>3. \A m \in DOMAIN tree : version'[m] = 0 => version[m] = 0
  BY <1>1, <1>2
<1>4. Altered(p) => Altered(p)'
  <2>1. p.state = 2 => manifest[p.next - 1].node \in DOMAIN tree
    BY CurrentFile DEF Current
  <2> QED
    BY <1>1, <1>3, <2>1 DEF Altered
<1>5. PICK s : s = Said /\ s = Said'
  BY <1>1 DEF Said
<1> QED
  BY <1>1, <1>4, <1>5, StreamKeeps DEF StreamInv

LEMMA CountsFolder ==
  ASSUME NEW a, IsView(a), NEW n \in Nat, NEW b, b = [a EXCEPT !.dirs = n]
  PROVE  /\ IsView(b) /\ b.dirs = n /\ b.files = a.files /\ b.open = a.open
         /\ b.total = a.total
<1> QED
  BY DEF IsView, ViewFields

LEMMA StartedRead ==
  ASSUME NEW n, NEW failed
  PROVE  Started(n, failed).read = <<>>
<1> QED
  BY DEF Started, Filled

LEMMA SessionRecordStream ==
  ASSUME StreamInv, SenderInv, SessionRecord
  PROVE  StreamInv'
<1>1. PICK q : q = [p EXCEPT !.state = 1]
  OBVIOUS
<1>2. DOMAIN p = ProducerFields /\ p.state = 0 /\ phase = "filling"
  BY DEF SenderInv, IsProducer, SessionRecord, Filling
<1>3. /\ DOMAIN q = ProducerFields /\ q.state = 1 /\ q.next = p.next /\ q.id = p.id
      /\ q.files = p.files /\ q.dirs = p.dirs /\ q.total = p.total
  BY <1>1, <1>2 DEF ProducerFields
<1>4. Counts(q) /\ ~Altered(p)
  BY <1>2, <1>3 DEF StreamInv, Counts, Altered
<1>5. ASSUME NEW a, IsView(a), Agrees(p, a)
      PROVE  \E b : IsView(b) /\ Takes(a, Record("SESSION", <<>>), b) /\ Agrees(q, b)
  <2>1. Takes(a, Record("SESSION", <<>>), a)
    BY DEF Takes, Record
  <2>2. Agrees(q, a)
    BY <1>2, <1>3, <1>5 DEF Agrees
  <2> QED
    BY <1>5, <2>1, <2>2
<1>6. Produces("SESSION", <<>>, q)
  BY <1>1 DEF SessionRecord
<1> QED
  BY <1>2, <1>3, <1>4, <1>5, <1>6, ProducesStream

\* A total within the manifest.
LEMMA NextTotal ==
  ASSUME SenderInv, NEW k \in 1..Len(manifest)
  PROVE  /\ Totals(manifest)[k - 1] \in Nat /\ Totals(manifest)[k] \in Nat
         /\ manifest[k].kind = "dir" => Totals(manifest)[k] = Totals(manifest)[k - 1]
         /\ manifest[k].kind = "file" =>
              /\ manifest[k].size \in Nat
              /\ Totals(manifest)[k] = Totals(manifest)[k - 1] + manifest[k].size
<1>1. tree \in Trees /\ manifest \in Seq(Entries(tree))
  BY DEF SenderInv
<1>2. PICK n \in Nat : n = Len(manifest)
  BY <1>1, LenProperties
<1>3. PICK T : T = Totals(manifest)
  OBVIOUS
<1>4. /\ \A i \in 0..n : T[i] \in Nat
      /\ \A i \in 1..n :
           T[i] = T[i - 1] + (IF manifest[i].kind = "file" THEN manifest[i].size ELSE 0)
  BY <1>1, <1>2, <1>3, TotalsFacts
<1>5. k \in 1..n /\ k \in 0..n /\ k - 1 \in 0..n
  BY <1>2
<1>6. T[k - 1] \in Nat /\ T[k] \in Nat
  BY <1>4, <1>5
<1>7. manifest[k].kind = "dir" => T[k] = T[k - 1]
  BY <1>4, <1>5, <1>6
<1>8. ASSUME manifest[k].kind = "file"
      PROVE  manifest[k].size \in Nat /\ T[k] = T[k - 1] + manifest[k].size
  <2>1. IsFile(k)
    BY <1>8 DEF IsFile
  <2>2. manifest[k].node \in DOMAIN tree /\ manifest[k].size = tree[manifest[k].node].sizes[1]
    BY <1>1, <2>1, FileEntry
  <2>3. manifest[k].size \in Nat
    BY <1>1, <2>2, TreesAssumption
  <2> QED
    BY <1>4, <1>5, <1>8, <2>3
<1> QED
  BY <1>3, <1>6, <1>7, <1>8

LEMMA ManifestRecordStream ==
  ASSUME StreamInv, SenderInv, ManifestRecord
  PROVE  StreamInv'
<1>1. PICK k, e : k = p.next /\ e = manifest[p.next]
  OBVIOUS
<1>2. PICK body : body = [path |-> e.path, file |-> FileId(k), size |-> e.size]
  OBVIOUS
<1>3. PICK q : q = [p EXCEPT !.next = @ + 1]
  OBVIOUS
<1>4. IF e.kind = "dir"
      THEN Produces("DIRECTORY", body, [q EXCEPT !.dirs = @ + 1])
      ELSE IF ~Matches(e.node) THEN Fails
      ELSE \E failed \in BOOLEAN :
             Produces("FILE_BEGIN", body,
               [q EXCEPT !.state = 2, !.files = @ + 1, !.total = (@ + e.size) % Word,
                         !.file = Started(e.node, failed)])
  BY <1>1, <1>2, <1>3 DEF ManifestRecord
<1>5. p.state = 1 /\ ~(p.next > Len(manifest)) /\ phase = "filling"
  BY DEF ManifestRecord, Closing, Filling
<1>6. DOMAIN p = ProducerFields /\ p.next \in Nat \ {0}
  BY DEF SenderInv, IsProducer
<1>7. /\ DOMAIN q = ProducerFields /\ q.state = 1 /\ q.next = p.next + 1 /\ q.id = p.id
      /\ q.files = p.files /\ q.dirs = p.dirs /\ q.total = p.total
  BY <1>3, <1>5, <1>6 DEF ProducerFields
<1>8. Len(manifest) \in Nat /\ k \in 1..Len(manifest) /\ e \in Entries(tree)
  <2>1. manifest \in Seq(Entries(tree)) /\ Len(manifest) \in Nat
    BY LenProperties DEF SenderInv
  <2>2. k \in 1..Len(manifest)
    BY <1>1, <1>5, <1>6, <2>1
  <2> QED
    BY <1>1, <2>1, <2>2, ElementOfSeq
<1>9. PICK T : T = Totals(manifest)
  OBVIOUS
<1>10. /\ T[k - 1] \in Nat /\ T[k] \in Nat /\ (e.kind = "dir" => T[k] = T[k - 1])
       /\ e.kind = "file" => e.size \in Nat /\ T[k] = T[k - 1] + e.size
  BY <1>1, <1>8, <1>9, NextTotal
<1>11. /\ q.next \in 1..(Len(manifest) + 1) /\ q.next - 1 = k /\ q.next - 2 = k - 1
       /\ p.total = T[k - 1] % Word /\ ~Altered(p)
  BY <1>1, <1>5, <1>6, <1>7, <1>8, <1>9 DEF StreamInv, Counts, Altered
<1>12. ASSUME NEW a, IsView(a), Agrees(p, a)
       PROVE  /\ a.dirs = p.dirs /\ a.files = p.files /\ a.open = 0 /\ a.total = T[k - 1]
              /\ a.dirs \in Nat /\ a.files \in Nat
  <2>1. a.dirs = p.dirs /\ a.files + a.open = p.files /\ a.open = 0 /\ a.total = T[k - 1]
    BY <1>1, <1>5, <1>9, <1>12 DEF Agrees
  <2>2. a.dirs \in Nat /\ a.files \in Nat
    BY <1>12 DEF IsView
  <2> QED
    BY <2>1, <2>2
<1>13. CASE e.kind = "dir"
  <2>1. PICK d : d = q.dirs + 1
    OBVIOUS
  <2>2. PICK r : r = [q EXCEPT !.dirs = d]
    OBVIOUS
  <2>3. /\ DOMAIN r = ProducerFields /\ r.state = 1 /\ r.next = q.next /\ r.id = p.id
        /\ r.files = p.files /\ r.dirs = p.dirs + 1 /\ r.total = p.total
    BY <1>7, <2>1, <2>2 DEF ProducerFields
  <2>4. Counts(r)
    BY <1>9, <1>10, <1>11, <1>13, <2>3 DEF Counts
  <2>5. ASSUME NEW a, IsView(a), Agrees(p, a)
        PROVE  \E b : IsView(b) /\ Takes(a, Record("DIRECTORY", body), b) /\ Agrees(r, b)
    <3>1. /\ a.dirs = p.dirs /\ a.files = p.files /\ a.open = 0 /\ a.total = T[k - 1]
          /\ a.dirs \in Nat /\ a.files \in Nat
      BY <1>12, <2>5
    <3>2. PICK n \in Nat : n = a.dirs + 1
      BY <3>1
    <3>3. PICK b : b = [a EXCEPT !.dirs = n]
      OBVIOUS
    <3>4. /\ IsView(b) /\ b.dirs = n /\ b.files = a.files /\ b.open = a.open
          /\ b.total = a.total
      BY <2>5, <3>2, <3>3, CountsFolder
    <3>5. Takes(a, Record("DIRECTORY", body), b)
      BY <3>2, <3>3 DEF Takes, Record
    <3>6. Agrees(r, b)
      BY <1>9, <1>10, <1>11, <1>13, <2>3, <3>1, <3>2, <3>4 DEF Agrees
    <3> QED
      BY <3>4, <3>5, <3>6
  <2>6. Produces("DIRECTORY", body, r)
    BY <1>4, <1>13, <2>1, <2>2
  <2> QED
    BY <1>5, <1>11, <2>3, <2>4, <2>5, <2>6, ProducesStream
<1>14. CASE e.kind # "dir" /\ ~Matches(e.node)
  BY <1>4, <1>14, FailsStream
<1>15. CASE e.kind # "dir" /\ Matches(e.node)
  <2>1. PICK failed \in BOOLEAN :
             Produces("FILE_BEGIN", body,
               [q EXCEPT !.state = 2, !.files = @ + 1, !.total = (@ + e.size) % Word,
                         !.file = Started(e.node, failed)])
    BY <1>4, <1>15
  <2>2. PICK files, total, file : /\ files = q.files + 1 /\ total = (q.total + e.size) % Word
                                  /\ file = Started(e.node, failed)
    OBVIOUS
  <2>3. PICK r : r = [q EXCEPT !.state = 2, !.files = files, !.total = total, !.file = file]
    OBVIOUS
  <2>4. /\ DOMAIN r = ProducerFields /\ r.state = 2 /\ r.next = q.next /\ r.id = p.id
        /\ r.files = files /\ r.dirs = p.dirs /\ r.total = total /\ r.file = file
    BY <1>7, <2>3 DEF ProducerFields
  <2>5. e.kind = "file"
    BY <1>8, <1>15 DEF Entries
  <2>6. total = T[k] % Word
    <3>1. Word \in Nat /\ Word > 0
      BY RecordsAssumption
    <3>2. total = ((T[k - 1] % Word) + e.size) % Word
      BY <1>7, <1>11, <2>2
    <3>3. PICK x \in Nat, y \in Nat : x = T[k - 1] /\ y = e.size /\ T[k] = x + y
      BY <1>10, <2>5
    <3>4. ((x % Word) + y) % Word = (x + y) % Word
      BY <3>1, SumModulo
    <3> QED
      BY <3>2, <3>3, <3>4
  <2>7. Counts(r)
    BY <1>9, <1>11, <2>4, <2>6 DEF Counts
  <2>8. file.read = <<>>
    BY <2>2, StartedRead
  <2>9. ASSUME NEW a, IsView(a), Agrees(p, a)
        PROVE  \E b : IsView(b) /\ Takes(a, Record("FILE_BEGIN", body), b) /\ Agrees(r, b)
    <3>1. /\ a.dirs = p.dirs /\ a.files = p.files /\ a.open = 0 /\ a.total = T[k - 1]
          /\ a.dirs \in Nat /\ a.files \in Nat
      BY <1>12, <2>9
    <3>2. PICK i, s, b : /\ i = body.file /\ s = body.size
                         /\ b = [a EXCEPT !.open = 1, !.id = i, !.size = s, !.written = <<>>]
      OBVIOUS
    <3>3. /\ IsView(b) /\ b.open = 1 /\ b.id = i /\ b.size = s
          /\ b.written = <<>> /\ b.files = a.files /\ b.dirs = a.dirs /\ b.total = a.total
      BY <2>9, <3>2 DEF IsView, ViewFields
    <3>4. Takes(a, Record("FILE_BEGIN", body), b)
      BY <3>1, <3>2 DEF Takes, Record
    <3>5. b.id = FileId(r.next - 1) /\ b.size = manifest[r.next - 1].size
      BY <1>1, <1>2, <1>11, <2>4, <3>2, <3>3
    <3>6. Len(r.file.read) = 0
      BY <2>4, <2>8
    <3>7. b.total = T[r.next - 2] + Len(r.file.read)
      BY <1>10, <1>11, <2>4, <3>1, <3>3, <3>6
    <3>8. b.dirs = r.dirs /\ b.files + b.open = r.files
      BY <1>7, <2>2, <2>4, <3>1, <3>3
    <3>9. Agrees(r, b)
      BY <1>9, <2>4, <2>8, <3>3, <3>5, <3>7, <3>8 DEF Agrees
    <3> QED
      BY <3>3, <3>4, <3>9
  <2>10. Produces("FILE_BEGIN", body, r)
    BY <2>1, <2>2, <2>3
  <2> QED
    BY <1>5, <1>11, <2>4, <2>7, <2>9, <2>10, ProducesStream
<1> QED
  BY <1>13, <1>14, <1>15

LEMMA DataRecordStream ==
  ASSUME StreamInv, SenderInv, DataRecord
  PROVE  StreamInv'
<1>1. p.state = 2 /\ phase = "filling"
  BY DEF DataRecord, Filling
<1>2. PICK failed \in BOOLEAN :
        LET f == ReadPiece(p.file, Piece, Current.size, failed)
            new == SubSeq(f.read, Len(p.file.read) + 1, Len(f.read))
        IN IF (new = <<>> \/ f.error) /\ Len(f.read) < Current.size THEN Fails
           ELSE Produces("FILE_DATA",
                  [file |-> FileId(p.next - 1), offset |-> Len(p.file.read), data |-> new],
                  [p EXCEPT !.file = f])
  BY DEF DataRecord
<1>3. PICK f : f = ReadPiece(p.file, Piece, Current.size, failed)
  OBVIOUS
<1>4. PICK new : new = SubSeq(f.read, Len(p.file.read) + 1, Len(f.read))
  OBVIOUS
<1>5. PICK body : body = [file |-> FileId(p.next - 1), offset |-> Len(p.file.read),
                          data |-> new]
  OBVIOUS
<1>6. PICK q : q = [p EXCEPT !.file = f]
  OBVIOUS
<1>7. Fails \/ Produces("FILE_DATA", body, q)
  BY <1>2, <1>3, <1>4, <1>5, <1>6
<1>8. CASE Fails
  BY <1>8, FailsStream
<1>9. CASE Produces("FILE_DATA", body, q)
  <2>1. DOMAIN p = ProducerFields /\ p.next \in Nat \ {0} /\ tree \in Trees
    BY DEF SenderInv, IsProducer
  <2>2. /\ DOMAIN q = ProducerFields /\ q.state = 2 /\ q.next = p.next /\ q.file = f
        /\ q.id = p.id /\ q.files = p.files /\ q.dirs = p.dirs /\ q.total = p.total
    BY <1>1, <1>6, <2>1 DEF ProducerFields
  <2>3. Counts(q) /\ (Altered(q) <=> Altered(p))
    BY <1>1, <2>2 DEF StreamInv, Counts, Altered
  <2>4. ASSUME ~Altered(q), NEW a, IsView(a), Agrees(p, a)
        PROVE  \E b : IsView(b) /\ Takes(a, Record("FILE_DATA", body), b) /\ Agrees(q, b)
    <3>1. PICK n : n = Current.node
      OBVIOUS
    <3>2. /\ n \in DOMAIN tree /\ version[n] = 0 /\ InOrder(p.file, n) /\ IsFile(p.next - 1)
          /\ Current = manifest[p.next - 1]
      BY <1>1, <2>3, <2>4, <3>1, CurrentFile DEF Altered
    <3>3. Piece \in Nat
      BY RecordsAssumption
    <3>4. InOrder(f, n) /\ Len(p.file.read) <= Len(f.read)
      BY <1>3, <2>1, <3>2, <3>3, ReadPieceInOrder
    <3>5. /\ p.file.read \o new = f.read /\ Len(p.file.read) \in Nat /\ Len(new) \in Nat
          /\ Len(f.read) = Len(p.file.read) + Len(new)
      <4>1. PICK g : g = p.file
        OBVIOUS
      <4>2. InOrder(g, n) /\ InOrder(f, n) /\ Len(g.read) <= Len(f.read) /\ n \in DOMAIN tree
        BY <3>2, <3>4, <4>1
      <4>3. new = New(g, f)
        BY <1>4, <4>1 DEF New
      <4>4. /\ g.read \o New(g, f) = f.read /\ Len(g.read) \in Nat /\ Len(New(g, f)) \in Nat
            /\ Len(f.read) = Len(g.read) + Len(New(g, f))
        BY <2>1, <4>2, ReadGrows
      <4> QED
        BY <4>1, <4>3, <4>4
    <3>6. PICK k : k = p.next - 1 /\ k - 1 = p.next - 2
      BY <2>1
    <3>7. PICK t \in Nat : t = Totals(manifest)[k - 1]
      BY <3>2, <3>6, NextTotal DEF IsFile
    <3>8. /\ a.dirs = p.dirs /\ a.files + a.open = p.files /\ a.open = 1
          /\ a.id = FileId(k) /\ a.size = manifest[k].size /\ a.written = p.file.read
          /\ a.total = t + Len(p.file.read)
      BY <1>1, <2>4, <3>6, <3>7 DEF Agrees
    <3>9. PICK m \in Nat : m = t + Len(f.read)
      BY <3>5, <3>7
    <3>10. PICK w, b : w = f.read /\ b = [a EXCEPT !.written = w, !.total = m]
      OBVIOUS
    <3>11. /\ IsView(b) /\ b.written = w /\ b.total = m /\ b.open = a.open /\ b.id = a.id
           /\ b.size = a.size /\ b.files = a.files /\ b.dirs = a.dirs
      BY <2>4, <3>9, <3>10 DEF IsView, ViewFields
    <3>12. w = a.written \o new /\ m = a.total + Len(new)
      BY <3>5, <3>7, <3>8, <3>9, <3>10
    <3>13. Takes(a, Record("FILE_DATA", body), b)
      <4>1. PICK x : x = Record("FILE_DATA", body)
        OBVIOUS
      <4>2. /\ x.type = "FILE_DATA" /\ x.body.file = a.id
            /\ x.body.offset = Len(a.written) /\ x.body.data = new
        BY <1>5, <3>6, <3>8, <4>1 DEF Record
      <4>3. b = [a EXCEPT !.written = @ \o x.body.data, !.total = @ + Len(x.body.data)]
        BY <2>4, <3>10, <3>12, <4>2 DEF IsView, ViewFields
      <4> QED
        BY <3>8, <4>1, <4>2, <4>3 DEF Takes
    <3>14. Agrees(q, b)
      BY <2>2, <3>6, <3>7, <3>8, <3>9, <3>10, <3>11 DEF Agrees
    <3> QED
      BY <3>11, <3>13, <3>14
  <2> QED
    BY <1>1, <1>9, <2>2, <2>3, <2>4, ProducesStream
<1> QED
  BY <1>7, <1>8, <1>9

LEMMA EndRecordStream ==
  ASSUME StreamInv, SenderInv, EndRecord
  PROVE  StreamInv'
<1>1. p.state = 2 /\ WholeRead /\ phase = "filling"
  BY DEF EndRecord, Filling
<1>2. CASE ~Unchanged(Current.node)
  BY <1>2, FailsStream DEF EndRecord
<1>3. CASE Unchanged(Current.node)
  <2>1. PICK body : body = [file |-> FileId(p.next - 1), size |-> Current.size,
                            crc |-> p.file.read]
    OBVIOUS
  <2>2. PICK q : q = [p EXCEPT !.state = 1, !.file = <<>>]
    OBVIOUS
  <2>3. Produces("FILE_END", body, q)
    BY <1>3, <2>1, <2>2 DEF EndRecord
  <2>4. DOMAIN p = ProducerFields /\ p.next \in Nat \ {0} /\ tree \in Trees
    BY DEF SenderInv, IsProducer
  <2>5. /\ DOMAIN q = ProducerFields /\ q.state = 1 /\ q.next = p.next
        /\ q.id = p.id /\ q.files = p.files /\ q.dirs = p.dirs /\ q.total = p.total
    BY <2>2, <2>4 DEF ProducerFields
  <2>6. PICK n, k : n = Current.node /\ k = p.next - 1
    OBVIOUS
  <2>7. /\ n \in DOMAIN tree /\ Current.size = tree[n].sizes[1] /\ version[n] = 0
        /\ InOrder(p.file, n) /\ IsFile(k) /\ Current = manifest[k]
    BY <1>1, <1>3, <2>6, CurrentFile DEF Unchanged, Matches
  <2>8. Counts(q) /\ ~Altered(p) /\ k - 1 = p.next - 2
    BY <1>1, <2>4, <2>5, <2>6, <2>7 DEF StreamInv, Counts, Altered
  <2>9. Len(p.file.read) = Current.size /\ Current.size \in Nat
    <3>1. Len(p.file.read) >= tree[n].sizes[1]
      BY <1>1, <2>7 DEF WholeRead
    <3>2. p.file.read = Blocks(n, 0)
      BY <2>4, <2>7, <3>1, WholeIsBlocks
    <3> QED
      BY <2>4, <2>7, <3>2, BlocksSeq
  <2>10. PICK t \in Nat, u \in Nat : /\ t = Totals(manifest)[k - 1] /\ u = Totals(manifest)[k]
                                     /\ u = t + Current.size
    BY <2>7, NextTotal DEF IsFile
  <2>11. ASSUME NEW a, IsView(a), Agrees(p, a)
         PROVE  \E b : IsView(b) /\ Takes(a, Record("FILE_END", body), b) /\ Agrees(q, b)
    <3>1. /\ a.dirs = p.dirs /\ a.files + a.open = p.files /\ a.open = 1
          /\ a.id = FileId(k) /\ a.size = Current.size /\ a.written = p.file.read
          /\ a.total = t + Len(p.file.read)
      BY <1>1, <2>6, <2>7, <2>8, <2>10, <2>11 DEF Agrees
    <3>2. PICK m \in Nat : m = a.files + 1
      BY <2>11 DEF IsView
    <3>3. PICK b : b = [a EXCEPT !.open = 0, !.files = m]
      OBVIOUS
    <3>4. IsView(b) /\ b.open = 0 /\ b.files = m /\ b.dirs = a.dirs /\ b.total = a.total
      BY <2>11, <3>2, <3>3 DEF IsView, ViewFields
    <3>5. Takes(a, Record("FILE_END", body), b)
      <4>1. PICK x : x = Record("FILE_END", body)
        OBVIOUS
      <4>2. /\ x.type = "FILE_END" /\ x.body.file = a.id /\ x.body.size = a.size
            /\ x.body.crc = a.written
        BY <2>1, <2>6, <3>1, <4>1 DEF Record
      <4>3. b = [a EXCEPT !.open = 0, !.files = @ + 1]
        BY <3>2, <3>3
      <4>4. Len(a.written) = a.size
        BY <2>9, <3>1
      <4> QED
        BY <3>1, <4>1, <4>2, <4>3, <4>4 DEF Takes
    <3>6. b.total = u
      BY <2>9, <2>10, <3>1, <3>4
    <3>7. b.files + b.open = q.files
      BY <2>5, <3>1, <3>2, <3>4
    <3>8. Agrees(q, b)
      BY <2>5, <2>6, <2>10, <3>1, <3>4, <3>6, <3>7 DEF Agrees
    <3> QED
      BY <3>4, <3>5, <3>8
  <2> QED
    BY <1>1, <2>3, <2>5, <2>8, <2>11, ProducesStream
<1> QED
  BY <1>2, <1>3

LEMMA TransferEndStream ==
  ASSUME StreamInv, SenderInv, TransferEnd
  PROVE  StreamInv'
<1>1. p.state = 1 /\ phase = "filling"
  BY DEF TransferEnd, Filling, Closing
<1>2. PICK body : body = [files |-> p.files, dirs |-> p.dirs, total |-> p.total]
  OBVIOUS
<1>3. PICK q : q = [p EXCEPT !.state = 6]
  OBVIOUS
<1>4. Produces("TRANSFER_END", body, q)
  BY <1>2, <1>3 DEF TransferEnd
<1>5. DOMAIN p = ProducerFields /\ p.next \in Nat \ {0}
  BY DEF SenderInv, IsProducer
<1>6. /\ DOMAIN q = ProducerFields /\ q.state = 6 /\ q.next = p.next /\ q.id = p.id
      /\ q.files = p.files /\ q.dirs = p.dirs /\ q.total = p.total
  BY <1>3, <1>5 DEF ProducerFields
<1>7. Counts(q) /\ ~Altered(p) /\ Counts(p)
  BY <1>1, <1>6 DEF StreamInv, Counts, Altered
<1>8. ASSUME NEW a, IsView(a), Agrees(p, a)
      PROVE  \E b : IsView(b) /\ Takes(a, Record("TRANSFER_END", body), b) /\ Agrees(q, b)
  <2>1. /\ a.dirs = p.dirs /\ a.files + a.open = p.files /\ a.open = 0
        /\ a.total = Totals(manifest)[p.next - 1]
    BY <1>1, <1>8 DEF Agrees
  <2>2. a.files = p.files
    BY <1>8, <2>1 DEF IsView
  <2>3. a.total <= AllBytes
    <3>1. tree \in Trees /\ manifest \in Seq(Entries(tree)) /\ Len(manifest) \in Nat
      BY LenProperties DEF SenderInv
    <3>2. p.next - 1 \in 0..Len(manifest)
      BY <1>7, <3>1 DEF Counts
    <3> QED
      BY <2>1, <3>1, <3>2, TotalsUp
  <2>4. PICK x : x = Record("TRANSFER_END", body)
    OBVIOUS
  <2>5. /\ x.type = "TRANSFER_END" /\ x.body.files = a.files /\ x.body.dirs = a.dirs
        /\ x.body.total = a.total % Word
    BY <1>2, <1>7, <2>1, <2>2, <2>4 DEF Record, Counts
  <2>6. Takes(a, x, a)
    BY <2>1, <2>3, <2>5 DEF Takes
  <2>7. Agrees(q, a)
    BY <1>1, <1>6, <1>8 DEF Agrees
  <2> QED
    BY <1>8, <2>4, <2>6, <2>7
<1> QED
  BY <1>1, <1>4, <1>6, <1>7, <1>8, ProducesStream

LEMMA ProduceStream ==
  ASSUME StreamInv, SenderInv, Produce
  PROVE  StreamInv'
<1> QED
  BY SessionRecordStream, ManifestRecordStream, DataRecordStream, EndRecordStream,
     TransferEndStream, FinishedStream, TransmitStream, ChangeStream DEF Produce

LEMMA StreamInit ==
  ASSUME Init
  PROVE  StreamInv
<1>1. /\ p = [state |-> 0, next |-> 1, id |-> 0, file |-> <<>>, files |-> 0, dirs |-> 0,
              total |-> 0, finished |-> FALSE]
      /\ window = <<>> /\ sent = <<>>
  BY DEF Init
<1>2. SenderInv
  BY RecordsInit DEF RecordsInv
<1>3. tree \in Trees /\ manifest \in Seq(Entries(tree)) /\ Len(manifest) \in Nat
  BY <1>2, LenProperties DEF SenderInv
<1>4. Totals(manifest)[0] = 0
  BY <1>3, TotalsFacts
<1>5. 0 % Word = 0
  BY RecordsAssumption
<1>6. Counts(p)
  BY <1>1, <1>3, <1>4, <1>5 DEF Counts
<1>7. PICK s : s = Said
  OBVIOUS
<1>8. s = <<>> /\ Len(s) = 0 /\ IsSeq(s)
  <2>1. sent \o <<>> = sent
    BY <1>2, SaidFacts, ConcatEmpty
  <2> QED
    BY <1>1, <1>7, <2>1, TruthfulEmpty, EmptySeq DEF Said, AllTruthful
<1>9. PICK v : v = [i \in {0} |-> NoView]
  OBVIOUS
<1>10. v[0] = NoView
  BY <1>9
<1>11. IsView(NoView)
  BY DEF IsView, NoView, ViewFields
<1>12. Follows(s, v)
  BY <1>8, <1>10, <1>11 DEF Follows
<1>13. Agrees(p, v[0])
  BY <1>1, <1>4, <1>10 DEF Agrees, NoView
<1>14. ~Ended(sent)
  BY <1>1 DEF Ended
<1> QED
  BY <1>1, <1>6, <1>7, <1>8, <1>12, <1>13, <1>14 DEF StreamInv

-----------------------------------------------------------------------------
(* Reconstructions that follow the records.                                 *)

\* A reconstruction that runs stands as the records it has taken say, and
\* there is another for it to take.
Active(t) == t.pc \in {"next", "dir", "mkdir", "create"}
Shows(t, v) ==
  /\ IF t.open = NoFile THEN v.open = 0
     ELSE v.open = 1 /\ v.id = t.open.id /\ v.size = t.open.size
          /\ v.written = t.open.written
  /\ t.files = v.files /\ t.dirs = v.dirs /\ t.total = v.total
Fine(result) ==
  \/ result \in {"", "VALID", "storage", "deleted", "killed"}
  \/ result = "summary" /\ AllBytes >= Word
Reading(t) ==
  /\ Active(t) => \E v : /\ Follows(t.frames, v) /\ Ended(t.frames)
                         /\ t.at < Len(t.frames) /\ Shows(t, v[t.at])
  /\ Fine(t.result)
FollowInv == \A r \in Readers : Reading(task[r])

LEMMA ReadingSame ==
  ASSUME tree' = tree, manifest' = manifest, NEW t, Reading(t)
  PROVE  Reading(t)'
<1>1. Fine(t.result)'
  BY FollowsSame DEF Fine, Reading
<1>2. ASSUME Active(t)
      PROVE  \E v : /\ Follows(t.frames, v)' /\ Ended(t.frames)
                    /\ t.at < Len(t.frames) /\ Shows(t, v[t.at])
  <2>1. PICK s : s = t.frames
    OBVIOUS
  <2>2. PICK v : Follows(s, v) /\ Ended(s) /\ t.at < Len(s) /\ Shows(t, v[t.at])
    BY <1>2, <2>1 DEF Reading
  <2>3. Follows(s, v)'
    BY <2>2, FollowsSame
  <2> QED
    BY <2>1, <2>2, <2>3
<1> QED
  BY <1>1, <1>2 DEF Reading, Active, Ended, Shows

\* A step of r.
LEMMA ReaderFollows ==
  ASSUME FollowInv, ReceiverInv, tree' = tree, manifest' = manifest, NEW r \in Readers, NEW t,
         Goes(r, t), Reading(t)
  PROVE  FollowInv'
<1>1. DOMAIN task = Readers /\ task' = [task EXCEPT ![r] = t]
  BY DEF ReceiverInv, Goes
<1>2. ASSUME NEW s \in Readers PROVE Reading(task[s])'
  <2>1. PICK u : u = task'[s]
    OBVIOUS
  <2>2. u = t \/ u = task[s]
    BY <1>1, <2>1
  <2>3. Reading(u)
    BY <2>2 DEF FollowInv
  <2>4. Reading(u)'
    BY <2>3, ReadingSame
  <2> QED
    BY <2>1, <2>4
<1> QED
  BY <1>2 DEF FollowInv

LEMMA EndsFollows ==
  ASSUME FollowInv, ReceiverInv, tree' = tree, manifest' = manifest, NEW r \in Readers,
         NEW result, Fine(result), Ends(r, result)
  PROVE  FollowInv'
<1>1. PICK known, t : /\ known = task[r].known
                      /\ t = [Idle EXCEPT !.pc = "done", !.result = result, !.known = known]
  OBVIOUS
<1>2. t.pc = "done" /\ t.result = result
  BY <1>1 DEF Idle
<1>3. Reading(t)
  BY <1>2 DEF Reading, Active
<1>4. Goes(r, t)
  BY <1>1 DEF Ends
<1> QED
  BY <1>3, <1>4, ReaderFollows

\* The record a running reconstruction has before it, and what to make of it.
Before(t, a, x, b) ==
  /\ t.at \in Nat /\ Len(t.frames) \in Nat /\ t.at + 1 <= Len(t.frames)
  /\ x = t.frames[t.at + 1] /\ x.id = t.at
  /\ IsView(a) /\ IsView(b) /\ Takes(a, x, b) /\ Shows(t, a)

LEMMA ReadsOn ==
  ASSUME FollowInv, ReceiverInv, NEW r \in Readers, Active(task[r])
  PROVE  /\ IsTask(task[r]) /\ DOMAIN task[r] = TaskFields /\ Fine(task[r].result)
         /\ task[r].at # Len(task[r].frames)
         /\ \E a, b :
              /\ Before(task[r], a, Rec(r), b)
              /\ \A u : /\ DOMAIN u = TaskFields /\ u.pc = "next"
                        /\ u.frames = task[r].frames /\ u.at = task[r].at + 1
                        /\ Shows(u, b) /\ Fine(u.result) /\ Rec(r).type # "TRANSFER_END"
                        => Reading(u)
<1>1. PICK t, x : t = task[r] /\ x = Rec(r)
  OBVIOUS
<1>2. IsTask(t) /\ Reading(t) /\ Active(t)
  BY <1>1 DEF FollowInv, ReceiverInv
<1>3. PICK s : s = t.frames
  OBVIOUS
<1>4. PICK v : Follows(s, v) /\ Ended(s) /\ t.at < Len(s) /\ Shows(t, v[t.at])
  BY <1>2, <1>3 DEF Reading
<1>5. PICK n \in Nat : n = Len(s)
  BY <1>4, SeqFacts DEF Follows
<1>6. PICK k \in Nat : k = t.at /\ k + 1 \in 1..n /\ (k + 1) - 1 = k /\ k \in 0..n /\ k # n
  BY <1>2, <1>3, <1>4, <1>5 DEF IsTask
<1>7. x = s[k + 1]
  BY <1>1, <1>3, <1>6 DEF Rec
<1>8. /\ IsView(v[k]) /\ IsView(v[k + 1]) /\ s[k + 1].id = k
      /\ Takes(v[k], s[k + 1], v[k + 1])
  <2>1. k + 1 \in 0..n
    BY <1>6
  <2>2. \A i \in 1..n : s[i].id = i - 1 /\ Takes(v[i - 1], s[i], v[i])
    BY <1>4, <1>5 DEF Follows
  <2>3. s[k + 1].id = (k + 1) - 1 /\ Takes(v[(k + 1) - 1], s[k + 1], v[k + 1])
    BY <1>6, <2>2
  <2>4. IsView(v[k]) /\ IsView(v[k + 1])
    BY <1>4, <1>5, <1>6, <2>1 DEF Follows
  <2> QED
    BY <1>6, <2>3, <2>4
<1>9. Before(t, v[k], x, v[k + 1])
  BY <1>3, <1>4, <1>5, <1>6, <1>7, <1>8 DEF Before
<1>10. ASSUME NEW u, DOMAIN u = TaskFields, u.pc = "next", u.frames = s, u.at = k + 1,
              Shows(u, v[k + 1]), Fine(u.result), x.type # "TRANSFER_END"
       PROVE  Reading(u)
  <2>1. k + 1 # n
    BY <1>4, <1>5, <1>7, <1>10 DEF Ended, Last
  <2>2. k + 1 < n
    BY <1>6, <2>1
  <2> QED
    BY <1>4, <1>5, <1>10, <2>2 DEF Reading
<1> QED
  BY <1>1, <1>2, <1>3, <1>5, <1>6, <1>9, <1>10 DEF IsTask, Reading

\* The same record, further on with it.
LEMMA StillReads ==
  ASSUME NEW t, Reading(t), Active(t), NEW u, u.frames = t.frames, u.at = t.at,
         u.open = t.open, u.files = t.files, u.dirs = t.dirs, u.total = t.total,
         u.result = t.result
  PROVE  Reading(u)
<1>1. PICK s : s = t.frames /\ s = u.frames
  OBVIOUS
<1>2. PICK v : Follows(s, v) /\ Ended(s) /\ t.at < Len(s) /\ Shows(t, v[t.at])
  BY <1>1 DEF Reading
<1>3. Shows(u, v[u.at])
  BY <1>2 DEF Shows
<1> QED
  BY <1>1, <1>2, <1>3 DEF Reading

LEMMA PressFollows ==
  ASSUME FollowInv, ReceiverInv, SenderInv, StreamInv, UNCHANGED sender,
         NEW r \in Readers, Press(r)
  PROVE  FollowInv'
<1>1. tree' = tree /\ manifest' = manifest
  BY DEF sender
<1>2. PICK s, t : s = sent /\ t = [Idle EXCEPT !.pc = "next", !.frames = s]
  OBVIOUS
<1>3. Goes(r, t) /\ Ended(s)
  BY <1>2 DEF Press, Complete, Ended
<1>4. /\ t.frames = s /\ t.at = 0 /\ t.open = NoFile /\ t.files = 0 /\ t.dirs = 0
      /\ t.total = 0 /\ t.result = ""
  BY <1>2 DEF Idle
<1>5. PICK v : Follows(s, v)
  BY <1>2, <1>3 DEF StreamInv
<1>6. Len(s) \in Nat /\ Len(s) # 0
  BY <1>3, <1>5, SeqFacts, EmptySeq DEF Follows, Ended, IsSeq
<1>7. PICK z : z = v[t.at] /\ z = NoView
  BY <1>4, <1>5 DEF Follows
<1>8. z.open = 0 /\ z.files = 0 /\ z.dirs = 0 /\ z.total = 0
  BY <1>7 DEF NoView
<1>9. Shows(t, v[t.at])
  BY <1>4, <1>7, <1>8 DEF Shows
<1>10. Follows(t.frames, v) /\ Ended(t.frames) /\ t.at < Len(t.frames)
  <2>1. 0 < Len(s)
    BY <1>6
  <2> QED
    BY <1>3, <1>4, <1>5, <2>1
<1>11. Fine(t.result)
  BY <1>4 DEF Fine
<1>12. Reading(t)
  BY <1>9, <1>10, <1>11 DEF Reading
<1> QED
  BY <1>1, <1>3, <1>12, ReaderFollows

LEMMA HasNumber ==
  ASSUME NEW o, "id" \in DOMAIN o
  PROVE  o # NoFile
<1>1. DOMAIN <<>> = {}
  OBVIOUS
<1> QED
  BY <1>1 DEF NoFile

LEMMA TakeSessionFollows ==
  ASSUME FollowInv, ReceiverInv, UNCHANGED sender, NEW r \in Readers,
         At(r, "next"), TakeSession(r)
  PROVE  FollowInv'
<1>1. tree' = tree /\ manifest' = manifest
  BY DEF sender
<1>2. PICK t, x : t = task[r] /\ x = Rec(r)
  OBVIOUS
<1>3. Active(t) /\ x.type = "SESSION"
  BY <1>2 DEF Active, At, TakeSession
<1>4. DOMAIN t = TaskFields /\ Fine(t.result)
  BY <1>2, <1>3, ReadsOn
<1>5. PICK a, b : /\ Before(t, a, x, b)
                  /\ \A u : /\ DOMAIN u = TaskFields /\ u.pc = "next"
                            /\ u.frames = t.frames /\ u.at = t.at + 1
                            /\ Shows(u, b) /\ Fine(u.result) /\ x.type # "TRANSFER_END"
                            => Reading(u)
  BY <1>2, <1>3, ReadsOn
<1>6. b = a /\ Shows(t, a)
  BY <1>3, <1>5 DEF Before, Takes
<1>7. PICK u : u = Onward(t)
  OBVIOUS
<1>8. /\ DOMAIN u = TaskFields /\ u.pc = "next" /\ u.frames = t.frames /\ u.at = t.at + 1
      /\ u.open = t.open /\ u.files = t.files /\ u.dirs = t.dirs /\ u.total = t.total
      /\ u.result = t.result
  BY <1>4, <1>7 DEF Onward, TaskFields
<1>9. Shows(u, b)
  BY <1>6, <1>8 DEF Shows
<1>10. Reading(u)
  BY <1>3, <1>4, <1>5, <1>8, <1>9
<1>11. Goes(r, u)
  BY <1>2, <1>7 DEF TakeSession
<1> QED
  BY <1>1, <1>10, <1>11, ReaderFollows

LEMMA TakePathFollows ==
  ASSUME FollowInv, ReceiverInv, UNCHANGED sender, NEW r \in Readers,
         At(r, "next"), TakePath(r)
  PROVE  FollowInv'
<1>1. tree' = tree /\ manifest' = manifest
  BY DEF sender
<1>2. PICK t, x : t = task[r] /\ x = Rec(r)
  OBVIOUS
<1>3. Active(t) /\ x.type \in {"DIRECTORY", "FILE_BEGIN"}
  BY <1>2 DEF Active, At, TakePath
<1>4. PICK a, b : Before(t, a, x, b)
  BY <1>2, <1>3, ReadsOn
<1>5. DOMAIN t = TaskFields /\ Reading(t)
  BY <1>2, <1>3, ReadsOn DEF FollowInv
<1>6. ~(x.type = "FILE_BEGIN" /\ t.open # NoFile)
  <2> SUFFICES ASSUME x.type = "FILE_BEGIN", t.open # NoFile PROVE FALSE
    OBVIOUS
  <2>1. a.open = 0
    BY <1>4 DEF Before, Takes
  <2>2. a.open = 1
    BY <1>4 DEF Before, Shows
  <2> QED
    BY <2>1, <2>2
<1>7. PICK u : u = [t EXCEPT !.pc = "dir"]
  OBVIOUS
<1>8. Goes(r, u)
  BY <1>2, <1>6, <1>7 DEF TakePath
<1>9. /\ u.frames = t.frames /\ u.at = t.at /\ u.open = t.open /\ u.files = t.files
      /\ u.dirs = t.dirs /\ u.total = t.total /\ u.result = t.result
  BY <1>5, <1>7 DEF TaskFields
<1>10. Reading(u)
  BY <1>3, <1>5, <1>9, StillReads
<1> QED
  BY <1>1, <1>8, <1>10, ReaderFollows

LEMMA TakeDataFollows ==
  ASSUME FollowInv, ReceiverInv, UNCHANGED sender, NEW r \in Readers,
         At(r, "next"), TakeData(r)
  PROVE  FollowInv'
<1>1. tree' = tree /\ manifest' = manifest
  BY DEF sender
<1>2. PICK t, x, o, body : t = task[r] /\ x = Rec(r) /\ o = task[r].open /\ body = x.body
  OBVIOUS
<1>3. Active(t) /\ x.type = "FILE_DATA"
  BY <1>2 DEF Active, At, TakeData
<1>4. DOMAIN t = TaskFields /\ Fine(t.result) /\ Owns(r, o)
  BY <1>2, <1>3, ReadsOn DEF ReceiverInv
<1>5. PICK a, b : /\ Before(t, a, x, b)
                  /\ \A u : /\ DOMAIN u = TaskFields /\ u.pc = "next"
                            /\ u.frames = t.frames /\ u.at = t.at + 1
                            /\ Shows(u, b) /\ Fine(u.result) /\ x.type # "TRANSFER_END"
                            => Reading(u)
  BY <1>2, <1>3, ReadsOn
<1>6. /\ a.open = 1 /\ body.file = a.id /\ body.offset = Len(a.written)
      /\ b = [a EXCEPT !.written = @ \o body.data, !.total = @ + Len(body.data)]
      /\ IsView(a)
  BY <1>2, <1>3, <1>5 DEF Before, Takes
<1>7. /\ o # NoFile /\ a.id = o.id /\ a.size = o.size /\ a.written = o.written
      /\ t.files = a.files /\ t.dirs = a.dirs /\ t.total = a.total
  <2>1. Shows(t, a)
    BY <1>5 DEF Before
  <2> QED
    BY <1>2, <1>6, <2>1 DEF Shows
<1>8. Goes(r, Onward([t EXCEPT !.open.written = @ \o body.data, !.total = @ + Len(body.data)]))
  BY <1>2, <1>6, <1>7 DEF TakeData
<1>9. PICK all, total : all = o.written \o body.data /\ total = t.total + Len(body.data)
  OBVIOUS
<1>10. PICK q : q = [o EXCEPT !.written = all]
  OBVIOUS
<1>11. DOMAIN o = {"id", "size", "written", "final", "doc"}
  BY <1>4, <1>7 DEF Owns
<1>12. q.id = o.id /\ q.size = o.size /\ q.written = all /\ q # NoFile
  BY <1>10, <1>11, HasNumber
<1>13. PICK w : w = [t EXCEPT !.open = q, !.total = total]
  OBVIOUS
<1>14. w = [t EXCEPT !.open.written = @ \o body.data, !.total = @ + Len(body.data)]
  BY <1>2, <1>4, <1>9, <1>10, <1>13 DEF TaskFields
<1>15. PICK u : u = Onward(w)
  OBVIOUS
<1>16. /\ DOMAIN w = TaskFields /\ w.frames = t.frames /\ w.at = t.at /\ w.open = q
       /\ w.files = t.files /\ w.dirs = t.dirs /\ w.total = total /\ w.result = t.result
  BY <1>4, <1>13 DEF TaskFields
<1>17. /\ DOMAIN u = TaskFields /\ u.pc = "next" /\ u.frames = t.frames /\ u.at = t.at + 1
       /\ u.open = q /\ u.files = t.files /\ u.dirs = t.dirs /\ u.total = total
       /\ u.result = t.result
  BY <1>15, <1>16 DEF Onward, TaskFields
<1>18. /\ b.open = 1 /\ b.id = a.id /\ b.size = a.size /\ b.written = all
       /\ b.files = a.files /\ b.dirs = a.dirs /\ b.total = total
  BY <1>6, <1>7, <1>9 DEF IsView, ViewFields
<1>19. Shows(u, b)
  BY <1>7, <1>12, <1>17, <1>18 DEF Shows
<1>20. Reading(u)
  BY <1>3, <1>4, <1>5, <1>17, <1>19
<1>21. Goes(r, u)
  BY <1>8, <1>14, <1>15
<1> QED
  BY <1>1, <1>20, <1>21, ReaderFollows

LEMMA TakeEndFollows ==
  ASSUME FollowInv, ReceiverInv, UNCHANGED sender, NEW r \in Readers,
         At(r, "next"), TakeEnd(r)
  PROVE  FollowInv'
<1>1. tree' = tree /\ manifest' = manifest
  BY DEF sender
<1>2. PICK t, x, o, body : t = task[r] /\ x = Rec(r) /\ o = task[r].open /\ body = x.body
  OBVIOUS
<1>3. Active(t) /\ x.type = "FILE_END"
  BY <1>2 DEF Active, At, TakeEnd
<1>4. DOMAIN t = TaskFields /\ Fine(t.result)
  BY <1>2, <1>3, ReadsOn
<1>5. PICK a, b : /\ Before(t, a, x, b)
                  /\ \A u : /\ DOMAIN u = TaskFields /\ u.pc = "next"
                            /\ u.frames = t.frames /\ u.at = t.at + 1
                            /\ Shows(u, b) /\ Fine(u.result) /\ x.type # "TRANSFER_END"
                            => Reading(u)
  BY <1>2, <1>3, ReadsOn
<1>6. /\ a.open = 1 /\ body.file = a.id /\ body.size = a.size
      /\ Len(a.written) = a.size /\ a.written = body.crc
      /\ b = [a EXCEPT !.open = 0, !.files = @ + 1] /\ IsView(a)
  BY <1>2, <1>3, <1>5 DEF Before, Takes
<1>7. /\ o # NoFile /\ a.id = o.id /\ a.size = o.size /\ a.written = o.written
      /\ t.files = a.files /\ t.dirs = a.dirs /\ t.total = a.total
  BY <1>2, <1>5, <1>6 DEF Before, Shows
<1>8. Goes(r, Onward([t EXCEPT !.open = NoFile, !.files = @ + 1]))
  BY <1>2, <1>6, <1>7 DEF TakeEnd
<1>9. PICK n, w : n = t.files + 1 /\ w = [t EXCEPT !.open = NoFile, !.files = n]
  OBVIOUS
<1>10. PICK u : u = Onward(w)
  OBVIOUS
<1>11. /\ DOMAIN w = TaskFields /\ w.frames = t.frames /\ w.at = t.at /\ w.open = NoFile
       /\ w.files = n /\ w.dirs = t.dirs /\ w.total = t.total /\ w.result = t.result
  BY <1>4, <1>9 DEF TaskFields
<1>12. /\ DOMAIN u = TaskFields /\ u.pc = "next" /\ u.frames = t.frames /\ u.at = t.at + 1
       /\ u.open = NoFile /\ u.files = n /\ u.dirs = t.dirs /\ u.total = t.total
       /\ u.result = t.result
  BY <1>10, <1>11 DEF Onward, TaskFields
<1>13. b.open = 0 /\ b.files = n /\ b.dirs = a.dirs /\ b.total = a.total
  BY <1>6, <1>7, <1>9 DEF IsView, ViewFields
<1>14. Shows(u, b)
  BY <1>7, <1>12, <1>13 DEF Shows
<1>15. Reading(u)
  BY <1>3, <1>4, <1>5, <1>12, <1>14
<1>16. Goes(r, u)
  BY <1>8, <1>9, <1>10
<1> QED
  BY <1>1, <1>15, <1>16, ReaderFollows

\* The totals are the same but for whole words.
LEMMA TakeSummaryFollows ==
  ASSUME FollowInv, ReceiverInv, SenderInv, UNCHANGED sender, NEW r \in Readers,
         At(r, "next"), TakeSummary(r)
  PROVE  FollowInv'
<1>1. tree' = tree /\ manifest' = manifest
  BY DEF sender
<1>2. PICK t, x, body : t = task[r] /\ x = Rec(r) /\ body = x.body
  OBVIOUS
<1>3. Active(t) /\ x.type = "TRANSFER_END"
  BY <1>2 DEF Active, At, TakeSummary
<1>4. PICK a, b : Before(t, a, x, b)
  BY <1>2, <1>3, ReadsOn
<1>5. /\ a.open = 0 /\ body.files = a.files /\ body.dirs = a.dirs
      /\ body.total = a.total % Word /\ a.total <= AllBytes /\ IsView(a)
  BY <1>2, <1>3, <1>4 DEF Before, Takes
<1>6. t.open = NoFile /\ t.files = a.files /\ t.dirs = a.dirs /\ t.total = a.total
  BY <1>4, <1>5 DEF Before, Shows
<1>7. AllBytes \in Nat /\ Word \in Nat \ {0} /\ a.total \in Nat
  <2>1. tree \in Trees /\ manifest \in Seq(Entries(tree)) /\ Len(manifest) \in Nat
    BY LenProperties DEF SenderInv
  <2>2. 0 \in 0..Len(manifest)
    BY <2>1
  <2>3. AllBytes \in Nat
    BY <2>1, <2>2, TotalsUp
  <2> QED
    BY <1>5, <2>3, RecordsAssumption DEF IsView
<1>8. AllBytes < Word => a.total % Word = a.total
  BY <1>5, <1>7
<1>9. PICK result : result = IF /\ t.open = NoFile /\ body.files = t.files
                                /\ body.dirs = t.dirs /\ body.total = t.total
                             THEN "VALID" ELSE "summary"
  OBVIOUS
<1>10. Ends(r, result)
  BY <1>2, <1>9 DEF TakeSummary
<1>11. Fine(result)
  BY <1>5, <1>6, <1>7, <1>8, <1>9 DEF Fine
<1> QED
  BY <1>1, <1>10, <1>11, EndsFollows

LEMMA TakeFollows ==
  ASSUME FollowInv, ReceiverInv, SenderInv, UNCHANGED sender, NEW r \in Readers, Take(r)
  PROVE  FollowInv'
<1>1. At(r, "next") /\ Active(task[r])
  BY DEF Take, At, Active
<1>2. task[r].at # Len(task[r].frames)
  BY <1>1, ReadsOn
<1>3. Rec(r).id = task[r].at
  BY <1>1, ReadsOn DEF Before
<1>4. CASE ~kept
  <2>1. Ends(r, "deleted") /\ Fine("deleted")
    BY <1>2, <1>4 DEF Take, Fine
  <2>2. tree' = tree /\ manifest' = manifest
    BY DEF sender
  <2> QED
    BY <2>1, <2>2, EndsFollows
<1>5. CASE kept
  <2>1. TakeSession(r) \/ TakePath(r) \/ TakeData(r) \/ TakeEnd(r) \/ TakeSummary(r)
    BY <1>2, <1>3, <1>5 DEF Take
  <2> QED
    BY <1>1, <2>1, TakeSessionFollows, TakePathFollows, TakeDataFollows, TakeEndFollows,
       TakeSummaryFollows
<1> QED
  BY <1>4, <1>5

LEMMA KnowsReads ==
  ASSUME FollowInv, ReceiverInv, NEW r \in Readers, Active(task[r]), NEW d
  PROVE  Reading(Knows(r, d))
<1>1. PICK t, known : /\ t = task[r]
                      /\ known = Known(t.known, SubSeq(Folder(r), 1, NextPart(r)), d)
  OBVIOUS
<1>2. PICK u : u = [t EXCEPT !.pc = "dir", !.known = known]
  OBVIOUS
<1>3. Knows(r, d) = u
  BY <1>1, <1>2 DEF Knows
<1>4. DOMAIN t = TaskFields /\ Reading(t) /\ Active(t)
  BY <1>1, ReadsOn DEF FollowInv
<1>5. /\ u.frames = t.frames /\ u.at = t.at /\ u.open = t.open /\ u.files = t.files
      /\ u.dirs = t.dirs /\ u.total = t.total /\ u.result = t.result
  BY <1>2, <1>4 DEF TaskFields
<1>6. Reading(u)
  BY <1>4, <1>5, StillReads
<1> QED
  BY <1>3, <1>6

LEMMA FindFollows ==
  ASSUME FollowInv, ReceiverInv, UNCHANGED sender, NEW r \in Readers, Find(r)
  PROVE  FollowInv'
<1>1. tree' = tree /\ manifest' = manifest
  BY DEF sender
<1>2. PICK t, x : t = task[r] /\ x = Rec(r)
  OBVIOUS
<1>3. Active(t) /\ t.pc = "dir"
  BY <1>2 DEF Active, At, Find
<1>4. DOMAIN t = TaskFields /\ Fine(t.result) /\ Reading(t) /\ IsTask(t)
  BY <1>2, <1>3, ReadsOn DEF FollowInv
<1>5. PICK found : found = {d \in DOMAIN docs : docs[d].parent = Above(r)
                                               /\ docs[d].name = Final(Folder(r)[NextPart(r)])}
  OBVIOUS
<1>6. PICK in : in = t.known[Folder(r)]
  OBVIOUS
<1>7. IF Unknown(r) # {}
      THEN IF found = {} THEN Goes(r, [t EXCEPT !.pc = "mkdir"])
           ELSE Goes(r, Knows(r, CHOOSE d \in found : TRUE))
      ELSE IF x.type = "DIRECTORY"
      THEN Goes(r, Onward([t EXCEPT !.dirs = @ + 1]))
      ELSE Goes(r, [t EXCEPT !.pc = "create",
                             !.name = Unused(in, Final(Last(x.body.path)))])
  BY <1>2, <1>5, <1>6 DEF Find
<1>8. CASE Goes(r, [t EXCEPT !.pc = "mkdir"])
  <2>1. PICK u : u = [t EXCEPT !.pc = "mkdir"]
    OBVIOUS
  <2>2. /\ u.frames = t.frames /\ u.at = t.at /\ u.open = t.open /\ u.files = t.files
        /\ u.dirs = t.dirs /\ u.total = t.total /\ u.result = t.result
    BY <1>4, <2>1 DEF TaskFields
  <2>3. Reading(u)
    BY <1>3, <1>4, <2>2, StillReads
  <2> QED
    BY <1>1, <1>8, <2>1, <2>3, ReaderFollows
<1>9. CASE Goes(r, Knows(r, CHOOSE d \in found : TRUE))
  <2>1. PICK d, u : d = (CHOOSE e \in found : TRUE) /\ u = Knows(r, d)
    OBVIOUS
  <2>2. Reading(u)
    BY <1>2, <1>3, <2>1, KnowsReads
  <2> QED
    BY <1>1, <1>9, <2>1, <2>2, ReaderFollows
<1>10. CASE x.type = "DIRECTORY" /\ Goes(r, Onward([t EXCEPT !.dirs = @ + 1]))
  <2>1. PICK a, b : /\ Before(t, a, x, b)
                    /\ \A u : /\ DOMAIN u = TaskFields /\ u.pc = "next"
                              /\ u.frames = t.frames /\ u.at = t.at + 1
                              /\ Shows(u, b) /\ Fine(u.result) /\ x.type # "TRANSFER_END"
                              => Reading(u)
    BY <1>2, <1>3, ReadsOn
  <2>2. b = [a EXCEPT !.dirs = @ + 1] /\ IsView(a) /\ Shows(t, a)
    BY <1>10, <2>1 DEF Before, Takes
  <2>3. PICK n, w : n = t.dirs + 1 /\ w = [t EXCEPT !.dirs = n]
    OBVIOUS
  <2>4. PICK u : u = Onward(w)
    OBVIOUS
  <2>5. /\ DOMAIN w = TaskFields /\ w.frames = t.frames /\ w.at = t.at /\ w.open = t.open
        /\ w.files = t.files /\ w.dirs = n /\ w.total = t.total /\ w.result = t.result
    BY <1>4, <2>3 DEF TaskFields
  <2>6. /\ DOMAIN u = TaskFields /\ u.pc = "next" /\ u.frames = t.frames /\ u.at = t.at + 1
        /\ u.open = t.open /\ u.files = t.files /\ u.dirs = n /\ u.total = t.total
        /\ u.result = t.result
    BY <2>4, <2>5 DEF Onward, TaskFields
  <2>7. /\ b.dirs = a.dirs + 1 /\ b.files = a.files /\ b.open = a.open /\ b.total = a.total
        /\ b.id = a.id /\ b.size = a.size /\ b.written = a.written
    BY <2>2 DEF IsView, ViewFields
  <2>8. Shows(u, b)
    BY <2>2, <2>3, <2>6, <2>7 DEF Shows
  <2>9. Reading(u)
    BY <1>4, <1>10, <2>1, <2>6, <2>8
  <2>10. Goes(r, u)
    BY <1>10, <2>3, <2>4
  <2> QED
    BY <1>1, <2>9, <2>10, ReaderFollows
<1>11. CASE Goes(r, [t EXCEPT !.pc = "create",
                              !.name = Unused(in, Final(Last(x.body.path)))])
  <2>1. PICK name, u : /\ name = Unused(in, Final(Last(x.body.path)))
                       /\ u = [t EXCEPT !.pc = "create", !.name = name]
    OBVIOUS
  <2>2. /\ u.frames = t.frames /\ u.at = t.at /\ u.open = t.open /\ u.files = t.files
        /\ u.dirs = t.dirs /\ u.total = t.total /\ u.result = t.result
    BY <1>4, <2>1 DEF TaskFields
  <2>3. Reading(u)
    BY <1>3, <1>4, <2>2, StillReads
  <2>4. Goes(r, u)
    BY <1>11, <2>1
  <2> QED
    BY <1>1, <2>3, <2>4, ReaderFollows
<1> QED
  BY <1>7, <1>8, <1>9, <1>10, <1>11

LEMMA MakeFolderFollows ==
  ASSUME FollowInv, ReceiverInv, UNCHANGED sender, NEW r \in Readers, MakeFolder(r)
  PROVE  FollowInv'
<1>1. tree' = tree /\ manifest' = manifest
  BY DEF sender
<1>2. Active(task[r]) /\ Fine("storage")
  BY DEF Active, At, MakeFolder, Fine
<1>3. Ends(r, "storage") \/ Goes(r, Knows(r, Len(docs) + 1))
  BY DEF MakeFolder
<1>4. CASE Ends(r, "storage")
  BY <1>1, <1>2, <1>4, EndsFollows
<1>5. CASE Goes(r, Knows(r, Len(docs) + 1))
  <2>1. PICK d, u : d = Len(docs) + 1 /\ u = Knows(r, d)
    OBVIOUS
  <2>2. Reading(u)
    BY <1>2, <2>1, KnowsReads
  <2> QED
    BY <1>1, <1>5, <2>1, <2>2, ReaderFollows
<1> QED
  BY <1>3, <1>4, <1>5

LEMMA CreateFileFollows ==
  ASSUME FollowInv, ReceiverInv, UNCHANGED sender, NEW r \in Readers, CreateFile(r)
  PROVE  FollowInv'
<1>1. tree' = tree /\ manifest' = manifest
  BY DEF sender
<1>2. PICK t, x : t = task[r] /\ x = Rec(r)
  OBVIOUS
<1>3. Active(t) /\ t.pc = "create"
  BY <1>2 DEF Active, At, CreateFile
<1>4. DOMAIN t = TaskFields /\ Fine(t.result) /\ IsTask(t)
  BY <1>2, <1>3, ReadsOn
<1>5. CASE Ends(r, "storage")
  <2>1. Fine("storage")
    BY DEF Fine
  <2> QED
    BY <1>1, <1>5, <2>1, EndsFollows
<1>6. CASE ~Ends(r, "storage")
  <2>1. PICK body, name, n : body = x.body /\ name = t.name /\ n = Len(docs) + 1
    OBVIOUS
  <2>2. PICK o : o = [id |-> body.file, size |-> body.size, written |-> <<>>,
                      final |-> name, doc |-> n]
    OBVIOUS
  <2>3. Goes(r, Onward([t EXCEPT !.open = o]))
    BY <1>2, <1>6, <2>1, <2>2 DEF CreateFile
  <2>4. PICK a, b : /\ Before(t, a, x, b)
                    /\ \A u : /\ DOMAIN u = TaskFields /\ u.pc = "next"
                              /\ u.frames = t.frames /\ u.at = t.at + 1
                              /\ Shows(u, b) /\ Fine(u.result) /\ x.type # "TRANSFER_END"
                              => Reading(u)
    BY <1>2, <1>3, ReadsOn
  <2>5. x.type = "FILE_BEGIN"
    BY <1>3, <1>4, <2>4 DEF IsTask, Before
  <2>6. /\ a.open = 0 /\ IsView(a) /\ Shows(t, a)
        /\ b = [a EXCEPT !.open = 1, !.id = body.file, !.size = body.size, !.written = <<>>]
    BY <2>1, <2>4, <2>5 DEF Before, Takes
  <2>7. /\ b.open = 1 /\ b.id = body.file /\ b.size = body.size /\ b.written = <<>>
        /\ b.files = a.files /\ b.dirs = a.dirs /\ b.total = a.total
    BY <2>6 DEF IsView, ViewFields
  <2>8. o.id = body.file /\ o.size = body.size /\ o.written = <<>> /\ "id" \in DOMAIN o
    BY <2>2
  <2>9. o # NoFile
    BY <2>8, HasNumber
  <2>10. PICK w : w = [t EXCEPT !.open = o]
    OBVIOUS
  <2>11. PICK u : u = Onward(w)
    OBVIOUS
  <2>12. /\ DOMAIN w = TaskFields /\ w.frames = t.frames /\ w.at = t.at /\ w.open = o
         /\ w.files = t.files /\ w.dirs = t.dirs /\ w.total = t.total /\ w.result = t.result
    BY <1>4, <2>10 DEF TaskFields
  <2>13. /\ DOMAIN u = TaskFields /\ u.pc = "next" /\ u.frames = t.frames /\ u.at = t.at + 1
         /\ u.open = o /\ u.files = t.files /\ u.dirs = t.dirs /\ u.total = t.total
         /\ u.result = t.result
    BY <2>11, <2>12 DEF Onward, TaskFields
  <2>14. Shows(u, b)
    BY <2>6, <2>7, <2>8, <2>9, <2>13 DEF Shows
  <2>15. Reading(u)
    BY <1>4, <2>4, <2>5, <2>13, <2>14
  <2>16. Goes(r, u)
    BY <2>3, <2>10, <2>11
  <2> QED
    BY <1>1, <2>15, <2>16, ReaderFollows
<1> QED
  BY <1>5, <1>6

LEMMA KillFollows ==
  ASSUME FollowInv, UNCHANGED sender, Kill
  PROVE  FollowInv'
<1>1. tree' = tree /\ manifest' = manifest
  BY DEF sender
<1>2. PICK t : t = [Idle EXCEPT !.pc = "done", !.result = "killed"]
  OBVIOUS
<1>3. t.pc = "done" /\ t.result = "killed"
  BY <1>2 DEF Idle
<1>4. Reading(t)
  BY <1>3 DEF Reading, Active, Fine
<1>5. \A r \in Readers : task'[r] = t \/ task'[r] = task[r]
  BY <1>2 DEF Kill
<1>6. ASSUME NEW r \in Readers PROVE Reading(task[r])'
  <2>1. PICK u : u = task'[r]
    OBVIOUS
  <2>2. Reading(u)
    BY <1>4, <1>5, <2>1 DEF FollowInv
  <2>3. Reading(u)'
    BY <1>1, <2>2, ReadingSame
  <2> QED
    BY <2>1, <2>3
<1> QED
  BY <1>6 DEF FollowInv

LEMMA SameFollows ==
  ASSUME FollowInv, tree' = tree, manifest' = manifest, task' = task
  PROVE  FollowInv'
<1>1. ASSUME NEW r \in Readers PROVE Reading(task[r])'
  <2>1. PICK u : u = task[r] /\ u = task'[r]
    OBVIOUS
  <2>2. Reading(u)'
    BY <2>1, ReadingSame DEF FollowInv
  <2> QED
    BY <2>1, <2>2
<1> QED
  BY <1>1 DEF FollowInv

LEMMA ReconstructFollows ==
  ASSUME FollowInv, ReceiverInv, SenderInv, StreamInv, UNCHANGED sender, Reconstruct
  PROVE  FollowInv'
<1>1. tree' = tree /\ manifest' = manifest
  BY DEF sender
<1>2. ASSUME NEW r \in Readers, Step(r) PROVE FollowInv'
  <2>1. CASE StorageFails(r)
    <3>1. Ends(r, "storage") /\ Fine("storage")
      BY <2>1 DEF StorageFails, Fine
    <3> QED
      BY <1>1, <3>1, EndsFollows
  <2> QED
    BY <1>2, <2>1, TakeFollows, FindFollows, MakeFolderFollows, CreateFileFollows DEF Step
<1>3. CASE Reset
  BY <1>1, <1>3, SameFollows DEF Reset
<1> QED
  BY <1>2, <1>3, PressFollows, KillFollows DEF Reconstruct

LEMMA SenderSameStream ==
  ASSUME StreamInv, UNCHANGED sender
  PROVE  StreamInv'
<1>1. /\ tree' = tree /\ manifest' = manifest /\ version' = version /\ p' = p
      /\ sent' = sent /\ window' = window /\ phase' = phase
  BY DEF sender
<1>2. PICK s : s = Said /\ s = Said'
  BY <1>1 DEF Said
<1>3. Altered(p)' <=> Altered(p)
  BY <1>1 DEF Altered
<1> QED
  BY <1>1, <1>2, <1>3, StreamKeeps DEF StreamInv

\* The inductive invariant: what has been sent to its end can be followed to
\* its end, and each reconstruction stands as the records it has taken say.
AgreeInv == StreamInv /\ FollowInv

LEMMA AgreeInit ==
  ASSUME Init
  PROVE  AgreeInv
<1>1. \A r \in Readers : task[r] = Idle
  BY DEF Init
<1>2. PICK t : t = Idle
  OBVIOUS
<1>3. t.pc = "idle" /\ t.result = ""
  BY <1>2 DEF Idle
<1>4. Reading(t)
  BY <1>3 DEF Reading, Active, Fine
<1>5. FollowInv
  BY <1>1, <1>2, <1>4 DEF FollowInv
<1> QED
  BY <1>5, StreamInit DEF AgreeInv

LEMMA AgreeNext ==
  ASSUME RecordsInv, AgreeInv, [Next]_vars
  PROVE  AgreeInv'
<1>1. SenderInv /\ ReceiverInv /\ StreamInv /\ FollowInv
  BY DEF RecordsInv, AgreeInv
<1>2. CASE Produce /\ UNCHANGED receiver
  <2>1. StreamInv'
    BY <1>1, <1>2, ProduceStream
  <2>2. tree' = tree /\ manifest' = manifest
    BY <1>2 DEF Produce, SessionRecord, ManifestRecord, DataRecord, EndRecord, TransferEnd,
       Finished, Transmit, Change, Produces, Fails
  <2>3. task' = task
    BY <1>2 DEF receiver
  <2>4. FollowInv'
    BY <1>1, <2>2, <2>3, SameFollows
  <2> QED
    BY <2>1, <2>4 DEF AgreeInv
<1>3. CASE Reconstruct /\ UNCHANGED sender
  <2>1. StreamInv'
    BY <1>1, <1>3, SenderSameStream
  <2>2. FollowInv'
    BY <1>1, <1>3, ReconstructFollows
  <2> QED
    BY <2>1, <2>2 DEF AgreeInv
<1>4. CASE UNCHANGED vars
  <2>1. UNCHANGED sender /\ task' = task
    BY <1>4 DEF vars, receiver
  <2>2. tree' = tree /\ manifest' = manifest
    BY <2>1 DEF sender
  <2>3. StreamInv' /\ FollowInv'
    BY <1>1, <2>1, <2>2, SenderSameStream, SameFollows
  <2> QED
    BY <2>3 DEF AgreeInv
<1> QED
  BY <1>2, <1>3, <1>4 DEF Next

LEMMA AgreeGives ==
  ASSUME AgreeInv
  PROVE  OnlyStorageFails
<1>1. ASSUME NEW r \in Readers, Failed(r) PROVE AllBytes >= Word
  <2>1. Fine(task[r].result)
    BY DEF AgreeInv, FollowInv, Reading
  <2> QED
    BY <1>1, <2>1 DEF Fine, Failed
<1> QED
  BY <1>1 DEF OnlyStorageFails

\* Records that a reconstruction can follow to the end of the session.
THEOREM SessionAgrees == Spec => []AgreeInv
<1>1. Init => AgreeInv
  BY AgreeInit
<1>2. RecordsInv /\ AgreeInv /\ [Next]_vars => AgreeInv'
  BY AgreeNext
<1> QED
  BY <1>1, <1>2, RecordsStay, PTL DEF Spec

\* With less than 4 GiB in all a complete session is reconstructed, unless the
\* phone's storage fails, the session is reset or the app is killed.
THEOREM OnlyStorageStops == Spec => []OnlyStorageFails
<1>1. AgreeInv => OnlyStorageFails
  BY AgreeGives
<1> QED
  BY <1>1, SessionAgrees, PTL

-----------------------------------------------------------------------------
(* What the manifest holds.                                                *)

NamesOf(t, q) == [i \in DOMAIN q |-> t[q[i]].name]

\* A way down the tree, and those of at most d nodes that begin with n.
IsWay(t, q) ==
  /\ q # <<>>
  /\ \A i \in 1..(Len(q) - 1) :
       q[i + 1] \in ToSet(t[q[i]].children) /\ t[q[i + 1]].name # Manifest
Ways(t, n, d) == {q \in Seq(DOMAIN t) : IsWay(t, q) /\ q[1] = n /\ Len(q) <= d}

\* f tells of each way which entry of the list it is.
Lists(f, t, list, W) ==
  /\ \A q \in W : /\ f[q] \in 1..Len(list)
                  /\ list[f[q]].path = NamesOf(t, q) /\ list[f[q]].node = Last(q)
  /\ \A q, u \in W : f[q] = f[u] => q = u

LEMMA TailFacts ==
  ASSUME NEW S, NEW q \in Seq(S), Len(q) > 1
  PROVE  /\ Tail(q) \in Seq(S) /\ Tail(q) # <<>> /\ Len(Tail(q)) = Len(q) - 1
         /\ \A i \in 1..(Len(q) - 1) : Tail(q)[i] = q[i + 1]
         /\ Last(Tail(q)) = Last(q)
<1>1. PICK m \in Nat : m = Len(q) /\ m > 1
  OBVIOUS
<1>2. PICK u \in Seq(S) : u = Tail(q) /\ Len(u) = m - 1 /\ \A i \in 1..(m - 1) : u[i] = q[i + 1]
  <2>1. q # <<>>
    BY <1>1
  <2>2. /\ Tail(q) \in Seq(S) /\ Len(Tail(q)) = Len(q) - 1
        /\ \A i \in 1..Len(Tail(q)) : Tail(q)[i] = q[i + 1]
    BY <2>1, HeadTailProperties, Zenon
  <2>3. PICK u : u = Tail(q)
    OBVIOUS
  <2>4. u \in Seq(S) /\ Len(u) = m - 1 /\ \A i \in 1..Len(u) : u[i] = q[i + 1]
    BY <1>1, <2>2, <2>3, Zenon
  <2> QED
    BY <2>3, <2>4, Zenon
<1>3. u # <<>>
  BY <1>1, <1>2
<1>4. u[m - 1] = q[m]
  <2>1. m - 1 \in 1..(m - 1) /\ (m - 1) + 1 = m
    BY <1>1
  <2> QED
    BY <1>2, <2>1
<1> QED
  BY <1>1, <1>2, <1>3, <1>4 DEF Last

LEMMA SameTail ==
  ASSUME NEW S, NEW q \in Seq(S), NEW u \in Seq(S), Len(q) > 1, Len(u) > 1,
         q[1] = u[1], Tail(q) = Tail(u)
  PROVE  q = u
<1>1. PICK m \in Nat : m = Len(q) /\ m > 1
  OBVIOUS
<1>2. Len(u) = m
  <2>1. Len(Tail(q)) = Len(q) - 1 /\ Len(Tail(u)) = Len(u) - 1 /\ Len(u) \in Nat
    BY TailFacts, LenProperties
  <2> QED
    BY <1>1, <2>1
<1>3. ASSUME NEW i \in 1..m PROVE q[i] = u[i]
  <2>1. CASE i = 1
    BY <2>1
  <2>2. CASE i # 1
    <3>1. i - 1 \in 1..(m - 1) /\ (i - 1) + 1 = i
      BY <1>1, <2>2
    <3>2. Tail(q)[i - 1] = q[(i - 1) + 1] /\ Tail(u)[i - 1] = u[(i - 1) + 1]
      BY <1>1, <1>2, <3>1, TailFacts
    <3> QED
      BY <3>1, <3>2
  <2> QED
    BY <2>1, <2>2
<1> QED
  BY <1>1, <1>2, <1>3, SeqEqual

\* The way goes on from a child, and is that entry below the directory.
LEMMA WayDown ==
  ASSUME NEW t \in Trees, NEW n \in DOMAIN t, NEW d \in Nat,
         NEW q \in Ways(t, n, d + 1), Len(q) > 1
  PROVE  /\ q[2] \in DOMAIN t /\ q[2] \in ToSet(t[n].children) /\ t[q[2]].name # Manifest
         /\ Tail(q) \in Ways(t, q[2], d)
         /\ <<t[n].name>> \o NamesOf(t, Tail(q)) = NamesOf(t, q)
<1>1. q \in Seq(DOMAIN t) /\ IsWay(t, q) /\ q[1] = n /\ Len(q) <= d + 1
  BY DEF Ways
<1>2. PICK m \in Nat : m = Len(q) /\ m > 1
  BY <1>1
<1>3. PICK u : u = Tail(q)
  OBVIOUS
<1>4. /\ u \in Seq(DOMAIN t) /\ u # <<>> /\ Len(u) = m - 1
      /\ \A i \in 1..(m - 1) : u[i] = q[i + 1]
  BY <1>1, <1>2, <1>3, TailFacts
<1>5. q[2] \in DOMAIN t /\ q[2] \in ToSet(t[n].children) /\ t[q[2]].name # Manifest
  <2>1. 1 \in 1..(Len(q) - 1) /\ 1 + 1 = 2 /\ 2 \in 1..Len(q)
    BY <1>2
  <2>2. q[2] \in ToSet(t[q[1]].children) /\ t[q[2]].name # Manifest
    BY <1>1, <2>1 DEF IsWay
  <2> QED
    BY <1>1, <2>1, <2>2, ElementOfSeq
<1>6. u \in Ways(t, q[2], d)
  <2>1. ASSUME NEW i \in 1..(Len(u) - 1)
        PROVE  u[i + 1] \in ToSet(t[u[i]].children) /\ t[u[i + 1]].name # Manifest
    <3>1. i + 1 \in 1..(Len(q) - 1) /\ i + 1 \in 1..(m - 1) /\ i \in 1..(m - 1)
      BY <1>2, <1>4
    <3>2. q[(i + 1) + 1] \in ToSet(t[q[i + 1]].children) /\ t[q[(i + 1) + 1]].name # Manifest
      BY <1>1, <3>1 DEF IsWay
    <3>3. u[i] = q[i + 1] /\ u[i + 1] = q[(i + 1) + 1]
      BY <1>4, <3>1
    <3> QED
      BY <3>2, <3>3
  <2>2. u[1] = q[2]
    <3>1. 1 \in 1..(m - 1) /\ 1 + 1 = 2
      BY <1>2
    <3> QED
      BY <1>4, <3>1
  <2>3. Len(u) <= d
    BY <1>1, <1>2, <1>4
  <2> QED
    BY <1>4, <2>1, <2>2, <2>3 DEF Ways, IsWay
<1>7. <<t[n].name>> \o NamesOf(t, u) = NamesOf(t, q)
  <2> DEFINE S == NodeNames(t)
             h == <<t[n].name>>
             v == NamesOf(t, u)
             w == NamesOf(t, q)
  <2>1. \A i \in 1..m : q[i] \in DOMAIN t
    BY <1>1, <1>2, ElementOfSeq
  <2>2. DOMAIN q = 1..m /\ DOMAIN u = 1..(m - 1)
    BY <1>1, <1>2, <1>4, LenProperties
  <2>3. w = [i \in 1..m |-> t[q[i]].name] /\ v = [i \in 1..(m - 1) |-> t[u[i]].name]
    BY <2>2 DEF NamesOf
  <2>4. w \in Seq(S) /\ Len(w) = m /\ \A i \in 1..m : w[i] = t[q[i]].name
    <3>1. \A i \in 1..m : t[q[i]].name \in S
      BY <2>1 DEF NodeNames
    <3> HIDE DEF S, w
    <3> QED
      BY <2>3, <3>1
  <2>5. \A i \in 1..(m - 1) : u[i] = q[i + 1] /\ i + 1 \in 1..m
    BY <1>4
  <2>6. v \in Seq(S) /\ Len(v) = m - 1 /\ \A i \in 1..(m - 1) : v[i] = w[i + 1]
    <3>1. \A i \in 1..(m - 1) : t[u[i]].name \in S /\ t[u[i]].name = w[i + 1]
      BY <2>1, <2>4, <2>5 DEF NodeNames
    <3>2. m - 1 \in Nat
      BY <1>2
    <3> HIDE DEF S, w, v
    <3> QED
      BY <2>3, <3>1, <3>2
  <2>7. h \in Seq(S) /\ Len(h) = 1 /\ h[1] = w[1]
    <3>1. h[1] = t[n].name /\ 1 \in 1..m
      BY <1>2
    <3>2. w[1] = t[n].name
      BY <1>1, <2>4, <3>1
    <3>3. t[n].name \in NodeNames(t)
      BY DEF NodeNames
    <3> QED
      BY <3>1, <3>2, <3>3
  <2> HIDE DEF S, h, v, w
  <2>8. /\ h \o v \in Seq(S) /\ Len(h \o v) = m
        /\ \A i \in 1..m : (h \o v)[i] = IF i <= 1 THEN h[i] ELSE v[i - 1]
    <3>1. /\ h \o v \in Seq(S) /\ Len(h \o v) = Len(h) + Len(v)
          /\ \A i \in 1..(Len(h) + Len(v)) :
               (h \o v)[i] = IF i <= Len(h) THEN h[i] ELSE v[i - Len(h)]
      <4>1. h \in Seq(S) /\ v \in Seq(S)
        BY <2>6, <2>7
      <4> QED
        BY <4>1, ConcatProperties
    <3>2. Len(h) + Len(v) = m
      BY <1>2, <2>6, <2>7
    <3> QED
      BY <2>7, <3>1, <3>2
  <2>9. ASSUME NEW i \in 1..m PROVE (h \o v)[i] = w[i]
    <3>1. CASE i = 1
      BY <2>7, <2>8, <3>1
    <3>2. CASE i # 1
      <4>1. i - 1 \in 1..(m - 1) /\ (i - 1) + 1 = i /\ ~(i <= 1)
        BY <3>2
      <4> QED
        BY <2>6, <2>8, <4>1
    <3> QED
      BY <3>1, <3>2
  <2>10. h \o v = w
    BY <2>4, <2>8, <2>9, SeqEqual
  <2> QED
    BY <2>10 DEF h, v, w
<1> QED
  BY <1>3, <1>5, <1>6, <1>7

\* A list that has each way down to a depth of d from every child has each way
\* down to a depth of d + 1.
LEMMA ScanPathWays ==
  ASSUME NEW t \in Trees, NEW calls \in [DOMAIN t -> Seq(Entries(t))], NEW d \in Nat,
         \A k \in DOMAIN t : \E f : Lists(f, t, calls[k], Ways(t, k, d)),
         NEW n \in DOMAIN t
  PROVE  \E f : Lists(f, t, ScanPath(t, calls)[n], Ways(t, n, d + 1))
<1> DEFINE child(k) == IF t[k].name = Manifest THEN <<>> ELSE calls[k]
           c == t[n].children
           lists == [i \in DOMAIN t[n].children |-> child(t[n].children[i])]
           below == FlattenSeq(lists)
           inside(e) == [e EXCEPT !.path = <<t[n].name>> \o @]
           own == Entry(t[n].kind, n, <<t[n].name>>, t[n].sizes[1])
           under == [i \in DOMAIN below |-> inside(below[i])]
           list == ScanPath(t, calls)[n]
<1>1. list = <<own>> \o (IF t[n].kind = "dir" THEN under ELSE <<>>)
  BY DEF ScanPath
<1>2. c \in Seq(DOMAIN t) /\ t[n].kind \in {"file", "dir"} /\ (t[n].kind = "file" => c = <<>>)
  BY TreesAssumption
<1>3. \A k \in DOMAIN t : child(k) \in Seq(Entries(t))
  OBVIOUS
<1>4. PICK cs \in Seq(DOMAIN t) : cs = c
  BY <1>2
<1>5. DOMAIN cs = 1..Len(cs) /\ Len(cs) \in Nat /\ \A i \in 1..Len(cs) : cs[i] \in DOMAIN t
  BY LenProperties, ElementOfSeq
<1>6. /\ lists \in Seq(Seq(Entries(t))) /\ Len(lists) = Len(cs)
      /\ \A i \in 1..Len(cs) : lists[i] = child(cs[i])
  <2>1. lists = [i \in 1..Len(cs) |-> child(cs[i])]
    BY <1>4, <1>5
  <2> HIDE DEF child, lists, c
  <2>2. \A i \in 1..Len(cs) : child(cs[i]) \in Seq(Entries(t))
    BY <1>3, <1>5
  <2> QED
    BY <1>5, <2>1, <2>2
<1> HIDE DEF lists
<1>7. below \in Seq(Entries(t))
  BY <1>6, FlattenType
<1>8. PICK g : Places(g, lists, Len(cs), below)
  BY <1>6, FlattenPlaces
<1> HIDE DEF below
<1>9. PICK b \in Nat : b = Len(below) /\ DOMAIN below = 1..b
                       /\ \A i \in 1..b : below[i] \in Entries(t)
  BY <1>7, LenProperties, ElementOfSeq
<1>10. \A e \in Entries(t) : inside(e) \in Entries(t)
  BY EntryBelow
<1>11. own \in Entries(t) /\ own.path = <<t[n].name>> /\ own.node = n
  BY OwnEntry DEF Entry
<1>12. /\ under \in Seq(Entries(t)) /\ Len(under) = b
       /\ \A i \in 1..b : under[i] = inside(below[i])
  <2>1. \A i \in 1..b : inside(below[i]) \in Entries(t)
    BY <1>9, <1>10
  <2> HIDE DEF inside
  <2> QED
    BY <1>9, <2>1
<1> HIDE DEF own, under
<1>13. Len(list) \in Nat /\ 1 \in 1..Len(list) /\ list[1] = own
  <2>1. PICK r \in Seq(Entries(t)) : r = IF t[n].kind = "dir" THEN under ELSE <<>>
    <3>1. <<>> \in Seq(Entries(t)) /\ under \in Seq(Entries(t))
      BY <1>12
    <3> QED
      BY <3>1, Zenon
  <2>2. list = <<own>> \o r
    BY <1>1, <2>1
  <2>3. <<own>> \in Seq(Entries(t)) /\ Len(<<own>>) = 1 /\ <<own>>[1] = own
    BY <1>11
  <2>4. PICK h : h = <<own>>
    OBVIOUS
  <2>5. /\ Len(h \o r) = Len(h) + Len(r)
        /\ \A i \in 1..(Len(h) + Len(r)) :
             (h \o r)[i] = IF i <= Len(h) THEN h[i] ELSE r[i - Len(h)]
    <3>1. h \in Seq(Entries(t))
      BY <2>3, <2>4
    <3> QED
      BY <3>1, ConcatProperties
  <2>6. Len(r) \in Nat /\ 1 \in 1..(1 + Len(r))
    OBVIOUS
  <2> HIDE DEF list
  <2> QED
    BY <2>2, <2>3, <2>4, <2>5, <2>6
<1>14. ASSUME t[n].kind = "dir", NEW i \in 1..b
       PROVE  1 + i \in 1..Len(list) /\ list[1 + i] = inside(below[i])
  <2>1. list = <<own>> \o under
    BY <1>1, <1>14
  <2>2. <<own>> \in Seq(Entries(t)) /\ Len(<<own>>) = 1
    BY <1>11
  <2>3. PICK h : h = <<own>>
    OBVIOUS
  <2>4. PICK r \in Seq(Entries(t)) : r = under
    BY <1>12
  <2>5. /\ Len(h \o r) = Len(h) + Len(r)
        /\ \A j \in 1..(Len(h) + Len(r)) :
             (h \o r)[j] = IF j <= Len(h) THEN h[j] ELSE r[j - Len(h)]
    <3>1. h \in Seq(Entries(t))
      BY <2>2, <2>3
    <3> QED
      BY <3>1, ConcatProperties
  <2> HIDE DEF list, inside
  <2>6. PICK j : j = 1 + i
    OBVIOUS
  <2>7. j \in 1..(1 + b) /\ ~(j <= 1) /\ j - 1 = i
    BY <1>9, <2>6
  <2>8. list = h \o r /\ Len(h) = 1 /\ Len(r) = b
    BY <1>12, <2>1, <2>2, <2>3, <2>4
  <2>9. Len(list) = 1 + b /\ list[j] = r[j - 1]
    BY <2>5, <2>7, <2>8
  <2> QED
    BY <1>12, <2>4, <2>6, <2>7, <2>9
<1> HIDE DEF list
<1> DEFINE W == Ways(t, n, d + 1)
           F == [k \in DOMAIN t |-> CHOOSE f : Lists(f, t, calls[k], Ways(t, k, d))]
           at(k) == CHOOSE i \in 1..Len(cs) : cs[i] = k
           in(q) == g[at(q[2])][F[q[2]][Tail(q)]]
           f == [q \in W |-> IF Len(q) = 1 THEN 1 ELSE 1 + in(q)]
<1>15. \A k \in DOMAIN t : Lists(F[k], t, calls[k], Ways(t, k, d))
  <2> SUFFICES ASSUME NEW k \in DOMAIN t PROVE Lists(F[k], t, calls[k], Ways(t, k, d))
    OBVIOUS
  <2>1. F[k] = CHOOSE x : Lists(x, t, calls[k], Ways(t, k, d))
    OBVIOUS
  <2>2. \E x : Lists(x, t, calls[k], Ways(t, k, d))
    OBVIOUS
  <2> HIDE DEF F
  <2> QED
    BY <2>1, <2>2
<1> HIDE DEF F
<1>16. \A q \in W : q \in Seq(DOMAIN t) /\ Len(q) \in Nat \ {0} /\ q[1] = n
  BY DEF Ways, IsWay
<1>161. W = Ways(t, n, d + 1)
  OBVIOUS
\* What a way of more than one node goes on with.
<1>17. ASSUME NEW q \in W, Len(q) # 1
       PROVE  /\ at(q[2]) \in 1..Len(cs) /\ cs[at(q[2])] = q[2]
              /\ lists[at(q[2])] = calls[q[2]] /\ Tail(q) \in Ways(t, q[2], d)
              /\ F[q[2]][Tail(q)] \in 1..Len(lists[at(q[2])])
              /\ in(q) \in 1..b /\ t[n].kind = "dir"
              /\ below[in(q)] \in Entries(t)
              /\ below[in(q)].path = NamesOf(t, Tail(q)) /\ below[in(q)].node = Last(q)
              /\ <<t[n].name>> \o NamesOf(t, Tail(q)) = NamesOf(t, q)
  <2>0. PICK m \in Nat : m = Len(q) /\ m > 1
    <3>1. PICK m : m = Len(q)
      OBVIOUS
    <3>2. m \in Nat \ {0} /\ m # 1
      BY <1>16, <1>17, <3>1, Zenon
    <3>3. m > 1
      BY <3>2
    <3> QED
      BY <3>1, <3>2, <3>3, Zenon
  <2>1. Len(q) > 1 /\ q \in Ways(t, n, d + 1)
    BY <1>161, <2>0, Zenon
  <2>2. /\ q[2] \in DOMAIN t /\ q[2] \in ToSet(t[n].children) /\ t[q[2]].name # Manifest
        /\ Tail(q) \in Ways(t, q[2], d)
        /\ <<t[n].name>> \o NamesOf(t, Tail(q)) = NamesOf(t, q)
    BY <2>1, WayDown
  <2>3. PICK k : k = q[2]
    OBVIOUS
  <2>4. PICK u : u = Tail(q)
    OBVIOUS
  <2>5. \E i \in 1..Len(cs) : cs[i] = k
    BY <1>4, <1>5, <2>2, <2>3 DEF ToSet
  <2>6. at(k) \in 1..Len(cs) /\ cs[at(k)] = k
    BY <2>5
  <2> HIDE DEF at
  <2>7. lists[at(k)] = calls[k]
    BY <1>6, <2>2, <2>3, <2>6
  <2>8. /\ F[k][u] \in 1..Len(calls[k])
        /\ calls[k][F[k][u]].path = NamesOf(t, u) /\ calls[k][F[k][u]].node = Last(u)
    BY <1>15, <2>2, <2>3, <2>4 DEF Lists
  <2>9. PICK a : a = g[at(k)][F[k][u]]
    OBVIOUS
  <2>101. a \in 1..Len(below) /\ below[a] = lists[at(k)][F[k][u]]
    <3>1. F[k][u] \in 1..Len(lists[at(k)])
      BY <2>7, <2>8
    <3> QED
      BY <1>8, <2>6, <2>9, <3>1 DEF Places
  <2>10. a \in 1..b /\ below[a] = calls[k][F[k][u]]
    BY <1>9, <2>7, <2>101
  <2>11. Last(u) = Last(q)
    BY <1>16, <2>1, <2>4, TailFacts
  <2>12. t[n].kind = "dir"
    <3>1. cs # <<>>
      BY <2>6
    <3> QED
      BY <1>2, <1>4, <3>1
  <2>13. in(q) = a
    BY <2>3, <2>4, <2>9
  <2>14. below[a] \in Entries(t)
    BY <1>9, <2>10
  <2> HIDE DEF in
  <2> QED
    BY <2>2, <2>3, <2>4, <2>6, <2>7, <2>8, <2>10, <2>11, <2>12, <2>13, <2>14
<1> HIDE DEF in, at, W
<1>18. \A q \in W : f[q] = IF Len(q) = 1 THEN 1 ELSE 1 + in(q)
  OBVIOUS
<1> HIDE DEF f
<1>19. ASSUME NEW q \in W
       PROVE  /\ f[q] \in 1..Len(list)
              /\ list[f[q]].path = NamesOf(t, q) /\ list[f[q]].node = Last(q)
  <2>1. CASE Len(q) = 1
    <3>1. f[q] = 1 /\ q[1] = n /\ DOMAIN q = 1..1
      BY <1>16, <1>18, <2>1, LenProperties
    <3>2. NamesOf(t, q) = <<t[n].name>>
      <4>1. NamesOf(t, q) = [i \in 1..1 |-> t[q[i]].name]
        BY <3>1 DEF NamesOf
      <4> QED
        BY <3>1, <4>1
    <3>3. Last(q) = n
      BY <2>1, <3>1 DEF Last
    <3> QED
      BY <1>11, <1>13, <3>1, <3>2, <3>3
  <2>2. CASE Len(q) # 1
    <3>1. f[q] = 1 + in(q)
      BY <1>18, <2>2
    <3>2. PICK e \in Entries(t) : e = below[in(q)]
      BY <1>17, <2>2
    <3>3. f[q] \in 1..Len(list) /\ list[f[q]] = inside(e)
      BY <1>14, <1>17, <2>2, <3>1, <3>2
    <3>4. inside(e).path = <<t[n].name>> \o e.path /\ inside(e).node = e.node
      BY DEF Entries
    <3>5. /\ e.path = NamesOf(t, Tail(q)) /\ e.node = Last(q)
          /\ <<t[n].name>> \o NamesOf(t, Tail(q)) = NamesOf(t, q)
      BY <1>17, <2>2, <3>2
    <3> HIDE DEF inside
    <3> QED
      BY <3>3, <3>4, <3>5
  <2> QED
    BY <2>1, <2>2
<1>20. ASSUME NEW q \in W, NEW u \in W, f[q] = f[u] PROVE q = u
  <2>1. CASE Len(q) = 1 /\ Len(u) = 1
    <3>1. q[1] = u[1] /\ \A i \in 1..Len(q) : i = 1
      BY <1>16, <2>1
    <3> QED
      BY <1>16, <2>1, <3>1, SeqEqual
  <2>2. CASE Len(q) # 1 /\ Len(u) = 1
    <3>1. 1 + in(q) = 1 /\ in(q) \in 1..b
      BY <1>17, <1>18, <1>20, <2>2
    <3> QED
      BY <3>1
  <2>3. CASE Len(q) = 1 /\ Len(u) # 1
    <3>1. 1 + in(u) = 1 /\ in(u) \in 1..b
      BY <1>17, <1>18, <1>20, <2>3
    <3> QED
      BY <3>1
  <2>4. CASE Len(q) # 1 /\ Len(u) # 1
    <3>1. in(q) = in(u)
      <4>1. 1 + in(q) = 1 + in(u) /\ in(q) \in 1..b /\ in(u) \in 1..b
        BY <1>17, <1>18, <1>20, <2>4
      <4> QED
        BY <4>1
    <3>2. PICK i, j : i = at(q[2]) /\ j = F[q[2]][Tail(q)]
      OBVIOUS
    <3>3. PICK k, l : k = at(u[2]) /\ l = F[u[2]][Tail(u)]
      OBVIOUS
    <3>4. i \in 1..Len(cs) /\ k \in 1..Len(cs) /\ j \in 1..Len(lists[i]) /\ l \in 1..Len(lists[k])
      BY <1>17, <2>4, <3>2, <3>3
    <3>5. g[i][j] = g[k][l]
      BY <3>1, <3>2, <3>3 DEF in
    <3>6. i = k /\ j = l
      BY <1>8, <3>4, <3>5 DEF Places
    <3>7. q[2] = u[2]
      BY <1>17, <2>4, <3>2, <3>3, <3>6
    <3>8. Tail(q) = Tail(u)
      <4>1. Tail(q) \in Ways(t, q[2], d) /\ Tail(u) \in Ways(t, q[2], d) /\ q[2] \in DOMAIN t
        <5>1. cs[at(q[2])] = q[2] /\ at(q[2]) \in 1..Len(cs)
          BY <1>17, <2>4
        <5>2. q[2] \in DOMAIN t
          BY <1>5, <5>1
        <5> QED
          BY <1>17, <2>4, <3>7, <5>2
      <4>2. Lists(F[q[2]], t, calls[q[2]], Ways(t, q[2], d))
        BY <1>15, <4>1
      <4>3. F[q[2]][Tail(q)] = F[q[2]][Tail(u)]
        BY <3>2, <3>3, <3>6, <3>7
      <4> QED
        BY <4>1, <4>2, <4>3 DEF Lists
    <3>9. Len(q) > 1 /\ Len(u) > 1 /\ q[1] = u[1] /\ q \in Seq(DOMAIN t) /\ u \in Seq(DOMAIN t)
      <4>1. q \in Seq(DOMAIN t) /\ u \in Seq(DOMAIN t) /\ q[1] = u[1]
        <5>1. q \in Seq(DOMAIN t) /\ u \in Seq(DOMAIN t)
          BY <1>16, Zenon
        <5>2. q[1] = n /\ u[1] = n
          BY <1>16, Zenon
        <5> QED
          BY <5>1, <5>2
      <4>2. PICK m, o : m = Len(q) /\ o = Len(u)
        OBVIOUS
      <4>3. m \in Nat \ {0} /\ m # 1 /\ o \in Nat \ {0} /\ o # 1
        BY <1>16, <2>4, <4>2, Zenon
      <4>4. m > 1 /\ o > 1
        BY <4>3
      <4> QED
        BY <4>1, <4>2, <4>4, Zenon
    <3> QED
      BY <3>8, <3>9, SameTail
  <2> QED
    BY <2>1, <2>2, <2>3, <2>4
<1>21. Lists(f, t, list, W)
  BY <1>19, <1>20 DEF Lists
<1> QED
  BY <1>161, <1>21 DEF list

\* The scan of a tree, level by level.
LEMMA ScanLevels ==
  ASSUME NEW t \in Trees
  PROVE  \E m, scan :
           /\ m \in Nat /\ m = Cardinality(DOMAIN t)
           /\ \A d \in 0..m :
                /\ scan[d] \in [DOMAIN t -> Seq(Entries(t))]
                /\ scan[d] = IF d = 0 THEN [k \in DOMAIN t |-> <<>>] ELSE ScanPath(t, scan[d - 1])
           /\ \A n \in DOMAIN t : Scan(t, n) = scan[m][n]
<1> DEFINE T == [DOMAIN t -> Seq(Entries(t))]
           m == Cardinality(DOMAIN t)
           none == [k \in DOMAIN t |-> <<>>]
           G == [x \in Nat \X T |-> ScanPath(t, x[2])]
           Scans(f) == f = [d \in 0..m |-> IF d = 0 THEN none ELSE ScanPath(t, f[d - 1])]
           scan == CHOOSE f : Scans(f)
<1>1. m \in Nat
  BY TreesAssumption, FS_CardinalityType
<1>2. none \in T
  OBVIOUS
<1>3. \A c \in T : ScanPath(t, c) \in T
  BY ScanPathType
<1> HIDE DEF T, m, none
<1>4. G \in [Nat \X T -> T] /\ \A k \in Nat, c \in T : G[<<k, c>>] = ScanPath(t, c)
  BY <1>3
<1> HIDE DEF G
<1>5. PICK f \in [0..m -> T] : Recurs(f, none, G, 0, m)
  <2>1. 0 \in Nat /\ 0 <= m /\ m \in Nat /\ none \in T /\ G \in [Nat \X T -> T]
    BY <1>1, <1>2, <1>4
  <2> QED
    BY <2>1, Recursion
<1>6. Scans(f)
  <2>1. ASSUME NEW d \in 0..m
        PROVE  f[d] = IF d = 0 THEN none ELSE ScanPath(t, f[d - 1])
    <3>1. CASE d = 0
      BY <1>5, <3>1 DEF Recurs
    <3>2. CASE d # 0
      <4>1. d - 1 \in 0..m /\ d \in Nat /\ f[d - 1] \in T
        BY <1>1, <1>5, <3>2
      <4>2. f[d] = G[<<d, f[d - 1]>>]
        BY <1>5, <3>2 DEF Recurs
      <4> QED
        BY <1>4, <3>2, <4>1, <4>2
    <3> QED
      BY <3>1, <3>2
  <2> QED
    BY <1>5, <2>1
<1>7. Scans(scan)
  <2> HIDE DEF Scans
  <2> QED
    BY <1>6
<1>8. \A n \in DOMAIN t : Scan(t, n) = scan[m][n]
  BY DEF Scan, m, none
<1> HIDE DEF scan
<1>9. \A d \in 0..m : scan[d] = IF d = 0 THEN none ELSE ScanPath(t, scan[d - 1])
  BY <1>7
<1> DEFINE U == {d \in Nat : d <= m => scan[d] \in T}
<1>10. 0 \in U
  BY <1>1, <1>2, <1>9
<1>11. ASSUME NEW d \in Nat, d \in U PROVE d + 1 \in U
  <2> SUFFICES ASSUME d + 1 <= m PROVE scan[d + 1] \in T
    OBVIOUS
  <2>1. scan[d] \in T /\ d + 1 \in 0..m /\ d + 1 # 0 /\ (d + 1) - 1 = d
    BY <1>1, <1>11
  <2>2. scan[d + 1] = ScanPath(t, scan[d])
    BY <1>9, <2>1
  <2> QED
    BY <1>3, <2>1, <2>2
<1> HIDE DEF U
<1>12. \A d \in 0..m : scan[d] \in T
  <2>1. \A d \in 0..m : d \in U
    BY <1>1, <1>10, <1>11, Induct
  <2> QED
    BY <1>1, <2>1 DEF U
<1>13. \A d \in 0..m : scan[d] \in [DOMAIN t -> Seq(Entries(t))]
  BY <1>12 DEF T
<1>14. \A d \in 0..m : scan[d] = IF d = 0 THEN [k \in DOMAIN t |-> <<>>]
                                 ELSE ScanPath(t, scan[d - 1])
  BY <1>9 DEF none
<1>15. m = Cardinality(DOMAIN t)
  BY DEF m
<1> QED
  BY <1>1, <1>8, <1>13, <1>14, <1>15

LEMMA ScanWays ==
  ASSUME NEW t \in Trees, NEW n \in DOMAIN t
  PROVE  \E f : Lists(f, t, Scan(t, n), Ways(t, n, Cardinality(DOMAIN t)))
<1>1. PICK m, scan :
        /\ m \in Nat /\ m = Cardinality(DOMAIN t)
        /\ \A d \in 0..m :
             /\ scan[d] \in [DOMAIN t -> Seq(Entries(t))]
             /\ scan[d] = IF d = 0 THEN [k \in DOMAIN t |-> <<>>] ELSE ScanPath(t, scan[d - 1])
        /\ \A k \in DOMAIN t : Scan(t, k) = scan[m][k]
  BY ScanLevels
<1> DEFINE P(d) == \A k \in DOMAIN t : \E f : Lists(f, t, scan[d][k], Ways(t, k, d))
           U == {d \in Nat : d <= m => P(d)}
<1>2. 0 \in U
  <2>1. ASSUME NEW k \in DOMAIN t, NEW q \in Ways(t, k, 0) PROVE FALSE
    <3>1. q \in Seq(DOMAIN t) /\ q # <<>> /\ Len(q) <= 0
      BY DEF Ways, IsWay
    <3>2. Len(q) \in Nat /\ Len(q) # 0
      BY <3>1, EmptySeq, LenProperties
    <3> QED
      BY <3>1, <3>2
  <2>2. P(0)
    BY <2>1 DEF Lists
  <2> QED
    BY <2>2
<1>3. ASSUME NEW d \in Nat, d \in U PROVE d + 1 \in U
  <2> SUFFICES ASSUME d + 1 <= m PROVE P(d + 1)
    OBVIOUS
  <2>1. P(d) /\ d \in 0..m /\ d + 1 \in 0..m /\ d + 1 # 0 /\ (d + 1) - 1 = d
    BY <1>1, <1>3
  <2>2. scan[d + 1] = ScanPath(t, scan[d]) /\ scan[d] \in [DOMAIN t -> Seq(Entries(t))]
    BY <1>1, <2>1
  <2>3. ASSUME NEW k \in DOMAIN t
        PROVE  \E f : Lists(f, t, ScanPath(t, scan[d])[k], Ways(t, k, d + 1))
    BY <2>1, <2>2, ScanPathWays
  <2> QED
    BY <2>2, <2>3
<1> HIDE DEF U
<1>4. m \in U
  BY <1>1, <1>2, <1>3, Induct
<1>5. P(m)
  BY <1>1, <1>4 DEF U
<1> QED
  BY <1>1, <1>5

\* Every way down from what was selected has an entry of its own.
Listed(f, t, s, list) ==
  /\ \A i \in 1..Len(s) : \A q \in Ways(t, s[i], Cardinality(DOMAIN t)) :
       /\ f[i][q] \in 1..Len(list)
       /\ list[f[i][q]].path = NamesOf(t, q) /\ list[f[i][q]].node = Last(q)
  /\ \A i, k \in 1..Len(s) : \A q \in Ways(t, s[i], Cardinality(DOMAIN t)),
                                u \in Ways(t, s[k], Cardinality(DOMAIN t)) :
       f[i][q] = f[k][u] => i = k /\ q = u

LEMMA ManifestWays ==
  ASSUME NEW t \in Trees, NEW s \in Seq(DOMAIN t)
  PROVE  \E f : Listed(f, t, s, ManifestOf(t, s))
<1> DEFINE W(i) == Ways(t, s[i], Cardinality(DOMAIN t))
           scans == [i \in DOMAIN s |-> Scan(t, s[i])]
           F == [i \in 1..Len(s) |-> CHOOSE f : Lists(f, t, Scan(t, s[i]), W(i))]
<1>1. DOMAIN s = 1..Len(s) /\ Len(s) \in Nat /\ \A i \in 1..Len(s) : s[i] \in DOMAIN t
  BY LenProperties, ElementOfSeq
<1>2. \A i \in 1..Len(s) : Scan(t, s[i]) \in Seq(Entries(t))
  BY <1>1, ScanType
<1>3. /\ scans \in Seq(Seq(Entries(t))) /\ Len(scans) = Len(s)
      /\ \A i \in 1..Len(s) : scans[i] = Scan(t, s[i])
  BY <1>1, <1>2
<1>4. PICK g : Places(g, scans, Len(s), ManifestOf(t, s))
  <2>1. ManifestOf(t, s) = FlattenSeq(scans)
    BY DEF ManifestOf
  <2> HIDE DEF scans
  <2> QED
    BY <1>3, <2>1, FlattenPlaces
<1> HIDE DEF scans
<1>5. \A i \in 1..Len(s) : Lists(F[i], t, scans[i], W(i))
  <2> SUFFICES ASSUME NEW i \in 1..Len(s) PROVE Lists(F[i], t, scans[i], W(i))
    OBVIOUS
  <2>1. F[i] = CHOOSE x : Lists(x, t, Scan(t, s[i]), W(i))
    OBVIOUS
  <2>2. \E x : Lists(x, t, Scan(t, s[i]), W(i))
    BY <1>1, ScanWays
  <2> HIDE DEF F, W
  <2> QED
    BY <1>3, <2>1, <2>2
<1> HIDE DEF F, W
<1> DEFINE f == [i \in 1..Len(s) |-> [q \in W(i) |-> g[i][F[i][q]]]]
<1>6. \A i \in 1..Len(s) : \A q \in W(i) : f[i][q] = g[i][F[i][q]]
  OBVIOUS
<1> HIDE DEF f
<1> DEFINE list == ManifestOf(t, s)
<1> HIDE DEF list
<1>7. ASSUME NEW i \in 1..Len(s), NEW q \in W(i)
      PROVE  /\ F[i][q] \in 1..Len(scans[i])
             /\ f[i][q] \in 1..Len(list)
             /\ list[f[i][q]].path = NamesOf(t, q) /\ list[f[i][q]].node = Last(q)
  <2>1. PICK j : j = F[i][q]
    OBVIOUS
  <2>2. j \in 1..Len(scans[i]) /\ scans[i][j].path = NamesOf(t, q) /\ scans[i][j].node = Last(q)
    BY <1>5, <2>1 DEF Lists
  <2>3. g[i][j] \in 1..Len(list) /\ list[g[i][j]] = scans[i][j]
    BY <1>4, <2>2 DEF Places, list
  <2> QED
    BY <1>6, <2>1, <2>2, <2>3
<1>8. ASSUME NEW i \in 1..Len(s), NEW k \in 1..Len(s), NEW q \in W(i), NEW u \in W(k),
             f[i][q] = f[k][u]
      PROVE  i = k /\ q = u
  <2>1. F[i][q] \in 1..Len(scans[i]) /\ F[k][u] \in 1..Len(scans[k])
    BY <1>7
  <2>2. g[i][F[i][q]] = g[k][F[k][u]]
    BY <1>6, <1>8
  <2>3. \A j \in 1..Len(scans[i]), l \in 1..Len(scans[k]) :
          g[i][j] = g[k][l] => i = k /\ j = l
    BY <1>4 DEF Places
  <2>4. PICK a, b : a = F[i][q] /\ b = F[k][u]
    OBVIOUS
  <2>5. i = k /\ a = b
    BY <2>1, <2>2, <2>3, <2>4
  <2>6. i = k /\ F[i][q] = F[k][u]
    BY <2>4, <2>5
  <2> QED
    BY <1>5, <2>6 DEF Lists
<1>9. Listed(f, t, s, list)
  BY <1>7, <1>8 DEF Listed, W
<1> QED
  BY <1>9 DEF list

-----------------------------------------------------------------------------
(* What is wanted.                                                         *)

AllWays ==
  {c \in (1..Len(selection)) \X Seq(DOMAIN tree) :
     IsWay(tree, c[2]) /\ c[2][1] = selection[c[1]]}

LEMMA UnderWays ==
  ASSUME tree \in Trees, NEW C, C \subseteq AllWays, NEW d \in Nat,
         \A c \in C : Len(c[2]) <= d
  PROVE  Under(C) \subseteq AllWays /\ \A c \in Under(C) : Len(c[2]) <= d + 1
<1> SUFFICES ASSUME NEW x \in Under(C) PROVE x \in AllWays /\ Len(x[2]) <= d + 1
  OBVIOUS
<1>1. PICK c, k : /\ c \in C /\ k \in ToSet(tree[Last(c[2])].children)
                  /\ tree[k].name # Manifest /\ x = <<c[1], Append(c[2], k)>>
  BY DEF Under
<1>2. PICK i \in 1..Len(selection), q \in Seq(DOMAIN tree) : i = c[1] /\ q = c[2]
  BY <1>1 DEF AllWays
<1>3. IsWay(tree, q) /\ q[1] = selection[i] /\ Len(q) <= d
  BY <1>1, <1>2 DEF AllWays
<1>4. PICK m \in Nat : m = Len(q) /\ m # 0
  BY <1>3, EmptySeq, LenProperties DEF IsWay
<1>5. Last(q) = q[m] /\ q[m] \in DOMAIN tree
  BY <1>4, ElementOfSeq DEF Last
<1>6. k \in DOMAIN tree
  <2>1. PICK s \in Seq(DOMAIN tree) : s = tree[q[m]].children
    BY <1>5, TreesAssumption
  <2>2. k \in ToSet(s)
    BY <1>1, <1>2, <1>5, <2>1
  <2>3. PICK j \in DOMAIN s : s[j] = k
    BY <2>2 DEF ToSet
  <2> QED
    BY <2>3, LenProperties, ElementOfSeq
<1>7. PICK w : w = Append(q, k)
  OBVIOUS
<1>8. /\ w \in Seq(DOMAIN tree) /\ Len(w) = m + 1 /\ \A j \in 1..m : w[j] = q[j]
      /\ w[m + 1] = k
  BY <1>4, <1>6, <1>7, AppendProperties
<1>9. ASSUME NEW j \in 1..(Len(w) - 1)
      PROVE  w[j + 1] \in ToSet(tree[w[j]].children) /\ tree[w[j + 1]].name # Manifest
  <2>1. j \in 1..m
    BY <1>4, <1>8
  <2>2. CASE j = m
    BY <1>1, <1>2, <1>5, <1>8, <2>1, <2>2
  <2>3. CASE j # m
    <3>1. j \in 1..(Len(q) - 1) /\ j + 1 \in 1..m
      BY <1>4, <2>1, <2>3
    <3>2. q[j + 1] \in ToSet(tree[q[j]].children) /\ tree[q[j + 1]].name # Manifest
      BY <1>3, <3>1 DEF IsWay
    <3> QED
      BY <1>8, <2>1, <3>1, <3>2
  <2> QED
    BY <2>2, <2>3
<1>10. w # <<>> /\ w[1] = selection[i] /\ Len(w) <= d + 1
  <2>1. 1 \in 1..m
    BY <1>4
  <2>2. w # <<>>
    BY <1>4, <1>8
  <2> QED
    BY <1>3, <1>4, <1>8, <2>1, <2>2
<1>11. x = <<i, w>>
  BY <1>1, <1>2, <1>7
<1> QED
  BY <1>8, <1>9, <1>10, <1>11 DEF AllWays, IsWay

LEMMA WantedWays ==
  ASSUME tree \in Trees, selection \in Seq(DOMAIN tree), NEW c \in Wanted
  PROVE  \E i \in 1..Len(selection) :
           \E q \in Ways(tree, selection[i], Cardinality(DOMAIN tree)) : c = <<i, q>>
<1> DEFINE m == Cardinality(DOMAIN tree)
           top == {<<s, <<selection[s]>>>> : s \in DOMAIN selection}
           Downs(f) == f = [d \in 0..m |-> IF d = 0 THEN {} ELSE top \cup Under(f[d - 1])]
           down == CHOOSE f : Downs(f)
           T == SUBSET AllWays
           G == [x \in Nat \X T |-> top \cup Under(x[2])]
<1>1. m \in Nat
  BY TreesAssumption, FS_CardinalityType
<1>2. top \in T /\ \A x \in top : Len(x[2]) <= 1
  <2> SUFFICES ASSUME NEW x \in top PROVE x \in AllWays /\ Len(x[2]) <= 1
    OBVIOUS
  <2>1. PICK s \in 1..Len(selection) : x = <<s, <<selection[s]>>>>
    BY LenProperties
  <2>2. selection[s] \in DOMAIN tree
    BY ElementOfSeq
  <2>3. PICK q : q = <<selection[s]>>
    OBVIOUS
  <2>4. q \in Seq(DOMAIN tree) /\ q # <<>> /\ Len(q) = 1 /\ q[1] = selection[s]
    BY <2>2, <2>3
  <2>5. IsWay(tree, q)
    BY <2>4 DEF IsWay
  <2>6. PICK z : z = <<s, q>>
    OBVIOUS
  <2>7. z[1] = s /\ z[2] = q /\ z \in (1..Len(selection)) \X Seq(DOMAIN tree)
    BY <2>4, <2>6
  <2>8. x = z
    BY <2>1, <2>3, <2>6
  <2>9. x \in AllWays
    BY <2>4, <2>5, <2>7, <2>8 DEF AllWays
  <2>10. Len(x[2]) <= 1
    <3>1. x[2] = q
      BY <2>7, <2>8, Zenon
    <3>2. Len(q) <= 1
      BY <2>4
    <3> QED
      BY <3>1, <3>2, Zenon
  <2> QED
    BY <2>9, <2>10
<1> HIDE DEF m, top
<1>3. \A C \in T : top \cup Under(C) \in T
  <2> SUFFICES ASSUME NEW C \in T, NEW x \in Under(C) PROVE x \in AllWays
    BY <1>2
  <2>1. PICK y \in C : x \in Under({y})
    BY DEF Under
  <2>2. y \in AllWays
    OBVIOUS
  <2>3. Len(y[2]) \in Nat
    BY <2>2, LenProperties DEF AllWays
  <2>4. {y} \subseteq AllWays /\ \A z \in {y} : Len(z[2]) <= Len(y[2])
    BY <2>2, <2>3
  <2> HIDE DEF T
  <2>5. Under({y}) \subseteq AllWays
    BY <2>3, <2>4, UnderWays
  <2> QED
    BY <2>1, <2>5
<1>4. {} \in T
  OBVIOUS
<1> HIDE DEF T
<1>5. G \in [Nat \X T -> T] /\ \A k \in Nat, C \in T : G[<<k, C>>] = top \cup Under(C)
  BY <1>3
<1> HIDE DEF G
<1>6. PICK f \in [0..m -> T] : Recurs(f, {}, G, 0, m)
  <2>1. 0 \in Nat /\ 0 <= m /\ m \in Nat /\ {} \in T /\ G \in [Nat \X T -> T]
    BY <1>1, <1>4, <1>5
  <2> QED
    BY <2>1, Recursion
<1>7. Downs(f)
  <2>1. ASSUME NEW d \in 0..m
        PROVE  f[d] = IF d = 0 THEN {} ELSE top \cup Under(f[d - 1])
    <3>1. CASE d = 0
      BY <1>6, <3>1 DEF Recurs
    <3>2. CASE d # 0
      <4>1. d - 1 \in 0..m /\ d \in Nat /\ f[d - 1] \in T
        BY <1>1, <1>6, <3>2
      <4>2. f[d] = G[<<d, f[d - 1]>>]
        BY <1>6, <3>2 DEF Recurs
      <4> QED
        BY <1>5, <3>2, <4>1, <4>2
    <3> QED
      BY <3>1, <3>2
  <2> QED
    BY <1>6, <2>1
<1>8. Downs(down)
  <2> HIDE DEF Downs
  <2> QED
    BY <1>7
<1>9. Wanted = down[m]
  BY DEF Wanted, m, top
<1> HIDE DEF down
<1>10. \A d \in 0..m : down[d] = IF d = 0 THEN {} ELSE top \cup Under(down[d - 1])
  BY <1>8
<1> DEFINE Short(d) == down[d] \subseteq AllWays /\ \A x \in down[d] : Len(x[2]) <= d
           U == {d \in Nat : d <= m => Short(d)}
<1>11. 0 \in U
  <2>1. down[0] = {}
    <3>1. 0 \in 0..m
      BY <1>1
    <3> QED
      BY <1>10, <3>1, Zenon
  <2> QED
    BY <2>1
<1>12. ASSUME NEW d \in Nat, d \in U PROVE d + 1 \in U
  <2> SUFFICES ASSUME d + 1 <= m PROVE Short(d + 1)
    OBVIOUS
  <2>1. Short(d) /\ d + 1 \in 0..m /\ d + 1 # 0 /\ (d + 1) - 1 = d
    BY <1>1, <1>12
  <2>2. down[d + 1] = top \cup Under(down[d])
    BY <1>10, <2>1
  <2>3. Under(down[d]) \subseteq AllWays /\ \A x \in Under(down[d]) : Len(x[2]) <= d + 1
    BY <2>1, UnderWays
  <2>4. ASSUME NEW x \in top PROVE x \in AllWays /\ Len(x[2]) <= d + 1
    <3>1. x \in AllWays /\ Len(x[2]) <= 1
      BY <1>2 DEF T
    <3>2. Len(x[2]) \in Nat
      BY <3>1, LenProperties DEF AllWays
    <3> QED
      BY <3>1, <3>2
  <2> QED
    BY <2>2, <2>3, <2>4
<1> HIDE DEF U
<1>13. m \in U
  BY <1>1, <1>11, <1>12, Induct
<1>14. Short(m)
  BY <1>1, <1>13 DEF U
<1>15. c \in AllWays /\ Len(c[2]) <= m
  BY <1>9, <1>14
<1>16. PICK i \in 1..Len(selection), q \in Seq(DOMAIN tree) : c = <<i, q>>
  BY <1>15 DEF AllWays
<1>17. IsWay(tree, q) /\ q[1] = selection[i] /\ Len(q) <= Cardinality(DOMAIN tree)
  BY <1>15, <1>16 DEF AllWays, m
<1> QED
  BY <1>16, <1>17 DEF Ways

-----------------------------------------------------------------------------
(* What is sent of the manifest.                                           *)

\* The record x brings the entry k: the last there is of it.
Delivers(x, k) ==
  IF manifest[k].kind = "dir" THEN x.type = "DIRECTORY" /\ x.body.path = manifest[k].path
  ELSE x.type = "FILE_END" /\ x.body.file = FileId(k)
Delivered(s, n) == \A k \in 1..n : \E i \in 1..Len(s) : Delivers(s[i], k)

\* A record that has a path has that of an entry.
HasEntry(x) ==
  x.type \in {"DIRECTORY", "FILE_BEGIN"} =>
    \E k \in 1..Len(manifest) :
      /\ x.body.path = manifest[k].path
      /\ x.type = "FILE_BEGIN" => IsFile(k) /\ x.body.file = FileId(k)

\* Before the end of the transfer there is everything.
Covers(s) ==
  \A j \in 1..Len(s) : s[j].type = "TRANSFER_END" =>
    \A k \in 1..Len(manifest) : \E i \in 1..(j - 1) : Delivers(s[i], k)
Told(s) == IsSeq(s) /\ (\A j \in 1..Len(s) : HasEntry(s[j])) /\ Covers(s)

\* The entries that the producer q has done with.
Produced(q) == q.next - (IF q.state = 2 THEN 2 ELSE 1)
ToldInv ==
  /\ lost = 0 /\ selection \in Seq(DOMAIN tree) /\ manifest = ManifestOf(tree, selection)
  /\ Told(Said)
  /\ phase = "filling" => Delivered(Said, Produced(p))

LEMMA ToldSame ==
  ASSUME tree' = tree, manifest' = manifest
  PROVE  /\ \A x, k : Delivers(x, k)' <=> Delivers(x, k)
         /\ \A s, n : Delivered(s, n)' <=> Delivered(s, n)
         /\ \A s : Told(s)' <=> Told(s)
<1>1. \A x, k : Delivers(x, k)' <=> Delivers(x, k)
  BY FilesSame DEF Delivers
<1>2. \A s, n : Delivered(s, n)' <=> Delivered(s, n)
  BY <1>1 DEF Delivered
<1>3. \A x : HasEntry(x)' <=> HasEntry(x)
  BY FilesSame DEF HasEntry
<1>4. \A s : Covers(s)' <=> Covers(s)
  BY <1>1 DEF Covers
<1>5. \A s : Told(s)' <=> Told(s)
  BY <1>3, <1>4 DEF Told, IsSeq
<1> QED
  BY <1>1, <1>2, <1>5

LEMMA ToldKeeps ==
  ASSUME ToldInv, tree' = tree, manifest' = manifest, selection' = selection, lost' = 0,
         NEW s, s = Said', Told(s), phase' = "filling" => Delivered(s, Produced(p'))
  PROVE  ToldInv'
<1>1. PICK n : n = Produced(p')
  OBVIOUS
<1>2. Told(s)' /\ (phase' = "filling" => Delivered(s, n)')
  BY <1>1, ToldSame
<1>3. (selection \in Seq(DOMAIN tree) /\ manifest = ManifestOf(tree, selection))'
  <2>1. PICK t, c, m : t = tree /\ c = selection /\ m = manifest
    OBVIOUS
  <2>2. t = tree' /\ c = selection' /\ m = manifest'
    BY <2>1
  <2>3. c \in Seq(DOMAIN t) /\ m = ManifestOf(t, c)
    BY <2>1 DEF ToldInv
  <2> QED
    BY <2>2, <2>3
<1>4. Produced(p)' = n
  BY <1>1 DEF Produced
<1> QED
  BY <1>2, <1>3, <1>4 DEF ToldInv

\* The beginning of what is said.
LEMMA ToldPart ==
  ASSUME NEW s, Told(s), NEW t, IsSeq(t), Len(t) <= Len(s), \A i \in 1..Len(t) : t[i] = s[i]
  PROVE  Told(t)
<1>1. PICK n \in Nat, m \in Nat : n = Len(s) /\ m = Len(t) /\ m <= n
  BY SeqFacts DEF Told
<1>2. \A j \in 1..m : j \in 1..n /\ t[j] = s[j]
  BY <1>1
<1>3. \A j \in 1..m : HasEntry(t[j])
  BY <1>1, <1>2 DEF Told
<1>4. ASSUME NEW j \in 1..m, t[j].type = "TRANSFER_END", NEW k \in 1..Len(manifest)
      PROVE  \E i \in 1..(j - 1) : Delivers(t[i], k)
  <2>1. PICK i \in 1..(j - 1) : Delivers(s[i], k)
    BY <1>1, <1>2, <1>4 DEF Told, Covers
  <2>2. i \in 1..m
    BY <1>1
  <2> QED
    BY <1>2, <2>1, <2>2
<1> QED
  BY <1>1, <1>3, <1>4 DEF Told, Covers

LEMMA ToldAppend ==
  ASSUME NEW s, Told(s), NEW x, HasEntry(x),
         x.type = "TRANSFER_END" => Delivered(s, Len(manifest))
  PROVE  Told(Append(s, x)) /\ \A k : Delivers(x, k) \/ (\E i \in 1..Len(s) : Delivers(s[i], k))
                                => \E i \in 1..Len(Append(s, x)) : Delivers(Append(s, x)[i], k)
<1>1. PICK n \in Nat : n = Len(s) /\ IsSeq(s)
  BY SeqFacts DEF Told
<1>2. PICK t : t = Append(s, x)
  OBVIOUS
<1>3. IsSeq(t) /\ Len(t) = n + 1 /\ \A j \in 1..(n + 1) : t[j] = IF j = n + 1 THEN x ELSE s[j]
  BY <1>1, <1>2, SeqAppend
<1>4. t[n + 1] = x /\ \A j \in 1..n : j \in 1..(n + 1) /\ t[j] = s[j]
  BY <1>1, <1>3
<1>5. \A j \in 1..(n + 1) : HasEntry(t[j])
  BY <1>1, <1>3 DEF Told
<1>6. ASSUME NEW j \in 1..(n + 1), t[j].type = "TRANSFER_END", NEW k \in 1..Len(manifest)
      PROVE  \E i \in 1..(j - 1) : Delivers(t[i], k)
  <2>1. CASE j = n + 1
    <3>1. \E i \in 1..n : Delivers(s[i], k)
      BY <1>1, <1>4, <1>6, <2>1 DEF Delivered
    <3>2. j - 1 = n
      BY <1>1, <2>1
    <3> QED
      BY <1>4, <3>1, <3>2
  <2>2. CASE j # n + 1
    <3>1. j \in 1..n /\ s[j].type = "TRANSFER_END"
      BY <1>3, <1>6, <2>2
    <3>2. PICK i \in 1..(j - 1) : Delivers(s[i], k)
      BY <1>1, <3>1 DEF Told, Covers
    <3>3. i \in 1..n
      BY <3>1
    <3> QED
      BY <1>4, <3>2, <3>3
  <2> QED
    BY <2>1, <2>2
<1>7. Told(t)
  BY <1>3, <1>5, <1>6 DEF Told, Covers
<1>8. ASSUME NEW k, Delivers(x, k) \/ \E i \in 1..n : Delivers(s[i], k)
      PROVE  \E i \in 1..(n + 1) : Delivers(t[i], k)
  <2>1. n + 1 \in 1..(n + 1)
    BY <1>1
  <2> QED
    BY <1>4, <1>8, <2>1
<1> QED
  BY <1>1, <1>2, <1>3, <1>7, <1>8

LEMMA ProducesTold ==
  ASSUME ToldInv, SenderInv, StreamInv, phase = "filling", NEW type, NEW body,
         NEW q, DOMAIN q = ProducerFields, Produces(type, body, q), lost' = 0,
         HasEntry(Record(type, body)), type = "TRANSFER_END" => Produced(p) >= Len(manifest),
         \/ Produced(q) = Produced(p)
         \/ Produced(q) = Produced(p) + 1 /\ Delivers(Record(type, body), Produced(q))
  PROVE  ToldInv'
<1>1. /\ tree' = tree /\ manifest' = manifest /\ selection' = selection /\ sent' = sent
      /\ phase' = phase
  BY DEF Produces
<1>2. PICK x : x = Record(type, body)
  OBVIOUS
<1>3. x.type = type
  BY <1>2 DEF Record
<1>4. PICK i : i = q.id + 1
  OBVIOUS
<1>5. PICK r : r = [q EXCEPT !.id = i]
  OBVIOUS
<1>6. p' = r /\ r.state = q.state /\ r.next = q.next
  BY <1>4, <1>5 DEF Produces, ProducerFields
<1>7. Produced(p') = Produced(q)
  BY <1>6 DEF Produced
<1>8. PICK s : s = Said
  OBVIOUS
<1>9. PICK t : t = Append(s, x)
  OBVIOUS
<1>10. Said' = t
  <2>1. window' = Append(window, x)
    BY <1>2 DEF Produces
  <2>2. sent \o Append(window, x) = t
    BY <1>8, <1>9, SaidFacts, ConcatAppend DEF Said
  <2> QED
    BY <1>1, <2>1, <2>2 DEF Said
<1>11. PICK n, m : n = Produced(p) /\ m = Len(manifest) /\ m \in Nat
  BY LenProperties DEF SenderInv
<1>12. n \in Int
  BY <1>11 DEF Produced, SenderInv, IsProducer
<1>13. Told(s) /\ Delivered(s, n)
  BY <1>8, <1>11 DEF ToldInv
<1>14. type = "TRANSFER_END" => Delivered(s, m)
  BY <1>11, <1>12, <1>13 DEF Delivered
<1>15. /\ Told(t)
       /\ \A k : Delivers(x, k) \/ (\E j \in 1..Len(s) : Delivers(s[j], k))
                   => \E j \in 1..Len(t) : Delivers(t[j], k)
  BY <1>2, <1>3, <1>9, <1>11, <1>13, <1>14, ToldAppend
<1>16. Delivered(t, Produced(q))
  <2>1. CASE Produced(q) = n
    BY <1>13, <1>15, <2>1 DEF Delivered
  <2>2. CASE Produced(q) = n + 1 /\ Delivers(x, n + 1)
    <3>1. \A k \in 1..(n + 1) : k \in 1..n \/ k = n + 1
      BY <1>12
    <3> QED
      BY <1>13, <1>15, <2>2, <3>1 DEF Delivered
  <2> QED
    BY <1>2, <1>11, <2>1, <2>2
<1> QED
  BY <1>1, <1>7, <1>10, <1>15, <1>16, ToldKeeps

\* A step after which the producer has done with what it had done with.
LEMMA StillTold ==
  ASSUME ToldInv, tree' = tree, manifest' = manifest, selection' = selection, lost' = lost,
         Said' = Said, Produced(p') = Produced(p), phase' = "filling" => phase = "filling"
  PROVE  ToldInv'
<1>1. PICK s : s = Said
  OBVIOUS
<1>2. lost' = 0 /\ s = Said' /\ Told(s) /\ (phase' = "filling" => Delivered(s, Produced(p')))
  BY <1>1 DEF ToldInv
<1> QED
  BY <1>2, ToldKeeps

LEMMA FailsTold ==
  ASSUME ToldInv, SenderInv, Fails, lost' = lost
  PROVE  ToldInv'
<1>1. /\ tree' = tree /\ manifest' = manifest /\ selection' = selection /\ sent' = sent
      /\ window' = <<>> /\ phase' = "ended"
  BY DEF Fails
<1>2. PICK s : s = sent
  OBVIOUS
<1>3. Said' = s
  BY <1>1, <1>2, SaidFacts, ConcatEmpty DEF Said
<1>4. Told(s)
  <2>1. PICK t : t = Said
    OBVIOUS
  <2>2. Told(t) /\ IsSeq(s) /\ Len(s) <= Len(t) /\ \A i \in 1..Len(s) : s[i] = t[i]
    BY <1>2, <2>1, SaidFacts DEF ToldInv
  <2> QED
    BY <2>2, ToldPart
<1> QED
  BY <1>1, <1>3, <1>4, ToldKeeps DEF ToldInv

LEMMA SessionRecordTold ==
  ASSUME ToldInv, SenderInv, StreamInv, SessionRecord
  PROVE  ToldInv'
<1>1. PICK q : q = [p EXCEPT !.state = 1]
  OBVIOUS
<1>2. DOMAIN p = ProducerFields /\ p.state = 0 /\ phase = "filling" /\ lost' = lost
  BY DEF SenderInv, IsProducer, SessionRecord, Filling
<1>3. DOMAIN q = ProducerFields /\ q.state = 1 /\ q.next = p.next
  BY <1>1, <1>2 DEF ProducerFields
<1>4. Produced(q) = Produced(p)
  BY <1>2, <1>3 DEF Produced
<1>5. HasEntry(Record("SESSION", <<>>))
  BY DEF HasEntry, Record
<1>6. Produces("SESSION", <<>>, q)
  BY <1>1 DEF SessionRecord
<1> QED
  BY <1>2, <1>3, <1>4, <1>5, <1>6, ProducesTold DEF ToldInv

LEMMA ManifestRecordTold ==
  ASSUME ToldInv, SenderInv, StreamInv, ManifestRecord
  PROVE  ToldInv'
<1>1. PICK k, e : k = p.next /\ e = manifest[p.next]
  OBVIOUS
<1>2. PICK body : body = [path |-> e.path, file |-> FileId(k), size |-> e.size]
  OBVIOUS
<1>3. PICK q : q = [p EXCEPT !.next = @ + 1]
  OBVIOUS
<1>4. IF e.kind = "dir"
      THEN Produces("DIRECTORY", body, [q EXCEPT !.dirs = @ + 1])
      ELSE IF ~Matches(e.node) THEN Fails
      ELSE \E failed \in BOOLEAN :
             Produces("FILE_BEGIN", body,
               [q EXCEPT !.state = 2, !.files = @ + 1, !.total = (@ + e.size) % Word,
                         !.file = Started(e.node, failed)])
  BY <1>1, <1>2, <1>3 DEF ManifestRecord
<1>5. p.state = 1 /\ ~(p.next > Len(manifest)) /\ phase = "filling" /\ lost' = lost
  BY DEF ManifestRecord, Closing, Filling
<1>6. DOMAIN p = ProducerFields /\ p.next \in Nat \ {0}
  BY DEF SenderInv, IsProducer
<1>7. DOMAIN q = ProducerFields /\ q.state = 1 /\ q.next = p.next + 1
  BY <1>3, <1>5, <1>6 DEF ProducerFields
<1>8. Len(manifest) \in Nat /\ k \in 1..Len(manifest) /\ e \in Entries(tree)
  <2>1. manifest \in Seq(Entries(tree)) /\ Len(manifest) \in Nat
    BY LenProperties DEF SenderInv
  <2>2. k \in 1..Len(manifest)
    BY <1>1, <1>5, <1>6, <2>1
  <2> QED
    BY <1>1, <2>1, <2>2, ElementOfSeq
<1>9. e.kind \in {"file", "dir"}
  BY <1>8 DEF Entries
<1>10. CASE e.kind = "dir"
  <2>1. PICK r : r = [q EXCEPT !.dirs = @ + 1]
    OBVIOUS
  <2>2. Produces("DIRECTORY", body, r)
    BY <1>4, <1>10, <2>1
  <2>3. DOMAIN r = ProducerFields /\ r.state = 1 /\ r.next = p.next + 1
    BY <1>7, <2>1 DEF ProducerFields
  <2>4. Produced(r) = Produced(p) + 1 /\ Produced(r) = k
    BY <1>1, <1>5, <1>6, <2>3 DEF Produced
  <2>5. PICK x : x = Record("DIRECTORY", body)
    OBVIOUS
  <2>6. x.type = "DIRECTORY" /\ x.body.path = manifest[k].path
    BY <1>1, <1>2, <2>5 DEF Record
  <2>7. HasEntry(x)
    BY <1>8, <2>6 DEF HasEntry
  <2>8. Delivers(x, k)
    BY <1>1, <1>10, <2>6 DEF Delivers
  <2> QED
    BY <1>5, <2>2, <2>3, <2>4, <2>5, <2>7, <2>8, ProducesTold DEF ToldInv
<1>11. CASE e.kind = "file" /\ ~Matches(e.node)
  BY <1>4, <1>5, <1>11, FailsTold
<1>12. CASE e.kind = "file" /\ Matches(e.node)
  <2>1. PICK failed \in BOOLEAN :
          Produces("FILE_BEGIN", body,
            [q EXCEPT !.state = 2, !.files = @ + 1, !.total = (@ + e.size) % Word,
                      !.file = Started(e.node, failed)])
    BY <1>4, <1>12
  <2>2. PICK f, a, b : f = Started(e.node, failed) /\ a = q.files + 1
                       /\ b = (q.total + e.size) % Word
    OBVIOUS
  <2>3. PICK r : r = [q EXCEPT !.state = 2, !.files = a, !.total = b, !.file = f]
    OBVIOUS
  <2>4. Produces("FILE_BEGIN", body, r)
    <3>1. r = [q EXCEPT !.state = 2, !.files = @ + 1, !.total = (@ + e.size) % Word,
                        !.file = Started(e.node, failed)]
      BY <2>2, <2>3
    <3> QED
      BY <2>1, <3>1
  <2>5. DOMAIN r = ProducerFields /\ r.state = 2 /\ r.next = p.next + 1
    BY <1>7, <2>3 DEF ProducerFields
  <2>6. Produced(r) = Produced(p)
    BY <1>1, <1>5, <1>6, <2>5 DEF Produced
  <2>7. PICK x : x = Record("FILE_BEGIN", body)
    OBVIOUS
  <2>8. x.type = "FILE_BEGIN" /\ x.body.path = manifest[k].path /\ x.body.file = FileId(k)
    BY <1>1, <1>2, <2>7 DEF Record
  <2>9. IsFile(k)
    BY <1>1, <1>8, <1>12 DEF IsFile
  <2>10. HasEntry(x)
    BY <1>8, <2>8, <2>9 DEF HasEntry
  <2> QED
    BY <1>5, <2>4, <2>5, <2>6, <2>7, <2>10, ProducesTold DEF ToldInv
<1> QED
  BY <1>9, <1>10, <1>11, <1>12

LEMMA DataRecordTold ==
  ASSUME ToldInv, SenderInv, StreamInv, DataRecord
  PROVE  ToldInv'
<1>1. PICK f, new :
        IF (new = <<>> \/ f.error) /\ Len(f.read) < Current.size THEN Fails
        ELSE Produces("FILE_DATA",
               [file |-> FileId(p.next - 1), offset |-> Len(p.file.read), data |-> new],
               [p EXCEPT !.file = f])
  BY DEF DataRecord
<1>2. phase = "filling" /\ lost' = lost
  BY DEF DataRecord, Filling
<1>3. CASE Fails
  BY <1>2, <1>3, FailsTold
<1>4. ASSUME NEW body, Produces("FILE_DATA", body, [p EXCEPT !.file = f]) PROVE ToldInv'
  <2>1. PICK q : q = [p EXCEPT !.file = f]
    OBVIOUS
  <2>2. DOMAIN p = ProducerFields
    BY DEF SenderInv, IsProducer
  <2>3. DOMAIN q = ProducerFields /\ q.state = p.state /\ q.next = p.next
    BY <2>1, <2>2 DEF ProducerFields
  <2>4. Produced(q) = Produced(p)
    BY <2>3 DEF Produced
  <2>5. HasEntry(Record("FILE_DATA", body))
    BY DEF HasEntry, Record
  <2> QED
    BY <1>2, <1>4, <2>1, <2>3, <2>4, <2>5, ProducesTold DEF ToldInv
<1> QED
  BY <1>1, <1>3, <1>4

LEMMA EndRecordTold ==
  ASSUME ToldInv, SenderInv, StreamInv, EndRecord
  PROVE  ToldInv'
<1>1. p.state = 2 /\ phase = "filling" /\ lost' = lost
  BY DEF EndRecord, Filling
<1>2. CASE ~Unchanged(Current.node)
  BY <1>1, <1>2, FailsTold DEF EndRecord
<1>3. CASE Unchanged(Current.node)
  <2>1. PICK body : body = [file |-> FileId(p.next - 1), size |-> Current.size,
                            crc |-> p.file.read]
    OBVIOUS
  <2>2. PICK q : q = [p EXCEPT !.state = 1, !.file = <<>>]
    OBVIOUS
  <2>3. Produces("FILE_END", body, q)
    BY <1>3, <2>1, <2>2 DEF EndRecord
  <2>4. DOMAIN p = ProducerFields /\ p.next \in Nat \ {0}
    BY DEF SenderInv, IsProducer
  <2>5. DOMAIN q = ProducerFields /\ q.state = 1 /\ q.next = p.next
    BY <2>2, <2>4 DEF ProducerFields
  <2>6. PICK k : k = p.next - 1
    OBVIOUS
  <2>7. Produced(q) = Produced(p) + 1 /\ Produced(q) = k
    BY <1>1, <2>4, <2>5, <2>6 DEF Produced
  <2>8. PICK x : x = Record("FILE_END", body)
    OBVIOUS
  <2>9. x.type = "FILE_END" /\ x.body.file = FileId(k)
    BY <2>1, <2>6, <2>8 DEF Record
  <2>10. HasEntry(x)
    BY <2>9 DEF HasEntry
  <2>11. IsFile(k)
    BY <1>1, <2>6, CurrentFile
  <2>12. Delivers(x, k)
    BY <2>9, <2>11 DEF Delivers, IsFile
  <2> QED
    BY <1>1, <2>3, <2>5, <2>7, <2>8, <2>10, <2>12, ProducesTold DEF ToldInv
<1> QED
  BY <1>2, <1>3

\* The end of the manifest is its end: no read of it fails.
LEMMA TransferEndTold ==
  ASSUME ToldInv, SenderInv, StreamInv, MaxLost = 0, TransferEnd
  PROVE  ToldInv'
<1>1. PICK failed \in BOOLEAN : /\ failed => lost < MaxLost
                                /\ Closing(failed)
                                /\ lost' = IF failed THEN lost + 1 ELSE lost
  BY DEF TransferEnd
<1>2. failed = FALSE
  BY <1>1 DEF ToldInv
<1>3. lost' = 0 /\ p.state = 1 /\ p.next > Len(manifest) /\ phase = "filling"
  BY <1>1, <1>2 DEF Closing, ToldInv, TransferEnd, Filling
<1>4. PICK body : body = [files |-> p.files, dirs |-> p.dirs, total |-> p.total]
  OBVIOUS
<1>5. PICK q : q = [p EXCEPT !.state = 6]
  OBVIOUS
<1>6. Produces("TRANSFER_END", body, q)
  BY <1>4, <1>5 DEF TransferEnd
<1>7. DOMAIN p = ProducerFields /\ p.next \in Nat \ {0}
  BY DEF SenderInv, IsProducer
<1>8. DOMAIN q = ProducerFields /\ q.state = 6 /\ q.next = p.next
  BY <1>5, <1>7 DEF ProducerFields
<1>9. Produced(q) = Produced(p) /\ Produced(p) = p.next - 1
  BY <1>3, <1>8 DEF Produced
<1>10. Produced(p) >= Len(manifest)
  <2>1. Len(manifest) \in Nat
    BY LenProperties DEF SenderInv
  <2> QED
    BY <1>3, <1>7, <1>9, <2>1
<1>11. HasEntry(Record("TRANSFER_END", body))
  BY DEF HasEntry, Record
<1> QED
  BY <1>3, <1>6, <1>8, <1>9, <1>10, <1>11, ProducesTold

LEMMA FinishedTold ==
  ASSUME ToldInv, SenderInv, Finished
  PROVE  ToldInv'
<1>1. PICK q : q = [p EXCEPT !.finished = TRUE]
  OBVIOUS
<1>2. /\ tree' = tree /\ manifest' = manifest /\ selection' = selection /\ sent' = sent
      /\ window' = window /\ phase' = phase /\ p' = q /\ lost' = lost
  BY <1>1 DEF Finished
<1>3. DOMAIN p = ProducerFields
  BY DEF SenderInv, IsProducer
<1>4. q.state = p.state /\ q.next = p.next
  BY <1>1, <1>3 DEF ProducerFields
<1>5. Produced(p') = Produced(p) /\ Said' = Said
  BY <1>2, <1>4 DEF Produced, Said
<1> QED
  BY <1>2, <1>5, StillTold

LEMMA TransmitTold ==
  ASSUME ToldInv, SenderInv, Transmit
  PROVE  ToldInv'
<1>1. /\ tree' = tree /\ manifest' = manifest /\ selection' = selection /\ p' = p
      /\ sent' = Said /\ window' = <<>> /\ phase = "filling" /\ lost' = lost
  BY DEF Transmit, Said
<1>2. Said' = Said
  BY <1>1, SaidFacts, ConcatEmpty DEF Said
<1> QED
  BY <1>1, <1>2, StillTold

LEMMA ChangeTold ==
  ASSUME ToldInv, NEW n, Change(n)
  PROVE  ToldInv'
<1>1. Said' = Said
  BY DEF Change, Said
<1> QED
  BY <1>1, StillTold DEF Change

LEMMA ProduceTold ==
  ASSUME ToldInv, SenderInv, StreamInv, MaxLost = 0, Produce
  PROVE  ToldInv'
<1> QED
  BY SessionRecordTold, ManifestRecordTold, DataRecordTold, EndRecordTold,
     TransferEndTold, FinishedTold, TransmitTold, ChangeTold DEF Produce

-----------------------------------------------------------------------------
(* The paths of documents.                                                 *)

\* Paths, of the documents ds.
PathsOf(ds) ==
  LET path[d \in 0..Len(ds)] ==
        IF d = Root THEN <<>> ELSE Append(path[ds[d].parent], ds[d].name[1])
  IN path

\* What a document is in was there before it.
RootedIn(ds) == IsSeq(ds) /\ \A d \in 1..Len(ds) : ds[d].parent \in 0..(d - 1)

LEMMA PathsFacts ==
  ASSUME NEW ds, RootedIn(ds), NEW P, P = PathsOf(ds)
  PROVE  /\ P[0] = <<>> /\ \A d \in 0..Len(ds) : IsSeq(P[d])
         /\ \A d \in 1..Len(ds) : P[d] = Append(P[ds[d].parent], ds[d].name[1])
<1>1. PICK n \in Nat : n = Len(ds)
  BY SeqFacts DEF RootedIn
<1>2. \A d \in 1..n : ds[d].parent \in 0..(d - 1)
  BY <1>1 DEF RootedIn
<1> DEFINE S == {ds[d].name[1] : d \in 1..n}
           Path(f, d) == IF d = 0 THEN <<>> ELSE Append(f[ds[d].parent], ds[d].name[1])
           Solves(f, k) == f \in [0..n -> Seq(S)] /\ \A d \in 0..k : f[d] = Path(f, d)
           U == {k \in Nat : k <= n => \E f : Solves(f, k)}
<1>3. 0 \in U
  <2>1. PICK f : f = [d \in 0..n |-> <<>>]
    OBVIOUS
  <2>2. f \in [0..n -> Seq(S)] /\ f[0] = <<>>
    BY <1>1, <2>1
  <2>3. \A d \in 0..0 : d = 0
    OBVIOUS
  <2>4. Solves(f, 0)
    BY <2>2, <2>3
  <2> QED
    BY <2>4
<1>4. ASSUME NEW k \in Nat, k \in U PROVE k + 1 \in U
  <2> HIDE DEF Solves
  <2> SUFFICES ASSUME k + 1 <= n PROVE \E f : Solves(f, k + 1)
    OBVIOUS
  <2>1. PICK f : Solves(f, k)
    BY <1>1, <1>4
  <2> USE DEF Solves
  <2>2. PICK q : q = Path(f, k + 1)
    OBVIOUS
  <2>3. k + 1 \in 1..n /\ k + 1 \in 0..n /\ k + 1 # 0
    BY <1>1
  <2>4. ds[k + 1].parent \in 0..k /\ ds[k + 1].parent \in 0..n /\ ds[k + 1].name[1] \in S
    <3>1. ds[k + 1].name[1] \in S
      BY <2>3
    <3>2. PICK j : j = k + 1 /\ j - 1 = k
      OBVIOUS
    <3>3. j \in 1..n
      BY <2>3, <3>2
    <3>4. ds[j].parent \in 0..(j - 1)
      BY <1>2, <3>3
    <3>5. ds[j].parent \in 0..k
      BY <3>2, <3>4
    <3>6. \A r \in 0..k : r \in 0..n
      BY <1>1, <2>3
    <3> QED
      BY <3>1, <3>2, <3>5, <3>6
  <2>5. q \in Seq(S)
    <3>1. PICK s, a : s = f[ds[k + 1].parent] /\ a = ds[k + 1].name[1]
      OBVIOUS
    <3>2. s \in Seq(S) /\ a \in S /\ q = Append(s, a)
      BY <2>1, <2>2, <2>3, <2>4, <3>1
    <3> HIDE DEF S
    <3> QED
      BY <3>2
  <2>6. PICK g : g = [f EXCEPT ![k + 1] = q]
    OBVIOUS
  <2>7. g \in [0..n -> Seq(S)] /\ g[k + 1] = q /\ \A d \in 0..k : g[d] = f[d]
    BY <1>1, <2>1, <2>3, <2>5, <2>6
  <2>8. ASSUME NEW d \in 0..(k + 1) PROVE g[d] = Path(g, d)
    <3>1. CASE d = k + 1
      <4>1. g[ds[k + 1].parent] = f[ds[k + 1].parent]
        BY <2>4, <2>7
      <4> QED
        BY <2>2, <2>3, <2>7, <3>1, <4>1
    <3>2. CASE d = 0
      <4>1. 0 \in 0..k /\ f[0] = <<>>
        BY <2>1
      <4> QED
        BY <2>7, <3>2, <4>1
    <3>3. CASE d # k + 1 /\ d # 0
      <4>1. d \in 0..k /\ d \in 1..n
        BY <1>1, <2>3, <3>3
      <4>2. ds[d].parent \in 0..k
        BY <1>2, <4>1
      <4>3. f[d] = Path(f, d)
        BY <2>1, <4>1
      <4>4. g[d] = f[d] /\ g[ds[d].parent] = f[ds[d].parent]
        BY <2>7, <4>1, <4>2
      <4> QED
        BY <3>3, <4>3, <4>4
    <3> QED
      BY <3>1, <3>2, <3>3
  <2>9. Solves(g, k + 1)
    BY <2>7, <2>8
  <2> QED
    BY <2>9
<1> HIDE DEF U
<1>5. n \in U
  BY <1>1, <1>3, <1>4, Induct
<1>6. PICK f : Solves(f, n)
  <2> HIDE DEF Solves
  <2> QED
    BY <1>1, <1>5 DEF U
<1> DEFINE Is(g) == g = [d \in 0..n |-> Path(g, d)]
           path == CHOOSE g : Is(g)
<1>7. Is(f)
  BY <1>6
<1>8. PathsOf(ds) = path
  BY <1>1 DEF PathsOf, Root
<1>9. Is(path)
  <2> HIDE DEF Is
  <2> QED
    BY <1>7
<1>10. Is(P)
  <2> HIDE DEF Is, path
  <2> QED
    BY <1>8, <1>9
<1>11. P[0] = <<>> /\ \A d \in 1..n : P[d] = Append(P[ds[d].parent], ds[d].name[1])
  <2>1. \A d \in 0..n : P[d] = Path(P, d)
    <3> HIDE DEF Path
    <3> QED
      BY <1>10
  <2>2. 0 \in 0..n
    BY <1>1
  <2>3. \A d \in 1..n : d \in 0..n /\ d # 0
    BY <1>1
  <2> QED
    BY <2>1, <2>2, <2>3
<1> HIDE DEF path, Is, Solves
<1> DEFINE V == {k \in Nat : \A d \in 0..k : d <= n => P[d] \in Seq(S)}
<1>12. 0 \in V
  <2>1. \A d \in 0..0 : d = 0
    OBVIOUS
  <2>2. P[0] \in Seq(S)
    BY <1>11
  <2> QED
    BY <2>1, <2>2
<1>13. ASSUME NEW k \in Nat, k \in V PROVE k + 1 \in V
  <2> SUFFICES ASSUME NEW d \in 0..(k + 1), d <= n PROVE P[d] \in Seq(S)
    OBVIOUS
  <2>1. CASE d = 0
    <3>1. P[d] = <<>>
      BY <1>11, <2>1
    <3> HIDE DEF S
    <3> QED
      BY <3>1, EmptySeq
  <2>2. CASE d # 0
    <3>1. d \in 1..n
      BY <1>1, <2>2
    <3>2. PICK b, a : b = ds[d].parent /\ a = ds[d].name[1] /\ a \in S
      BY <3>1
    <3>3. b \in 0..k /\ b <= n
      BY <1>1, <1>2, <3>1, <3>2
    <3>4. P[b] \in Seq(S)
      BY <1>13, <3>3
    <3>5. P[d] = Append(P[b], a)
      BY <1>11, <3>1, <3>2
    <3> HIDE DEF S
    <3> QED
      BY <3>2, <3>4, <3>5
  <2> QED
    BY <2>1, <2>2
<1>14. n \in V
  <2> HIDE DEF V
  <2> QED
    BY <1>1, <1>12, <1>13, Induct
<1>15. \A d \in 0..n : IsSeq(P[d])
  <2>1. ASSUME NEW d \in 0..n PROVE IsSeq(P[d])
    <3>1. P[d] \in Seq(S)
      BY <1>1, <1>14
    <3> HIDE DEF S
    <3> QED
      BY <3>1, SeqIsSeq
  <2> QED
    BY <2>1
<1> QED
  BY <1>1, <1>11, <1>15

\* The documents es are those of ds, where they were, and perhaps more; what
\* was final is what it was.
Extends(ds, es) ==
  /\ Len(ds) <= Len(es)
  /\ \A d \in 1..Len(ds) :
       /\ es[d].parent = ds[d].parent /\ es[d].name[1] = ds[d].name[1]
       /\ es[d].by = ds[d].by /\ es[d].kind = ds[d].kind
       /\ ds[d].name[3] < 0 => es[d] = ds[d]

LEMMA PathsStay ==
  ASSUME NEW ds, NEW es, RootedIn(ds), RootedIn(es), Extends(ds, es)
  PROVE  \A d \in 0..Len(ds) : PathsOf(es)[d] = PathsOf(ds)[d]
<1>1. PICK n \in Nat, m \in Nat : n = Len(ds) /\ m = Len(es)
  BY SeqFacts DEF RootedIn
<1>2. PICK P, Q : P = PathsOf(ds) /\ Q = PathsOf(es)
  OBVIOUS
<1>3. n <= m
  BY <1>1 DEF Extends
<1>4. P[0] = <<>> /\ \A d \in 1..n : P[d] = Append(P[ds[d].parent], ds[d].name[1])
  BY <1>1, <1>2, PathsFacts
<1>5. Q[0] = <<>> /\ \A d \in 1..n : Q[d] = Append(Q[ds[d].parent], ds[d].name[1])
  <2>1. Q[0] = <<>> /\ \A d \in 1..m : Q[d] = Append(Q[es[d].parent], es[d].name[1])
    BY <1>1, <1>2, PathsFacts
  <2>2. \A d \in 1..n : d \in 1..m
    BY <1>1, <1>3
  <2> QED
    BY <1>1, <2>1, <2>2 DEF Extends
<1>6. \A d \in 1..n : ds[d].parent \in 0..(d - 1)
  BY <1>1 DEF RootedIn
<1> DEFINE U == {k \in Nat : \A d \in 0..k : d <= n => Q[d] = P[d]}
<1>7. 0 \in U
  <2>1. \A d \in 0..0 : d = 0
    OBVIOUS
  <2> QED
    BY <1>4, <1>5, <2>1
<1>8. ASSUME NEW k \in Nat, k \in U PROVE k + 1 \in U
  <2> SUFFICES ASSUME NEW d \in 0..(k + 1), d <= n PROVE Q[d] = P[d]
    OBVIOUS
  <2>1. CASE d = 0
    BY <1>4, <1>5, <2>1
  <2>2. CASE d # 0
    <3>1. d \in 1..n
      BY <1>1, <2>2
    <3>2. PICK b : b = ds[d].parent
      OBVIOUS
    <3>3. b \in 0..k /\ b <= n
      BY <1>1, <1>6, <3>1, <3>2
    <3>4. Q[b] = P[b]
      BY <1>8, <3>3
    <3> QED
      BY <1>4, <1>5, <3>1, <3>2, <3>4
  <2> QED
    BY <2>1, <2>2
<1> HIDE DEF U
<1>9. n \in U
  BY <1>1, <1>7, <1>8, Induct
<1> QED
  BY <1>1, <1>2, <1>9 DEF U

-----------------------------------------------------------------------------
(* What a reconstruction has made.                                         *)

\* d is the document that r made of the file k.
Makes(ds, r, d, k) ==
  /\ d \in 1..Len(ds) /\ ds[d].by = r /\ ds[d].kind = "file" /\ ds[d].name[3] < 0
  /\ PathsOf(ds)[d] = manifest[k].path /\ ds[d].data = Blocks(manifest[k].node, 0)

\* Of each of the files K there is a document of its own.
Has(ds, r, K) ==
  \E m : /\ \A k \in K : Makes(ds, r, m[k], k)
         /\ \A j, k \in K : m[j] = m[k] => j = k

\* The folders that are known are where they are known to be.
Finds(ds, known) ==
  /\ <<>> \in DOMAIN known
  /\ \A q \in DOMAIN known : known[q] \in 0..Len(ds) /\ PathsOf(ds)[known[q]] = q

\* The file that is open is in its place.
Fills(ds, open) ==
  open # NoFile =>
    /\ open.doc \in 1..Len(ds)
    /\ ds[open.doc].kind = "file" /\ ds[open.doc].name[1] = open.final[1]
    /\ \E k : IsFile(k) /\ open.id = FileId(k) /\ PathsOf(ds)[open.doc] = manifest[k].path

\* The files that the first n records end.
EndedFiles(s, n) ==
  {k \in 1..Len(manifest) : IsFile(k) /\ \E i \in 1..n : Delivers(s[i], k)}
AllFiles == {k \in 1..Len(manifest) : IsFile(k)}

\* Folder and Unknown, of a task.
FolderOf(t) ==
  LET x == t.frames[t.at + 1]
  IN IF x.type = "DIRECTORY" THEN x.body.path ELSE Front(x.body.path)
UnknownOf(t) == {k \in DOMAIN FolderOf(t) : SubSeq(FolderOf(t), 1, k) \notin DOMAIN t.known}

\* A reconstruction that runs has what the records it has taken bring.
Gets(ds, r, t) ==
  Active(t) =>
    /\ Told(t.frames) /\ Has(ds, r, EndedFiles(t.frames, t.at))
    /\ \A i \in 1..t.at :
         t.frames[i].type = "DIRECTORY" => t.frames[i].body.path \in DOMAIN t.known
    /\ t.pc = "mkdir" => UnknownOf(t) # {}
    /\ t.pc = "create" => FolderOf(t) \in DOMAIN t.known

\* One that is valid has all there is.
Arrived(ds, r, t) ==
  t.result = "VALID" =>
    /\ Has(ds, r, AllFiles)
    /\ \A k \in 1..Len(manifest) : manifest[k].kind = "dir" => manifest[k].path \in DOMAIN t.known

Arrives(ds, r, t) ==
  /\ Finds(ds, t.known) /\ Fills(ds, t.open) /\ Gets(ds, r, t) /\ Arrived(ds, r, t)
ArriveInv == RootedIn(docs) /\ \A r \in Readers : Arrives(docs, r, task[r])

LEMMA ArrivesSame ==
  ASSUME tree' = tree, manifest' = manifest, NEW ds, NEW r, NEW t, Arrives(ds, r, t)
  PROVE  Arrives(ds, r, t)'
<1>1. \A k : (IsFile(k)' <=> IsFile(k)) /\ FileId(k)' = FileId(k)
  BY FilesSame
<1>2. \A d, k : Makes(ds, r, d, k)' <=> Makes(ds, r, d, k)
  BY FilesSame DEF Makes, PathsOf
<1>3. \A K : Has(ds, r, K)' <=> Has(ds, r, K)
  BY <1>2 DEF Has
<1>4. AllFiles' = AllFiles
  BY <1>1 DEF AllFiles
<1>5. \A s, n : EndedFiles(s, n)' = EndedFiles(s, n)
  BY <1>1, ToldSame DEF EndedFiles
<1>6. Finds(ds, t.known)'
  BY DEF Arrives, Finds, PathsOf
<1>7. Fills(ds, t.open)'
  BY <1>1 DEF Arrives, Fills, PathsOf
<1>8. Gets(ds, r, t)'
  BY <1>3, <1>5, ToldSame DEF Arrives, Gets, FolderOf, UnknownOf, Active
<1>9. Arrived(ds, r, t)'
  BY <1>3, <1>4 DEF Arrives, Arrived
<1> QED
  BY <1>6, <1>7, <1>8, <1>9 DEF Arrives

LEMMA ExtendsSelf == \A ds : IsSeq(ds) => Extends(ds, ds)
<1> QED
  BY SeqFacts DEF Extends

LEMMA MakesExtends ==
  ASSUME NEW ds, NEW es, RootedIn(ds), RootedIn(es), Extends(ds, es), NEW r, NEW d, NEW k,
         Makes(ds, r, d, k)
  PROVE  Makes(es, r, d, k)
<1>1. d \in 1..Len(ds) /\ d \in 0..Len(ds) /\ d \in 1..Len(es)
  <2>1. Len(ds) \in Nat /\ Len(es) \in Nat /\ Len(ds) <= Len(es) /\ d \in 1..Len(ds)
    BY SeqFacts DEF RootedIn, Extends, Makes
  <2> QED
    BY <2>1
<1>2. es[d] = ds[d]
  BY <1>1 DEF Extends, Makes
<1>3. PathsOf(es)[d] = PathsOf(ds)[d]
  BY <1>1, PathsStay
<1> QED
  BY <1>1, <1>2, <1>3 DEF Makes

LEMMA HasExtends ==
  ASSUME NEW ds, NEW es, RootedIn(ds), RootedIn(es), Extends(ds, es), NEW r, NEW K, Has(ds, r, K)
  PROVE  Has(es, r, K)
<1> QED
  BY MakesExtends DEF Has

\* One more, which was not final before.
LEMMA HasMore ==
  ASSUME NEW ds, NEW es, RootedIn(ds), RootedIn(es), Extends(ds, es), NEW r, NEW K, Has(ds, r, K),
         NEW d, ~(ds[d].name[3] < 0), NEW k, Makes(es, r, d, k), NEW L, L \subseteq K \cup {k}
  PROVE  Has(es, r, L)
<1>1. PICK m : /\ \A j \in K : Makes(ds, r, m[j], j)
               /\ \A i, j \in K : m[i] = m[j] => i = j
  BY DEF Has
<1>2. PICK f : f = [j \in L |-> IF j = k THEN d ELSE m[j]]
  OBVIOUS
<1>3. \A j \in L : (j = k /\ f[j] = d) \/ (j \in K /\ j # k /\ f[j] = m[j])
  BY <1>2
<1>4. \A j \in K : m[j] # d
  BY <1>1 DEF Makes
<1>5. \A j \in L : Makes(es, r, f[j], j)
  BY <1>1, <1>3, MakesExtends
<1>6. \A i, j \in L : f[i] = f[j] => i = j
  BY <1>1, <1>3, <1>4
<1> QED
  BY <1>5, <1>6 DEF Has

\* What others add changes nothing of what a reconstruction has.
LEMMA ArrivesExtends ==
  ASSUME NEW ds, NEW es, RootedIn(ds), RootedIn(es), Extends(ds, es), NEW r, NEW t,
         Arrives(ds, r, t)
  PROVE  Arrives(es, r, t)
<1>1. Len(ds) \in Nat /\ Len(es) \in Nat /\ Len(ds) <= Len(es)
  BY SeqFacts DEF RootedIn, Extends
<1>2. \A d \in 0..Len(ds) : d \in 0..Len(es) /\ PathsOf(es)[d] = PathsOf(ds)[d]
  BY <1>1, PathsStay
<1>3. Finds(es, t.known)
  BY <1>2 DEF Arrives, Finds
<1>4. Fills(es, t.open)
  <2>1. \A d \in 1..Len(ds) : d \in 0..Len(ds) /\ d \in 1..Len(es)
    BY <1>1
  <2> QED
    BY <1>2, <2>1 DEF Arrives, Fills, Extends
<1>5. Gets(es, r, t)
  BY HasExtends DEF Arrives, Gets
<1>6. Arrived(es, r, t)
  BY HasExtends DEF Arrives, Arrived
<1> QED
  BY <1>3, <1>4, <1>5, <1>6 DEF Arrives

\* A step of r.
LEMMA ReaderArrives ==
  ASSUME ArriveInv, ReceiverInv, tree' = tree, manifest' = manifest, NEW r \in Readers, NEW t,
         Goes(r, t), NEW es, es = docs', RootedIn(es), Extends(docs, es), Arrives(es, r, t)
  PROVE  ArriveInv'
<1>1. DOMAIN task = Readers /\ task' = [task EXCEPT ![r] = t]
  BY DEF ReceiverInv, Goes
<1>2. ASSUME NEW s \in Readers PROVE Arrives(docs, s, task[s])'
  <2>1. PICK u : u = task'[s]
    OBVIOUS
  <2>2. Arrives(es, s, u)
    <3>1. CASE s = r
      BY <1>1, <2>1, <3>1
    <3>2. CASE s # r
      <4>1. Arrives(docs, s, u) /\ RootedIn(docs)
        BY <1>1, <2>1, <3>2 DEF ArriveInv
      <4> QED
        BY <4>1, ArrivesExtends
    <3> QED
      BY <3>1, <3>2
  <2>3. Arrives(es, s, u)'
    BY <2>2, ArrivesSame
  <2> QED
    BY <2>1, <2>3
<1>3. RootedIn(docs)'
  BY DEF RootedIn, IsSeq
<1> QED
  BY <1>2, <1>3 DEF ArriveInv

\* One that leaves the documents alone.
LEMMA GoesArrives ==
  ASSUME ArriveInv, ReceiverInv, tree' = tree, manifest' = manifest, NEW r \in Readers, NEW t,
         Goes(r, t), docs' = docs, Arrives(docs, r, t)
  PROVE  ArriveInv'
<1>1. PICK ds : ds = docs
  OBVIOUS
<1>2. RootedIn(ds) /\ Extends(docs, ds) /\ ds = docs'
  BY <1>1, ExtendsSelf DEF ArriveInv, RootedIn
<1> QED
  BY <1>1, <1>2, ReaderArrives

LEMMA EndsArrives ==
  ASSUME ArriveInv, ReceiverInv, tree' = tree, manifest' = manifest, docs' = docs,
         NEW r \in Readers, NEW result, result # "VALID", Ends(r, result)
  PROVE  ArriveInv'
<1>1. PICK known, t : /\ known = task[r].known
                      /\ t = [Idle EXCEPT !.pc = "done", !.result = result, !.known = known]
  OBVIOUS
<1>2. t.pc = "done" /\ t.result = result /\ t.known = known /\ t.open = NoFile
  BY <1>1 DEF Idle
<1>3. Finds(docs, known)
  BY <1>1 DEF ArriveInv, Arrives
<1>4. Arrives(docs, r, t)
  BY <1>2, <1>3 DEF Arrives, Fills, Gets, Active, Arrived
<1>5. Goes(r, t)
  BY <1>1 DEF Ends
<1> QED
  BY <1>4, <1>5, GoesArrives

\* A reconstruction that knows nothing yet.
LEMMA IdleFinds ==
  ASSUME NEW ds, RootedIn(ds)
  PROVE  Finds(ds, Idle.known)
<1>1. PICK f : f = Idle.known
  OBVIOUS
<1>2. f = [path \in {<<>>} |-> 0]
  BY <1>1 DEF Idle, Root
<1>3. DOMAIN f = {<<>>} /\ f[<<>>] = 0
  BY <1>2
<1>4. 0 \in 0..Len(ds) /\ PathsOf(ds)[0] = <<>>
  BY PathsFacts, SeqFacts DEF RootedIn
<1> QED
  BY <1>1, <1>3, <1>4 DEF Finds

\* A folder more.
LEMMA KnowsOne ==
  ASSUME NEW ds, NEW known, Finds(ds, known), NEW q, NEW d \in 0..Len(ds), PathsOf(ds)[d] = q
  PROVE  Finds(ds, Known(known, q, d)) /\ DOMAIN known \subseteq DOMAIN Known(known, q, d)
<1>1. PICK g : g = Known(known, q, d)
  OBVIOUS
<1>2. /\ DOMAIN g = DOMAIN known \cup {q}
      /\ \A s \in DOMAIN g : g[s] = IF s = q THEN d ELSE known[s]
  BY <1>1 DEF Known
<1>3. ASSUME NEW s \in DOMAIN g PROVE g[s] \in 0..Len(ds) /\ PathsOf(ds)[g[s]] = s
  <2>1. CASE s = q
    BY <1>2, <2>1
  <2>2. CASE s # q
    BY <1>2, <2>2 DEF Finds
  <2> QED
    BY <2>1, <2>2
<1>4. Finds(ds, g)
  BY <1>2, <1>3 DEF Finds
<1> QED
  BY <1>1, <1>2, <1>4

LEMMA FirstPart ==
  ASSUME NEW S, NEW q \in Seq(S), NEW k \in Nat, k <= Len(q), NEW s, s = SubSeq(q, 1, k)
  PROVE  s \in Seq(S) /\ Len(s) = k /\ \A i \in 1..k : s[i] = q[i]
<1>1. \A i \in 1..Len(q) : q[i] \in S
  BY ElementOfSeq
<1>2. PICK m \in Nat : m = Len(q)
  BY LenProperties
<1>3. PICK o \in Int : o = 1
  OBVIOUS
<1>4. \A i \in o..k : q[i] \in S
  BY <1>1, <1>2, <1>3
<1>5. /\ SubSeq(q, o, k) \in Seq(S)
      /\ Len(SubSeq(q, o, k)) = IF o <= k THEN k - o + 1 ELSE 0
      /\ \A i \in 1..(k - o + 1) : SubSeq(q, o, k)[i] = q[o + i - 1]
  BY <1>4, SubSeqProperties
<1>6. s = SubSeq(q, o, k)
  BY <1>3
<1>7. Len(s) = k
  BY <1>3, <1>5, <1>6
<1>8. \A i \in 1..k : s[i] = q[i]
  <2>1. ASSUME NEW i \in 1..k PROVE s[i] = q[i]
    <3>1. i \in 1..(k - o + 1) /\ o + i - 1 = i
      BY <1>3
    <3> QED
      BY <1>5, <1>6, <3>1
  <2> QED
    BY <2>1
<1> QED
  BY <1>5, <1>6, <1>7, <1>8

\* A path is the one before its last name, and that name.
LEMMA PathGrows ==
  ASSUME NEW q, IsSeq(q), NEW k \in 1..Len(q)
  PROVE  /\ k - 1 \in Nat /\ IsSeq(SubSeq(q, 1, k - 1))
         /\ Append(SubSeq(q, 1, k - 1), q[k]) = SubSeq(q, 1, k)
<1>1. PICK S : q \in Seq(S)
  BY DEF IsSeq
<1>2. PICK n \in Nat : n = Len(q)
  BY SeqFacts
<1>3. PICK j : j = k - 1
  OBVIOUS
<1>4. j \in Nat /\ j <= n /\ k \in Nat /\ k <= n /\ k = j + 1
  BY <1>2, <1>3
<1>5. PICK s, u : s = SubSeq(q, 1, j) /\ u = SubSeq(q, 1, k)
  OBVIOUS
<1>6. s \in Seq(S) /\ Len(s) = j /\ \A i \in 1..j : s[i] = q[i]
  BY <1>1, <1>2, <1>4, <1>5, FirstPart
<1>7. u \in Seq(S) /\ Len(u) = k /\ \A i \in 1..k : u[i] = q[i]
  BY <1>1, <1>2, <1>4, <1>5, FirstPart
<1>8. PICK x : x = q[k] /\ x \in S
  BY <1>1, ElementOfSeq
<1>9. PICK w : w = Append(s, x)
  OBVIOUS
<1>10. w \in Seq(S) /\ Len(w) = j + 1 /\ (\A i \in 1..j : w[i] = s[i]) /\ w[j + 1] = x
  BY <1>4, <1>6, <1>8, <1>9, AppendProperties
<1>11. ASSUME NEW i \in 1..k PROVE w[i] = u[i]
  <2>1. CASE i = k
    BY <1>4, <1>7, <1>8, <1>10, <2>1
  <2>2. CASE i # k
    <3>1. i \in 1..j
      BY <1>4, <2>2
    <3> QED
      BY <1>6, <1>7, <1>10, <3>1
  <2> QED
    BY <2>1, <2>2
<1>12. w = u
  BY <1>4, <1>7, <1>10, <1>11, SeqEqual
<1>13. IsSeq(s)
  BY <1>6, SeqIsSeq
<1> QED
  BY <1>3, <1>4, <1>5, <1>8, <1>9, <1>12, <1>13

LEMMA WholePath ==
  ASSUME NEW q, IsSeq(q)
  PROVE  SubSeq(q, 1, Len(q)) = q /\ SubSeq(q, 1, 0) = <<>>
<1>1. PICK S : q \in Seq(S)
  BY DEF IsSeq
<1>2. PICK o \in Int, z \in Int : o = 1 /\ z = 0 /\ z < o
  OBVIOUS
<1>3. SubSeq(q, o, z) = <<>>
  BY <1>2, SubSeqEmpty
<1> QED
  BY <1>1, <1>2, <1>3, SubSeqFull

\* The path in a record is one of the manifest.
LEMMA RecordPath ==
  ASSUME SenderInv, NEW x, HasEntry(x), x.type \in {"DIRECTORY", "FILE_BEGIN"},
         NEW q, q = x.body.path
  PROVE  /\ IsSeq(q) /\ Len(q) \in Nat \ {0}
         /\ IsSeq(Front(q)) /\ Append(Front(q), Last(q)) = q
<1>1. PICK k \in 1..Len(manifest) : q = manifest[k].path
  BY DEF HasEntry
<1>2. PICK e \in Entries(tree) : e = manifest[k]
  BY ElementOfSeq DEF SenderInv
<1>3. q \in Seq(NodeNames(tree)) /\ q # <<>>
  BY <1>1, <1>2 DEF Entries, IsEntry
<1>4. IsSeq(q)
  BY <1>3, SeqIsSeq
<1>5. PICK n \in Nat : n = Len(q) /\ n # 0
  BY <1>3, EmptySeq, LenProperties
<1>6. n \in 1..Len(q)
  BY <1>5
<1>7. IsSeq(SubSeq(q, 1, n - 1)) /\ Append(SubSeq(q, 1, n - 1), q[n]) = SubSeq(q, 1, n)
  BY <1>4, <1>6, PathGrows
<1>8. SubSeq(q, 1, n) = q
  BY <1>4, <1>5, WholePath
<1> QED
  BY <1>4, <1>5, <1>7, <1>8 DEF Front, Last

\* The record that a running reconstruction has before it.
LEMMA ActiveFacts ==
  ASSUME ArriveInv, FollowInv, ReceiverInv, NEW r \in Readers, Active(task[r]),
         NEW t, t = task[r], NEW x, x = Rec(r)
  PROVE  /\ IsTask(t) /\ DOMAIN t = TaskFields /\ Arrives(docs, r, t) /\ RootedIn(docs)
         /\ t.at \in Nat /\ t.at + 1 \in 1..Len(t.frames) /\ t.at # Len(t.frames)
         /\ x = t.frames[t.at + 1] /\ HasEntry(x) /\ Truthful(x) /\ Told(t.frames)
<1>1. IsTask(t) /\ DOMAIN t = TaskFields /\ t.at # Len(t.frames)
  BY ReadsOn
<1>2. /\ Len(t.frames) \in Nat /\ t.at \in Nat /\ t.at + 1 <= Len(t.frames)
      /\ x = t.frames[t.at + 1] /\ Truthful(x)
  BY <1>1, RecFacts
<1>3. t.at + 1 \in 1..Len(t.frames)
  BY <1>2
<1>4. Arrives(docs, r, t) /\ RootedIn(docs)
  BY DEF ArriveInv
<1>5. Told(t.frames)
  BY <1>4 DEF Arrives, Gets
<1>6. HasEntry(x)
  BY <1>2, <1>3, <1>5 DEF Told
<1> QED
  BY <1>1, <1>2, <1>3, <1>4, <1>5, <1>6

LEMMA SameEnded ==
  ASSUME NEW s, NEW n \in Nat, s[n + 1].type # "FILE_END"
  PROVE  EndedFiles(s, n + 1) = EndedFiles(s, n)
<1>1. \A k : IsFile(k) => ~Delivers(s[n + 1], k)
  BY DEF Delivers, IsFile
<1>2. \A i \in 1..(n + 1) : i \in 1..n \/ i = n + 1
  OBVIOUS
<1>3. \A i \in 1..n : i \in 1..(n + 1)
  OBVIOUS
<1>4. \A k : IsFile(k) => ((\E i \in 1..(n + 1) : Delivers(s[i], k))
                             <=> \E i \in 1..n : Delivers(s[i], k))
  BY <1>1, <1>2, <1>3
<1> QED
  BY <1>4 DEF EndedFiles

\* The same record, further on with it.
LEMMA StillArrives ==
  ASSUME NEW ds, NEW r, NEW t, Arrives(ds, r, t), Active(t), NEW u, u.frames = t.frames,
         u.at = t.at, u.open = t.open, u.result = t.result,
         Finds(ds, u.known), DOMAIN t.known \subseteq DOMAIN u.known,
         u.pc = "mkdir" => UnknownOf(u) # {}, u.pc = "create" => FolderOf(u) \in DOMAIN u.known
  PROVE  Arrives(ds, r, u)
<1>1. Gets(ds, r, u)
  BY DEF Arrives, Gets
<1>2. Arrived(ds, r, u)
  BY DEF Arrives, Arrived
<1> QED
  BY <1>1, <1>2 DEF Arrives

\* The next record; the folder that this one may make is known.
LEMMA OnwardGets ==
  ASSUME NEW ds, NEW r, NEW t, Arrives(ds, r, t), Active(t), t.at \in Nat,
         NEW x, x = t.frames[t.at + 1], x.type = "DIRECTORY" => x.body.path \in DOMAIN t.known,
         Has(ds, r, EndedFiles(t.frames, t.at + 1)),
         NEW u, u.frames = t.frames, u.at = t.at + 1, u.known = t.known, u.pc = "next",
         u.result = t.result, Fills(ds, u.open)
  PROVE  Arrives(ds, r, u)
<1>1. PICK n \in Nat : n = t.at
  OBVIOUS
<1>2. PICK s : s = t.frames
  OBVIOUS
<1>3. ASSUME NEW i \in 1..(n + 1), s[i].type = "DIRECTORY" PROVE s[i].body.path \in DOMAIN u.known
  <2>1. CASE i = n + 1
    BY <1>1, <1>2, <1>3, <2>1
  <2>2. CASE i # n + 1
    <3>1. i \in 1..n
      BY <2>2
    <3> QED
      BY <1>1, <1>2, <1>3, <3>1 DEF Arrives, Gets
  <2> QED
    BY <2>1, <2>2
<1>4. Told(s)
  BY <1>2 DEF Arrives, Gets
<1>5. Gets(ds, r, u)
  BY <1>1, <1>2, <1>3, <1>4 DEF Gets
<1>6. Arrived(ds, r, u)
  BY DEF Arrives, Arrived
<1> QED
  BY <1>5, <1>6 DEF Arrives

LEMMA OnwardArrives ==
  ASSUME NEW ds, NEW r, NEW t, Arrives(ds, r, t), Active(t), t.at \in Nat,
         NEW x, x = t.frames[t.at + 1], x.type = "DIRECTORY" => x.body.path \in DOMAIN t.known,
         x.type # "FILE_END",
         NEW u, u.frames = t.frames, u.at = t.at + 1, u.known = t.known, u.pc = "next",
         u.result = t.result, Fills(ds, u.open)
  PROVE  Arrives(ds, r, u)
<1>1. EndedFiles(t.frames, t.at + 1) = EndedFiles(t.frames, t.at)
  BY SameEnded
<1>2. Has(ds, r, EndedFiles(t.frames, t.at + 1))
  BY <1>1 DEF Arrives, Gets
<1> QED
  BY <1>2, OnwardGets

-----------------------------------------------------------------------------

LEMMA PressArrives ==
  ASSUME ArriveInv, ToldInv, ReceiverInv, SenderInv, UNCHANGED sender, NEW r \in Readers, Press(r)
  PROVE  ArriveInv'
<1>1. tree' = tree /\ manifest' = manifest /\ docs' = docs
  BY DEF sender, Press
<1>2. PICK s, t : s = sent /\ t = [Idle EXCEPT !.pc = "next", !.frames = s]
  OBVIOUS
<1>3. /\ t.frames = s /\ t.at = 0 /\ t.open = NoFile /\ t.known = Idle.known
      /\ t.result = "" /\ t.pc = "next"
  BY <1>2 DEF Idle
<1>4. Told(s)
  <2>1. PICK a : a = Said
    OBVIOUS
  <2>2. Told(a) /\ IsSeq(s) /\ Len(s) <= Len(a) /\ \A i \in 1..Len(s) : s[i] = a[i]
    BY <1>2, <2>1, SaidFacts DEF ToldInv
  <2> QED
    BY <2>2, ToldPart
<1>5. Has(docs, r, EndedFiles(s, 0))
  BY DEF Has, EndedFiles
<1>6. Gets(docs, r, t)
  <2>1. \A i \in 1..t.at : FALSE
    <3>1. \A i \in 1..0 : FALSE
      OBVIOUS
    <3>2. t.at = 0
      BY <1>3, Zenon
    <3> QED
      BY <3>1, <3>2, Zenon
  <2>2. Told(t.frames) /\ Has(docs, r, EndedFiles(t.frames, t.at))
    BY <1>3, <1>4, <1>5
  <2>3. t.pc # "mkdir" /\ t.pc # "create"
    BY <1>3
  <2> QED
    BY <2>1, <2>2, <2>3 DEF Gets
<1>7. Finds(docs, t.known)
  BY <1>3, IdleFinds DEF ArriveInv
<1>8. Arrives(docs, r, t)
  BY <1>3, <1>6, <1>7 DEF Arrives, Fills, Arrived
<1>9. Goes(r, t)
  BY <1>2 DEF Press
<1> QED
  BY <1>1, <1>8, <1>9, GoesArrives

LEMMA TakeSessionArrives ==
  ASSUME ArriveInv, FollowInv, ReceiverInv, UNCHANGED sender, NEW r \in Readers,
         At(r, "next"), TakeSession(r)
  PROVE  ArriveInv'
<1>1. tree' = tree /\ manifest' = manifest /\ docs' = docs
  BY DEF sender, TakeSession
<1>2. PICK t, x : t = task[r] /\ x = Rec(r)
  OBVIOUS
<1>3. Active(t) /\ x.type = "SESSION"
  BY <1>2 DEF Active, At, TakeSession
<1>4. /\ DOMAIN t = TaskFields /\ Arrives(docs, r, t) /\ t.at \in Nat
      /\ x = t.frames[t.at + 1]
  BY <1>2, <1>3, ActiveFacts
<1>5. PICK u : u = Onward(t)
  OBVIOUS
<1>6. /\ u.pc = "next" /\ u.frames = t.frames /\ u.at = t.at + 1 /\ u.known = t.known
      /\ u.open = t.open /\ u.result = t.result
  BY <1>4, <1>5 DEF Onward, TaskFields
<1>7. Fills(docs, u.open)
  BY <1>4, <1>6 DEF Arrives
<1>8. Arrives(docs, r, u)
  BY <1>3, <1>4, <1>6, <1>7, OnwardArrives
<1>9. Goes(r, u)
  BY <1>2, <1>5 DEF TakeSession
<1> QED
  BY <1>1, <1>8, <1>9, GoesArrives

LEMMA TakePathArrives ==
  ASSUME ArriveInv, FollowInv, ReceiverInv, UNCHANGED sender, NEW r \in Readers,
         At(r, "next"), TakePath(r)
  PROVE  ArriveInv'
<1>1. tree' = tree /\ manifest' = manifest /\ docs' = docs
  BY DEF sender, TakePath
<1>2. CASE Ends(r, "nested")
  BY <1>1, <1>2, EndsArrives
<1>3. CASE ~Ends(r, "nested")
  <2>1. PICK t : t = task[r]
    OBVIOUS
  <2>2. Active(t)
    BY <2>1 DEF Active, At
  <2>3. DOMAIN t = TaskFields /\ Arrives(docs, r, t)
    BY <2>1, <2>2, ActiveFacts
  <2>4. PICK u : u = [t EXCEPT !.pc = "dir"]
    OBVIOUS
  <2>5. Goes(r, u)
    BY <1>3, <2>1, <2>4 DEF TakePath
  <2>6. /\ u.pc = "dir" /\ u.frames = t.frames /\ u.at = t.at /\ u.known = t.known
        /\ u.open = t.open /\ u.result = t.result
    BY <2>3, <2>4 DEF TaskFields
  <2>7. Finds(docs, u.known) /\ DOMAIN t.known \subseteq DOMAIN u.known
    BY <2>3, <2>6 DEF Arrives
  <2>8. Arrives(docs, r, u)
    BY <2>2, <2>3, <2>6, <2>7, StillArrives
  <2> QED
    BY <1>1, <2>5, <2>8, GoesArrives
<1> QED
  BY <1>2, <1>3

\* A change of a document that is not yet final, and not of its place.
LEMMA ChangeExtends ==
  ASSUME NEW ds, RootedIn(ds), NEW i \in 1..Len(ds), ~(ds[i].name[3] < 0), NEW x,
         x.parent = ds[i].parent, x.name[1] = ds[i].name[1], x.by = ds[i].by,
         x.kind = ds[i].kind, NEW es, es = [ds EXCEPT ![i] = x]
  PROVE  RootedIn(es) /\ Extends(ds, es) /\ es[i] = x /\ Len(es) = Len(ds)
<1>1. IsSeq(ds) /\ Len(ds) \in Nat
  BY SeqFacts DEF RootedIn
<1>2. IsSeq(es) /\ Len(es) = Len(ds) /\ \A j \in 1..Len(ds) : es[j] = IF j = i THEN x ELSE ds[j]
  <2>1. \A y : /\ IsSeq([ds EXCEPT ![i] = y]) /\ Len([ds EXCEPT ![i] = y]) = Len(ds)
              /\ \A j \in 1..Len(ds) : [ds EXCEPT ![i] = y][j] = IF j = i THEN y ELSE ds[j]
    BY <1>1, SeqExcept
  <2> QED
    BY <2>1, Zenon
<1>3. RootedIn(es)
  BY <1>2 DEF RootedIn
<1>4. Extends(ds, es)
  BY <1>1, <1>2 DEF Extends
<1> QED
  BY <1>2, <1>3, <1>4

LEMMA TakeDataArrives ==
  ASSUME ArriveInv, FollowInv, ReceiverInv, UNCHANGED sender, NEW r \in Readers,
         At(r, "next"), TakeData(r)
  PROVE  ArriveInv'
<1>1. tree' = tree /\ manifest' = manifest
  BY DEF sender
<1>2. PICK t, x, o, data : t = task[r] /\ x = Rec(r) /\ o = t.open /\ data = x.body.data
  OBVIOUS
<1>3. Active(t) /\ x.type = "FILE_DATA"
  BY <1>2 DEF Active, At, TakeData
<1>4. /\ DOMAIN t = TaskFields /\ Arrives(docs, r, t) /\ t.at \in Nat /\ RootedIn(docs)
      /\ x = t.frames[t.at + 1]
  BY <1>2, <1>3, ActiveFacts
<1>5. CASE Ends(r, "gap") /\ docs' = docs
  BY <1>1, <1>5, EndsArrives
<1>6. CASE ~(Ends(r, "gap") /\ docs' = docs)
  <2>1. /\ o # NoFile /\ docs' = [docs EXCEPT ![o.doc].data = @ \o data]
        /\ Goes(r, Onward([t EXCEPT !.open.written = @ \o data, !.total = @ + Len(data)]))
    BY <1>2, <1>6 DEF TakeData
  <2>2. Owns(r, o)
    BY <1>2 DEF ReceiverInv
  <2>3. PICK i \in 1..Len(docs) : i = o.doc
    BY <2>1, <2>2 DEF Owns
  <2>4. /\ DOMAIN o = {"id", "size", "written", "final", "doc"}
        /\ docs[i].name[3] >= 0
    BY <2>1, <2>2, <2>3 DEF Owns
  <2>5. IsDoc(docs[i])
    BY DEF ReceiverInv, Documents
  <2>6. ~(docs[i].name[3] < 0)
    BY <2>4, <2>5 DEF IsDoc, IsName
  <2>7. PICK all, y : all = docs[i].data \o data /\ y = [docs[i] EXCEPT !.data = all]
    OBVIOUS
  <2>8. PICK es : es = docs'
    OBVIOUS
  <2>9. es = [docs EXCEPT ![i] = y]
    BY <2>1, <2>3, <2>7, <2>8
  <2>10. /\ y.parent = docs[i].parent /\ y.name = docs[i].name /\ y.by = docs[i].by
         /\ y.kind = docs[i].kind
    BY <2>5, <2>7 DEF IsDoc
  <2>11. RootedIn(es) /\ Extends(docs, es)
    BY <1>4, <2>6, <2>9, <2>10, ChangeExtends
  <2>12. Arrives(es, r, t)
    BY <1>4, <2>11, ArrivesExtends
  <2>13. PICK w, n : w = o.written \o data /\ n = t.total + Len(data)
    OBVIOUS
  <2>14. PICK q : q = [o EXCEPT !.written = w]
    OBVIOUS
  <2>15. PICK u : u = [t EXCEPT !.open = q, !.total = n]
    OBVIOUS
  <2>16. PICK v : v = Onward(u)
    OBVIOUS
  <2>17. u = [t EXCEPT !.open.written = @ \o data, !.total = @ + Len(data)]
    BY <1>2, <1>4, <2>13, <2>14, <2>15 DEF TaskFields
  <2>18. Goes(r, v)
    BY <2>1, <2>16, <2>17
  <2>19. /\ DOMAIN u = TaskFields /\ u.open = q /\ u.frames = t.frames /\ u.at = t.at
         /\ u.known = t.known /\ u.result = t.result
    BY <1>4, <2>15 DEF TaskFields
  <2>20. /\ v.pc = "next" /\ v.open = q /\ v.frames = t.frames /\ v.at = t.at + 1
         /\ v.known = t.known /\ v.result = t.result
    BY <2>16, <2>19 DEF Onward, TaskFields
  <2>21. q.id = o.id /\ q.final = o.final /\ q.doc = o.doc
    BY <2>4, <2>14
  <2>22. Fills(es, v.open)
    BY <1>2, <2>1, <2>12, <2>20, <2>21 DEF Arrives, Fills
  <2>23. Arrives(es, r, v)
    BY <1>3, <1>4, <2>12, <2>20, <2>22, OnwardArrives
  <2> QED
    BY <1>1, <2>8, <2>11, <2>18, <2>23, ReaderArrives
<1> QED
  BY <1>5, <1>6

LEMMA TakeEndArrives ==
  ASSUME ArriveInv, FollowInv, ReceiverInv, SenderInv, UNCHANGED sender, NEW r \in Readers,
         At(r, "next"), TakeEnd(r)
  PROVE  ArriveInv'
<1>1. tree' = tree /\ manifest' = manifest
  BY DEF sender
<1>2. PICK t, x, o, body : t = task[r] /\ x = Rec(r) /\ o = t.open /\ body = x.body
  OBVIOUS
<1>3. Active(t) /\ x.type = "FILE_END"
  BY <1>2 DEF Active, At, TakeEnd
<1>4. /\ DOMAIN t = TaskFields /\ Arrives(docs, r, t) /\ t.at \in Nat /\ RootedIn(docs)
      /\ x = t.frames[t.at + 1] /\ Truthful(x)
  BY <1>2, <1>3, ActiveFacts
<1>5. CASE Ends(r, "mismatch") /\ docs' = docs
  BY <1>1, <1>5, EndsArrives
<1>6. CASE ~(Ends(r, "mismatch") /\ docs' = docs)
  <2>1. /\ o # NoFile /\ o.id = body.file /\ o.written = body.crc
        /\ docs' = [docs EXCEPT ![o.doc].name = Granted(docs[o.doc].parent, o.final)]
        /\ Goes(r, Onward([t EXCEPT !.open = NoFile, !.files = @ + 1]))
    BY <1>2, <1>6 DEF TakeEnd
  <2>2. Owns(r, o)
    BY <1>2 DEF ReceiverInv
  <2>3. PICK i \in 1..Len(docs) : i = o.doc
    BY <2>1, <2>2 DEF Owns
  <2>4. /\ docs[i].by = r /\ docs[i].name[3] >= 0 /\ docs[i].data = o.written
        /\ IsName(o.final) /\ o.final[3] = -1
    BY <2>1, <2>2, <2>3 DEF Owns
  <2>5. IsDoc(docs[i]) /\ IsSeq(docs)
    BY DEF ReceiverInv, Documents
  <2>6. ~(docs[i].name[3] < 0)
    BY <2>4, <2>5 DEF IsDoc, IsName
  <2>7. PICK k : IsFile(k) /\ o.id = FileId(k) /\ PathsOf(docs)[i] = manifest[k].path
    BY <1>2, <1>4, <2>1, <2>3 DEF Arrives, Fills
  <2>8. docs[i].kind = "file" /\ docs[i].name[1] = o.final[1]
    BY <1>2, <1>4, <2>1, <2>3 DEF Arrives, Fills
  <2>9. Len(manifest) \in Nat
    BY LenProperties DEF SenderInv
  <2>10. PICK j \in Nat : /\ IsFile(j) /\ body.file = FileId(j)
                          /\ body.crc = Blocks(manifest[j].node, 0)
    BY <1>2, <1>3, <1>4 DEF Truthful, Finishes
  <2>11. j = k
    BY <2>1, <2>7, <2>9, <2>10, FileIdInjective
  <2>12. PICK name : name = Granted(docs[i].parent, o.final)
    OBVIOUS
  <2>13. name[1] = o.final[1] /\ name[3] = -1
    <3>1. PICK parent : parent = docs[i].parent
      OBVIOUS
    <3>2. name = Unused(parent, o.final)
      BY <2>12, <3>1 DEF Granted
    <3> QED
      BY <2>4, <2>5, <3>2, UnusedName
  <2>14. PICK y, es : y = [docs[i] EXCEPT !.name = name] /\ es = docs'
    OBVIOUS
  <2>15. es = [docs EXCEPT ![i] = y]
    BY <2>1, <2>3, <2>12, <2>14
  <2>16. /\ y.parent = docs[i].parent /\ y.name = name /\ y.by = docs[i].by
         /\ y.kind = docs[i].kind /\ y.data = docs[i].data
    BY <2>5, <2>14 DEF IsDoc
  <2>17. RootedIn(es) /\ Extends(docs, es) /\ es[i] = y /\ Len(es) = Len(docs)
    <3>1. y.name[1] = docs[i].name[1]
      BY <2>8, <2>13, <2>16
    <3>2. /\ y.parent = docs[i].parent /\ y.by = docs[i].by /\ y.kind = docs[i].kind
          /\ RootedIn(docs)
      BY <1>4, <2>16
    <3>3. ASSUME RootedIn(docs), ~(docs[i].name[3] < 0), y.parent = docs[i].parent,
                 y.name[1] = docs[i].name[1], y.by = docs[i].by, y.kind = docs[i].kind,
                 es = [docs EXCEPT ![i] = y]
          PROVE  RootedIn(es) /\ Extends(docs, es)
      BY <3>3, ChangeExtends
    <3>4. es[i] = y
      BY <2>5, <2>15, SeqFacts
    <3>5. Len(es) = Len(docs)
      <4>1. Len([docs EXCEPT ![i] = y]) = Len(docs)
        BY <2>5, SeqExcept
      <4> QED
        BY <2>15, <4>1
    <3> QED
      BY <2>6, <2>15, <3>1, <3>2, <3>3, <3>4, <3>5
  <2>18. Makes(es, r, i, k)
    <3>1. i \in 0..Len(docs)
      OBVIOUS
    <3>2. PathsOf(es)[i] = manifest[k].path
      BY <1>4, <2>7, <2>17, <3>1, PathsStay
    <3>3. es[i].by = r /\ es[i].kind = "file" /\ es[i].name[3] < 0
      BY <2>4, <2>8, <2>13, <2>16, <2>17
    <3>4. es[i].data = Blocks(manifest[k].node, 0)
      BY <2>1, <2>4, <2>10, <2>11, <2>16, <2>17
    <3> QED
      BY <2>17, <3>2, <3>3, <3>4 DEF Makes
  <2>19. PICK n, s : n \in Nat /\ n = t.at /\ s = t.frames
    BY <1>4
  <2>20. EndedFiles(s, n + 1) \subseteq EndedFiles(s, n) \cup {k}
    <3> SUFFICES ASSUME NEW l \in EndedFiles(s, n + 1), l \notin EndedFiles(s, n) PROVE l = k
      OBVIOUS
    <3>1. PICK m \in 1..(n + 1) : Delivers(s[m], l)
      BY DEF EndedFiles
    <3>2. m = n + 1
      <4>1. m \notin 1..n
        BY <3>1 DEF EndedFiles
      <4>2. n \in Nat
        BY <2>19
      <4> QED
        BY <4>1, <4>2
    <3>3. IsFile(l) /\ Delivers(x, l)
      BY <1>4, <2>19, <3>1, <3>2 DEF EndedFiles
    <3>4. body.file = FileId(l)
      BY <1>2, <3>3 DEF Delivers, IsFile
    <3> QED
      BY <2>1, <2>7, <2>9, <3>3, <3>4, FileIdInjective
  <2>21. Has(es, r, EndedFiles(s, n + 1))
    <3>1. Has(docs, r, EndedFiles(s, n))
      BY <1>3, <1>4, <2>19 DEF Arrives, Gets
    <3>2. PICK K, L : K = EndedFiles(s, n) /\ L = EndedFiles(s, n + 1)
      OBVIOUS
    <3>3. Has(docs, r, K) /\ L \subseteq K \cup {k}
      BY <2>20, <3>1, <3>2
    <3>4. Has(es, r, L)
      BY <1>4, <2>6, <2>17, <2>18, <3>3, HasMore
    <3> QED
      BY <3>2, <3>4
  <2>22. Arrives(es, r, t)
    BY <1>4, <2>17, ArrivesExtends
  <2>23. PICK m, u : m = t.files + 1 /\ u = [t EXCEPT !.open = NoFile, !.files = m]
    OBVIOUS
  <2>24. PICK v : v = Onward(u)
    OBVIOUS
  <2>25. Goes(r, v)
    BY <2>1, <2>23, <2>24
  <2>26. /\ DOMAIN u = TaskFields /\ u.open = NoFile /\ u.frames = t.frames /\ u.at = t.at
         /\ u.known = t.known /\ u.result = t.result
    BY <1>4, <2>23 DEF TaskFields
  <2>27. /\ v.pc = "next" /\ v.open = NoFile /\ v.frames = t.frames /\ v.at = t.at + 1
         /\ v.known = t.known /\ v.result = t.result
    BY <2>24, <2>26 DEF Onward, TaskFields
  <2>28. Fills(es, v.open)
    BY <2>27 DEF Fills
  <2>29. x.type # "DIRECTORY" /\ Has(es, r, EndedFiles(t.frames, t.at + 1))
    BY <1>3, <2>19, <2>21
  <2>30. Arrives(es, r, v)
    BY <1>3, <1>4, <2>22, <2>27, <2>28, <2>29, OnwardGets
  <2> QED
    BY <1>1, <2>14, <2>17, <2>25, <2>30, ReaderArrives
<1> QED
  BY <1>5, <1>6

\* Once the transfer has ended all has been taken.
LEMMA TakeSummaryArrives ==
  ASSUME ArriveInv, FollowInv, ReceiverInv, UNCHANGED sender, NEW r \in Readers,
         At(r, "next"), TakeSummary(r)
  PROVE  ArriveInv'
<1>1. tree' = tree /\ manifest' = manifest /\ docs' = docs
  BY DEF sender, TakeSummary
<1>2. PICK t, x : t = task[r] /\ x = Rec(r)
  OBVIOUS
<1>3. Active(t) /\ x.type = "TRANSFER_END"
  BY <1>2 DEF Active, At, TakeSummary
<1>4. /\ Arrives(docs, r, t) /\ t.at \in Nat /\ t.at + 1 \in 1..Len(t.frames)
      /\ x = t.frames[t.at + 1] /\ Told(t.frames)
  BY <1>2, <1>3, ActiveFacts
<1>5. PICK result : Ends(r, result)
  BY <1>2 DEF TakeSummary
<1>6. PICK n, s : n \in Nat /\ n = t.at /\ s = t.frames
  BY <1>4
<1>7. \A k \in 1..Len(manifest) : \E i \in 1..n : Delivers(s[i], k)
  <2>1. n + 1 \in 1..Len(s) /\ s[n + 1].type = "TRANSFER_END" /\ Covers(s) /\ (n + 1) - 1 = n
    BY <1>3, <1>4, <1>6 DEF Told
  <2>2. \A k \in 1..Len(manifest) : \E i \in 1..((n + 1) - 1) : Delivers(s[i], k)
    BY <2>1 DEF Covers
  <2> QED
    BY <2>1, <2>2
<1>8. EndedFiles(s, n) = AllFiles
  BY <1>7 DEF EndedFiles, AllFiles
<1>9. Has(docs, r, AllFiles)
  BY <1>3, <1>4, <1>6, <1>8 DEF Arrives, Gets
<1>10. ASSUME NEW k \in 1..Len(manifest), manifest[k].kind = "dir"
       PROVE  manifest[k].path \in DOMAIN t.known
  <2>1. PICK i \in 1..n : Delivers(s[i], k)
    BY <1>7
  <2>2. s[i].type = "DIRECTORY" /\ s[i].body.path = manifest[k].path
    BY <1>10, <2>1 DEF Delivers
  <2> QED
    BY <1>3, <1>4, <1>6, <2>2 DEF Arrives, Gets
<1>11. PICK known, u : /\ known = task[r].known
                       /\ u = [Idle EXCEPT !.pc = "done", !.result = result, !.known = known]
  OBVIOUS
<1>12. u.pc = "done" /\ u.known = t.known /\ u.open = NoFile
  BY <1>2, <1>11 DEF Idle
<1>13. Finds(docs, u.known)
  BY <1>4, <1>12 DEF Arrives
<1>14. Arrived(docs, r, u)
  BY <1>9, <1>10, <1>12 DEF Arrived
<1>15. Arrives(docs, r, u)
  BY <1>12, <1>13, <1>14 DEF Arrives, Fills, Gets, Active
<1>16. Goes(r, u)
  BY <1>5, <1>11 DEF Ends
<1> QED
  BY <1>1, <1>15, <1>16, GoesArrives

LEMMA TakeArrives ==
  ASSUME ArriveInv, FollowInv, ReceiverInv, SenderInv, UNCHANGED sender, NEW r \in Readers,
         Take(r)
  PROVE  ArriveInv'
<1>1. At(r, "next") /\ tree' = tree /\ manifest' = manifest
  BY DEF Take, sender
<1>2. CASE docs' = docs /\ \E result : result # "VALID" /\ Ends(r, result)
  BY <1>1, <1>2, EndsArrives
<1>3. CASE TakeSession(r) \/ TakePath(r) \/ TakeData(r) \/ TakeEnd(r) \/ TakeSummary(r)
  BY <1>1, <1>3, TakeSessionArrives, TakePathArrives, TakeDataArrives, TakeEndArrives,
     TakeSummaryArrives
<1>4. Ends(r, "short") \/ Ends(r, "deleted") \/ Ends(r, "gap")
        => \E result : result # "VALID" /\ Ends(r, result)
  OBVIOUS
<1> QED
  BY <1>2, <1>3, <1>4 DEF Take

-----------------------------------------------------------------------------
(* The folders of a path.                                                  *)

\* Those before the next that is not known are known, and it is to be in the
\* last of them.
LEMMA FolderFacts ==
  ASSUME ArriveInv, FollowInv, ReceiverInv, SenderInv, NEW r \in Readers, Active(task[r]),
         task[r].pc # "next", NEW t, t = task[r], NEW q, q = Folder(r)
  PROVE  /\ IsSeq(q) /\ q = FolderOf(t) /\ Unknown(r) = UnknownOf(t)
         /\ Unknown(r) = {} => q \in DOMAIN t.known
         /\ Unknown(r) # {} =>
              /\ NextPart(r) \in 1..Len(q) /\ Above(r) \in 0..Len(docs)
              /\ Append(PathsOf(docs)[Above(r)], q[NextPart(r)]) = SubSeq(q, 1, NextPart(r))
<1>1. PICK x : x = Rec(r)
  OBVIOUS
<1>2. /\ IsTask(t) /\ x = t.frames[t.at + 1] /\ HasEntry(x) /\ Arrives(docs, r, t)
  BY <1>1, ActiveFacts
<1>3. x.type \in {"DIRECTORY", "FILE_BEGIN"}
  BY <1>2 DEF IsTask, Active
<1>4. q = FolderOf(t) /\ Unknown(r) = UnknownOf(t)
  BY <1>1, <1>2 DEF Folder, FolderOf, Unknown, UnknownOf
<1>5. IsSeq(q)
  BY <1>1, <1>2, <1>3, RecordPath DEF Folder
<1>6. PICK n \in Nat : n = Len(q) /\ DOMAIN q = 1..n
  BY <1>5, SeqFacts
<1>7. Finds(docs, t.known)
  BY <1>2 DEF Arrives
<1>8. Unknown(r) = {k \in 1..n : SubSeq(q, 1, k) \notin DOMAIN t.known}
  BY <1>6 DEF Unknown
<1>9. ASSUME NEW k \in 0..n, k \notin Unknown(r) PROVE SubSeq(q, 1, k) \in DOMAIN t.known
  <2>1. CASE k = 0
    BY <1>5, <1>7, <2>1, WholePath DEF Finds
  <2>2. CASE k # 0
    BY <1>8, <1>9, <2>2
  <2> QED
    BY <2>1, <2>2
<1>10. ASSUME Unknown(r) = {} PROVE q \in DOMAIN t.known
  <2>1. SubSeq(q, 1, n) \in DOMAIN t.known
    BY <1>9, <1>10
  <2> QED
    BY <1>5, <1>6, <2>1, WholePath
<1>11. ASSUME Unknown(r) # {}
       PROVE  /\ NextPart(r) \in 1..n /\ Above(r) \in 0..Len(docs)
              /\ Append(PathsOf(docs)[Above(r)], q[NextPart(r)]) = SubSeq(q, 1, NextPart(r))
  <2>1. PICK T : T = Unknown(r) /\ T \subseteq 1..n
    BY <1>8
  <2>2. \E k \in T : \A j \in T : k <= j
    <3>1. T \subseteq Nat /\ T # {}
      BY <1>11, <2>1
    <3> QED
      BY <3>1, LeastExists
  <2>3. NextPart(r) = CHOOSE k \in T : \A j \in T : k <= j
    BY <2>1 DEF NextPart
  <2>4. PICK k \in T : k = NextPart(r) /\ \A j \in T : k <= j
    BY <2>2, <2>3
  <2>5. k \in 1..n /\ k - 1 \in 0..n
    BY <2>1, <2>4
  <2>6. k - 1 \notin Unknown(r)
    <3>1. ~(k <= k - 1)
      BY <2>5
    <3> QED
      BY <2>1, <2>4, <3>1
  <2>7. PICK s : s = SubSeq(q, 1, k - 1) /\ s \in DOMAIN t.known
    BY <1>9, <2>5, <2>6
  <2>8. Above(r) = t.known[s]
    BY <2>4, <2>7 DEF Above
  <2>9. Above(r) \in 0..Len(docs) /\ PathsOf(docs)[Above(r)] = s
    BY <1>7, <2>7, <2>8 DEF Finds
  <2>10. Append(s, q[k]) = SubSeq(q, 1, k)
    BY <1>5, <1>6, <2>5, <2>7, PathGrows
  <2> QED
    BY <2>4, <2>5, <2>9, <2>10
<1> QED
  BY <1>4, <1>5, <1>6, <1>10, <1>11

\* One more document.
LEMMA GrowsExtends ==
  ASSUME NEW ds, RootedIn(ds), NEW x, x.parent \in 0..Len(ds), NEW d, d = Len(ds) + 1,
         NEW es, IsSeq(es), Len(es) = d, es[d] = x, \A j \in 1..Len(ds) : es[j] = ds[j]
  PROVE  /\ RootedIn(es) /\ Extends(ds, es) /\ d \in 1..Len(es) /\ d \in 0..Len(es)
         /\ PathsOf(es)[d] = Append(PathsOf(ds)[x.parent], x.name[1])
<1>1. PICK n \in Nat : n = Len(ds) /\ IsSeq(ds)
  BY SeqFacts DEF RootedIn
<1>2. IsSeq(es) /\ Len(es) = n + 1 /\ \A j \in 1..(n + 1) : es[j] = IF j = n + 1 THEN x ELSE ds[j]
  BY <1>1
<1>3. es[d] = x /\ d \in 1..Len(es) /\ d \in 0..Len(es)
  BY <1>1, <1>2
<1>4. RootedIn(es)
  <2>1. ASSUME NEW j \in 1..(n + 1) PROVE es[j].parent \in 0..(j - 1)
    <3>1. CASE j = n + 1
      BY <1>1, <1>2, <3>1
    <3>2. CASE j # n + 1
      <4>1. j \in 1..n /\ es[j] = ds[j]
        BY <1>2, <3>2
      <4> QED
        BY <1>1, <4>1 DEF RootedIn
    <3> QED
      BY <3>1, <3>2
  <2> QED
    BY <1>2, <2>1 DEF RootedIn
<1>5. Extends(ds, es)
  <2>1. \A j \in 1..n : es[j] = ds[j]
    BY <1>2
  <2> QED
    BY <1>1, <1>2, <2>1 DEF Extends
<1>6. PathsOf(es)[d] = Append(PathsOf(es)[x.parent], x.name[1])
  <2>1. PICK P : P = PathsOf(es)
    OBVIOUS
  <2>2. \A j \in 1..Len(es) : P[j] = Append(P[es[j].parent], es[j].name[1])
    BY <1>4, <2>1, PathsFacts
  <2> QED
    BY <1>3, <2>1, <2>2
<1>7. PathsOf(es)[x.parent] = PathsOf(ds)[x.parent]
  BY <1>4, <1>5, PathsStay
<1> QED
  BY <1>3, <1>4, <1>5, <1>6, <1>7

\* The next folder is known to be d.
LEMMA KnowsArrives ==
  ASSUME ArriveInv, FollowInv, ReceiverInv, NEW r \in Readers, Active(task[r]),
         NEW es, RootedIn(es), Extends(docs, es), NEW d \in 0..Len(es),
         PathsOf(es)[d] = SubSeq(Folder(r), 1, NextPart(r))
  PROVE  Arrives(es, r, Knows(r, d))
<1>1. PICK t, q : t = task[r] /\ q = SubSeq(Folder(r), 1, NextPart(r))
  OBVIOUS
<1>2. PICK known : known = Known(t.known, q, d)
  OBVIOUS
<1>3. PICK u : u = [t EXCEPT !.pc = "dir", !.known = known]
  OBVIOUS
<1>4. Knows(r, d) = u
  BY <1>1, <1>2, <1>3 DEF Knows
<1>5. DOMAIN t = TaskFields /\ Arrives(docs, r, t) /\ RootedIn(docs)
  BY <1>1, ActiveFacts
<1>6. /\ u.pc = "dir" /\ u.frames = t.frames /\ u.at = t.at /\ u.open = t.open
      /\ u.result = t.result /\ u.known = known
  BY <1>3, <1>5 DEF TaskFields
<1>7. Arrives(es, r, t)
  BY <1>5, ArrivesExtends
<1>8. Finds(es, t.known)
  BY <1>7 DEF Arrives
<1>9. Finds(es, known) /\ DOMAIN t.known \subseteq DOMAIN known
  BY <1>1, <1>2, <1>8, KnowsOne
<1>10. Arrives(es, r, u)
  BY <1>1, <1>6, <1>7, <1>9, StillArrives
<1> QED
  BY <1>4, <1>10

LEMMA FindArrives ==
  ASSUME ArriveInv, FollowInv, ReceiverInv, SenderInv, UNCHANGED sender, NEW r \in Readers,
         Find(r)
  PROVE  ArriveInv'
<1>1. tree' = tree /\ manifest' = manifest /\ docs' = docs
  BY DEF sender, Find
<1>2. PICK t, x, q : t = task[r] /\ x = Rec(r) /\ q = Folder(r)
  OBVIOUS
<1>3. Active(t) /\ t.pc = "dir"
  BY <1>2 DEF Active, At, Find
<1>4. /\ DOMAIN t = TaskFields /\ Arrives(docs, r, t) /\ RootedIn(docs) /\ t.at \in Nat
      /\ x = t.frames[t.at + 1] /\ IsTask(t)
  BY <1>2, <1>3, ActiveFacts
<1>5. /\ q = FolderOf(t) /\ Unknown(r) = UnknownOf(t)
      /\ Unknown(r) = {} => q \in DOMAIN t.known
      /\ Unknown(r) # {} =>
           /\ NextPart(r) \in 1..Len(q) /\ Above(r) \in 0..Len(docs)
           /\ Append(PathsOf(docs)[Above(r)], q[NextPart(r)]) = SubSeq(q, 1, NextPart(r))
  BY <1>2, <1>3, FolderFacts
<1>6. PICK part, above : part = q[NextPart(r)] /\ above = Above(r)
  OBVIOUS
<1>7. PICK found : found = {d \in DOMAIN docs : docs[d].parent = above
                                               /\ docs[d].name = Final(part)}
  OBVIOUS
<1>8. PICK in : in = t.known[q]
  OBVIOUS
<1>9. IF Unknown(r) # {}
      THEN IF found = {} THEN Goes(r, [t EXCEPT !.pc = "mkdir"])
           ELSE Goes(r, Knows(r, CHOOSE d \in found : TRUE))
      ELSE IF x.type = "DIRECTORY"
      THEN Goes(r, Onward([t EXCEPT !.dirs = @ + 1]))
      ELSE Goes(r, [t EXCEPT !.pc = "create",
                             !.name = Unused(in, Final(Last(x.body.path)))])
  BY <1>2, <1>6, <1>7, <1>8 DEF Find
<1>10. Finds(docs, t.known) /\ Fills(docs, t.open)
  BY <1>4 DEF Arrives
<1>11. CASE Unknown(r) # {} /\ Goes(r, [t EXCEPT !.pc = "mkdir"])
  <2>1. PICK u : u = [t EXCEPT !.pc = "mkdir"]
    OBVIOUS
  <2>2. /\ u.pc = "mkdir" /\ u.frames = t.frames /\ u.at = t.at /\ u.open = t.open
        /\ u.known = t.known /\ u.result = t.result
    BY <1>4, <2>1 DEF TaskFields
  <2>3. UnknownOf(u) # {}
    BY <1>5, <1>11, <2>2 DEF UnknownOf, FolderOf
  <2>4. Arrives(docs, r, u)
    BY <1>3, <1>4, <1>10, <2>2, <2>3, StillArrives
  <2> QED
    BY <1>1, <1>11, <2>1, <2>4, GoesArrives
<1>12. CASE Unknown(r) # {} /\ found # {} /\ Goes(r, Knows(r, CHOOSE d \in found : TRUE))
  <2>1. PICK d : d = (CHOOSE e \in found : TRUE)
    OBVIOUS
  <2>2. d \in found
    BY <1>12, <2>1
  <2>3. d \in 1..Len(docs) /\ docs[d].parent = above /\ docs[d].name = Final(part)
    BY <1>4, <1>7, <2>2, SeqFacts DEF RootedIn
  <2>4. docs[d].name[1] = part
    BY <2>3 DEF Final
  <2>5. PathsOf(docs)[d] = Append(PathsOf(docs)[above], part)
    BY <1>4, <2>3, <2>4, PathsFacts
  <2>6. PathsOf(docs)[d] = SubSeq(q, 1, NextPart(r))
    BY <1>5, <1>6, <1>12, <2>5
  <2>7. Extends(docs, docs)
    BY <1>4, ExtendsSelf DEF RootedIn
  <2>8. d \in 0..Len(docs)
    BY <2>3
  <2>9. Arrives(docs, r, Knows(r, d))
    BY <1>2, <1>3, <1>4, <2>6, <2>7, <2>8, KnowsArrives
  <2> QED
    BY <1>1, <1>12, <2>1, <2>9, GoesArrives
<1>13. CASE Unknown(r) = {} /\ x.type = "DIRECTORY" /\ Goes(r, Onward([t EXCEPT !.dirs = @ + 1]))
  <2>1. PICK n, u : n = t.dirs + 1 /\ u = [t EXCEPT !.dirs = n]
    OBVIOUS
  <2>2. PICK v : v = Onward(u)
    OBVIOUS
  <2>3. /\ DOMAIN u = TaskFields /\ u.frames = t.frames /\ u.at = t.at /\ u.open = t.open
        /\ u.known = t.known /\ u.result = t.result
    BY <1>4, <2>1 DEF TaskFields
  <2>4. /\ v.pc = "next" /\ v.frames = t.frames /\ v.at = t.at + 1 /\ v.open = t.open
        /\ v.known = t.known /\ v.result = t.result
    BY <2>2, <2>3 DEF Onward, TaskFields
  <2>5. x.body.path \in DOMAIN t.known
    BY <1>2, <1>5, <1>13 DEF Folder
  <2>6. Fills(docs, v.open)
    BY <1>10, <2>4
  <2>7. Arrives(docs, r, v)
    BY <1>3, <1>4, <1>13, <2>4, <2>5, <2>6, OnwardArrives
  <2>8. Goes(r, v)
    BY <1>13, <2>1, <2>2
  <2> QED
    BY <1>1, <2>7, <2>8, GoesArrives
<1>14. CASE Unknown(r) = {} /\ Goes(r, [t EXCEPT !.pc = "create",
                                        !.name = Unused(in, Final(Last(x.body.path)))])
  <2>1. PICK name : name = Unused(in, Final(Last(x.body.path)))
    OBVIOUS
  <2>2. PICK u : u = [t EXCEPT !.pc = "create", !.name = name]
    OBVIOUS
  <2>3. /\ u.pc = "create" /\ u.frames = t.frames /\ u.at = t.at /\ u.open = t.open
        /\ u.known = t.known /\ u.result = t.result
    BY <1>4, <2>2 DEF TaskFields
  <2>4. FolderOf(u) \in DOMAIN u.known
    BY <1>5, <1>14, <2>3 DEF FolderOf
  <2>5. Arrives(docs, r, u)
    BY <1>3, <1>4, <1>10, <2>3, <2>4, StillArrives
  <2>6. Goes(r, u)
    BY <1>14, <2>1, <2>2
  <2> QED
    BY <1>1, <2>5, <2>6, GoesArrives
<1> QED
  BY <1>9, <1>11, <1>12, <1>13, <1>14

LEMMA MakeFolderArrives ==
  ASSUME ArriveInv, FollowInv, ReceiverInv, SenderInv, UNCHANGED sender, NEW r \in Readers,
         MakeFolder(r)
  PROVE  ArriveInv'
<1>1. tree' = tree /\ manifest' = manifest
  BY DEF sender
<1>2. CASE Ends(r, "storage") /\ docs' = docs
  BY <1>1, <1>2, EndsArrives
<1>3. CASE ~(Ends(r, "storage") /\ docs' = docs)
  <2>1. PICK t, q : t = task[r] /\ q = Folder(r)
    OBVIOUS
  <2>2. Active(t) /\ t.pc = "mkdir"
    BY <2>1 DEF Active, At, MakeFolder
  <2>3. Arrives(docs, r, t) /\ RootedIn(docs)
    BY <2>1, <2>2, ActiveFacts
  <2>4. Unknown(r) # {}
    <3>1. UnknownOf(t) # {}
      BY <2>2, <2>3 DEF Arrives, Gets
    <3> QED
      BY <2>1, <2>2, <3>1, FolderFacts
  <2>5. /\ Above(r) \in 0..Len(docs)
        /\ Append(PathsOf(docs)[Above(r)], q[NextPart(r)]) = SubSeq(q, 1, NextPart(r))
    BY <2>1, <2>2, <2>4, FolderFacts
  <2>6. PICK part, above : part = q[NextPart(r)] /\ above = Above(r)
    OBVIOUS
  <2>7. PICK f : f = Final(part)
    OBVIOUS
  <2>8. f[1] = part /\ IsName(f)
    <3>1. f = <<part, 0, -1>>
      BY <2>7 DEF Final
    <3> QED
      BY <3>1 DEF IsName
  <2>9. Creates(r, above, f, "dir") /\ Goes(r, Knows(r, Len(docs) + 1))
    BY <1>3, <2>1, <2>6, <2>7 DEF MakeFolder
  <2>10. PICK name : name = Granted(above, f)
    OBVIOUS
  <2>11. IsSeq(docs)
    BY <2>3 DEF RootedIn
  <2>12. name[1] = part
    BY <2>8, <2>10, <2>11, UnusedName DEF Granted
  <2>13. PICK x, es : x = Doc(above, name, "dir", r) /\ es = docs'
    OBVIOUS
  <2>14. es = Append(docs, x)
    BY <2>9, <2>10, <2>13 DEF Creates
  <2>15. x.parent = above /\ x.name = name
    BY <2>13 DEF Doc
  <2>16. PICK d : d = Len(docs) + 1
    OBVIOUS
  <2>17. x.parent \in 0..Len(docs)
    BY <2>5, <2>6, <2>15
  <2>18. /\ RootedIn(es) /\ Extends(docs, es) /\ d \in 0..Len(es)
         /\ PathsOf(es)[d] = Append(PathsOf(docs)[x.parent], x.name[1])
    <3>1. RootedIn(docs)
      BY <2>3
    <3>2. PICK n \in Nat : n = Len(docs)
      BY <2>11, SeqFacts
    <3>3. IsSeq(es) /\ Len(es) = n + 1
          /\ \A j \in 1..(n + 1) : es[j] = IF j = n + 1 THEN x ELSE docs[j]
      BY <2>11, <2>14, <3>2, SeqAppend
    <3>4. es[d] = x /\ Len(es) = d /\ \A j \in 1..Len(docs) : es[j] = docs[j]
      BY <2>16, <3>2, <3>3
    <3> QED
      BY <2>16, <2>17, <3>1, <3>3, <3>4, GrowsExtends
  <2>19. PathsOf(es)[d] = SubSeq(Folder(r), 1, NextPart(r))
    BY <2>1, <2>5, <2>6, <2>12, <2>15, <2>18
  <2>20. Arrives(es, r, Knows(r, d))
    BY <2>1, <2>2, <2>18, <2>19, KnowsArrives
  <2>21. PICK u : u = Knows(r, d)
    OBVIOUS
  <2>22. Goes(r, u)
    BY <2>9, <2>16, <2>21
  <2> QED
    BY <1>1, <2>13, <2>18, <2>20, <2>21, <2>22, ReaderArrives
<1> QED
  BY <1>2, <1>3

LEMMA CreateFileArrives ==
  ASSUME ArriveInv, FollowInv, ReceiverInv, SenderInv, UNCHANGED sender, NEW r \in Readers,
         CreateFile(r)
  PROVE  ArriveInv'
<1>1. tree' = tree /\ manifest' = manifest
  BY DEF sender
<1>2. CASE Ends(r, "storage") /\ docs' = docs
  BY <1>1, <1>2, EndsArrives
<1>3. CASE ~(Ends(r, "storage") /\ docs' = docs)
  <2>1. PICK t, x, q : t = task[r] /\ x = Rec(r) /\ q = Folder(r)
    OBVIOUS
  <2>2. Active(t) /\ t.pc = "create"
    BY <2>1 DEF Active, At, CreateFile
  <2>3. /\ IsTask(t) /\ DOMAIN t = TaskFields /\ Arrives(docs, r, t) /\ RootedIn(docs)
        /\ t.at \in Nat /\ x = t.frames[t.at + 1] /\ HasEntry(x)
    BY <2>1, <2>2, ActiveFacts
  <2>4. PICK body, path : body = x.body /\ path = x.body.path
    OBVIOUS
  <2>5. PICK name, d : name = t.name /\ d = Len(docs) + 1
    OBVIOUS
  <2>6. x.type = "FILE_BEGIN" /\ IsName(name) /\ name[3] = -1 /\ name[1] = Last(path)
    BY <2>2, <2>3, <2>4, <2>5 DEF IsTask
  <2>7. PICK k : IsFile(k) /\ path = manifest[k].path /\ body.file = FileId(k)
    BY <2>3, <2>4, <2>6 DEF HasEntry
  <2>8. q = FolderOf(t)
    BY <2>1, <2>2, FolderFacts
  <2>9. q = Front(path)
    BY <2>3, <2>4, <2>6, <2>8 DEF FolderOf
  <2>10. Append(q, Last(path)) = path
    BY <2>3, <2>4, <2>6, <2>9, RecordPath
  <2>11. PICK in : in = t.known[q]
    OBVIOUS
  <2>12. in \in 0..Len(docs) /\ PathsOf(docs)[in] = q
    BY <2>2, <2>3, <2>8, <2>11 DEF Arrives, Gets, Finds
  <2>13. PICK o : o = [id |-> body.file, size |-> body.size, written |-> <<>>,
                       final |-> name, doc |-> d]
    OBVIOUS
  <2>14. /\ Creates(r, in, <<name[1], name[2], 0>>, "file")
         /\ Goes(r, Onward([t EXCEPT !.open = o]))
    BY <1>3, <2>1, <2>4, <2>5, <2>11, <2>13 DEF CreateFile
  <2>15. PICK partial : partial = <<name[1], name[2], 0>>
    OBVIOUS
  <2>16. IsName(partial) /\ partial[1] = name[1]
    BY <2>6, <2>15 DEF IsName
  <2>17. PICK g : g = Granted(in, partial)
    OBVIOUS
  <2>18. IsSeq(docs)
    BY <2>3 DEF RootedIn
  <2>19. g[1] = name[1]
    BY <2>16, <2>17, <2>18, UnusedName DEF Granted
  <2>20. PICK y, es : y = Doc(in, g, "file", r) /\ es = docs'
    OBVIOUS
  <2>21. es = Append(docs, y)
    BY <2>14, <2>15, <2>17, <2>20 DEF Creates
  <2>22. y.parent = in /\ y.name = g /\ y.kind = "file"
    BY <2>20 DEF Doc
  <2>23. PICK n \in Nat : n = Len(docs)
    BY <2>18, SeqFacts
  <2>24. /\ IsSeq(es) /\ Len(es) = n + 1
         /\ \A j \in 1..(n + 1) : es[j] = IF j = n + 1 THEN y ELSE docs[j]
    BY <2>18, <2>21, <2>23, SeqAppend
  <2>25. es[d] = y /\ Len(es) = d /\ \A j \in 1..Len(docs) : es[j] = docs[j]
    BY <2>5, <2>23, <2>24
  <2>26. y.parent \in 0..Len(docs) /\ RootedIn(docs)
    BY <2>3, <2>12, <2>22
  <2>27. /\ RootedIn(es) /\ Extends(docs, es) /\ d \in 1..Len(es)
         /\ PathsOf(es)[d] = Append(PathsOf(docs)[y.parent], y.name[1])
    BY <2>5, <2>24, <2>25, <2>26, GrowsExtends
  <2>28. PathsOf(es)[d] = manifest[k].path
    BY <2>6, <2>7, <2>10, <2>12, <2>19, <2>22, <2>27
  <2>29. o.doc = d /\ o.id = body.file /\ o.final = name
    BY <2>13
  <2>30. es[d].kind = "file" /\ es[d].name[1] = name[1]
    BY <2>19, <2>22, <2>25
  <2>31. Fills(es, o)
    BY <2>7, <2>27, <2>28, <2>29, <2>30 DEF Fills
  <2>32. PICK u : u = [t EXCEPT !.open = o]
    OBVIOUS
  <2>33. PICK v : v = Onward(u)
    OBVIOUS
  <2>34. /\ DOMAIN u = TaskFields /\ u.open = o /\ u.frames = t.frames /\ u.at = t.at
         /\ u.known = t.known /\ u.result = t.result
    BY <2>3, <2>32 DEF TaskFields
  <2>35. /\ v.pc = "next" /\ v.open = o /\ v.frames = t.frames /\ v.at = t.at + 1
         /\ v.known = t.known /\ v.result = t.result
    BY <2>33, <2>34 DEF Onward, TaskFields
  <2>36. Arrives(es, r, t)
    BY <2>3, <2>27, ArrivesExtends
  <2>37. x.type # "DIRECTORY" /\ x.type # "FILE_END" /\ Fills(es, v.open)
    BY <2>6, <2>31, <2>35
  <2>38. Arrives(es, r, v)
    BY <2>2, <2>3, <2>35, <2>36, <2>37, OnwardArrives
  <2>39. Goes(r, v)
    BY <2>14, <2>32, <2>33
  <2> QED
    BY <1>1, <2>20, <2>27, <2>38, <2>39, ReaderArrives
<1> QED
  BY <1>2, <1>3

\* All readers end at once; what they made stays.
LEMMA KillArrives ==
  ASSUME ArriveInv, UNCHANGED sender, Kill
  PROVE  ArriveInv'
<1>1. tree' = tree /\ manifest' = manifest /\ docs' = docs
  BY DEF sender, Kill
<1>2. PICK t : t = [Idle EXCEPT !.pc = "done", !.result = "killed"]
  OBVIOUS
<1>3. t.pc = "done" /\ t.result = "killed" /\ t.open = NoFile /\ t.known = Idle.known
  BY <1>2 DEF Idle
<1>4. Finds(docs, t.known)
  BY <1>3, IdleFinds DEF ArriveInv
<1>5. \A r : Arrives(docs, r, t)
  BY <1>3, <1>4 DEF Arrives, Fills, Gets, Active, Arrived
<1>6. \A r \in Readers : task'[r] = t \/ task'[r] = task[r]
  BY <1>2 DEF Kill
<1>7. ASSUME NEW r \in Readers PROVE Arrives(docs, r, task[r])'
  <2>1. PICK u, ds : u = task'[r] /\ ds = docs
    OBVIOUS
  <2>2. Arrives(ds, r, u)
    BY <1>5, <1>6, <2>1 DEF ArriveInv
  <2>3. Arrives(ds, r, u)'
    BY <1>1, <2>2, ArrivesSame
  <2> QED
    BY <1>1, <2>1, <2>3
<1>8. RootedIn(docs)'
  BY <1>1 DEF ArriveInv, RootedIn, IsSeq
<1> QED
  BY <1>7, <1>8 DEF ArriveInv

\* Whatever leaves tasks and documents alone.
LEMMA SameArrives ==
  ASSUME ArriveInv, tree' = tree, manifest' = manifest, docs' = docs, task' = task
  PROVE  ArriveInv'
<1>1. ASSUME NEW r \in Readers PROVE Arrives(docs, r, task[r])'
  <2>1. PICK u, ds : u = task[r] /\ u = task'[r] /\ ds = docs /\ ds = docs'
    OBVIOUS
  <2>2. Arrives(ds, r, u)
    BY <2>1 DEF ArriveInv
  <2>3. Arrives(ds, r, u)'
    BY <2>2, ArrivesSame
  <2> QED
    BY <2>1, <2>3
<1>2. RootedIn(docs)'
  BY DEF ArriveInv, RootedIn, IsSeq
<1> QED
  BY <1>1, <1>2 DEF ArriveInv

LEMMA ReconstructArrives ==
  ASSUME ArriveInv, ToldInv, FollowInv, ReceiverInv, SenderInv, UNCHANGED sender, Reconstruct
  PROVE  ArriveInv'
<1>1. tree' = tree /\ manifest' = manifest
  BY DEF sender
<1>2. ASSUME NEW r \in Readers, Step(r) PROVE ArriveInv'
  <2>1. CASE StorageFails(r)
    <3>1. docs' = docs /\ Ends(r, "storage")
      BY <2>1 DEF StorageFails
    <3> QED
      BY <1>1, <3>1, EndsArrives
  <2> QED
    BY <1>2, <2>1, TakeArrives, FindArrives, MakeFolderArrives, CreateFileArrives DEF Step
<1>3. CASE Reset
  BY <1>1, <1>3, SameArrives DEF Reset
<1> QED
  BY <1>2, <1>3, PressArrives, KillArrives DEF Reconstruct

LEMMA ToldUnchanged ==
  ASSUME ToldInv, UNCHANGED sender
  PROVE  ToldInv'
<1>1. /\ tree' = tree /\ manifest' = manifest /\ selection' = selection /\ lost' = lost
      /\ phase' = phase /\ p' = p /\ sent' = sent /\ window' = window
  BY DEF sender
<1>2. Said' = Said /\ Produced(p') = Produced(p)
  BY <1>1 DEF Said
<1> QED
  BY <1>1, <1>2, StillTold

\* The inductive invariant: what has been said has all the entries, and each
\* reconstruction has what it has been told.
BringInv == ToldInv /\ ArriveInv

LEMMA BringInit ==
  ASSUME Init
  PROVE  BringInv
<1>1. PICK e \in Existing : docs = [k \in DOMAIN e |-> Doc(Root, Final(e[k]), "file", "user")]
  BY DEF Init
<1>2. PICK n \in Nat : n = Len(e) /\ DOMAIN e = 1..n
  BY ExistingAssumption, SeqFacts
<1>3. IsSeq(docs) /\ Len(docs) = n
  <2>1. Documents
    BY RecordsInit DEF RecordsInv, ReceiverInv
  <2>2. IsSeq(docs) /\ DOMAIN docs = 1..n
    BY <1>1, <1>2, <2>1 DEF Documents
  <2> QED
    BY <1>2, <2>2, SeqFacts
<1>4. ASSUME NEW k \in 1..n PROVE docs[k].parent \in 0..(k - 1)
  <2>1. PICK f : f = Final(e[k])
    OBVIOUS
  <2>2. docs[k] = Doc(Root, f, "file", "user")
    BY <1>1, <1>2, <2>1
  <2>3. docs[k].parent = 0
    BY <2>2 DEF Doc, Root
  <2> QED
    BY <1>2, <2>3
<1>5. RootedIn(docs)
  BY <1>3, <1>4 DEF RootedIn
<1>6. PICK t : t = Idle
  OBVIOUS
<1>7. t.pc = "idle" /\ t.result = "" /\ t.open = NoFile /\ t.known = Idle.known
  BY <1>6 DEF Idle
<1>8. Finds(docs, t.known)
  BY <1>5, <1>7, IdleFinds
<1>9. \A r \in Readers : task[r] = t
  BY <1>6 DEF Init
<1>10. ArriveInv
  BY <1>5, <1>7, <1>8, <1>9 DEF ArriveInv, Arrives, Fills, Gets, Active, Arrived
<1>11. /\ selection \in Seq(DOMAIN tree) /\ manifest = ManifestOf(tree, selection)
       /\ lost = 0 /\ sent = <<>> /\ window = <<>> /\ p.state = 0 /\ p.next = 1
  BY TreesAssumption DEF Init
<1>12. PICK s : s = <<>>
  OBVIOUS
<1>13. IsSeq(s) /\ Len(s) = 0
  BY <1>12, EmptySeq, SeqIsSeq
<1>14. Said = s
  <2>1. sent \o window = sent
    BY <1>11, <1>12, <1>13, ConcatEmpty
  <2> QED
    BY <1>11, <1>12, <2>1 DEF Said
<1>15. Told(s)
  BY <1>13 DEF Told, Covers
<1>16. Produced(p) = 0
  BY <1>11 DEF Produced
<1>17. Delivered(s, 0)
  <2>1. \A k \in 1..0 : FALSE
    OBVIOUS
  <2> QED
    BY <2>1 DEF Delivered
<1>18. ToldInv
  BY <1>11, <1>14, <1>15, <1>16, <1>17 DEF ToldInv
<1> QED
  BY <1>10, <1>18 DEF BringInv

LEMMA BringNext ==
  ASSUME MaxLost = 0, RecordsInv, AgreeInv, BringInv, [Next]_vars
  PROVE  BringInv'
<1>1. SenderInv /\ ReceiverInv /\ StreamInv /\ FollowInv /\ ToldInv /\ ArriveInv
  BY DEF RecordsInv, AgreeInv, BringInv
<1>2. CASE Produce /\ UNCHANGED receiver
  <2>1. ToldInv'
    BY <1>1, <1>2, ProduceTold
  <2>2. tree' = tree /\ manifest' = manifest
    BY <1>2 DEF Produce, SessionRecord, ManifestRecord, DataRecord, EndRecord, TransferEnd,
       Finished, Transmit, Change, Produces, Fails
  <2>3. docs' = docs /\ task' = task
    BY <1>2 DEF receiver
  <2>4. ArriveInv'
    BY <1>1, <2>2, <2>3, SameArrives
  <2> QED
    BY <2>1, <2>4 DEF BringInv
<1>3. CASE Reconstruct /\ UNCHANGED sender
  <2>1. ToldInv'
    BY <1>1, <1>3, ToldUnchanged
  <2>2. ArriveInv'
    BY <1>1, <1>3, ReconstructArrives
  <2> QED
    BY <2>1, <2>2 DEF BringInv
<1>4. CASE UNCHANGED vars
  <2>1. UNCHANGED sender /\ docs' = docs /\ task' = task
    BY <1>4 DEF vars, receiver
  <2>2. tree' = tree /\ manifest' = manifest
    BY <2>1 DEF sender
  <2>3. ToldInv'
    BY <1>1, <2>1, ToldUnchanged
  <2>4. ArriveInv'
    BY <1>1, <2>1, <2>2, SameArrives
  <2> QED
    BY <2>3, <2>4 DEF BringInv
<1> QED
  BY <1>2, <1>3, <1>4 DEF Next

\* As many at least as can be told apart.
LEMMA NoFewer ==
  ASSUME NEW S, NEW T, IsFiniteSet(T), NEW h \in [S -> T],
         \A x, y \in S : h[x] = h[y] => x = y
  PROVE  Cardinality(T) >= Cardinality(S)
<1>1. h \in Injection(S, T)
  BY DEF Injection, IsInjective
<1>2. IsFiniteSet(S) /\ Cardinality(S) <= Cardinality(T)
  BY <1>1, FS_Injection
<1>3. Cardinality(S) \in Nat /\ Cardinality(T) \in Nat
  BY <1>2, FS_CardinalityType
<1> QED
  BY <1>2, <1>3

\* All that is wanted has an entry of its own.
LEMMA WantedListed ==
  ASSUME tree \in Trees, selection \in Seq(DOMAIN tree), manifest = ManifestOf(tree, selection),
         manifest \in Seq(Entries(tree))
  PROVE  \E g : /\ \A c \in Wanted :
                     /\ g[c] \in 1..Len(manifest)
                     /\ manifest[g[c]].path = Names(c) /\ manifest[g[c]].node = Last(c[2])
                     /\ manifest[g[c]].kind = Kind(c)
                /\ \A c, e \in Wanted : g[c] = g[e] => c = e
<1>1. PICK f : Listed(f, tree, selection, manifest)
  BY ManifestWays
<1>2. PICK g : g = [c \in Wanted |-> f[c[1]][c[2]]]
  OBVIOUS
<1>3. ASSUME NEW c \in Wanted
      PROVE  \E i \in 1..Len(selection) :
               \E q \in Ways(tree, selection[i], Cardinality(DOMAIN tree)) :
                 c[1] = i /\ c[2] = q /\ c = <<i, q>> /\ g[c] = f[i][q]
  <2>1. PICK i \in 1..Len(selection) :
          \E q \in Ways(tree, selection[i], Cardinality(DOMAIN tree)) : c = <<i, q>>
    BY WantedWays
  <2>2. PICK q \in Ways(tree, selection[i], Cardinality(DOMAIN tree)) : c = <<i, q>>
    BY <2>1
  <2>3. c[1] = i /\ c[2] = q
    BY <2>2
  <2>4. g[c] = f[c[1]][c[2]]
    BY <1>2
  <2> QED
    BY <2>2, <2>3, <2>4
<1>4. ASSUME NEW c \in Wanted
      PROVE  /\ g[c] \in 1..Len(manifest)
             /\ manifest[g[c]].path = Names(c) /\ manifest[g[c]].node = Last(c[2])
             /\ manifest[g[c]].kind = Kind(c)
  <2>1. PICK i \in 1..Len(selection) :
          \E q \in Ways(tree, selection[i], Cardinality(DOMAIN tree)) :
            c[1] = i /\ c[2] = q /\ c = <<i, q>> /\ g[c] = f[i][q]
    BY <1>3
  <2>2. PICK q \in Ways(tree, selection[i], Cardinality(DOMAIN tree)) :
          c[2] = q /\ g[c] = f[i][q]
    BY <2>1
  <2>3. PICK k : k = g[c]
    OBVIOUS
  <2>4. k \in 1..Len(manifest) /\ manifest[k].path = NamesOf(tree, q) /\ manifest[k].node = Last(q)
    BY <1>1, <2>2, <2>3 DEF Listed
  <2>5. NamesOf(tree, q) = Names(c)
    BY <2>2 DEF NamesOf, Names
  <2>6. PICK e \in Entries(tree) : e = manifest[k]
    BY <2>4, ElementOfSeq
  <2>7. e.kind = tree[e.node].kind
    BY DEF Entries, IsEntry
  <2> QED
    BY <2>2, <2>3, <2>4, <2>5, <2>6, <2>7 DEF Kind
<1>5. ASSUME NEW c \in Wanted, NEW e \in Wanted, g[c] = g[e] PROVE c = e
  <2>1. PICK i \in 1..Len(selection) :
          \E q \in Ways(tree, selection[i], Cardinality(DOMAIN tree)) :
            c[1] = i /\ c[2] = q /\ c = <<i, q>> /\ g[c] = f[i][q]
    BY <1>3
  <2>2. PICK q \in Ways(tree, selection[i], Cardinality(DOMAIN tree)) :
          c = <<i, q>> /\ g[c] = f[i][q]
    BY <2>1
  <2>3. PICK k \in 1..Len(selection) :
          \E u \in Ways(tree, selection[k], Cardinality(DOMAIN tree)) :
            e[1] = k /\ e[2] = u /\ e = <<k, u>> /\ g[e] = f[k][u]
    BY <1>3
  <2>4. PICK u \in Ways(tree, selection[k], Cardinality(DOMAIN tree)) :
          e = <<k, u>> /\ g[e] = f[k][u]
    BY <2>3
  <2>5. f[i][q] = f[k][u]
    BY <1>5, <2>2, <2>4
  <2>6. i = k /\ q = u
    BY <1>1, <2>5 DEF Listed
  <2> QED
    BY <2>2, <2>4, <2>6
<1> QED
  BY <1>4, <1>5

LEMMA BringGives ==
  ASSUME RecordsInv, BringInv
  PROVE  ValidMeansAll
<1> DEFINE same(c) == {e \in Wanted : Kind(e) = "file" /\ Names(e) = Names(c)
                                      /\ Content(e) = Content(c)}
           got(r, c) == {d \in Made(r) : PathsOf(docs)[d] = Names(c) /\ docs[d].data = Content(c)}
<1>1. /\ tree \in Trees /\ selection \in Seq(DOMAIN tree)
      /\ manifest = ManifestOf(tree, selection) /\ manifest \in Seq(Entries(tree))
  BY DEF RecordsInv, SenderInv, BringInv, ToldInv
<1>2. Paths = PathsOf(docs)
  BY DEF Paths, PathsOf
<1>3. PICK g : /\ \A c \in Wanted :
                    /\ g[c] \in 1..Len(manifest)
                    /\ manifest[g[c]].path = Names(c) /\ manifest[g[c]].node = Last(c[2])
                    /\ manifest[g[c]].kind = Kind(c)
               /\ \A c, e \in Wanted : g[c] = g[e] => c = e
  BY <1>1, WantedListed
<1>4. PICK n \in Nat : n = Len(docs) /\ DOMAIN docs = 1..n
  BY SeqFacts DEF BringInv, ArriveInv, RootedIn
<1>5. ASSUME NEW r \in Readers, task[r].result = "VALID", NEW c \in Wanted, Kind(c) = "file"
      PROVE  Cardinality(got(r, c)) >= Cardinality(same(c))
  <2>1. PICK t : t = task[r] /\ Arrived(docs, r, t)
    BY DEF BringInv, ArriveInv, Arrives
  <2>2. Has(docs, r, AllFiles)
    BY <1>5, <2>1 DEF Arrived
  <2>3. PICK m : /\ \A k \in AllFiles : Makes(docs, r, m[k], k)
                 /\ \A j, k \in AllFiles : m[j] = m[k] => j = k
    BY <2>2 DEF Has
  <2>4. PICK h : h = [e \in same(c) |-> m[g[e]]]
    OBVIOUS
  <2>5. ASSUME NEW e \in same(c) PROVE g[e] \in AllFiles /\ m[g[e]] \in got(r, c)
    <3>1. e \in Wanted /\ Kind(e) = "file" /\ Names(e) = Names(c) /\ Content(e) = Content(c)
      OBVIOUS
    <3>2. PICK k : k = g[e]
      OBVIOUS
    <3>3. /\ k \in 1..Len(manifest) /\ manifest[k].path = Names(c)
          /\ manifest[k].node = Last(e[2]) /\ manifest[k].kind = "file"
      BY <1>3, <3>1, <3>2
    <3>4. k \in AllFiles
      BY <3>3 DEF AllFiles, IsFile
    <3>5. PICK d : d = m[k]
      OBVIOUS
    <3>6. Makes(docs, r, d, k)
      BY <2>3, <3>4, <3>5
    <3>7. d \in Made(r)
      BY <1>4, <3>6 DEF Makes, Made
    <3>8. docs[d].data = Content(e) /\ PathsOf(docs)[d] = Names(c)
      BY <3>3, <3>6 DEF Makes, Content
    <3> QED
      BY <3>1, <3>2, <3>4, <3>5, <3>7, <3>8
  <2>6. PICK S, T : S = same(c) /\ T = got(r, c)
    OBVIOUS
  <2>7. \A e \in S : e \in Wanted
    BY <2>6
  <2>8. IsFiniteSet(T)
    <3>1. T \in SUBSET (1..n)
      BY <1>4, <2>6 DEF Made
    <3>2. IsFiniteSet(1..n)
      BY FS_Interval
    <3> QED
      BY <3>1, <3>2, FS_Subset
  <2>9. \A e \in S : g[e] \in AllFiles /\ m[g[e]] \in T
    BY <2>5, <2>6
  <2>10. h = [e \in S |-> m[g[e]]]
    BY <2>4, <2>6
  <2>11. h \in [S -> T]
    BY <2>9, <2>10
  <2>12. ASSUME NEW x \in S, NEW y \in S, h[x] = h[y] PROVE x = y
    <3>1. m[g[x]] = m[g[y]]
      BY <2>10, <2>12
    <3>2. g[x] = g[y]
      BY <2>3, <2>9, <3>1
    <3> QED
      BY <1>3, <2>7, <3>2
  <2>13. Cardinality(T) >= Cardinality(S)
    BY <2>8, <2>11, <2>12, NoFewer
  <2> QED
    BY <2>6, <2>13
<1>6. ASSUME NEW r \in Readers, task[r].result = "VALID", NEW c \in Wanted, Kind(c) # "file"
      PROVE  \E d \in Reached(r) : PathsOf(docs)[d] = Names(c)
  <2>1. PICK t : t = task[r] /\ Arrived(docs, r, t) /\ Finds(docs, t.known)
    BY DEF BringInv, ArriveInv, Arrives
  <2>2. PICK k : k = g[c]
    OBVIOUS
  <2>3. k \in 1..Len(manifest) /\ manifest[k].path = Names(c) /\ manifest[k].kind # "file"
    BY <1>3, <1>6, <2>2
  <2>4. manifest[k].kind = "dir"
    <3>1. manifest[k] \in Entries(tree)
      BY <1>1, <2>3, ElementOfSeq
    <3> QED
      BY <2>3, <3>1 DEF Entries
  <2>5. PICK q : q = Names(c) /\ q \in DOMAIN t.known
    BY <1>6, <2>1, <2>3, <2>4 DEF Arrived
  <2>6. PICK d : d = t.known[q]
    OBVIOUS
  <2>7. d \in Reached(r)
    BY <2>1, <2>5, <2>6 DEF Reached
  <2>8. PathsOf(docs)[d] = q
    BY <2>1, <2>5, <2>6 DEF Finds
  <2> QED
    BY <2>5, <2>7, <2>8
<1> QED
  BY <1>2, <1>5, <1>6 DEF ValidMeansAll

\* What is said of the manifest, and what reconstructions have made of it.
THEOREM AllIsBrought == ASSUME MaxLost = 0 PROVE Spec => []BringInv
<1>1. Init => BringInv
  BY BringInit
<1>2. RecordsInv /\ AgreeInv /\ BringInv /\ [Next]_vars => BringInv'
  BY BringNext
<1> QED
  BY <1>1, <1>2, RecordsStay, SessionAgrees, PTL DEF Spec

\* A green VALID: all that was selected is there, in each place where it was
\* selected, if no read of the manifest fails.
THEOREM ValidIsAll == ASSUME MaxLost = 0 PROVE Spec => []ValidMeansAll
<1>1. RecordsInv /\ BringInv => ValidMeansAll
  BY BringGives
<1> QED
  BY <1>1, RecordsStay, AllIsBrought, PTL
=============================================================================
