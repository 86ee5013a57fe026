------------------------------ MODULE Induction ------------------------------
(***************************************************************************)
(* Induction and recursion in first-order form.  The library's theorems    *)
(* take the induction hypothesis as an operator, which a first-order       *)
(* prover cannot instantiate; here it is a set, and what is defined by     *)
(* recursion is given by a function.  With it: what FlattenSeq returns and *)
(* where, and that the elements of a finite set of numbers can be put in   *)
(* order.                                                                  *)
(***************************************************************************)
EXTENDS Integers, Sequences, FiniteSets, SequencesExt, FiniteSetTheorems,
        WellFoundedInduction, SequenceTheorems, TLAPS

LEMMA LessIsWellFounded ==
  \E R : /\ IsWellFoundedOn(R, Nat)
         /\ \A m, n \in Nat : m < n => <<m, n>> \in R
<1>1. IsWellFoundedOn(OpToRel(<, Nat), Nat)
  BY NatLessThanWellFounded
<1>2. \A m, n \in Nat : m < n => <<m, n>> \in OpToRel(<, Nat)
  BY DEF OpToRel
<1> QED
  BY <1>1, <1>2

\* A set of numbers that is not empty has a least element.
LEMMA LeastExists ==
  ASSUME NEW T, T \subseteq Nat, T # {}
  PROVE  \E n \in T : \A m \in T : n <= m
<1>1. PICK R : IsWellFoundedOn(R, Nat) /\ \A m, n \in Nat : m < n => <<m, n>> \in R
  BY LessIsWellFounded
<1>2. \A S, U : IsWellFoundedOn(R, S) /\ U \subseteq S /\ U # {}
                => \E x \in U : \A y \in U : ~ (<<y, x>> \in R)
  BY WFMin, Zenon
<1>3. PICK x \in T : \A y \in T : ~ (<<y, x>> \in R)
  BY <1>1, <1>2, Zenon
<1>4. ASSUME NEW m \in T PROVE x <= m
  <2>1. ~(m < x)
    BY <1>1, <1>3
  <2> QED
    BY <2>1
<1> QED
  BY <1>4

\* Induction, the hypothesis given as the set of the numbers it holds of.
LEMMA Induct ==
  ASSUME NEW S, 0 \in S, \A n \in Nat : n \in S => n + 1 \in S
  PROVE  Nat \subseteq S
<1> DEFINE T == {n \in Nat : n \notin S}
<1> SUFFICES ASSUME T # {} PROVE FALSE
  OBVIOUS
<1>1. PICK n \in T : \A m \in T : n <= m
  <2>1. T \subseteq Nat
    OBVIOUS
  <2> HIDE DEF T
  <2> QED
    BY <2>1, LeastExists
<1>2. n # 0 /\ n - 1 \in Nat
  OBVIOUS
<1>3. n - 1 \in S
  BY <1>1, <1>2
<1> QED
  BY <1>2, <1>3

\* f[b] is a, and what follows is G of the place and of what came before.
Recurs(f, a, G, b, n) ==
  \A k \in b..n : f[k] = IF k = b THEN a ELSE G[<<k, f[k - 1]>>]

\* A recursion over b..n has a solution.
LEMMA Recursion ==
  ASSUME NEW T, NEW a \in T, NEW G \in [Nat \X T -> T], NEW b \in Nat, NEW n \in Nat, b <= n
  PROVE  \E f \in [b..n -> T] : Recurs(f, a, G, b, n)
<1> DEFINE Solves(f, m) ==
             /\ f \in [b..m -> T]
             /\ f[b] = a
             /\ \A k \in (b + 1)..m : f[k] = G[<<k, f[k - 1]>>]
           S == {d \in Nat : \E f : Solves(f, b + d)}
<1>1. 0 \in S
  <2> DEFINE f0 == [k \in b..b |-> a]
  <2>1. Solves(f0, b)
    OBVIOUS
  <2>2. Solves(f0, b + 0)
    BY <2>1
  <2> QED
    BY <2>2
<1>2. ASSUME NEW d \in Nat, d \in S PROVE d + 1 \in S
  <2>1. PICK f : Solves(f, b + d)
    BY <1>2
  <2> DEFINE last == b + d + 1
             g == [k \in b..last |-> IF k <= b + d THEN f[k] ELSE G[<<k, f[k - 1]>>]]
  <2>2. last \in Nat /\ last - 1 = b + d /\ f[last - 1] \in T
    BY <2>1
  <2>3. G[<<last, f[last - 1]>>] \in T
    BY <2>2
  <2>4. \A k \in b..last : k <= b + d \/ k = last
    BY <2>2
  <2>5. \A k \in b..last : g[k] \in T
    BY <2>1, <2>3, <2>4
  <2>6. g \in [b..last -> T]
    BY <2>5
  <2>7. g[b] = a
    BY <2>1
  <2>8. ASSUME NEW k \in (b + 1)..last PROVE g[k] = G[<<k, g[k - 1]>>]
    <3>1. k \in b..last /\ k - 1 \in b..last /\ k - 1 <= b + d /\ g[k - 1] = f[k - 1]
      BY <2>2
    <3>2. CASE k <= b + d
      <4>1. g[k] = f[k] /\ k \in (b + 1)..(b + d)
        BY <3>1, <3>2
      <4> QED
        BY <2>1, <3>1, <4>1
    <3>3. CASE k = last
      BY <2>2, <3>1, <3>3
    <3> QED
      BY <2>4, <3>1, <3>2, <3>3
  <2>9. Solves(g, last)
    BY <2>6, <2>7, <2>8
  <2>10. b + (d + 1) = last
    OBVIOUS
  <2> HIDE DEF Solves, last, g
  <2> QED
    BY <2>9, <2>10
<1> HIDE DEF S
<1>3. Nat \subseteq S
  BY <1>1, <1>2, Induct
<1>4. n - b \in S /\ b + (n - b) = n
  BY <1>3
<1>5. \E f : Solves(f, n)
  <2> HIDE DEF Solves
  <2> QED
    BY <1>4 DEF S
<1>6. PICK f : Solves(f, n)
  BY <1>5
<1>7. Recurs(f, a, G, b, n)
  BY <1>6 DEF Recurs
<1> QED
  BY <1>6, <1>7

\* f[k] is the concatenation of the first k sequences.
Joins(f, seqs) ==
  \A k \in 1..Len(seqs) : f[k] = IF k = 1 THEN seqs[k] ELSE f[k - 1] \o seqs[k]

\* FlattenSeq is what its recursion says, and a sequence over the same set.
LEMMA FlattenJoins ==
  ASSUME NEW S, NEW seqs \in Seq(Seq(S)), seqs # <<>>
  PROVE  \E f \in [1..Len(seqs) -> Seq(S)] : Joins(f, seqs) /\ FlattenSeq(seqs) = f[Len(seqs)]
<1> DEFINE n == Len(seqs)
<1>1. n \in Nat /\ n # 0 /\ \A i \in 1..n : seqs[i] \in Seq(S)
  OBVIOUS
<1> DEFINE add(k, s) == IF k \in 1..n THEN s \o seqs[k] ELSE s
           G == [p \in Nat \X Seq(S) |-> add(p[1], p[2])]
           Flattens(f) == f = [i \in 1..n |-> IF i = 1 THEN seqs[i] ELSE f[i - 1] \o seqs[i]]
           flatten == CHOOSE f : Flattens(f)
<1>2. \A k \in Nat, s \in Seq(S) : add(k, s) \in Seq(S)
  <2> SUFFICES ASSUME NEW k \in Nat, NEW s \in Seq(S) PROVE add(k, s) \in Seq(S)
    OBVIOUS
  <2>1. CASE k \in 1..n
    BY <1>1, <2>1, ConcatProperties
  <2> QED
    BY <2>1
<1>3. G \in [Nat \X Seq(S) -> Seq(S)] /\ \A k \in Nat, s \in Seq(S) : G[<<k, s>>] = add(k, s)
  <2> HIDE DEF add
  <2> QED
    BY <1>2
<1>4. seqs[1] \in Seq(S) /\ 1 <= n
  BY <1>1
<1> HIDE DEF G, n
<1>5. PICK f \in [1..n -> Seq(S)] : Recurs(f, seqs[1], G, 1, n)
  BY <1>1, <1>3, <1>4, Recursion
<1>6. \A k \in 1..n : f[k] = IF k = 1 THEN seqs[k] ELSE f[k - 1] \o seqs[k]
  <2> SUFFICES ASSUME NEW k \in 1..n, k # 1 PROVE f[k] = f[k - 1] \o seqs[k]
    BY <1>5 DEF Recurs
  <2>1. k - 1 \in 1..n /\ k \in Nat /\ f[k - 1] \in Seq(S)
    BY <1>1, <1>5
  <2>2. f[k] = G[<<k, f[k - 1]>>]
    BY <1>5 DEF Recurs
  <2> QED
    BY <1>3, <2>1, <2>2
<1>7. Flattens(f)
  BY <1>5, <1>6
<1>8. Flattens(flatten)
  <2> HIDE DEF Flattens
  <2> QED
    BY <1>7
<1>9. \A i \in 1..n : flatten[i] = IF i = 1 THEN seqs[i] ELSE flatten[i - 1] \o seqs[i]
  <2> HIDE DEF flatten
  <2> QED
    BY <1>8
<1>10. FlattenSeq(seqs) = flatten[n]
  BY <1>1 DEF FlattenSeq, n
<1> HIDE DEF flatten
<1> DEFINE T == {k \in Nat : k + 1 <= n => flatten[k + 1] = f[k + 1]}
<1>11. 0 \in T
  <2>1. 1 \in 1..n
    BY <1>1, <1>4
  <2>2. flatten[1] = seqs[1] /\ f[1] = seqs[1]
    BY <1>6, <1>9, <2>1
  <2>3. flatten[0 + 1] = f[0 + 1]
    BY <2>2
  <2> QED
    BY <2>3
<1>12. ASSUME NEW k \in Nat, k \in T PROVE k + 1 \in T
  <2> SUFFICES ASSUME (k + 1) + 1 <= n PROVE flatten[(k + 1) + 1] = f[(k + 1) + 1]
    OBVIOUS
  <2> DEFINE i == (k + 1) + 1
  <2>1. flatten[k + 1] = f[k + 1] /\ i \in 1..n /\ i # 1 /\ i - 1 = k + 1
    BY <1>1, <1>12
  <2> HIDE DEF i
  <2>2. flatten[i] = flatten[k + 1] \o seqs[i] /\ f[i] = f[k + 1] \o seqs[i]
    BY <1>6, <1>9, <2>1
  <2> USE DEF i
  <2> QED
    BY <2>1, <2>2
<1> HIDE DEF T
<1>13. Nat \subseteq T
  BY <1>11, <1>12, Induct
<1>14. n - 1 \in T /\ (n - 1) + 1 = n
  BY <1>1, <1>4, <1>13
<1>15. flatten[n] = f[n]
  BY <1>1, <1>14 DEF T
<1> QED
  BY <1>5, <1>6, <1>10, <1>15 DEF Joins, n

\* The concatenation of sequences over a set is one.
LEMMA FlattenType ==
  ASSUME NEW S, NEW seqs \in Seq(Seq(S))
  PROVE  FlattenSeq(seqs) \in Seq(S)
<1>1. CASE seqs = <<>>
  BY <1>1 DEF FlattenSeq
<1>2. CASE seqs # <<>>
  <2>1. PICK f \in [1..Len(seqs) -> Seq(S)] : FlattenSeq(seqs) = f[Len(seqs)]
    BY <1>2, FlattenJoins
  <2>2. Len(seqs) \in 1..Len(seqs)
    BY <1>2
  <2> QED
    BY <2>1, <2>2
<1> QED
  BY <1>1, <1>2

\* Its length, when g adds up the lengths.
LEMMA FlattenLen ==
  ASSUME NEW S, NEW seqs \in Seq(Seq(S)), NEW g \in [0..Len(seqs) -> Nat], g[0] = 0,
         \A i \in 1..Len(seqs) : g[i] = g[i - 1] + Len(seqs[i])
  PROVE  Len(FlattenSeq(seqs)) = g[Len(seqs)]
<1> DEFINE n == Len(seqs)
<1>1. n \in Nat /\ \A i \in 1..n : seqs[i] \in Seq(S)
  OBVIOUS
<1>2. CASE n = 0
  BY <1>2 DEF FlattenSeq
<1>3. CASE n # 0
  <2>1. PICK f \in [1..n -> Seq(S)] : Joins(f, seqs) /\ FlattenSeq(seqs) = f[n]
    BY <1>3, FlattenJoins
  <2>2. \A i \in 1..n : f[i] = IF i = 1 THEN seqs[i] ELSE f[i - 1] \o seqs[i]
    BY <2>1 DEF Joins
  <2>3. \A i \in 1..n : g[i] = g[i - 1] + Len(seqs[i]) /\ Len(seqs[i]) \in Nat
    BY <1>1
  <2> HIDE DEF n
  <2> DEFINE T == {k \in Nat : k + 1 <= n => Len(f[k + 1]) = g[k + 1]}
  <2>4. 0 \in T
    <3>1. 1 \in 1..n
      BY <1>1, <1>3
    <3>2. f[1] = seqs[1] /\ g[1] = g[1 - 1] + Len(seqs[1]) /\ Len(seqs[1]) \in Nat
      BY <2>2, <2>3, <3>1
    <3>3. g[1] = Len(seqs[1])
      BY <3>2
    <3>4. Len(f[0 + 1]) = g[0 + 1]
      BY <3>2, <3>3
    <3> QED
      BY <3>4
  <2>5. ASSUME NEW k \in Nat, k \in T PROVE k + 1 \in T
    <3> SUFFICES ASSUME (k + 1) + 1 <= n PROVE Len(f[(k + 1) + 1]) = g[(k + 1) + 1]
      OBVIOUS
    <3> DEFINE i == (k + 1) + 1
    <3>1. Len(f[k + 1]) = g[k + 1] /\ k + 1 \in 1..n /\ i \in 1..n /\ i # 1 /\ i - 1 = k + 1
      BY <1>1, <2>5
    <3> HIDE DEF i
    <3>2. f[k + 1] \in Seq(S) /\ seqs[i] \in Seq(S)
      BY <1>1, <2>1, <3>1
    <3>3. f[i] = f[k + 1] \o seqs[i]
      BY <2>2, <3>1
    <3>4. Len(f[i]) = Len(f[k + 1]) + Len(seqs[i])
      BY <3>2, <3>3, ConcatProperties
    <3>5. g[i] = g[k + 1] + Len(seqs[i])
      BY <2>3, <3>1
    <3>6. Len(f[i]) = g[i]
      BY <3>1, <3>4, <3>5
    <3> USE DEF i
    <3> QED
      BY <3>6
  <2> HIDE DEF T
  <2>6. Nat \subseteq T
    BY <2>4, <2>5, Induct
  <2>7. n - 1 \in T /\ (n - 1) + 1 = n
    BY <1>1, <1>3, <2>6
  <2>8. Len(f[n]) = g[n]
    BY <1>1, <2>7 DEF T
  <2> QED
    BY <2>1, <2>8 DEF n
<1> QED
  BY <1>2, <1>3

\* The elements of a concatenation are those of its parts.
LEMMA ConcatElements ==
  ASSUME NEW S, NEW s \in Seq(S), NEW t \in Seq(S)
  PROVE  ToSet(s \o t) = ToSet(s) \union ToSet(t)
<1>1. /\ s \o t \in Seq(S) /\ Len(s \o t) = Len(s) + Len(t)
      /\ \A i \in 1..(Len(s) + Len(t)) : (s \o t)[i] = IF i <= Len(s) THEN s[i] ELSE t[i - Len(s)]
  BY ConcatProperties
<1>2. /\ DOMAIN s = 1..Len(s) /\ DOMAIN t = 1..Len(t) /\ Len(s) \in Nat /\ Len(t) \in Nat
      /\ DOMAIN (s \o t) = 1..(Len(s) + Len(t))
  BY <1>1
<1>3. ASSUME NEW x \in ToSet(s \o t) PROVE x \in ToSet(s) \union ToSet(t)
  <2>1. PICK i \in 1..(Len(s) + Len(t)) : x = (s \o t)[i]
    BY <1>2 DEF ToSet
  <2>2. CASE i <= Len(s)
    <3>1. i \in 1..Len(s) /\ x = s[i]
      BY <1>1, <1>2, <2>1, <2>2
    <3> QED
      BY <1>2, <3>1 DEF ToSet
  <2>3. CASE ~(i <= Len(s))
    <3>1. i - Len(s) \in 1..Len(t) /\ x = t[i - Len(s)]
      BY <1>1, <1>2, <2>1, <2>3
    <3> QED
      BY <1>2, <3>1 DEF ToSet
  <2> QED
    BY <2>2, <2>3
<1>4. ASSUME NEW i \in 1..Len(s) PROVE s[i] \in ToSet(s \o t)
  <2>1. i \in 1..(Len(s) + Len(t)) /\ (s \o t)[i] = s[i]
    BY <1>1, <1>2
  <2> QED
    BY <1>2, <2>1 DEF ToSet
<1>5. ASSUME NEW i \in 1..Len(t) PROVE t[i] \in ToSet(s \o t)
  <2>1. /\ Len(s) + i \in 1..(Len(s) + Len(t)) /\ ~(Len(s) + i <= Len(s))
        /\ (Len(s) + i) - Len(s) = i
    BY <1>2
  <2>2. (s \o t)[Len(s) + i] = t[i]
    BY <1>1, <2>1
  <2> QED
    BY <1>2, <2>1, <2>2 DEF ToSet
<1> QED
  BY <1>2, <1>3, <1>4, <1>5 DEF ToSet

\* So are those of FlattenSeq.
LEMMA FlattenElements ==
  ASSUME NEW S, NEW seqs \in Seq(Seq(S))
  PROVE  ToSet(FlattenSeq(seqs)) = UNION {ToSet(seqs[i]) : i \in 1..Len(seqs)}
<1> DEFINE n == Len(seqs)
           parts(k) == UNION {ToSet(seqs[i]) : i \in 1..k}
<1>1. n \in Nat /\ \A i \in 1..n : seqs[i] \in Seq(S)
  OBVIOUS
<1>2. CASE n = 0
  BY <1>2 DEF FlattenSeq, ToSet
<1>3. CASE n # 0
  <2>1. PICK f \in [1..n -> Seq(S)] : Joins(f, seqs) /\ FlattenSeq(seqs) = f[n]
    BY <1>3, FlattenJoins
  <2>2. \A i \in 1..n : f[i] = IF i = 1 THEN seqs[i] ELSE f[i - 1] \o seqs[i]
    BY <2>1 DEF Joins
  <2> HIDE DEF n
  <2> DEFINE T == {k \in Nat : k + 1 <= n => ToSet(f[k + 1]) = parts(k + 1)}
  <2>3. 0 \in T
    <3>1. 1 \in 1..n /\ 1..1 = {1}
      BY <1>1, <1>3
    <3>2. ToSet(f[1]) = ToSet(seqs[1]) /\ parts(1) = ToSet(seqs[1])
      BY <2>2, <3>1
    <3>3. ToSet(f[0 + 1]) = parts(0 + 1)
      BY <3>2
    <3> QED
      BY <3>3
  <2>4. ASSUME NEW k \in Nat, k \in T PROVE k + 1 \in T
    <3> SUFFICES ASSUME (k + 1) + 1 <= n PROVE ToSet(f[(k + 1) + 1]) = parts((k + 1) + 1)
      OBVIOUS
    <3> DEFINE i == (k + 1) + 1
    <3>1. ToSet(f[k + 1]) = parts(k + 1) /\ k + 1 \in 1..n /\ i \in 1..n /\ i # 1 /\ i - 1 = k + 1
      BY <1>1, <2>4
    <3>2. 1..i = 1..(k + 1) \union {i}
      OBVIOUS
    <3> HIDE DEF i
    <3>3. f[k + 1] \in Seq(S) /\ seqs[i] \in Seq(S)
      BY <1>1, <2>1, <3>1
    <3>4. f[i] = f[k + 1] \o seqs[i]
      BY <2>2, <3>1
    <3>5. ToSet(f[i]) = ToSet(f[k + 1]) \union ToSet(seqs[i])
      BY <3>3, <3>4, ConcatElements
    <3>6. parts(i) = parts(k + 1) \union ToSet(seqs[i])
      BY <3>2
    <3>7. ToSet(f[i]) = parts(i)
      BY <3>1, <3>5, <3>6
    <3> USE DEF i
    <3> QED
      BY <3>7
  <2> HIDE DEF T
  <2>5. Nat \subseteq T
    BY <2>3, <2>4, Induct
  <2>6. n - 1 \in T /\ (n - 1) + 1 = n
    BY <1>1, <1>3, <2>5
  <2> HIDE DEF parts
  <2>7. ToSet(f[n]) = parts(n)
    <3>1. n - 1 \in Nat /\ (n - 1) + 1 <= n
      BY <1>1, <1>3
    <3>2. ToSet(f[(n - 1) + 1]) = parts((n - 1) + 1)
      BY <2>6, <3>1 DEF T
    <3> QED
      BY <2>6, <3>2
  <2> QED
    BY <2>1, <2>7 DEF n, parts
<1> QED
  BY <1>2, <1>3

\* What every step of a concatenation preserves: <<i, s>> \in P says that s may
\* be the concatenation of the first i sequences.
LEMMA FlattenGrows ==
  ASSUME NEW S, NEW P, NEW seqs \in Seq(Seq(S)), seqs # <<>>, <<1, seqs[1]>> \in P,
         \A i \in 1..(Len(seqs) - 1), s \in Seq(S) :
           <<i, s>> \in P => <<i + 1, s \o seqs[i + 1]>> \in P
  PROVE  <<Len(seqs), FlattenSeq(seqs)>> \in P
<1> DEFINE n == Len(seqs)
<1>1. n \in Nat /\ n # 0
  OBVIOUS
<1>2. PICK f \in [1..n -> Seq(S)] : Joins(f, seqs) /\ FlattenSeq(seqs) = f[n]
  BY FlattenJoins
<1>3. \A i \in 1..n : f[i] = IF i = 1 THEN seqs[i] ELSE f[i - 1] \o seqs[i]
  BY <1>2 DEF Joins
<1>4. \A i \in 1..(n - 1), s \in Seq(S) : <<i, s>> \in P => <<i + 1, s \o seqs[i + 1]>> \in P
  OBVIOUS
<1> HIDE DEF n
<1> DEFINE T == {k \in Nat : k + 1 <= n => <<k + 1, f[k + 1]>> \in P}
<1>5. 0 \in T
  <2>1. 1 \in 1..n
    BY <1>1
  <2>2. f[1] = seqs[1]
    BY <1>3, <2>1
  <2>3. <<1, f[1]>> \in P
    BY <2>2
  <2>4. 0 + 1 = 1
    OBVIOUS
  <2> QED
    BY <2>3, <2>4
<1>6. ASSUME NEW k \in Nat, k \in T PROVE k + 1 \in T
  <2> SUFFICES ASSUME (k + 1) + 1 <= n PROVE <<(k + 1) + 1, f[(k + 1) + 1]>> \in P
    OBVIOUS
  <2> DEFINE i == k + 1
  <2>1. <<i, f[i]>> \in P /\ i \in 1..(n - 1) /\ i \in 1..n
    BY <1>1, <1>6
  <2>2. i + 1 \in 1..n /\ i + 1 # 1 /\ (i + 1) - 1 = i
    BY <1>1
  <2> HIDE DEF i
  <2>3. f[i] \in Seq(S)
    BY <1>2, <2>1
  <2>4. f[i + 1] = f[i] \o seqs[i + 1]
    BY <1>3, <2>2
  <2>5. <<i + 1, f[i + 1]>> \in P
    BY <1>4, <2>1, <2>3, <2>4
  <2> QED
    BY <2>5 DEF i
<1> HIDE DEF T
<1>7. Nat \subseteq T
  BY <1>5, <1>6, Induct
<1>8. n - 1 \in T /\ (n - 1) + 1 = n
  BY <1>1, <1>7
<1>9. <<n, f[n]>> \in P
  BY <1>1, <1>8 DEF T
<1> QED
  BY <1>2, <1>9 DEF n

\* A set of sequences closed under concatenation.
LEMMA FlattenClosed ==
  ASSUME NEW S, NEW C, C \subseteq Seq(S), <<>> \in C, \A s, t \in C : s \o t \in C,
         NEW seqs \in Seq(Seq(S)), \A i \in 1..Len(seqs) : seqs[i] \in C
  PROVE  FlattenSeq(seqs) \in C
<1>1. CASE seqs = <<>>
  BY <1>1 DEF FlattenSeq
<1>2. CASE seqs # <<>>
  <2> DEFINE P == Nat \X C
  <2>1. 1 \in 1..Len(seqs)
    BY <1>2
  <2>2. <<1, seqs[1]>> \in P
    BY <2>1
  <2>3. \A i \in 1..(Len(seqs) - 1), s \in Seq(S) :
          <<i, s>> \in P => <<i + 1, s \o seqs[i + 1]>> \in P
    <3> SUFFICES ASSUME NEW i \in 1..(Len(seqs) - 1), NEW s \in C
                 PROVE  <<i + 1, s \o seqs[i + 1]>> \in P
      OBVIOUS
    <3>1. i + 1 \in 1..Len(seqs) /\ i + 1 \in Nat
      BY <1>2
    <3>2. s \o seqs[i + 1] \in C
      BY <3>1
    <3> QED
      BY <3>1, <3>2
  <2>4. \A x : <<Len(seqs), x>> \in P => x \in C
    OBVIOUS
  <2> HIDE DEF P
  <2>5. <<Len(seqs), FlattenSeq(seqs)>> \in P
    BY <1>2, <2>2, <2>3, FlattenGrows
  <2> QED
    BY <2>4, <2>5
<1> QED
  BY <1>1, <1>2

-----------------------------------------------------------------------------
(* Division.                                                               *)

\* Quotient and remainder.
LEMMA Division ==
  ASSUME NEW a \in Nat, NEW n \in Nat, n > 0
  PROVE  /\ a \div n \in Nat
         /\ a % n \in 0..(n - 1)
         /\ a = (a \div n) * n + (a % n)
<1> DEFINE p == a \div n
<1>1. p \in Nat /\ a % n \in 0..(n - 1)
  OBVIOUS
<1>2. a = n * p + (a % n)
  OBVIOUS
<1> HIDE DEF p
<1>3. n * p = p * n
  BY <1>1
<1>4. a = p * n + (a % n)
  BY <1>1, <1>2, <1>3
<1> QED
  BY <1>1, <1>4, Zenon DEF p

\* They are what they are by their sum alone.
LEMMA Quotient ==
  ASSUME NEW q \in Nat, NEW n \in Nat, NEW r \in 0..(n - 1), NEW a \in Nat, a = q * n + r
  PROVE  a \div n = q /\ a % n = r
<1> DEFINE p == a \div n
           s == a % n
<1>1. p \in Nat /\ s \in 0..(n - 1) /\ a = p * n + s
  BY Division
<1> HIDE DEF p, s
<1>2. ASSUME NEW x \in Nat, NEW y \in Nat, x < y
      PROVE  x * n + n <= y * n
  <2>1. PICK d \in Nat : y = x + 1 + d
    <3>1. y - x - 1 \in Nat /\ y = x + 1 + (y - x - 1)
      BY <1>2
    <3> QED
      BY <3>1
  <2>2. y * n = x * n + n + d * n
    BY <2>1
  <2>3. d * n \in Nat /\ x * n \in Nat /\ y * n \in Nat
    OBVIOUS
  <2> QED
    BY <2>2, <2>3
<1>3. p * n \in Nat /\ q * n \in Nat
  BY <1>1
<1>4. ~(p < q) /\ ~(q < p)
  BY <1>1, <1>2, <1>3
<1>5. p = q
  BY <1>1, <1>4
<1> QED
  BY <1>1, <1>3, <1>5 DEF p, s

-----------------------------------------------------------------------------
(* Order.                                                                  *)

\* The numbers of U below i.
Below(U, i) == {j \in U : j < i}

\* Every place is taken when a finite set of numbers is put in order.
LEMMA Ranked ==
  ASSUME NEW S, S \subseteq Nat, IsFiniteSet(S), NEW k \in 1..Cardinality(S)
  PROVE  \E i \in S : Cardinality(Below(S, i)) = k - 1
<1> DEFINE Ranks(U, n) == \A m \in 1..n : \E i \in U : Cardinality(Below(U, i)) = m - 1
           T == {n \in Nat : \A U \in SUBSET Nat :
                               IsFiniteSet(U) /\ Cardinality(U) = n => Ranks(U, n)}
<1>1. 0 \in T
  OBVIOUS
<1>2. ASSUME NEW n \in Nat, n \in T PROVE n + 1 \in T
  <2> SUFFICES ASSUME NEW U \in SUBSET Nat, IsFiniteSet(U), Cardinality(U) = n + 1
               PROVE  Ranks(U, n + 1)
    OBVIOUS
  <2>1. U # {}
    BY FS_EmptySet
  <2>2. PICK low \in U : \A j \in U : low <= j
    BY <2>1, LeastExists
  <2> DEFINE V == U \ {low}
  <2>3. IsFiniteSet(V) /\ Cardinality(V) = n
    <3>1. IsFiniteSet(V) /\ Cardinality(V) = Cardinality(U) - 1
      BY FS_RemoveElement
    <3> QED
      BY <3>1
  <2>4. Ranks(V, n)
    BY <1>2, <2>3
  <2> SUFFICES ASSUME NEW m \in 1..(n + 1)
               PROVE  \E i \in U : Cardinality(Below(U, i)) = m - 1
    OBVIOUS
  <2>5. CASE m = 1
    <3>1. \A j \in U : ~(j < low)
      BY <2>2
    <3>2. Below(U, low) = {}
      BY <3>1 DEF Below
    <3> QED
      BY <2>5, <3>2, FS_EmptySet
  <2>6. CASE m # 1
    <3>1. m - 1 \in 1..n
      BY <2>6
    <3>2. PICK i \in V : Cardinality(Below(V, i)) = (m - 1) - 1
      BY <2>4, <3>1
    <3>3. low < i
      BY <2>2, <3>2
    <3>4. Below(U, i) = Below(V, i) \cup {low}
      BY <3>3 DEF Below
    <3>5. low \notin Below(V, i) /\ IsFiniteSet(Below(V, i))
      BY <2>3, FS_Subset DEF Below
    <3>6. Cardinality(Below(U, i)) = Cardinality(Below(V, i)) + 1
      BY <3>4, <3>5, FS_AddElement
    <3> QED
      BY <2>6, <3>1, <3>2, <3>6
  <2> QED
    BY <2>5, <2>6
<1> HIDE DEF T
<1>3. Nat \subseteq T
  BY <1>1, <1>2, Induct
<1>4. Cardinality(S) \in Nat
  BY FS_CardinalityType
<1> QED
  BY <1>3, <1>4 DEF T

\* g tells where the elements of the first n of the sequences are in s.
Places(g, seqs, n, s) ==
  /\ \A i \in 1..n : \A j \in 1..Len(seqs[i]) :
       g[i][j] \in 1..Len(s) /\ s[g[i][j]] = seqs[i][j]
  /\ \A i, k \in 1..n : \A j \in 1..Len(seqs[i]), l \in 1..Len(seqs[k]) :
       g[i][j] = g[k][l] => i = k /\ j = l

\* Every element of every sequence has a place of its own.
LEMMA FlattenPlaces ==
  ASSUME NEW S, NEW seqs \in Seq(Seq(S))
  PROVE  \E g : Places(g, seqs, Len(seqs), FlattenSeq(seqs))
<1>1. CASE seqs = <<>>
  <2>1. Len(seqs) = 0
    BY <1>1
  <2> QED
    BY <2>1 DEF Places
<1>2. CASE seqs # <<>>
  <2> DEFINE n == Len(seqs)
             P == {x \in (1..n) \X Seq(S) : \E g : Places(g, seqs, x[1], x[2])}
  <2>1. n \in Nat /\ n # 0 /\ \A i \in 1..n : seqs[i] \in Seq(S) /\ Len(seqs[i]) \in Nat
    BY <1>2
  <2>2. <<1, seqs[1]>> \in P
    <3> DEFINE g == [i \in {1} |-> [j \in Nat |-> j]]
    <3>1. \A j \in Nat : g[1][j] = j
      OBVIOUS
    <3> HIDE DEF g
    <3>2. Places(g, seqs, 1, seqs[1])
      BY <2>1, <3>1 DEF Places
    <3> QED
      BY <2>1, <3>2
  <2>3. ASSUME NEW i \in 1..(n - 1), NEW s \in Seq(S), <<i, s>> \in P
        PROVE  <<i + 1, s \o seqs[i + 1]>> \in P
    <3>1. PICK g : Places(g, seqs, i, s)
      BY <2>3
    <3>2. PICK e \in Seq(S) : e = seqs[i + 1]
      BY <2>1
    <3>3. PICK m \in Nat : m = Len(s)
      OBVIOUS
    <3>4. PICK w : w = s \o e
      OBVIOUS
    <3>5. /\ w \in Seq(S) /\ Len(w) = m + Len(e) /\ Len(e) \in Nat
          /\ \A j \in 1..(m + Len(e)) : w[j] = IF j <= m THEN s[j] ELSE e[j - m]
      BY <3>3, <3>4, ConcatProperties
    <3>6. \A a \in 1..m : a \in 1..(m + Len(e)) /\ w[a] = s[a]
      BY <3>5
    <3>7. ASSUME NEW a \in 1..Len(e) PROVE w[m + a] = e[a]
      <4>1. PICK b : b = m + a
        OBVIOUS
      <4>2. b \in 1..(m + Len(e)) /\ ~(b <= m) /\ b - m = a
        BY <3>5, <4>1
      <4>3. w[b] = e[b - m]
        BY <3>5, <4>2
      <4> QED
        BY <4>1, <4>2, <4>3
    <3> DEFINE h == [k \in 1..(i + 1) |-> IF k <= i THEN g[k] ELSE [j \in Nat |-> m + j]]
    <3>8. /\ \A k \in 1..i, j \in Nat : h[k][j] = g[k][j]
          /\ \A j \in Nat : h[i + 1][j] = m + j
      OBVIOUS
    <3> HIDE DEF h
    <3>9. \A k \in 1..(i + 1) : k \in 1..i \/ k = i + 1
      OBVIOUS
    <3>10. \A k \in 1..i : seqs[k] \in Seq(S) /\ \A j \in 1..Len(seqs[k]) : j \in Nat
      BY <2>1
    <3>11. \A k \in 1..i : \A j \in 1..Len(seqs[k]) :
            h[k][j] \in 1..m /\ w[h[k][j]] = seqs[k][j]
      <4> SUFFICES ASSUME NEW k \in 1..i, NEW j \in 1..Len(seqs[k])
                   PROVE  h[k][j] \in 1..m /\ w[h[k][j]] = seqs[k][j]
        OBVIOUS
      <4>1. g[k][j] \in 1..m /\ s[g[k][j]] = seqs[k][j]
        BY <3>1, <3>3 DEF Places
      <4>2. h[k][j] = g[k][j]
        BY <3>8, <3>10
      <4> QED
        BY <3>6, <4>1, <4>2
    <3>12. \A j \in 1..Len(e) :
            h[i + 1][j] = m + j /\ w[m + j] = e[j]
      <4>1. \A j \in 1..Len(e) : j \in Nat
        BY <3>5
      <4> QED
        BY <3>7, <3>8, <4>1
    <3>13. ASSUME NEW k \in 1..(i + 1), NEW j \in 1..Len(seqs[k])
           PROVE  h[k][j] \in 1..Len(w) /\ w[h[k][j]] = seqs[k][j]
      <4>1. CASE k \in 1..i
        <5>1. h[k][j] \in 1..m /\ w[h[k][j]] = seqs[k][j]
          BY <3>11, <4>1
        <5> QED
          BY <3>5, <5>1
      <4>2. CASE k = i + 1
        <5>1. j \in 1..Len(e) /\ seqs[k] = e
          BY <3>2, <4>2
        <5> QED
          BY <3>5, <3>12, <4>2, <5>1
      <4> QED
        BY <3>9, <4>1, <4>2
    <3>14. ASSUME NEW k \in 1..(i + 1), NEW j \in 1..Len(seqs[k]),
                  NEW q \in 1..(i + 1), NEW l \in 1..Len(seqs[q]), h[k][j] = h[q][l]
           PROVE  k = q /\ j = l
      <4>1. CASE k \in 1..i /\ q \in 1..i
        <5>1. g[k][j] = g[q][l]
          BY <3>8, <3>10, <3>14, <4>1
        <5> QED
          BY <3>1, <4>1, <5>1 DEF Places
      <4>2. CASE k = i + 1 /\ q = i + 1
        BY <3>2, <3>12, <3>14, <4>2
      <4>3. CASE k \in 1..i /\ q = i + 1
        <5>1. h[k][j] \in 1..m
          BY <3>11, <4>3
        <5>2. l \in 1..Len(e) /\ h[q][l] = m + l
          BY <3>2, <3>12, <4>3
        <5> QED
          BY <3>5, <3>14, <5>1, <5>2
      <4>4. CASE k = i + 1 /\ q \in 1..i
        <5>1. h[q][l] \in 1..m
          BY <3>11, <4>4
        <5>2. j \in 1..Len(e) /\ h[k][j] = m + j
          BY <3>2, <3>12, <4>4
        <5> QED
          BY <3>5, <3>14, <5>1, <5>2
      <4> QED
        BY <3>9, <4>1, <4>2, <4>3, <4>4
    <3>15. Places(h, seqs, i + 1, w)
      BY <3>13, <3>14 DEF Places
    <3>16. i + 1 \in 1..n
      BY <2>1
    <3> QED
      BY <3>2, <3>4, <3>5, <3>15, <3>16
  <2> HIDE DEF P
  <2>4. <<n, FlattenSeq(seqs)>> \in P
    <3>1. \A i \in 1..(Len(seqs) - 1), s \in Seq(S) :
            <<i, s>> \in P => <<i + 1, s \o seqs[i + 1]>> \in P
      BY <2>3
    <3> QED
      BY <1>2, <2>2, <3>1, FlattenGrows
  <2> QED
    BY <2>4 DEF P
<1> QED
  BY <1>1, <1>2
==============================================================================
