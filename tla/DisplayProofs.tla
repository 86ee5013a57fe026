----------------------------- MODULE DisplayProofs -----------------------------
(***************************************************************************)
(* Theorems about what the legacy sender's display rests on: the plan by   *)
(* which symbols are drawn (StripePlan), at every alignment and from       *)
(* nothing of the placement map but the limit on its runs; then the        *)
(* senders' clock and the hold time (Ticks), for every length of a period, *)
(* of a day and of a word.                                                 *)
(***************************************************************************)
EXTENDS StripePlan, Induction

-----------------------------------------------------------------------------
(* The invariant.                                                          *)

\* The runs flagged with a kind, and the runs named by the groups of a list, by
\* their first codewords.
Flagged(f, kind) == {j \in DOMAIN f : f[j] = kind}
Elements(list) == {list[n] : n \in DOMAIN list}
FirstsOf(r, S) == {r[j].first : j \in S}
Named(list) == UNION {Elements(g.first) : g \in Elements(list)}

\* Every run with the flag of the kind is in a group of the list, and each group
\* has lanes runs of its own.
Agrees(r, f, kind, list, lanes) ==
  /\ list \in Seq(Elements(list))
  /\ FirstsOf(r, Flagged(f, kind)) = Named(list)
  /\ Cardinality(Flagged(f, kind)) = lanes * Len(list)

Kinds == {"none", "exact", "phase", "triple"}

PlanInv ==
  /\ Len(runs) \in Nat
  /\ flag \in [1..Len(runs) -> Kinds]
  /\ Agrees(runs, flag, "exact", groups, 4)
  /\ Agrees(runs, flag, "phase", phases, 4)
  /\ Agrees(runs, flag, "triple", triples, 3)
  /\ pc = "runs" => groups = <<>> /\ phases = <<>> /\ triples = <<>>

-----------------------------------------------------------------------------
(* Facts about sets of runs and lists of groups.                            *)

\* Least and Greatest, of a set of runs that is not empty.
LEMMA LeastIn ==
  ASSUME NEW S, S \subseteq Nat, S # {}
  PROVE  Least(S) \in S
<1>1. \E n \in S : \A m \in S : n <= m
  BY LeastExists
<1> QED
  BY <1>1 DEF Least

LEMMA GreatestIn ==
  ASSUME NEW n \in Nat, NEW S, S \subseteq 1..n, S # {}
  PROVE  Greatest(S) \in S
<1>1. PICK T : T = {n - j : j \in S}
  OBVIOUS
<1>2. T \subseteq Nat /\ T # {}
  <2>1. \A j \in S : n - j \in Nat /\ n - j \in T
    BY <1>1
  <2>2. \E j \in S : TRUE
    OBVIOUS
  <2> QED
    BY <1>1, <2>1, <2>2
<1>3. PICK a \in T : \A b \in T : a <= b
  BY <1>2, LeastExists
<1>4. PICK i \in S : a = n - i
  BY <1>1, <1>3
<1>5. ASSUME NEW j \in S PROVE i >= j
  <2>1. n - j \in T
    BY <1>1
  <2>2. a <= n - j
    BY <1>3, <2>1
  <2>3. i \in Nat /\ j \in Nat
    OBVIOUS
  <2> QED
    BY <1>4, <2>2, <2>3
<1> QED
  BY <1>5 DEF Greatest

\* As many runs as lanes, when no run is in two lanes.
LEMMA LanesDiffer ==
  ASSUME NEW w \in Nat, NEW m, DOMAIN m = 1..w, NEW S, S = Elements(m),
         \A k, l \in 1..w : m[k] = m[l] => k = l
  PROVE  IsFiniteSet(S) /\ Cardinality(S) = w
<1>0. \A s : s \in S <=> \E k \in 1..w : s = m[k]
  BY DEF Elements
<1>1. PICK f : f = [k \in 1..w |-> m[k]]
  OBVIOUS
<1>2. f \in [1..w -> S] /\ \A k \in 1..w : f[k] = m[k]
  BY <1>0, <1>1
<1>3. \A k, l \in 1..w : f[k] = f[l] => k = l
  BY <1>2
<1>4. \A s \in S : \E k \in 1..w : f[k] = s
  BY <1>0, <1>2
<1>5. f \in Bijection(1..w, S)
  BY <1>2, <1>3, <1>4 DEF Bijection, Injection, Surjection, IsInjective
<1>6. ExistsBijection(1..w, S)
  BY <1>5 DEF ExistsBijection
<1>7. IsFiniteSet(1..w) /\ Cardinality(1..w) = w
  <2>1. IsFiniteSet(1..w) /\ Cardinality(1..w) = IF 1 > w THEN 0 ELSE w - 1 + 1
    BY FS_Interval
  <2> QED
    BY <2>1
<1> QED
  BY <1>6, <1>7, FS_Bijection

\* Sizes of disjoint sets add up.
LEMMA DisjointSize ==
  ASSUME NEW S, NEW T, IsFiniteSet(S), IsFiniteSet(T), S \cap T = {}
  PROVE  /\ IsFiniteSet(S \cup T)
         /\ Cardinality(S \cup T) = Cardinality(S) + Cardinality(T)
<1>1. /\ IsFiniteSet(S \cup T)
      /\ Cardinality(S \cup T) = Cardinality(S) + Cardinality(T) - Cardinality({})
  BY FS_Union
<1>2. Cardinality({}) = 0
  BY FS_EmptySet
<1>3. Cardinality(S) \in Nat /\ Cardinality(T) \in Nat
  BY FS_CardinalityType
<1> QED
  BY <1>1, <1>2, <1>3

\* The runs of a kind are finitely many.
LEMMA FlaggedFinite ==
  ASSUME NEW n \in Nat, NEW f \in [1..n -> Kinds], NEW kind
  PROVE  /\ Flagged(f, kind) \subseteq 1..n /\ IsFiniteSet(Flagged(f, kind))
         /\ Cardinality(Flagged(f, kind)) \in Nat
<1>1. Flagged(f, kind) \in SUBSET (1..n)
  BY DEF Flagged
<1>2. IsFiniteSet(1..n)
  BY FS_Interval
<1>3. IsFiniteSet(Flagged(f, kind))
  BY <1>1, <1>2, FS_Subset
<1> QED
  BY <1>1, <1>3, FS_CardinalityType

\* A list with one group more.
LEMMA Appended ==
  ASSUME NEW list, list \in Seq(Elements(list)), NEW e, NEW more, more = Append(list, e)
  PROVE  /\ more \in Seq(Elements(more))
         /\ Len(list) \in Nat /\ Len(more) = Len(list) + 1
         /\ Named(more) = Named(list) \cup Elements(e.first)
<1>1. PICK L \in Nat : L = Len(list) /\ DOMAIN list = 1..L
  OBVIOUS
<1>2. /\ Len(more) = L + 1 /\ DOMAIN more = 1..(L + 1)
      /\ \A n \in 1..L : more[n] = list[n]
      /\ more[L + 1] = e
  BY <1>1
<1>3. \A n \in DOMAIN more : n \in 1..L \/ n = L + 1
  BY <1>2
<1>4. Elements(more) = Elements(list) \cup {e}
  BY <1>1, <1>2, <1>3 DEF Elements
<1>5. more \in Seq(Elements(more))
  <2>1. PICK X : X = Elements(more)
    OBVIOUS
  <2>2. Elements(list) \subseteq X /\ e \in X
    BY <1>4, <2>1
  <2>3. \A n \in 1..L : list[n] \in X
    BY <1>1, <2>2 DEF Elements
  <2>4. list \in Seq(X)
    BY <1>1, <2>3
  <2> QED
    BY <2>1, <2>2, <2>4
<1>6. Named(more) = Named(list) \cup Elements(e.first)
  BY <1>4 DEF Named
<1> QED
  BY <1>1, <1>2, <1>5, <1>6

\* A group names the runs it is made of.
LEMMA SameNames ==
  ASSUME NEW r, NEW m, NEW g, DOMAIN g = DOMAIN m,
         \A k \in DOMAIN m : g[k] = r[m[k]].first
  PROVE  Elements(g) = FirstsOf(r, Elements(m))
<1>1. ASSUME NEW x PROVE x \in Elements(g) <=> x \in FirstsOf(r, Elements(m))
  <2>1. x \in Elements(g) <=> \E k \in DOMAIN m : x = r[m[k]].first
    BY DEF Elements
  <2>2. x \in FirstsOf(r, Elements(m)) <=> \E j \in Elements(m) : x = r[j].first
    BY DEF FirstsOf
  <2>3. (\E j \in Elements(m) : x = r[j].first) <=> \E k \in DOMAIN m : x = r[m[k]].first
    BY DEF Elements
  <2> QED
    BY <2>1, <2>2, <2>3
<1> QED
  BY <1>1

\* f2 is what the flags f become when group e takes the runs m, one for each lane,
\* of those no group has.
Takes(r, f, f2, kind, m, e, w) ==
  /\ DOMAIN m = 1..w
  /\ \A k \in 1..w : m[k] \in DOMAIN f /\ f[m[k]] = "none"
  /\ \A k, l \in 1..w : m[k] = m[l] => k = l
  /\ f2 = [j \in DOMAIN f |-> IF j \in Elements(m) THEN kind ELSE f[j]]
  /\ DOMAIN e.first = 1..w
  /\ \A k \in 1..w : e.first[k] = r[m[k]].first

\* The group is added to the list of its kind.
LEMMA OneMore ==
  ASSUME NEW n \in Nat, NEW r, NEW f \in [1..n -> Kinds], NEW f2,
         NEW kind, kind \in Kinds, kind # "none", NEW w \in Nat, NEW m, NEW e,
         Takes(r, f, f2, kind, m, e, w), NEW list, Agrees(r, f, kind, list, w)
  PROVE  Agrees(r, f2, kind, Append(list, e), w)
<1> DEFINE more == Append(list, e)
<1> DEFINE S == Elements(m)
<1>0. /\ DOMAIN m = 1..w
      /\ \A k \in 1..w : m[k] \in 1..n /\ f[m[k]] = "none"
      /\ \A k, l \in 1..w : m[k] = m[l] => k = l
      /\ f2 = [j \in 1..n |-> IF j \in S THEN kind ELSE f[j]]
      /\ DOMAIN e.first = 1..w
      /\ \A k \in 1..w : e.first[k] = r[m[k]].first
  BY DEF Takes
<1>1. IsFiniteSet(S) /\ Cardinality(S) = w
  BY <1>0, LanesDiffer
<1>2. S \subseteq 1..n /\ \A j \in S : f[j] = "none"
  BY <1>0 DEF Elements
<1> HIDE DEF S
<1>3. /\ f2 \in [1..n -> Kinds]
      /\ \A j \in 1..n : f2[j] = IF j \in S THEN kind ELSE f[j]
  BY <1>0, <1>2
<1>4. Flagged(f2, kind) = Flagged(f, kind) \cup S
  BY <1>2, <1>3 DEF Flagged
<1>5. Flagged(f, kind) \cap S = {}
  BY <1>2 DEF Flagged
<1>6. IsFiniteSet(Flagged(f, kind)) /\ Cardinality(Flagged(f, kind)) = w * Len(list)
  BY FlaggedFinite DEF Agrees
<1>7. Cardinality(Flagged(f2, kind)) = w * Len(list) + w
  <2>1. PICK A, c : A = Flagged(f, kind) /\ c = Cardinality(A)
    OBVIOUS
  <2>2. Cardinality(A \cup S) = Cardinality(A) + Cardinality(S)
    BY <1>1, <1>5, <1>6, <2>1, DisjointSize, Zenon
  <2> QED
    BY <1>1, <1>4, <1>6, <2>1, <2>2
<1>8. /\ more \in Seq(Elements(more))
      /\ Len(list) \in Nat /\ Len(more) = Len(list) + 1
      /\ Named(more) = Named(list) \cup Elements(e.first)
  <2>1. list \in Seq(Elements(list))
    BY DEF Agrees
  <2> QED
    BY <2>1, Appended DEF more
<1> HIDE DEF more
<1>9. w * Len(more) = w * Len(list) + w
  <2>1. PICK L \in Nat : L = Len(list)
    BY <1>8
  <2>2. w * (L + 1) = w * L + w
    OBVIOUS
  <2> QED
    BY <1>8, <2>1, <2>2
<1>10. Elements(e.first) = FirstsOf(r, S)
  BY <1>0, SameNames DEF S
<1>11. FirstsOf(r, Flagged(f2, kind)) = Named(more)
  <2>1. \A A, B : FirstsOf(r, A \cup B) = FirstsOf(r, A) \cup FirstsOf(r, B)
    BY DEF FirstsOf
  <2>2. FirstsOf(r, Flagged(f, kind)) = Named(list)
    BY DEF Agrees
  <2>3. FirstsOf(r, Flagged(f2, kind)) = FirstsOf(r, Flagged(f, kind)) \cup FirstsOf(r, S)
    BY <1>4, <2>1
  <2> QED
    BY <1>8, <1>10, <2>2, <2>3, Zenon
<1>12. Agrees(r, f2, kind, more, w)
  BY <1>7, <1>8, <1>9, <1>11 DEF Agrees
<1> QED
  BY <1>12 DEF more

\* Nothing changes for the other kinds.
LEMMA OthersStay ==
  ASSUME NEW n \in Nat, NEW r, NEW f \in [1..n -> Kinds], NEW f2,
         NEW kind, kind \in Kinds, kind # "none", NEW w \in Nat, NEW m, NEW e,
         Takes(r, f, f2, kind, m, e, w)
  PROVE  /\ f2 \in [1..n -> Kinds]
         /\ \A other \in Kinds \ {"none", kind} : Flagged(f2, other) = Flagged(f, other)
<1>1. f2 = [j \in 1..n |-> IF j \in Elements(m) THEN kind ELSE f[j]]
  BY DEF Takes
<1>2. \A j \in Elements(m) : f[j] = "none"
  BY DEF Takes, Elements
<1>3. DOMAIN f = 1..n /\ DOMAIN f2 = 1..n
  BY <1>1
<1>4. \A j \in 1..n : f2[j] = IF j \in Elements(m) THEN kind ELSE f[j]
  BY <1>1
<1>5. f2 \in [1..n -> Kinds]
  BY <1>1
<1>6. ASSUME NEW other \in Kinds \ {"none", kind} PROVE Flagged(f2, other) = Flagged(f, other)
  BY <1>2, <1>3, <1>4 DEF Flagged
<1> QED
  BY <1>5, <1>6

\* No group of a kind.
LEMMA NoGroup ==
  ASSUME NEW r, NEW f, NEW kind, Flagged(f, kind) = {}, NEW w \in Nat
  PROVE  Agrees(r, f, kind, <<>>, w)
<1>1. Cardinality({}) = 0
  BY FS_EmptySet
<1>2. PICK list : list = <<>>
  OBVIOUS
<1>3. DOMAIN list = {} /\ Len(list) = 0 /\ list \in Seq(Elements(list))
  BY <1>2
<1>4. Elements(list) = {}
  BY <1>3 DEF Elements
<1>5. Named(list) = {}
  BY <1>4 DEF Named
<1>6. FirstsOf(r, Flagged(f, kind)) = {}
  BY DEF FirstsOf
<1>7. w * 0 = 0
  OBVIOUS
<1>8. Agrees(r, f, kind, list, w)
  BY <1>1, <1>3, <1>5, <1>6, <1>7 DEF Agrees
<1> QED
  BY <1>2, <1>8

-----------------------------------------------------------------------------
(* Induction over the steps.                                                *)

\* Nothing is planned at the start.
LEMMA PlanInit == Init => PlanInv
<1> SUFFICES ASSUME Init PROVE PlanInv
  OBVIOUS
<1>1. /\ runs = <<>> /\ flag = <<>> /\ groups = <<>> /\ phases = <<>> /\ triples = <<>>
  BY DEF Init
<1>2. Len(runs) = 0 /\ DOMAIN flag = {}
  BY <1>1
<1>3. flag \in [1..0 -> Kinds]
  BY <1>1
<1>4. \A kind : Flagged(flag, kind) = {}
  BY <1>2 DEF Flagged
<1>5. \A kind, w : w \in Nat => Agrees(runs, flag, kind, <<>>, w)
  BY <1>4, NoGroup
<1> QED
  BY <1>1, <1>2, <1>3, <1>5 DEF PlanInv

\* The runs are found before any group is: no flag, no list.
LEMMA RunsStep == PlanInv /\ PrepareRuns => PlanInv'
<1> SUFFICES ASSUME PlanInv, PrepareRuns PROVE PlanInv'
  OBVIOUS
<1>1. PICK found : runs' = IF Len(found) \in 0..MaxRuns THEN found ELSE <<>>
  BY DEF PrepareRuns
<1>2. Len(runs') \in Nat
  <2>1. MaxRuns \in Nat
    BY DEF MaxRuns
  <2>2. CASE Len(found) \in 0..MaxRuns
    BY <1>1, <2>1, <2>2
  <2>3. CASE Len(found) \notin 0..MaxRuns
    <3>1. runs' = <<>>
      BY <1>1, <2>3
    <3> QED
      BY <3>1
  <2> QED
    BY <2>2, <2>3
<1>3. flag' = [j \in 1..Len(runs') |-> "none"]
  BY DEF PrepareRuns
<1>4. flag' \in [1..Len(runs') -> Kinds]
  BY <1>3 DEF Kinds
<1>5. \A kind \in Kinds \ {"none"} : Flagged(flag', kind) = {}
  BY <1>3 DEF Flagged
<1>6. groups' = <<>> /\ phases' = <<>> /\ triples' = <<>> /\ pc' # "runs"
  BY DEF PrepareRuns, Continue, PlanInv
<1>7. \A kind \in Kinds \ {"none"}, w \in Nat : Agrees(runs', flag', kind, <<>>, w)
  BY <1>5, NoGroup
<1> QED
  BY <1>2, <1>4, <1>6, <1>7 DEF PlanInv, Kinds

-----------------------------------------------------------------------------

\* What a lane is chosen from: runs of its slot that no group has.
LEMMA FreeFacts ==
  ASSUME PlanInv, NEW slot, NEW down
  PROVE  /\ Free(slot, down) \subseteq 1..Len(runs)
         /\ Free(slot, down) \subseteq Nat
         /\ \A j \in Free(slot, down) :
              flag[j] = "none" /\ Slot(runs[j]) = slot
<1>1. Len(runs) \in Nat
  BY DEF PlanInv
<1> QED
  BY <1>1 DEF Free, Indices

\* A step finds group e of the runs m.
Found(kind, m, e, w) ==
  /\ DOMAIN m = 1..w
  /\ \A k \in 1..w : m[k] \in 1..Len(runs) /\ flag[m[k]] = "none"
  /\ \A k, l \in 1..w : m[k] = m[l] => k = l
  /\ flag' = Taken(Elements(m), kind) /\ runs' = runs
  /\ e.first = Firsts(m)

\* What such a step does to the lists of all kinds.
LEMMA Grouped ==
  ASSUME PlanInv, NEW kind, kind \in Kinds, kind # "none", NEW w \in Nat, NEW m, NEW e,
         Found(kind, m, e, w), NEW list, Agrees(runs, flag, kind, list, w)
  PROVE  /\ Len(runs') \in Nat /\ flag' \in [1..Len(runs') -> Kinds]
         /\ Agrees(runs', flag', kind, Append(list, e), w)
         /\ \A other \in Kinds \ {"none", kind} : \A l, v :
              Agrees(runs, flag, other, l, v) => Agrees(runs', flag', other, l, v)
<1>1. Len(runs) \in Nat /\ flag \in [1..Len(runs) -> Kinds] /\ runs' = runs
  BY DEF PlanInv, Found
<1>2. flag' = [j \in 1..Len(runs) |-> IF j \in Elements(m) THEN kind ELSE flag[j]]
  BY DEF Found, Taken, Indices
<1>3. DOMAIN flag = 1..Len(runs)
  BY <1>1
<1>4. DOMAIN e.first = 1..w /\ \A k \in 1..w : e.first[k] = runs[m[k]].first
  BY DEF Found, Firsts
<1>5. Takes(runs, flag, flag', kind, m, e, w)
  BY <1>2, <1>3, <1>4 DEF Takes, Found
<1>6. Agrees(runs, flag', kind, Append(list, e), w)
  BY <1>1, <1>5, OneMore
<1>7. /\ flag' \in [1..Len(runs) -> Kinds]
      /\ \A other \in Kinds \ {"none", kind} : Flagged(flag', other) = Flagged(flag, other)
  <2>1. PICK n : n = Len(runs)
    OBVIOUS
  <2>2. n \in Nat /\ flag \in [1..n -> Kinds]
    BY <1>1, <2>1
  <2>3. flag' \in [1..n -> Kinds]
    BY <1>5, <2>2, OthersStay
  <2>4. \A other \in Kinds \ {"none", kind} : Flagged(flag', other) = Flagged(flag, other)
    BY <1>5, <2>2, OthersStay
  <2> QED
    BY <2>1, <2>3, <2>4
<1>8. \A other \in Kinds \ {"none", kind} : \A l, v :
        Agrees(runs, flag, other, l, v) => Agrees(runs, flag', other, l, v)
  BY <1>7 DEF Agrees
<1> QED
  BY <1>1, <1>6, <1>7, <1>8

\* The lanes of an exact group are of the slots 0 to 3.
LEMMA GroupStep == PlanInv /\ FindGroup => PlanInv'
<1> SUFFICES ASSUME PlanInv, FindGroup PROVE PlanInv'
  OBVIOUS
<1>1. /\ pc = "groups" /\ base \in 1..Len(runs) /\ runs' = runs /\ pc' = pc
      /\ phases' = phases /\ triples' = triples
  BY DEF FindGroup, Indices, Advance, Leave
<1>2. CASE UNCHANGED <<groups, flag>>
  BY <1>1, <1>2 DEF PlanInv
<1>3. CASE ~UNCHANGED <<groups, flag>>
  <2>1. PICK m : m = [k \in 1..4 |-> Least(Fellows(base, k - 1))]
    OBVIOUS
  <2>2. PICK e : e = [first |-> Firsts(m), count |-> runs[base].count,
                      dest |-> Top(runs[base])]
    OBVIOUS
  <2>3. /\ ExactGroup(base) /\ groups' = Append(groups, e)
        /\ flag' = Taken({m[k] : k \in 1..4}, "exact")
    BY <1>1, <1>3, <2>1, <2>2 DEF FindGroup
  <2>4. ASSUME NEW k \in 1..4
        PROVE  m[k] \in 1..Len(runs) /\ flag[m[k]] = "none" /\ Slot(runs[m[k]]) = k - 1
    <3>1. PICK S : S = Fellows(base, k - 1)
      OBVIOUS
    <3>2. S # {}
      <4>1. k - 1 \in 0..3
        OBVIOUS
      <4> QED
        BY <2>3, <3>1, <4>1 DEF ExactGroup
    <3>3. S \subseteq Free(k - 1, TRUE) \cup Free(k - 1, FALSE)
      BY <3>1 DEF Fellows
    <3>4. /\ S \subseteq 1..Len(runs)
          /\ \A j \in S : flag[j] = "none" /\ Slot(runs[j]) = k - 1
      BY <3>3, FreeFacts
    <3>5. m[k] = Least(S)
      BY <2>1, <3>1
    <3>6. S \subseteq Nat
      BY <3>4
    <3>7. m[k] \in S
      BY <3>2, <3>5, <3>6, LeastIn
    <3> QED
      BY <3>4, <3>7
  <2>5. \A k, l \in 1..4 : m[k] = m[l] => k = l
    <3> SUFFICES ASSUME NEW k \in 1..4, NEW l \in 1..4, m[k] = m[l] PROVE k = l
      OBVIOUS
    <3>1. k - 1 = l - 1
      BY <2>4
    <3> QED
      BY <3>1
  <2>6. DOMAIN m = 1..4
    BY <2>1
  <2>7. flag' = Taken(Elements(m), "exact")
    BY <2>3, <2>6 DEF Elements
  <2>8. e.first = Firsts(m)
    BY <2>2
  <2>9. Agrees(runs, flag, "exact", groups, 4) /\ "exact" \in Kinds /\ 4 \in Nat
    BY DEF PlanInv, Kinds
  <2>10. /\ Len(runs') \in Nat /\ flag' \in [1..Len(runs') -> Kinds]
         /\ Agrees(runs', flag', "exact", groups', 4)
         /\ \A other \in Kinds \ {"none", "exact"} : \A l, v :
              Agrees(runs, flag, other, l, v) => Agrees(runs', flag', other, l, v)
    <3>1. Found("exact", m, e, 4)
      BY <1>1, <2>4, <2>5, <2>6, <2>7, <2>8 DEF Found
    <3> QED
      BY <2>3, <2>9, <3>1, Grouped
  <2>11. Agrees(runs', flag', "phase", phases, 4) /\ Agrees(runs', flag', "triple", triples, 3)
    BY <2>10 DEF PlanInv, Kinds
  <2> QED
    BY <1>1, <2>10, <2>11 DEF PlanInv
<1> QED
  BY <1>2, <1>3

\* The phase groups are given up: their runs are free again.
LEMMA GivenUp ==
  ASSUME PlanInv, runs' = runs,
         flag' = [j \in 1..Len(runs) |-> IF flag[j] = "phase" THEN "none" ELSE flag[j]]
  PROVE  /\ Len(runs') \in Nat /\ flag' \in [1..Len(runs') -> Kinds]
         /\ Agrees(runs', flag', "exact", groups, 4)
         /\ Agrees(runs', flag', "phase", <<>>, 4)
         /\ Agrees(runs', flag', "triple", triples, 3)
<1>1. PICK n \in Nat : n = Len(runs)
  BY DEF PlanInv
<1>2. flag \in [1..n -> Kinds] /\ DOMAIN flag' = 1..n
  BY <1>1 DEF PlanInv
<1>3. \A j \in 1..n : flag'[j] = IF flag[j] = "phase" THEN "none" ELSE flag[j]
  BY <1>1
<1>4. flag' \in [1..n -> Kinds]
  BY <1>1, <1>2 DEF Kinds
<1>5. Flagged(flag', "phase") = {}
  BY <1>2, <1>3 DEF Flagged
<1>6. Flagged(flag', "exact") = Flagged(flag, "exact")
  BY <1>2, <1>3 DEF Flagged
<1>7. Flagged(flag', "triple") = Flagged(flag, "triple")
  BY <1>2, <1>3 DEF Flagged
<1>8. Agrees(runs', flag', "phase", <<>>, 4)
  BY <1>5, NoGroup
<1>9. Agrees(runs', flag', "exact", groups, 4) /\ Agrees(runs', flag', "triple", triples, 3)
  BY <1>6, <1>7 DEF Agrees, PlanInv
<1> QED
  BY <1>1, <1>4, <1>8, <1>9

\* So are those of a phase group; or all phase groups are given up.
LEMMA PhaseStep == PlanInv /\ FindPhase => PlanInv'
<1> SUFFICES ASSUME PlanInv, FindPhase PROVE PlanInv'
  OBVIOUS
<1>1. /\ pc = "phases" /\ base \in 1..Len(runs) /\ runs' = runs /\ pc' = pc
      /\ groups' = groups /\ triples' = triples
  BY DEF FindPhase, Indices, Advance, Leave
<1> DEFINE across == Least(Across(base))
           m == <<base, across, Least(Upward(base)), Least(Mates(across))>>
           e == [first |-> Firsts(m), dest |-> OverlapTop(base, across),
                 shifted |-> IF Top(runs[base]) < Top(runs[across])
                             THEN {0, 2} ELSE {1, 3}]
<1>2. CASE UNCHANGED <<phases, flag>>
  BY <1>1, <1>2 DEF PlanInv
<1>3. CASE /\ phases' = <<>>
           /\ flag' = [j \in 1..Len(runs) |-> IF flag[j] = "phase" THEN "none" ELSE flag[j]]
  <2>1. /\ Len(runs') \in Nat /\ flag' \in [1..Len(runs') -> Kinds]
        /\ Agrees(runs', flag', "exact", groups, 4)
        /\ Agrees(runs', flag', "phase", <<>>, 4)
        /\ Agrees(runs', flag', "triple", triples, 3)
    BY <1>1, <1>3, GivenUp
  <2> QED
    BY <1>1, <1>3, <2>1 DEF PlanInv
<1>4. CASE /\ PhaseGroup(base) /\ phases' = Append(phases, e)
           /\ flag' = Taken({m[k] : k \in 1..4}, "phase")
  <2>1. base \in 1..Len(runs) /\ flag[base] = "none" /\ Slot(runs[base]) = 0
    BY <1>4, FreeFacts DEF PhaseGroup
  <2>2. /\ across \in 1..Len(runs) /\ flag[across] = "none" /\ Slot(runs[across]) = 1
        /\ Mates(across) # {}
    <3>1. PICK S : S = Across(base)
      OBVIOUS
    <3>2. S # {} /\ S \subseteq Free(1, TRUE) /\ \A j \in S : Mates(j) # {}
      BY <1>4, <3>1 DEF PhaseGroup, Across
    <3>3. S \subseteq Nat
      BY <3>2, FreeFacts
    <3>4. across \in S
      BY <3>1, <3>2, <3>3, LeastIn
    <3> QED
      BY <3>2, <3>4, FreeFacts
  <2> HIDE DEF across
  <2>3. PICK up : up = Least(Upward(base))
    OBVIOUS
  <2>4. up \in 1..Len(runs) /\ flag[up] = "none" /\ Slot(runs[up]) = 2
    <3>1. PICK S : S = Upward(base)
      OBVIOUS
    <3>2. S # {} /\ S \subseteq Free(2, FALSE)
      BY <1>4, <3>1 DEF PhaseGroup, Upward
    <3>3. S \subseteq Nat
      BY <3>2, FreeFacts
    <3>4. up \in S
      BY <2>3, <3>1, <3>2, <3>3, LeastIn
    <3> QED
      BY <3>2, <3>4, FreeFacts
  <2>5. PICK mate : mate = Least(Mates(across))
    OBVIOUS
  <2>6. mate \in 1..Len(runs) /\ flag[mate] = "none" /\ Slot(runs[mate]) = 3
    <3>1. PICK S : S = Mates(across)
      OBVIOUS
    <3>2. S # {} /\ S \subseteq Free(3, TRUE)
      BY <2>2, <3>1 DEF Mates
    <3>3. S \subseteq Nat
      BY <3>2, FreeFacts
    <3>4. mate \in S
      BY <2>5, <3>1, <3>2, <3>3, LeastIn
    <3> QED
      BY <3>2, <3>4, FreeFacts
  <2>7. PICK g : g = m
    OBVIOUS
  <2>8. DOMAIN g = 1..4 /\ g[1] = base /\ g[2] = across /\ g[3] = up /\ g[4] = mate
    BY <2>3, <2>5, <2>7
  <2>9. \A k \in 1..4 : k = 1 \/ k = 2 \/ k = 3 \/ k = 4
    OBVIOUS
  <2>10. \A k \in 1..4 : /\ g[k] \in 1..Len(runs) /\ flag[g[k]] = "none"
                         /\ Slot(runs[g[k]]) = k - 1
    <3>1. /\ Slot(runs[g[1]]) = 1 - 1 /\ Slot(runs[g[2]]) = 2 - 1
          /\ Slot(runs[g[3]]) = 3 - 1 /\ Slot(runs[g[4]]) = 4 - 1
      BY <2>1, <2>2, <2>4, <2>6, <2>8
    <3> QED
      BY <2>1, <2>2, <2>4, <2>6, <2>8, <2>9, <3>1
  <2>11. \A k, l \in 1..4 : g[k] = g[l] => k = l
    <3> SUFFICES ASSUME NEW k \in 1..4, NEW l \in 1..4, g[k] = g[l] PROVE k = l
      OBVIOUS
    <3>1. k - 1 = l - 1
      BY <2>10
    <3> QED
      BY <3>1
  <2>12. flag' = Taken(Elements(g), "phase")
    BY <1>4, <2>7, <2>8 DEF Elements
  <2>13. PICK h : h = e
    OBVIOUS
  <2>14. h.first = Firsts(g) /\ phases' = Append(phases, h)
    BY <1>4, <2>7, <2>13
  <2>15. Found("phase", g, h, 4)
    BY <1>1, <2>8, <2>10, <2>11, <2>12, <2>14 DEF Found
  <2>16. Agrees(runs, flag, "phase", phases, 4) /\ "phase" \in Kinds /\ 4 \in Nat
    BY DEF PlanInv, Kinds
  <2>17. /\ Len(runs') \in Nat /\ flag' \in [1..Len(runs') -> Kinds]
         /\ Agrees(runs', flag', "phase", phases', 4)
         /\ \A other \in Kinds \ {"none", "phase"} : \A l, v :
              Agrees(runs, flag, other, l, v) => Agrees(runs', flag', other, l, v)
    BY <2>14, <2>15, <2>16, Grouped
  <2>18. Agrees(runs', flag', "exact", groups, 4) /\ Agrees(runs', flag', "triple", triples, 3)
    BY <2>17 DEF PlanInv, Kinds
  <2> QED
    BY <1>1, <2>17, <2>18 DEF PlanInv
<1>5. QED
  <2> HIDE DEF e, m, across
  <2>1. \/ UNCHANGED <<phases, flag>>
        \/ /\ phases' = <<>>
           /\ flag' = [j \in 1..Len(runs) |-> IF flag[j] = "phase" THEN "none" ELSE flag[j]]
        \/ /\ PhaseGroup(base) /\ phases' = Append(phases, e)
           /\ flag' = Taken({m[k] : k \in 1..4}, "phase")
    BY DEF FindPhase, Indices, e, m, across
  <2> QED
    BY <1>2, <1>3, <1>4, <2>1

\* The lanes of a triple are of the slots 1 to 3.
LEMMA TripleStep == PlanInv /\ FindTriple => PlanInv'
<1> SUFFICES ASSUME PlanInv, FindTriple PROVE PlanInv'
  OBVIOUS
<1>1. /\ pc = "triples" /\ base \in 1..Len(runs) /\ runs' = runs /\ pc' = pc
      /\ groups' = groups /\ phases' = phases
  BY DEF FindTriple, Indices, Advance, Leave
<1>2. CASE UNCHANGED <<triples, flag>>
  BY <1>1, <1>2 DEF PlanInv
<1>3. CASE ~UNCHANGED <<triples, flag>>
  <2>1. PICK m : m = <<base, Greatest(Third(base, 2)),
                       Greatest(Third(base, 3))>>
    OBVIOUS
  <2>2. PICK e : e = [first |-> Firsts(m), count |-> runs[base].count,
                      dest |-> Top(runs[base])]
    OBVIOUS
  <2>3. /\ base \in Free(1, TRUE) /\ Third(base, 2) # {}
        /\ Third(base, 3) # {} /\ triples' = Append(triples, e)
        /\ flag' = Taken({m[k] : k \in 1..3}, "triple")
    BY <1>1, <1>3, <2>1, <2>2 DEF FindTriple
  <2>4. base \in 1..Len(runs) /\ flag[base] = "none" /\ Slot(runs[base]) = 1
    BY <2>3, FreeFacts
  <2>5. ASSUME NEW lane \in {2, 3}
        PROVE  LET j == Greatest(Third(base, lane))
               IN  j \in 1..Len(runs) /\ flag[j] = "none" /\ Slot(runs[j]) = lane
    <3>1. PICK S : S = Third(base, lane)
      OBVIOUS
    <3>2. S # {} /\ S \subseteq Free(lane, Downward(lane))
      BY <2>3, <3>1 DEF Third
    <3>3. PICK n \in Nat : n = Len(runs)
      BY DEF PlanInv
    <3>4. S \subseteq 1..n /\ \A j \in S : flag[j] = "none" /\ Slot(runs[j]) = lane
      BY <3>2, <3>3, FreeFacts
    <3>5. Greatest(S) \in S
      BY <3>2, <3>4, GreatestIn
    <3> QED
      BY <3>1, <3>3, <3>4, <3>5
  <2>6. /\ DOMAIN m = 1..3 /\ m[1] = base /\ m[2] = Greatest(Third(base, 2))
        /\ m[3] = Greatest(Third(base, 3))
    BY <2>1
  <2>7. \A k \in 1..3 : k = 1 \/ k = 2 \/ k = 3
    OBVIOUS
  <2>8. \A k \in 1..3 : m[k] \in 1..Len(runs) /\ flag[m[k]] = "none" /\ Slot(runs[m[k]]) = k
    BY <2>4, <2>5, <2>6, <2>7
  <2>9. \A k, l \in 1..3 : m[k] = m[l] => k = l
    BY <2>8
  <2>10. flag' = Taken(Elements(m), "triple")
    BY <2>3, <2>6 DEF Elements
  <2>11. e.first = Firsts(m)
    BY <2>2
  <2>12. Found("triple", m, e, 3)
    BY <1>1, <2>6, <2>8, <2>9, <2>10, <2>11 DEF Found
  <2>13. Agrees(runs, flag, "triple", triples, 3) /\ "triple" \in Kinds /\ 3 \in Nat
    BY DEF PlanInv, Kinds
  <2>14. /\ Len(runs') \in Nat /\ flag' \in [1..Len(runs') -> Kinds]
         /\ Agrees(runs', flag', "triple", triples', 3)
         /\ \A other \in Kinds \ {"none", "triple"} : \A l, v :
              Agrees(runs, flag, other, l, v) => Agrees(runs', flag', other, l, v)
    BY <2>3, <2>12, <2>13, Grouped
  <2>15. Agrees(runs', flag', "exact", groups, 4) /\ Agrees(runs', flag', "phase", phases, 4)
    BY <2>14 DEF PlanInv, Kinds
  <2> QED
    BY <1>1, <2>14, <2>15 DEF PlanInv
<1> QED
  BY <1>2, <1>3

\* Every step keeps the invariant.
LEMMA PlanNext == PlanInv /\ [Next]_vars => PlanInv'
<1> SUFFICES ASSUME PlanInv, [Next]_vars PROVE PlanInv'
  OBVIOUS
<1>1. CASE PrepareRuns
  BY <1>1, RunsStep
<1>2. CASE FindGroup
  BY <1>2, GroupStep
<1>3. CASE FindPhase
  BY <1>3, PhaseStep
<1>4. CASE FindTriple
  BY <1>4, TripleStep
<1>5. CASE PrepareLut \/ EndPhases \/ EndTriples
  <2>1. /\ runs' = runs /\ flag' = flag /\ groups' = groups /\ phases' = phases
        /\ triples' = triples /\ pc' # "runs"
    BY <1>5 DEF PrepareLut, EndPhases, EndTriples, Continue
  <2> QED
    BY <2>1 DEF PlanInv
<1>6. CASE UNCHANGED vars
  BY <1>6 DEF PlanInv, vars
<1> QED
  BY <1>1, <1>2, <1>3, <1>4, <1>5, <1>6 DEF Next

\* The kinds are disjoint, and every run some group has is of one of them.
LEMMA PlanMatches == PlanInv => FlagsMatch
<1> SUFFICES ASSUME PlanInv PROVE FlagsMatch
  OBVIOUS
<1>1. Len(runs) \in Nat /\ flag \in [1..Len(runs) -> Kinds]
  BY DEF PlanInv
<1> DEFINE E == Flagged(flag, "exact")
           P == Flagged(flag, "phase")
           T == Flagged(flag, "triple")
           U == {j \in Indices : flag[j] # "none"}
<1>2. U = (E \cup P) \cup T
  BY <1>1 DEF Flagged, Kinds, Indices
<1>3. E \cap P = {} /\ (E \cup P) \cap T = {}
  BY DEF Flagged
<1>4. IsFiniteSet(E) /\ IsFiniteSet(P) /\ IsFiniteSet(T)
  BY <1>1, FlaggedFinite
<1>5. /\ FirstsOf(runs, E) = Named(groups) /\ Cardinality(E) = 4 * Len(groups)
      /\ FirstsOf(runs, P) = Named(phases) /\ Cardinality(P) = 4 * Len(phases)
      /\ FirstsOf(runs, T) = Named(triples) /\ Cardinality(T) = 3 * Len(triples)
  BY DEF PlanInv, Agrees
<1> HIDE DEF E, P, T
<1>6. IsFiniteSet(E \cup P) /\ Cardinality(E \cup P) = Cardinality(E) + Cardinality(P)
  BY <1>3, <1>4, DisjointSize
<1>7. Cardinality((E \cup P) \cup T) = Cardinality(E \cup P) + Cardinality(T)
  BY <1>3, <1>4, <1>6, DisjointSize
<1>8. Len(groups) \in Nat /\ Len(phases) \in Nat /\ Len(triples) \in Nat
  BY DEF PlanInv, Agrees
<1>9. Cardinality(U) = 4 * (Len(groups) + Len(phases)) + 3 * Len(triples)
  <2>1. PICK a, b, c : a = Len(groups) /\ b = Len(phases) /\ c = Len(triples)
    OBVIOUS
  <2>2. a \in Nat /\ b \in Nat /\ c \in Nat
    BY <1>8, <2>1
  <2> HIDE DEF U
  <2>3. Cardinality(U) = (4 * a + 4 * b) + 3 * c
    BY <1>2, <1>5, <1>6, <1>7, <2>1
  <2>4. (4 * a + 4 * b) + 3 * c = 4 * (a + b) + 3 * c
    BY <2>2
  <2> QED
    BY <2>1, <2>3, <2>4
<1>10. FirstsOf(runs, U) = (Named(groups) \cup Named(phases)) \cup Named(triples)
  <2>1. \A A, B : FirstsOf(runs, A \cup B) = FirstsOf(runs, A) \cup FirstsOf(runs, B)
    BY DEF FirstsOf
  <2> HIDE DEF U
  <2>2. FirstsOf(runs, U) = FirstsOf(runs, E \cup P) \cup FirstsOf(runs, T)
    BY <1>2, <2>1
  <2>3. FirstsOf(runs, E \cup P) = FirstsOf(runs, E) \cup FirstsOf(runs, P)
    BY <2>1
  <2> QED
    BY <1>5, <2>2, <2>3
<1>11. {runs[j].first : j \in U} = FirstsOf(runs, U)
  BY DEF FirstsOf
<1>12. UNION {{g.first[k] : k \in DOMAIN g.first} :
                g \in {groups[n] : n \in DOMAIN groups}
                        \cup {phases[n] : n \in DOMAIN phases}
                        \cup {triples[n] : n \in DOMAIN triples}}
         = (Named(groups) \cup Named(phases)) \cup Named(triples)
  BY DEF Named, Elements
<1> QED
  BY <1>9, <1>10, <1>11, <1>12 DEF FlagsMatch

\* A run is left out of the run-by-run drawing exactly when one group draws it, also
\* after the phase groups have been given up (vga.c:657-919, 2191-2210).
THEOREM PlanFlags == Spec => []FlagsMatch
<1>1. Spec => []PlanInv
  BY PlanInit, PlanNext, PTL DEF Spec
<1> QED
  BY <1>1, PlanMatches, PTL

-----------------------------------------------------------------------------
(* The clock.                                                              *)

CONSTANTS Period, Day, Word, Holds
VARIABLES clock, timer, symbol, past, shown

Clock == INSTANCE Ticks

-----------------------------------------------------------------------------
(* Remainders.                                                             *)

LEMMA DivMod ==
  ASSUME NEW a \in Int, NEW w \in Nat \ {0}
  PROVE  a % w \in 0..w - 1 /\ \E k \in Int : a = k * w + (a % w)
<1>1. a \div w \in Int /\ a % w \in 0..w - 1
  BY SMT
<1>2. a = (a \div w) * w + (a % w)
  BY SMT
<1>3. QED
  BY <1>1, <1>2

LEMMA Small ==
  ASSUME NEW w \in Nat \ {0}, NEW a \in 0..w - 1
  PROVE  a % w = a
BY SMT

LEMMA Unique ==
  ASSUME NEW w \in Nat \ {0}, NEW k \in Int, NEW r \in 0..w - 1,
         NEW l \in Int, NEW q \in 0..w - 1, k * w + r = l * w + q
  PROVE  r = q
<1>1. CASE k = l
  BY <1>1
<1>2. CASE k > l
  <2>1. (k - l) * w >= w
    BY <1>2
  <2>2. (k - l) * w = q - r
    OBVIOUS
  <2>3. QED
    BY <2>1, <2>2
<1>3. CASE k < l
  <2>1. (l - k) * w >= w
    BY <1>3
  <2>2. (l - k) * w = r - q
    OBVIOUS
  <2>3. QED
    BY <2>1, <2>2
<1>4. QED
  BY <1>1, <1>2, <1>3

\* Whole words do not change the remainder.
LEMMA Same ==
  ASSUME NEW a \in Int, NEW k \in Int, NEW w \in Nat \ {0}
  PROVE  (a + k * w) % w = a % w
<1> DEFINE b == a + k * w
<1>1. b \in Int
  OBVIOUS
<1>2. PICK i \in Int : a = i * w + (a % w)
  BY DivMod
<1>3. \E j \in Int : b = j * w + (b % w)
  <2> HIDE DEF b
  <2>1. QED
    BY <1>1, DivMod
<1>4. PICK j \in Int : b = j * w + (b % w)
  BY <1>3
<1>5. a % w \in 0..w - 1 /\ b % w \in 0..w - 1
  <2> HIDE DEF b
  <2>1. QED
    BY <1>1, DivMod
<1>6. (i + k) * w + (a % w) = j * w + (b % w)
  <2> DEFINE r == a % w
             q == b % w
  <2>1. r \in Int /\ q \in Int /\ a = i * w + r /\ b = j * w + q
    BY <1>2, <1>4, <1>5
  <2> HIDE DEF r, q
  <2>2. (i + k) * w + r = j * w + q
    BY <2>1
  <2>3. QED
    BY <2>2 DEF r, q
<1>7. a % w = b % w
  <2> HIDE DEF b
  <2>1. i + k \in Int
    OBVIOUS
  <2>2. QED
    BY <1>5, <1>6, <2>1, Unique
<1>8. QED
  BY <1>7

\* A sum may be reduced before it is complete.
LEMMA Reduce ==
  ASSUME NEW a \in Int, NEW b \in Int, NEW w \in Nat \ {0}
  PROVE  ((a % w) + b) % w = (a + b) % w
<1>1. PICK k \in Int : a = k * w + (a % w)
  BY DivMod
<1>2. a % w \in Int
  BY DivMod
<1>3. \A r \in Int : a = k * w + r => a + b = (r + b) + k * w
  OBVIOUS
<1>4. a + b = ((a % w) + b) + k * w
  BY <1>1, <1>2, <1>3
<1> DEFINE c == (a % w) + b
<1>5. c \in Int
  BY <1>2
<1>6. (c + k * w) % w = c % w
  <2> HIDE DEF c
  <2>1. QED
    BY <1>5, Same
<1>7. QED
  BY <1>4, <1>6

\* As does a difference, on either side.
LEMMA ReduceLess ==
  ASSUME NEW a \in Int, NEW b \in Int, NEW w \in Nat \ {0}
  PROVE  ((a % w) - (b % w)) % w = (a - b) % w
<1>1. PICK k \in Int : a = k * w + (a % w)
  BY DivMod
<1>2. PICK l \in Int : b = l * w + (b % w)
  BY DivMod
<1>3. a % w \in Int /\ b % w \in Int
  BY DivMod
<1>4. \A r, q \in Int : a = k * w + r /\ b = l * w + q => a - b = (r - q) + (k - l) * w
  OBVIOUS
<1>5. a - b = ((a % w) - (b % w)) + (k - l) * w
  BY <1>1, <1>2, <1>3, <1>4
<1> DEFINE c == (a % w) - (b % w)
           j == k - l
<1>6. c \in Int /\ j \in Int
  BY <1>3
<1>7. (c + j * w) % w = c % w
  <2> HIDE DEF c, j
  <2>1. QED
    BY <1>6, Same
<1>8. QED
  BY <1>5, <1>7

-----------------------------------------------------------------------------
(* The invariant.                                                          *)

Typed ==
  /\ clock \in [periods : Nat, phase : 0..Period - 1, served : Int, bios : 0..Day - 1]
  /\ Clock!Late \in 0..1
  /\ timer \in [initialized : BOOLEAN, last_bios_tick : 0..Day - 1,
                last_phase : 0..Period - 1, pending_bios_tick : 0..1,
                total : 0..Word - 1]
  /\ symbol \in [pc : {"idle", "waiting", "due", "flipped"}, last_visible : 0..Word - 1,
                 hold : Nat, earliest : 0..Word - 1]
  /\ past \in [first : Int, lateFirst : 0..1, at : Int, late : 0..1, served : Int,
               seen : Nat]
  /\ shown \in [flip : Int, at : Int, seen : Nat]

Unread ==
  ~timer.initialized => timer.total = 0 /\ timer.pending_bios_tick = 0

\* What the last reading knew: how far its count is from the time that had
\* passed, and how far the BIOS has come since.
Counted ==
  timer.initialized =>
    /\ past.at = (past.served + past.late) * Period + timer.last_phase
    /\ past.seen - (past.at - past.first) =
         (timer.pending_bios_tick - past.late + past.lateFirst) * Period
    /\ timer.pending_bios_tick <= past.late
    /\ timer.total = past.seen % Word
    /\ clock.served - past.served \in 0..Day - 1
    /\ \/ clock.bios = timer.last_bios_tick + (clock.served - past.served)
       \/ clock.bios = timer.last_bios_tick + (clock.served - past.served) - Day
    /\ past.served + past.late <= clock.periods
    /\ past.served + past.late = clock.periods => timer.last_phase <= clock.phase

\* What the reading after a flip knew, and the deadline made from it.
Stamped ==
  symbol.last_visible # 0 =>
    /\ timer.initialized
    /\ symbol.last_visible = shown.seen % Word
    /\ shown.seen - (shown.at - past.first) >= (past.lateFirst - 1) * Period
    /\ shown.seen <= past.seen
    /\ symbol.pc # "flipped" => shown.flip <= shown.at

Deadline ==
  symbol.pc \in {"waiting", "due"} /\ symbol.earliest # 0 =>
    /\ symbol.last_visible # 0
    /\ 2 * symbol.hold <= Word
    /\ symbol.earliest = (symbol.last_visible + symbol.hold) % Word
    /\ symbol.pc = "due" => past.seen >= shown.seen + symbol.hold

\* The last flip is not in the future.
Flipped == shown.flip <= Clock!Now

ClockInv == Typed /\ Unread /\ Counted /\ Stamped /\ Deadline /\ Flipped

-----------------------------------------------------------------------------
(* A reading.                                                              *)

LEMMA Products ==
  ASSUME NEW p \in Nat, NEW a \in Int, NEW b \in Int
  PROVE  /\ (a + b) * p = a * p + b * p
         /\ (a - b) * p = a * p - b * p
         /\ a * p \in Int
         /\ a <= b => a * p <= b * p
<1>1. (a + b) * p = a * p + b * p /\ (a - b) * p = a * p - b * p /\ a * p \in Int
  OBVIOUS
<1>2. ASSUME a <= b
      PROVE  a * p <= b * p
  <2>1. (b - a) * p >= 0
    BY <1>2
  <2>2. QED
    BY <2>1
<1>3. QED
  BY <1>1, <1>2

LEMMA BiosCounts ==
  ASSUME Clock!TicksAssumption, Typed, Counted, timer.initialized
  PROVE  Clock!BiosDelta = clock.served - past.served
<1> DEFINE d == clock.served - past.served
<1>1. Day \in Nat /\ clock.bios \in 0..Day - 1 /\ timer.last_bios_tick \in 0..Day - 1
  BY DEF Clock!TicksAssumption, Typed
<1>2. /\ d \in 0..Day - 1
      /\ \/ clock.bios = timer.last_bios_tick + d
         \/ clock.bios = timer.last_bios_tick + d - Day
  BY DEF Counted
<1> HIDE DEF d
<1>3. Clock!BiosDelta = d
  BY <1>1, <1>2 DEF Clock!BiosDelta
<1>4. QED
  BY <1>3 DEF d

\* The periods a reading adds.
Wraps == IF Clock!Ahead THEN 1 ELSE Clock!Uncounted
Pending == IF Clock!Ahead THEN 1 ELSE IF Clock!BiosDelta > 0 THEN 0 ELSE timer.pending_bios_tick

\* A period is counted ahead of its interrupt only when that is late, and once.
LEMMA PeriodsCounted ==
  ASSUME Clock!TicksAssumption, Typed, Counted, timer.initialized
  PROVE  /\ Wraps \in Nat
         /\ Pending \in 0..Clock!Late
         /\ past.served + timer.pending_bios_tick + Wraps = clock.served + Pending
         /\ clock.phase < timer.last_phase => Wraps >= 1
<1>1. Clock!BiosDelta = clock.served - past.served
  BY BiosCounts
<1>2. clock.phase \in Nat /\ timer.last_phase \in Nat /\ clock.served \in Int
      /\ past.served \in Int /\ past.late \in 0..1 /\ timer.pending_bios_tick \in 0..1
      /\ clock.periods \in Nat /\ Clock!Late \in 0..1
  BY DEF Typed, Clock!TicksAssumption
<1>3. /\ timer.pending_bios_tick <= past.late
      /\ clock.served - past.served \in Nat
      /\ past.served + past.late <= clock.periods
      /\ past.served + past.late = clock.periods => timer.last_phase <= clock.phase
  <2>1. Day \in Nat
    BY DEF Clock!TicksAssumption
  <2>2. clock.served - past.served \in 0..Day - 1
    BY DEF Counted
  <2>3. QED
    BY <2>1, <2>2 DEF Counted
<1>4. CASE Clock!Ahead
  <2>1. Wraps = 1 /\ Pending = 1
    BY <1>4 DEF Wraps, Pending
  <2>2. clock.phase < timer.last_phase /\ Clock!Uncounted = 0
    BY <1>4 DEF Clock!Ahead
  <2>3. \/ clock.served = past.served
        \/ clock.served = past.served + timer.pending_bios_tick
    BY <1>1, <1>2, <1>3, <2>2 DEF Clock!Uncounted
  <2>4. past.served + past.late + 1 <= clock.periods
    BY <1>2, <1>3, <2>2
  <2>5. Clock!Late = clock.periods - clock.served
    BY DEF Clock!Late
  <2>6. Clock!Late = 1 /\ past.served + timer.pending_bios_tick = clock.served
    BY <1>2, <1>3, <2>3, <2>4, <2>5
  <2>7. QED
    BY <1>2, <2>1, <2>6
<1>5. CASE ~Clock!Ahead
  BY <1>1, <1>2, <1>3, <1>5 DEF Wraps, Pending, Clock!Ahead, Clock!Uncounted, Clock!Late
<1>6. QED
  BY <1>4, <1>5

LEMMA NowTyped ==
  ASSUME Clock!TicksAssumption, Typed
  PROVE  Clock!Now \in Nat
<1>1. clock.periods \in Nat /\ clock.phase \in Nat /\ Period \in Nat
  BY DEF Typed, Clock!TicksAssumption
<1>2. QED
  BY <1>1 DEF Clock!Now

\* The last reading is not in the future.
LEMMA NotAhead ==
  ASSUME Clock!TicksAssumption, Typed, Counted, timer.initialized
  PROVE  past.at <= Clock!Now
<1> DEFINE a == past.served + past.late
<1>1. a \in Int /\ clock.periods \in Int /\ Period \in Nat /\ a <= clock.periods
      /\ clock.phase \in 0..Period - 1 /\ timer.last_phase \in 0..Period - 1
  BY DEF Typed, Counted, Clock!TicksAssumption
<1>2. past.at = a * Period + timer.last_phase
  BY DEF Counted
<1>3. CASE a = clock.periods
  BY <1>1, <1>2, <1>3 DEF Counted, Clock!Now
<1>4. CASE a + 1 <= clock.periods
  <2> HIDE DEF a
  <2>1. (a + 1) * Period <= clock.periods * Period
    BY <1>1, <1>4, Products
  <2>2. (a + 1) * Period = a * Period + Period
    BY <1>1
  <2>3. a * Period \in Int /\ clock.periods * Period \in Int
    BY <1>1
  <2>4. QED
    BY <1>1, <1>2, <2>1, <2>2, <2>3 DEF Clock!Now
<1>5. QED
  BY <1>1, <1>3, <1>4

\* What a reading adds is never negative, and keeps the distance.
LEMMA DeltaCounts ==
  ASSUME Clock!TicksAssumption, Typed, Counted, timer.initialized
  PROVE  /\ Clock!Delta \in Nat
         /\ (past.seen + Clock!Delta) - (Clock!Now - past.first)
              = (Pending - Clock!Late + past.lateFirst) * Period
<1> DEFINE sp == past.served
           lp == past.late
           pn == timer.pending_bios_tick
           lf == past.lateFirst
           P == Period
           W == Wraps
<1>1. sp \in Int /\ lp \in Int /\ pn \in Int /\ lf \in Int /\ P \in Nat \ {0}
      /\ clock.phase \in 0..P - 1 /\ timer.last_phase \in 0..P - 1
      /\ clock.periods \in Int /\ clock.served \in Int
      /\ past.first \in Int /\ past.seen \in Int /\ past.at \in Int
  BY DEF Typed, Clock!TicksAssumption
<1>2. W \in Nat /\ Pending \in Int /\ sp + pn + W = clock.served + Pending
      /\ (clock.phase < timer.last_phase => W >= 1)
  <2>1. Clock!Late \in 0..1
    BY DEF Typed
  <2>2. QED
    BY <2>1, PeriodsCounted
<1>3. Clock!Delta = W * P + clock.phase - timer.last_phase
  BY DEF Clock!Delta, Wraps
<1>4. past.at = (sp + lp) * P + timer.last_phase
      /\ past.seen - (past.at - past.first) = (pn - lp + lf) * P
  BY DEF Counted
<1>5. Clock!Delta \in Nat
  <2> DEFINE D == W * P
  <2>1. D \in Nat /\ (W >= 1 => D >= P)
    <3> HIDE DEF W, P
    <3>1. W * P \in Int
      BY <1>1, <1>2
    <3>2. 0 * P <= W * P /\ (1 <= W => 1 * P <= W * P)
      BY <1>1, <1>2, Products
    <3>3. 0 * P = 0 /\ 1 * P = P
      BY <1>1
    <3>4. QED
      BY <1>1, <1>2, <3>1, <3>2, <3>3
  <2> HIDE DEF W, P, D
  <2>2. Clock!Delta = D + clock.phase - timer.last_phase
    BY <1>3 DEF D
  <2>3. QED
    BY <1>1, <1>2, <2>1, <2>2
<1>6. Clock!Now = clock.periods * P + clock.phase
  BY DEF Clock!Now
<1>7. (past.seen + Clock!Delta) - (Clock!Now - past.first) = (Pending - Clock!Late + lf) * P
  <2> DEFINE k == pn - lp + lf
             a == sp + lp
             e == Pending - Clock!Late + lf
  <2>1. k \in Int /\ a \in Int /\ e \in Int /\ W \in Int /\ clock.periods \in Int
        /\ k + a + W = e + clock.periods
    <3>1. Clock!Late = clock.periods - clock.served
      BY DEF Clock!Late
    <3> HIDE DEF W, P
    <3>2. QED
      BY <1>1, <1>2, <3>1
  <2>2. past.at = a * P + timer.last_phase /\ past.seen - (past.at - past.first) = k * P
    BY <1>4
  <2> HIDE DEF k, a, e, W, P, sp, lp, pn
  <2>3. (k + a + W) * P = k * P + a * P + W * P
    <3>1. k + a \in Int
      BY <2>1
    <3>2. (k + a + W) * P = (k + a) * P + W * P /\ (k + a) * P = k * P + a * P
      BY <1>1, <2>1, <3>1, Products
    <3>3. QED
      BY <3>2
  <2>4. (e + clock.periods) * P = e * P + clock.periods * P
    BY <1>1, <2>1, Products
  <2>5. k * P \in Int /\ a * P \in Int /\ W * P \in Int /\ e * P \in Int
        /\ clock.periods * P \in Int
    BY <1>1, <2>1, Products
  <2>6. k * P + a * P + W * P = e * P + clock.periods * P
    BY <2>1, <2>3, <2>4
  <2>7. (past.seen + Clock!Delta) - (Clock!Now - past.first) = e * P
    <3> DEFINE kp == k * P
               ap == a * P
               wp == W * P
               ep == e * P
               tp == clock.periods * P
    <3>1. kp \in Int /\ ap \in Int /\ wp \in Int /\ ep \in Int /\ tp \in Int
          /\ kp + ap + wp = ep + tp
      BY <2>5, <2>6
    <3>2. Clock!Delta = wp + clock.phase - timer.last_phase /\ Clock!Now = tp + clock.phase
          /\ past.at = ap + timer.last_phase
          /\ past.seen - (past.at - past.first) = kp
      BY <1>3, <1>6, <2>2
    <3>3. /\ clock.phase \in Int /\ timer.last_phase \in Int /\ past.at \in Int
          /\ past.first \in Int /\ past.seen \in Int
      BY <1>1
    <3> HIDE DEF kp, ap, wp, ep, tp
    <3>4. (past.seen + Clock!Delta) - (Clock!Now - past.first) = ep
      BY <3>1, <3>2, <3>3
    <3>5. QED
      BY <3>4 DEF ep
  <2>8. QED
    BY <2>7 DEF e
<1>8. QED
  BY <1>5, <1>7

LEMMA FirstCounts ==
  ASSUME Clock!TicksAssumption, Typed, Unread, Clock!FirstReading, clock' = clock
  PROVE  /\ timer' \in [initialized : BOOLEAN, last_bios_tick : 0..Day - 1,
                        last_phase : 0..Period - 1, pending_bios_tick : 0..1,
                        total : 0..Word - 1]
         /\ past' \in [first : Int, lateFirst : 0..1, at : Int, late : 0..1,
                       served : Int, seen : Nat]
         /\ timer'.initialized /\ Counted'
<1>1. /\ clock.periods \in Nat /\ clock.phase \in 0..Period - 1
      /\ clock.served \in Int /\ clock.bios \in 0..Day - 1 /\ Clock!Late \in 0..1
      /\ Period \in Nat \ {0} /\ Word \in Nat \ {0} /\ Day \in Nat \ {0}
      /\ timer.total = 0 /\ timer.pending_bios_tick = 0
  BY DEF Typed, Clock!TicksAssumption, Unread, Clock!FirstReading
<1>2. Clock!Now \in Int
  BY NowTyped
<1>3. timer' = [timer EXCEPT !.initialized = TRUE,
                             !.last_bios_tick = clock.bios, !.last_phase = clock.phase]
  BY DEF Clock!FirstReading
<1>4. timer \in [initialized : BOOLEAN, last_bios_tick : 0..Day - 1,
                 last_phase : 0..Period - 1, pending_bios_tick : 0..1, total : 0..Word - 1]
  BY DEF Typed
<1>5. /\ timer' \in [initialized : BOOLEAN, last_bios_tick : 0..Day - 1,
                     last_phase : 0..Period - 1, pending_bios_tick : 0..1,
                     total : 0..Word - 1]
      /\ timer'.initialized /\ timer'.last_bios_tick = clock.bios
      /\ timer'.last_phase = clock.phase /\ timer'.pending_bios_tick = 0
      /\ timer'.total = 0
  BY <1>1, <1>3, <1>4
<1>6. past' = [first |-> Clock!Now, lateFirst |-> Clock!Late, at |-> Clock!Now, late |-> Clock!Late,
               served |-> clock.served, seen |-> 0]
  BY DEF Clock!FirstReading
<1>7. past' \in [first : Int, lateFirst : 0..1, at : Int, late : 0..1,
                 served : Int, seen : Nat]
  BY <1>1, <1>2, <1>6
<1>8. Counted'
  <2>1. past'.served + past'.late = clock.periods
    BY <1>1, <1>6 DEF Clock!Late
  <2>2. past'.at = (past'.served + past'.late) * Period + timer'.last_phase
    BY <1>5, <1>6, <2>1 DEF Clock!Now
  <2>3. past'.seen - (past'.at - past'.first)
          = (timer'.pending_bios_tick - past'.late + past'.lateFirst) * Period
    <3>1. past'.seen - (past'.at - past'.first) = 0
      BY <1>2, <1>6
    <3>2. timer'.pending_bios_tick - past'.late + past'.lateFirst = 0
      BY <1>1, <1>5, <1>6
    <3>3. QED
      BY <1>1, <3>1, <3>2
  <2>4. timer'.total = past'.seen % Word
    BY <1>1, <1>5, <1>6, Small
  <2>5. /\ timer'.pending_bios_tick <= past'.late
        /\ clock.served - past'.served = 0
        /\ clock.bios = timer'.last_bios_tick + (clock.served - past'.served)
    BY <1>1, <1>5, <1>6
  <2>6. past'.served + past'.late <= clock.periods /\ timer'.last_phase <= clock.phase
    BY <1>1, <1>5, <2>1
  <2>7. 0 \in 0..Day - 1
    BY <1>1
  <2>8. QED
    BY <2>1, <2>2, <2>3, <2>4, <2>5, <2>6, <2>7 DEF Counted
<1>9. QED
  BY <1>5, <1>7, <1>8

LEMMA NextCounts ==
  ASSUME Clock!TicksAssumption, Typed, Counted, Clock!NextReading, clock' = clock
  PROVE  /\ timer' \in [initialized : BOOLEAN, last_bios_tick : 0..Day - 1,
                        last_phase : 0..Period - 1, pending_bios_tick : 0..1,
                        total : 0..Word - 1]
         /\ past' \in [first : Int, lateFirst : 0..1, at : Int, late : 0..1,
                       served : Int, seen : Nat]
         /\ timer'.initialized /\ Counted'
         /\ past'.seen >= past.seen
         /\ past'.first = past.first /\ past'.lateFirst = past.lateFirst
<1> timer.initialized
  BY DEF Clock!NextReading
<1>1. /\ clock.periods \in Nat /\ clock.phase \in 0..Period - 1
      /\ clock.served \in Int /\ clock.bios \in 0..Day - 1 /\ Clock!Late \in 0..1
      /\ Period \in Nat \ {0} /\ Word \in Nat \ {0} /\ Day \in Nat \ {0}
      /\ past.seen \in Nat /\ past.first \in Int /\ past.lateFirst \in 0..1
      /\ timer.total = past.seen % Word
  BY DEF Typed, Clock!TicksAssumption, Counted
<1>2. Clock!Now \in Int
  BY NowTyped
<1>3. Clock!Delta \in Nat /\ Pending \in 0..Clock!Late
  BY DeltaCounts, PeriodsCounted
<1>4. timer' = [timer EXCEPT !.last_bios_tick = clock.bios, !.last_phase = clock.phase,
                             !.pending_bios_tick = Pending,
                             !.total = (timer.total + Clock!Delta) % Word]
  BY DEF Clock!NextReading, Pending
<1>5. (timer.total + Clock!Delta) % Word = (past.seen + Clock!Delta) % Word
  BY <1>1, <1>3, Reduce
<1>6. (past.seen + Clock!Delta) % Word \in 0..Word - 1
  <2> DEFINE n == past.seen + Clock!Delta
  <2>1. n \in Int
    BY <1>1, <1>3
  <2> HIDE DEF n
  <2>2. n % Word \in 0..Word - 1
    BY <1>1, <2>1, DivMod
  <2>3. QED
    BY <2>2 DEF n
<1>7. timer \in [initialized : BOOLEAN, last_bios_tick : 0..Day - 1,
                 last_phase : 0..Period - 1, pending_bios_tick : 0..1, total : 0..Word - 1]
  BY DEF Typed
<1>8. Pending \in 0..1
  BY <1>1, <1>3
<1>9. /\ timer' \in [initialized : BOOLEAN, last_bios_tick : 0..Day - 1,
                     last_phase : 0..Period - 1, pending_bios_tick : 0..1,
                     total : 0..Word - 1]
      /\ timer'.initialized /\ timer'.last_bios_tick = clock.bios
      /\ timer'.last_phase = clock.phase /\ timer'.pending_bios_tick = Pending
      /\ timer'.total = (past.seen + Clock!Delta) % Word
  <2> DEFINE t == (past.seen + Clock!Delta) % Word
  <2>1. t \in 0..Word - 1 /\ (timer.total + Clock!Delta) % Word = t
    BY <1>5, <1>6
  <2>2. timer' = [timer EXCEPT !.last_bios_tick = clock.bios, !.last_phase = clock.phase,
                               !.pending_bios_tick = Pending, !.total = t]
    BY <1>4, <2>1
  <2> HIDE DEF t
  <2>3. /\ timer' \in [initialized : BOOLEAN, last_bios_tick : 0..Day - 1,
                       last_phase : 0..Period - 1, pending_bios_tick : 0..1,
                       total : 0..Word - 1]
        /\ timer'.initialized /\ timer'.last_bios_tick = clock.bios
        /\ timer'.last_phase = clock.phase /\ timer'.pending_bios_tick = Pending
        /\ timer'.total = t
    BY <1>1, <1>7, <1>8, <2>1, <2>2
  <2>4. QED
    BY <2>3 DEF t
<1>10. past' = [past EXCEPT !.at = Clock!Now, !.late = Clock!Late, !.served = clock.served,
                            !.seen = past.seen + Clock!Delta]
  BY DEF Clock!NextReading
<1>11. past \in [first : Int, lateFirst : 0..1, at : Int, late : 0..1, served : Int,
                 seen : Nat]
  BY DEF Typed
<1> DEFINE seen == past.seen + Clock!Delta
<1>12. seen \in Nat
  BY <1>1, <1>3
<1>13. past' = [past EXCEPT !.at = Clock!Now, !.late = Clock!Late, !.served = clock.served,
                            !.seen = seen]
  BY <1>10
<1> HIDE DEF seen
<1>14. /\ past' \in [first : Int, lateFirst : 0..1, at : Int, late : 0..1,
                     served : Int, seen : Nat]
       /\ past'.at = Clock!Now /\ past'.late = Clock!Late /\ past'.served = clock.served
       /\ past'.seen = seen
       /\ past'.first = past.first /\ past'.lateFirst = past.lateFirst
  BY <1>1, <1>2, <1>11, <1>12, <1>13
<1>15. Counted'
  <2>1. past'.served + past'.late = clock.periods
    BY <1>1, <1>14 DEF Clock!Late
  <2>2. past'.at = (past'.served + past'.late) * Period + timer'.last_phase
    BY <1>9, <1>14, <2>1 DEF Clock!Now
  <2>3. past'.seen - (past'.at - past'.first)
          = (timer'.pending_bios_tick - past'.late + past'.lateFirst) * Period
    <3>1. seen - (Clock!Now - past.first) = (Pending - Clock!Late + past.lateFirst) * Period
      <4>1. (past.seen + Clock!Delta) - (Clock!Now - past.first)
              = (Pending - Clock!Late + past.lateFirst) * Period
        BY DeltaCounts
      <4>2. QED
        BY <4>1 DEF seen
    <3>2. QED
      BY <1>9, <1>14, <3>1, Zenon
  <2>4. timer'.total = past'.seen % Word
    BY <1>9, <1>14 DEF seen
  <2>5. /\ timer'.pending_bios_tick <= past'.late
        /\ clock.served - past'.served = 0
        /\ clock.bios = timer'.last_bios_tick + (clock.served - past'.served)
    <3>1. timer'.pending_bios_tick = Pending /\ past'.late = Clock!Late
          /\ past'.served = clock.served /\ timer'.last_bios_tick = clock.bios
      BY <1>9, <1>14
    <3>2. Pending <= Clock!Late
      BY <1>1, <1>3
    <3>3. QED
      BY <1>1, <3>1, <3>2
  <2>6. past'.served + past'.late <= clock.periods /\ timer'.last_phase <= clock.phase
    BY <1>1, <1>9, <2>1
  <2>7. 0 \in 0..Day - 1
    BY <1>1
  <2>8. QED
    BY <2>1, <2>2, <2>3, <2>4, <2>5, <2>6, <2>7 DEF Counted
<1>16. past'.seen >= past.seen
  BY <1>1, <1>3, <1>14 DEF seen
<1>17. QED
  BY <1>9, <1>14, <1>15, <1>16
-----------------------------------------------------------------------------
(* Every step.                                                             *)

\* How far the count can be from the time: at most one period.
LEMMA Bounds ==
  ASSUME NEW p \in Nat, NEW pending \in 0..1, NEW late \in 0..1, NEW first \in 0..1,
         pending <= late, NEW error, error = (pending - late + first) * p
  PROVE  error <= first * p /\ error >= (first - 1) * p
<1> DEFINE k == pending - late + first
           j == first - 1
<1>1. k \in Int /\ j \in Int /\ first \in Int /\ k <= first /\ j <= k
  OBVIOUS
<1>2. error = k * p
  OBVIOUS
<1> HIDE DEF k, j
<1>3. k * p <= first * p /\ j * p <= k * p /\ k * p \in Int /\ j * p \in Int
  BY <1>1, Products
<1>4. error <= first * p /\ error >= j * p
  BY <1>2, <1>3
<1>5. QED
  BY <1>4 DEF j

LEMMA Distance ==
  ASSUME Clock!TicksAssumption, Typed, Counted, timer.initialized
  PROVE  LET error == past.seen - (past.at - past.first)
         IN  /\ error <= past.lateFirst * Period
             /\ error >= (past.lateFirst - 1) * Period
<1>1. /\ timer.pending_bios_tick \in 0..1 /\ past.late \in 0..1 /\ past.lateFirst \in 0..1
      /\ Period \in Nat
  BY DEF Typed, Clock!TicksAssumption
<1>2. /\ timer.pending_bios_tick <= past.late
      /\ past.seen - (past.at - past.first)
           = (timer.pending_bios_tick - past.late + past.lateFirst) * Period
  BY DEF Counted
<1>3. QED
  BY <1>1, <1>2, Bounds

LEMMA InitHolds ==
  ASSUME Clock!TicksAssumption, Clock!Init
  PROVE  ClockInv
<1>1. Period \in Nat \ {0} /\ Day \in Nat \ {0} /\ Word \in Nat \ {0}
  BY DEF Clock!TicksAssumption
<1>2. PICK late \in 0..1, phase \in 0..Period - 1, bios \in 0..Day - 1 :
        clock = [periods |-> 1, phase |-> phase, served |-> 1 - late, bios |-> bios]
  BY DEF Clock!Init
<1>3. Typed
  BY <1>1, <1>2 DEF Clock!Init, Typed, Clock!Late
<1>4. Unread /\ Counted /\ Stamped /\ Deadline
  BY DEF Clock!Init, Unread, Counted, Stamped, Deadline
<1>5. Flipped
  <2>1. Clock!Now \in Nat
    BY <1>3, NowTyped
  <2>2. QED
    BY <2>1 DEF Clock!Init, Flipped
<1>6. QED
  BY <1>3, <1>4, <1>5 DEF ClockInv

LEMMA ElapseKeeps ==
  ASSUME Clock!TicksAssumption, ClockInv, Clock!Elapse
  PROVE  ClockInv'
<1> USE DEF ClockInv
<1>1. Period \in Nat \ {0}
  BY DEF Clock!TicksAssumption
<1>2. /\ clock'.served = clock.served /\ clock'.bios = clock.bios
      /\ clock' \in [periods : Nat, phase : 0..Period - 1, served : Int, bios : 0..Day - 1]
      /\ Clock!Late' \in 0..1
      /\ \/ clock'.periods = clock.periods /\ clock'.phase = clock.phase + 1
         \/ clock'.periods = clock.periods + 1
  <2>1. clock \in [periods : Nat, phase : 0..Period - 1, served : Int, bios : 0..Day - 1]
        /\ Clock!Late \in 0..1
    BY DEF Typed
  <2>2. CASE clock.phase < Period - 1 /\ clock' = [clock EXCEPT !.phase = @ + 1]
    <3>1. clock'.periods = clock.periods /\ clock'.phase = clock.phase + 1
          /\ clock'.served = clock.served /\ clock'.bios = clock.bios
          /\ clock' \in [periods : Nat, phase : 0..Period - 1, served : Int,
                         bios : 0..Day - 1]
      BY <1>1, <2>1, <2>2
    <3>2. QED
      BY <2>1, <3>1 DEF Clock!Late
  <2>3. CASE Clock!Late = 0 /\ clock' = [clock EXCEPT !.phase = 0, !.periods = @ + 1]
    <3>1. clock'.periods = clock.periods + 1
          /\ clock'.served = clock.served /\ clock'.bios = clock.bios
          /\ clock' \in [periods : Nat, phase : 0..Period - 1, served : Int,
                         bios : 0..Day - 1]
      <4> DEFINE t == clock.periods + 1
      <4>1. t \in Nat /\ 0 \in 0..Period - 1 /\ clock' = [clock EXCEPT !.phase = 0, !.periods = t]
        BY <1>1, <2>1, <2>3
      <4> HIDE DEF t
      <4>2. clock'.periods = t /\ clock'.served = clock.served /\ clock'.bios = clock.bios
            /\ clock' \in [periods : Nat, phase : 0..Period - 1, served : Int,
                           bios : 0..Day - 1]
        BY <2>1, <4>1
      <4>3. QED
        BY <4>2 DEF t
    <3>2. clock.periods \in Int /\ clock.served \in Int
      BY <2>1
    <3>3. Clock!Late' = 1
      BY <2>3, <3>1, <3>2 DEF Clock!Late
    <3>4. QED
      BY <3>1, <3>3
  <2>4. QED
    BY <2>2, <2>3 DEF Clock!Elapse
<1>3. Typed'
  BY <1>2 DEF Clock!Elapse, Typed
<1>4. Counted'
  <2>1. SUFFICES ASSUME timer.initialized
                 PROVE  /\ past.served + past.late <= clock'.periods
                        /\ past.served + past.late = clock'.periods
                             => timer.last_phase <= clock'.phase
    BY <1>2 DEF Clock!Elapse, Counted
  <2>2. /\ past.served + past.late <= clock.periods
        /\ past.served + past.late = clock.periods => timer.last_phase <= clock.phase
    BY <2>1 DEF Counted
  <2>3. /\ past.served \in Int /\ past.late \in Int /\ clock.periods \in Int
        /\ clock.phase \in Int /\ timer.last_phase \in Int
    BY <1>1 DEF Typed
  <2>4. QED
    BY <1>2, <2>2, <2>3
<1>5. Unread' /\ Stamped' /\ Deadline'
  BY DEF Clock!Elapse, Unread, Stamped, Deadline
<1>6. Flipped'
  <2> DEFINE p == clock.periods * Period
  <2>1. clock.periods \in Int /\ clock.phase \in Int /\ p \in Int /\ shown.flip \in Int
    BY <1>1 DEF Typed
  <2>2. Clock!Now = p + clock.phase
    BY DEF Clock!Now
  <2>3. Clock!Now' = Clock!Now + 1
    <3>1. CASE clock' = [clock EXCEPT !.phase = @ + 1]
      <4>1. clock'.periods = clock.periods /\ clock'.phase = clock.phase + 1
        BY <3>1 DEF Typed
      <4>2. Clock!Now' = p + (clock.phase + 1)
        BY <4>1 DEF Clock!Now
      <4> HIDE DEF p
      <4>3. QED
        BY <2>1, <2>2, <4>2
    <3>2. CASE clock.phase = Period - 1
               /\ clock' = [clock EXCEPT !.phase = 0, !.periods = @ + 1]
      <4>1. clock'.periods = clock.periods + 1 /\ clock'.phase = 0
        BY <3>2 DEF Typed
      <4>2. (clock.periods + 1) * Period = p + Period
        BY <1>1, <2>1
      <4>3. Clock!Now' = p + Period
        BY <1>1, <2>1, <4>1, <4>2 DEF Clock!Now
      <4> HIDE DEF p
      <4>4. QED
        BY <1>1, <2>1, <2>2, <3>2, <4>3
    <3>3. QED
      BY <3>1, <3>2 DEF Clock!Elapse
  <2>4. shown' = shown /\ Clock!Now \in Int
    BY <2>1, <2>2 DEF Clock!Elapse
  <2>5. QED
    BY <2>1, <2>3, <2>4 DEF Flipped
<1>7. QED
  BY <1>3, <1>4, <1>5, <1>6

LEMMA ServeKeeps ==
  ASSUME Clock!TicksAssumption, ClockInv, Clock!Serve
  PROVE  ClockInv'
<1> USE DEF ClockInv
<1>1. Day \in Nat \ {0, 1}
  BY DEF Clock!TicksAssumption
<1>2. clock' = [clock EXCEPT !.served = @ + 1,
                             !.bios = IF @ + 1 = Day THEN 0 ELSE @ + 1]
  BY DEF Clock!Serve
<1>3. /\ clock'.served = clock.served + 1
      /\ clock'.bios = (IF clock.bios + 1 = Day THEN 0 ELSE clock.bios + 1)
      /\ clock'.periods = clock.periods /\ clock'.phase = clock.phase
      /\ clock' \in [periods : Nat, phase : 0..Period - 1, served : Int, bios : 0..Day - 1]
  <2>1. clock \in [periods : Nat, phase : 0..Period - 1, served : Int, bios : 0..Day - 1]
    BY DEF Typed
  <2> DEFINE next == IF clock.bios + 1 = Day THEN 0 ELSE clock.bios + 1
             t == clock.served + 1
  <2>2. next \in 0..Day - 1 /\ t \in Int
    BY <1>1, <2>1
  <2>3. clock' = [clock EXCEPT !.served = t, !.bios = next]
    BY <1>2
  <2> HIDE DEF next, t
  <2>4. /\ clock'.served = t /\ clock'.bios = next
        /\ clock'.periods = clock.periods /\ clock'.phase = clock.phase
        /\ clock' \in [periods : Nat, phase : 0..Period - 1, served : Int, bios : 0..Day - 1]
    BY <2>1, <2>2, <2>3
  <2>5. QED
    BY <2>4 DEF next, t
<1>4. Clock!Late' \in 0..1
  BY <1>3 DEF Clock!Serve, Clock!Late, Typed
<1>5. Typed'
  BY <1>3, <1>4 DEF Clock!Serve, Typed
<1>6. Counted'
  <2>1. ASSUME timer.initialized
        PROVE  /\ clock'.served - past.served \in 0..Day - 1
               /\ \/ clock'.bios = timer.last_bios_tick + (clock'.served - past.served)
                  \/ clock'.bios = timer.last_bios_tick + (clock'.served - past.served) - Day
    <3>1. /\ clock.served \in Int /\ past.served \in Int /\ clock.bios \in 0..Day - 1
          /\ timer.last_bios_tick \in 0..Day - 1
      BY DEF Typed
    <3>2. clock.served + 1 - past.served < Day
      BY <2>1 DEF Clock!Serve
    <3>3. /\ clock.served - past.served \in 0..Day - 1
          /\ \/ clock.bios = timer.last_bios_tick + (clock.served - past.served)
             \/ clock.bios = timer.last_bios_tick + (clock.served - past.served) - Day
      BY <2>1 DEF Counted
    <3>4. QED
      BY <1>1, <1>3, <3>1, <3>2, <3>3
  <2>2. QED
    BY <1>3, <2>1 DEF Clock!Serve, Counted
<1>7. Unread' /\ Stamped' /\ Deadline'
  BY DEF Clock!Serve, Unread, Stamped, Deadline
<1>8. Flipped'
  BY <1>3 DEF Clock!Serve, Flipped, Clock!Now
<1>9. QED
  BY <1>5, <1>6, <1>7, <1>8
\* A reading keeps what is known, and goes on from it.
LEMMA ReadingCounts ==
  ASSUME Clock!TicksAssumption, ClockInv, Clock!TimerTicks
  PROVE  /\ timer' \in [initialized : BOOLEAN, last_bios_tick : 0..Day - 1,
                        last_phase : 0..Period - 1, pending_bios_tick : 0..1,
                        total : 0..Word - 1]
         /\ past' \in [first : Int, lateFirst : 0..1, at : Int, late : 0..1,
                       served : Int, seen : Nat]
         /\ timer'.initialized /\ Counted' /\ Unread'
         /\ past'.at = Clock!Now /\ Clock!Now' = Clock!Now
         /\ timer.initialized =>
              /\ past'.seen >= past.seen
              /\ past'.first = past.first /\ past'.lateFirst = past.lateFirst
<1>1. Typed /\ Unread /\ Counted /\ clock' = clock
  BY DEF ClockInv, Clock!TimerTicks
<1>2. Clock!Now' = Clock!Now
  BY <1>1 DEF Clock!Now
<1>3. CASE Clock!FirstReading
  <2>1. past'.at = Clock!Now /\ ~timer.initialized
    BY <1>3 DEF Clock!FirstReading
  <2>2. /\ timer' \in [initialized : BOOLEAN, last_bios_tick : 0..Day - 1,
                       last_phase : 0..Period - 1, pending_bios_tick : 0..1,
                       total : 0..Word - 1]
        /\ past' \in [first : Int, lateFirst : 0..1, at : Int, late : 0..1,
                      served : Int, seen : Nat]
        /\ timer'.initialized /\ Counted'
    BY <1>1, <1>3, FirstCounts
  <2>3. QED
    BY <1>2, <2>1, <2>2 DEF Unread
<1>4. CASE Clock!NextReading
  <2>1. past'.at = Clock!Now
    BY <1>1, <1>4 DEF Clock!NextReading, Typed
  <2>2. /\ timer' \in [initialized : BOOLEAN, last_bios_tick : 0..Day - 1,
                       last_phase : 0..Period - 1, pending_bios_tick : 0..1,
                       total : 0..Word - 1]
        /\ past' \in [first : Int, lateFirst : 0..1, at : Int, late : 0..1,
                      served : Int, seen : Nat]
        /\ timer'.initialized /\ Counted' /\ past'.seen >= past.seen
        /\ past'.first = past.first /\ past'.lateFirst = past.lateFirst
    BY <1>1, <1>4, NextCounts
  <2>3. QED
    BY <1>2, <2>1, <2>2 DEF Unread
<1>5. QED
  BY <1>3, <1>4 DEF Clock!TimerTicks

LEMMA OtherReadingKeeps ==
  ASSUME Clock!TicksAssumption, ClockInv, Clock!OtherReading
  PROVE  ClockInv'
<1>1. Clock!TimerTicks /\ symbol' = symbol /\ shown' = shown /\ clock' = clock
  BY DEF Clock!OtherReading, Clock!TimerTicks
<1>2. /\ timer' \in [initialized : BOOLEAN, last_bios_tick : 0..Day - 1,
                     last_phase : 0..Period - 1, pending_bios_tick : 0..1,
                     total : 0..Word - 1]
      /\ past' \in [first : Int, lateFirst : 0..1, at : Int, late : 0..1,
                    served : Int, seen : Nat]
      /\ timer'.initialized /\ Counted' /\ Unread' /\ Clock!Now' = Clock!Now
      /\ timer.initialized =>
           /\ past'.seen >= past.seen
           /\ past'.first = past.first /\ past'.lateFirst = past.lateFirst
  BY <1>1, ReadingCounts
<1>3. Typed'
  BY <1>1, <1>2 DEF ClockInv, Typed, Clock!Late
<1>4. past.seen \in Int /\ past'.seen \in Int /\ shown.seen \in Int /\ symbol.hold \in Int
  BY <1>2 DEF ClockInv, Typed
<1>5. Stamped'
  <2>1. SUFFICES ASSUME symbol.last_visible # 0
                 PROVE  shown.seen <= past'.seen
    BY <1>1, <1>2 DEF ClockInv, Stamped
  <2>2. shown.seen <= past.seen /\ past'.seen >= past.seen
    BY <1>2, <2>1 DEF ClockInv, Stamped
  <2>3. QED
    BY <1>4, <2>2
<1>6. Deadline'
  <2>1. SUFFICES ASSUME symbol.pc = "due", symbol.earliest # 0
                 PROVE  past'.seen >= shown.seen + symbol.hold
    BY <1>1 DEF ClockInv, Deadline
  <2>2. timer.initialized /\ past.seen >= shown.seen + symbol.hold
    BY <2>1 DEF ClockInv, Deadline, Stamped
  <2>3. QED
    BY <1>2, <1>4, <2>2
<1>7. Flipped'
  BY <1>1, <1>2 DEF ClockInv, Flipped
<1>8. QED
  BY <1>2, <1>3, <1>5, <1>6, <1>7 DEF ClockInv

LEMMA ShowKeeps ==
  ASSUME Clock!TicksAssumption, ClockInv, NEW h \in Holds, Clock!Show(h)
  PROVE  ClockInv'
<1>1. clock' = clock /\ timer' = timer /\ past' = past /\ shown' = shown
  BY DEF Clock!Show
<1>2. h \in Nat /\ 2 * h <= Word /\ Word \in Nat \ {0}
  BY DEF Clock!TicksAssumption
<1> DEFINE deadline == (symbol.last_visible + h) % Word
           earliest == IF symbol.last_visible # 0 /\ h # 0 THEN deadline ELSE 0
<1>3. symbol \in [pc : {"idle", "waiting", "due", "flipped"}, last_visible : 0..Word - 1,
                  hold : Nat, earliest : 0..Word - 1]
  BY DEF ClockInv, Typed
<1>4. deadline \in 0..Word - 1
  <2> DEFINE n == symbol.last_visible + h
  <2>1. n \in Int
    BY <1>2, <1>3
  <2> HIDE DEF n
  <2>2. n % Word \in 0..Word - 1
    BY <1>2, <2>1, DivMod
  <2>3. QED
    BY <2>2 DEF n
<1>5. symbol' = [symbol EXCEPT !.pc = "waiting", !.hold = h, !.earliest = earliest]
  BY DEF Clock!Show
<1>6. earliest \in 0..Word - 1 /\ (earliest # 0 => symbol.last_visible # 0 /\ earliest = deadline)
  <2> HIDE DEF deadline
  <2>1. QED
    BY <1>2, <1>4
<1>7. /\ symbol' \in [pc : {"idle", "waiting", "due", "flipped"},
                      last_visible : 0..Word - 1, hold : Nat, earliest : 0..Word - 1]
      /\ symbol'.pc = "waiting" /\ symbol'.hold = h /\ symbol'.earliest = earliest
      /\ symbol'.last_visible = symbol.last_visible
  <2> HIDE DEF earliest
  <2>1. QED
    BY <1>2, <1>3, <1>5, <1>6
<1>8. symbol.pc = "idle"
  BY DEF Clock!Show
<1>9. Typed'
  BY <1>1, <1>7 DEF ClockInv, Typed, Clock!Late
<1>10. Unread' /\ Counted' /\ Flipped' /\ Stamped'
  BY <1>1, <1>7, <1>8 DEF ClockInv, Unread, Counted, Flipped, Stamped, Clock!Now
<1>11. Deadline'
  <2> HIDE DEF earliest
  <2>1. QED
    BY <1>2, <1>6, <1>7 DEF Deadline
<1>12. QED
  BY <1>9, <1>10, <1>11 DEF ClockInv

LEMMA AtOnceKeeps ==
  ASSUME Clock!TicksAssumption, ClockInv, Clock!AtOnce
  PROVE  ClockInv'
<1>1. clock' = clock /\ timer' = timer /\ past' = past /\ shown' = shown
  BY DEF Clock!AtOnce
<1>2. /\ symbol' \in [pc : {"idle", "waiting", "due", "flipped"},
                      last_visible : 0..Word - 1, hold : Nat, earliest : 0..Word - 1]
      /\ symbol.pc = "waiting" /\ symbol'.pc = "due" /\ symbol'.earliest = 0
      /\ symbol'.last_visible = symbol.last_visible
  BY DEF Clock!AtOnce, ClockInv, Typed
<1>3. Typed'
  BY <1>1, <1>2 DEF ClockInv, Typed, Clock!Late
<1>4. Unread' /\ Counted' /\ Flipped' /\ Stamped' /\ Deadline'
  BY <1>1, <1>2 DEF ClockInv, Unread, Counted, Flipped, Stamped, Deadline, Clock!Now
<1>5. QED
  BY <1>3, <1>4 DEF ClockInv

\* The signed comparison of two words is right for what is not yet due: the
\* deadline is less than half a word ahead of the last flip.
LEMMA ReachedIsLater ==
  ASSUME NEW w \in Nat \ {0}, NEW x \in Nat, NEW s \in Nat, NEW h \in Nat,
         s <= x, 2 * h <= w,
         2 * (((x % w) - (((s % w) + h) % w)) % w) < w
  PROVE  x >= s + h
<1>1. ((s % w) + h) % w = (s + h) % w
  <2>1. s \in Int /\ h \in Int
    OBVIOUS
  <2>2. QED
    BY <2>1, Reduce
<1> DEFINE d == s + h
           y == x - d
<1>2. d \in Int /\ y \in Int
  OBVIOUS
<1>3. ((x % w) - (d % w)) % w = y % w
  <2>1. x \in Int /\ d \in Int
    OBVIOUS
  <2> HIDE DEF d
  <2>2. QED
    BY <2>1, ReduceLess
<1>4. 2 * (y % w) < w
  BY <1>1, <1>3
<1>5. SUFFICES ASSUME y < 0
               PROVE  FALSE
  BY <1>2
<1>6. y + w \in 0..w - 1 /\ 2 * (y + w) >= w
  BY <1>5
<1> HIDE DEF y
<1> DEFINE one == 1
<1>7. (y + one * w) % w = y % w
  <2>1. one \in Int
    OBVIOUS
  <2> HIDE DEF one
  <2>2. QED
    BY <1>2, <2>1, Same
<1>8. y + one * w = y + w
  BY <1>2
<1> DEFINE z == y + w
<1>9. z \in 0..w - 1 /\ z % w = y % w /\ 2 * z >= w
  BY <1>6, <1>7, <1>8
<1>10. z % w = z
  <2> HIDE DEF z
  <2>1. QED
    BY <1>9, Small
<1>11. 2 * z < w
  BY <1>4, <1>9, <1>10
<1> HIDE DEF z
<1>12. QED
  BY <1>9, <1>11
LEMMA PollKeeps ==
  ASSUME Clock!TicksAssumption, ClockInv, Clock!Poll
  PROVE  ClockInv'
<1>1. /\ Clock!TimerTicks /\ shown' = shown /\ clock' = clock
      /\ symbol.pc = "waiting" /\ symbol.earliest # 0
      /\ symbol' = [symbol EXCEPT !.pc = IF Clock!Reached(timer'.total) THEN "due" ELSE @]
  BY DEF Clock!Poll, Clock!TimerTicks
<1>2. /\ timer' \in [initialized : BOOLEAN, last_bios_tick : 0..Day - 1,
                     last_phase : 0..Period - 1, pending_bios_tick : 0..1,
                     total : 0..Word - 1]
      /\ past' \in [first : Int, lateFirst : 0..1, at : Int, late : 0..1,
                    served : Int, seen : Nat]
      /\ timer'.initialized /\ Counted' /\ Unread' /\ Clock!Now' = Clock!Now
      /\ timer.initialized =>
           /\ past'.seen >= past.seen
           /\ past'.first = past.first /\ past'.lateFirst = past.lateFirst
  BY <1>1, ReadingCounts
<1>3. symbol \in [pc : {"idle", "waiting", "due", "flipped"}, last_visible : 0..Word - 1,
                  hold : Nat, earliest : 0..Word - 1]
  BY DEF ClockInv, Typed
<1>4. /\ symbol' \in [pc : {"idle", "waiting", "due", "flipped"},
                      last_visible : 0..Word - 1, hold : Nat, earliest : 0..Word - 1]
      /\ symbol'.pc \in {"waiting", "due"}
      /\ symbol'.pc = "due" => Clock!Reached(timer'.total)
      /\ symbol'.hold = symbol.hold /\ symbol'.earliest = symbol.earliest
      /\ symbol'.last_visible = symbol.last_visible
  BY <1>1, <1>3
<1>5. /\ symbol.last_visible # 0 /\ 2 * symbol.hold <= Word
      /\ symbol.earliest = (symbol.last_visible + symbol.hold) % Word
  BY <1>1 DEF ClockInv, Deadline
<1>6. /\ timer.initialized /\ symbol.last_visible = shown.seen % Word
      /\ shown.seen <= past.seen /\ shown.flip <= shown.at
      /\ shown.seen - (shown.at - past.first) >= (past.lateFirst - 1) * Period
  BY <1>1, <1>5 DEF ClockInv, Stamped
<1>7. past.seen \in Nat /\ past'.seen \in Nat /\ shown.seen \in Nat /\ symbol.hold \in Nat
      /\ Word \in Nat \ {0}
  BY <1>2 DEF ClockInv, Typed, Clock!TicksAssumption
<1>8. shown.seen <= past'.seen
  BY <1>2, <1>6, <1>7
<1>9. Typed'
  BY <1>1, <1>2, <1>4 DEF ClockInv, Typed, Clock!Late
<1>10. Stamped'
  BY <1>1, <1>2, <1>4, <1>6, <1>8 DEF Stamped
<1>11. ASSUME symbol'.pc = "due"
       PROVE  past'.seen >= shown.seen + symbol.hold
  <2>1. 2 * ((timer'.total - symbol.earliest) % Word) < Word
    BY <1>4, <1>11 DEF Clock!Reached
  <2>2. timer'.total = past'.seen % Word
    BY <1>2 DEF Counted
  <2>3. 2 * (((past'.seen % Word) - (((shown.seen % Word) + symbol.hold) % Word)) % Word) < Word
    BY <1>5, <1>6, <2>1, <2>2
  <2>4. QED
    BY <1>5, <1>7, <1>8, <2>3, ReachedIsLater
<1>12. Deadline'
  BY <1>1, <1>4, <1>5, <1>11 DEF Deadline
<1>13. Flipped'
  BY <1>1, <1>2 DEF ClockInv, Flipped
<1>14. QED
  BY <1>2, <1>9, <1>10, <1>12, <1>13 DEF ClockInv

LEMMA FlipKeeps ==
  ASSUME Clock!TicksAssumption, ClockInv, Clock!Flip
  PROVE  ClockInv'
<1>1. clock' = clock /\ timer' = timer /\ past' = past /\ symbol.pc = "due"
  BY DEF Clock!Flip
<1>2. Clock!Now \in Nat /\ Clock!Now' = Clock!Now
  BY <1>1, NowTyped DEF ClockInv, Clock!Now
<1>3. /\ symbol' \in [pc : {"idle", "waiting", "due", "flipped"},
                      last_visible : 0..Word - 1, hold : Nat, earliest : 0..Word - 1]
      /\ symbol'.pc = "flipped" /\ symbol'.last_visible = symbol.last_visible
  BY DEF Clock!Flip, ClockInv, Typed
<1>4. /\ shown' \in [flip : Int, at : Int, seen : Nat]
      /\ shown'.flip = Clock!Now /\ shown'.at = shown.at /\ shown'.seen = shown.seen
  BY <1>2 DEF Clock!Flip, ClockInv, Typed
<1>5. Typed'
  BY <1>1, <1>3, <1>4 DEF ClockInv, Typed, Clock!Late
<1>6. Flipped'
  BY <1>2, <1>4 DEF Flipped
<1>7. Unread' /\ Counted' /\ Stamped' /\ Deadline'
  BY <1>1, <1>3, <1>4 DEF ClockInv, Unread, Counted, Stamped, Deadline
<1>8. QED
  BY <1>5, <1>6, <1>7 DEF ClockInv

LEMMA StampKeeps ==
  ASSUME Clock!TicksAssumption, ClockInv, Clock!Stamp
  PROVE  ClockInv'
<1>1. Clock!TimerTicks /\ clock' = clock
  BY DEF Clock!Stamp, Clock!TimerTicks
<1>2. /\ timer' \in [initialized : BOOLEAN, last_bios_tick : 0..Day - 1,
                     last_phase : 0..Period - 1, pending_bios_tick : 0..1,
                     total : 0..Word - 1]
      /\ past' \in [first : Int, lateFirst : 0..1, at : Int, late : 0..1,
                    served : Int, seen : Nat]
      /\ timer'.initialized /\ Counted' /\ Unread' /\ past'.at = Clock!Now /\ Clock!Now' = Clock!Now
  BY <1>1, ReadingCounts
<1>3. timer'.total \in 0..Word - 1 /\ past'.at \in Int /\ past'.seen \in Nat
  BY <1>2
<1>4. /\ symbol' \in [pc : {"idle", "waiting", "due", "flipped"},
                      last_visible : 0..Word - 1, hold : Nat, earliest : 0..Word - 1]
      /\ symbol'.pc = "idle" /\ symbol'.last_visible = timer'.total
  BY <1>3 DEF Clock!Stamp, ClockInv, Typed
<1>5. /\ shown' \in [flip : Int, at : Int, seen : Nat]
      /\ shown'.flip = shown.flip /\ shown'.at = past'.at /\ shown'.seen = past'.seen
  BY <1>3 DEF Clock!Stamp, ClockInv, Typed
<1>6. Typed'
  BY <1>1, <1>2, <1>4, <1>5 DEF ClockInv, Typed, Clock!Late
<1>7. past'.seen - (past'.at - past'.first) >= (past'.lateFirst - 1) * Period
  <2>1. /\ timer'.pending_bios_tick \in 0..1 /\ past'.late \in 0..1
        /\ past'.lateFirst \in 0..1 /\ Period \in Nat
    BY <1>2 DEF Clock!TicksAssumption
  <2>2. /\ timer'.pending_bios_tick <= past'.late
        /\ past'.seen - (past'.at - past'.first)
             = (timer'.pending_bios_tick - past'.late + past'.lateFirst) * Period
    BY <1>2 DEF Counted
  <2>3. QED
    BY <2>1, <2>2, Bounds
<1>8. Stamped'
  <2>1. timer'.total = past'.seen % Word
    BY <1>2 DEF Counted
  <2>2. shown'.flip <= shown'.at
    BY <1>2, <1>5 DEF ClockInv, Flipped
  <2>3. past'.seen <= past'.seen
    BY <1>3
  <2>4. QED
    BY <1>2, <1>4, <1>5, <1>7, <2>1, <2>2, <2>3 DEF Stamped
<1>9. Deadline' /\ Flipped'
  BY <1>2, <1>4, <1>5 DEF ClockInv, Deadline, Flipped
<1>10. QED
  BY <1>2, <1>6, <1>8, <1>9 DEF ClockInv

LEMMA NextKeeps ==
  ASSUME Clock!TicksAssumption, ClockInv, [Clock!Next]_(Clock!vars)
  PROVE  ClockInv'
<1>1. CASE Clock!Elapse
  BY <1>1, ElapseKeeps
<1>2. CASE Clock!Serve
  BY <1>2, ServeKeeps
<1>3. CASE Clock!OtherReading
  BY <1>3, OtherReadingKeeps
<1>4. CASE \E h \in Holds : Clock!Show(h)
  BY <1>4, ShowKeeps
<1>5. CASE Clock!AtOnce
  BY <1>5, AtOnceKeeps
<1>6. CASE Clock!Poll
  BY <1>6, PollKeeps
<1>7. CASE Clock!Flip
  BY <1>7, FlipKeeps
<1>8. CASE Clock!Stamp
  BY <1>8, StampKeeps
<1>9. CASE UNCHANGED Clock!vars
  BY <1>9 DEF Clock!vars, ClockInv, Typed, Unread, Counted, Stamped, Deadline, Flipped,
              Clock!Now, Clock!Late
<1>10. QED
  BY <1>1, <1>2, <1>3, <1>4, <1>5, <1>6, <1>7, <1>8, <1>9 DEF Clock!Next

LEMMA AlwaysClockInv ==
  ASSUME Clock!TicksAssumption
  PROVE  Clock!Spec => []ClockInv
<1>1. Clock!Init => ClockInv
  BY InitHolds
<1>2. ClockInv /\ [Clock!Next]_(Clock!vars) => ClockInv'
  BY NextKeeps
<1>3. QED
  BY <1>1, <1>2, PTL DEF Clock!Spec

-----------------------------------------------------------------------------
(* The theorems.                                                           *)

\* The senders' clock is never more than one period from the time that has
\* passed, over any number of midnights, wraps and late interrupts; it is never
\* ahead of it unless its very first reading fell between a period and its
\* interrupt (timing.c:35-76).
THEOREM FaithfulHolds ==
  ASSUME Clock!TicksAssumption
  PROVE  Clock!Spec => []Clock!Faithful
<1>1. ClockInv => Clock!Faithful
  BY Distance DEF ClockInv, Clock!Faithful
<1>2. Clock!Spec => []ClockInv
  BY AlwaysClockInv
<1>3. QED
  BY <1>1, <1>2, PTL

LEMMA HoldLongEnough ==
  ASSUME Clock!TicksAssumption, ClockInv
  PROVE  Clock!HoldKept
<1>1. SUFFICES ASSUME symbol.pc = "due", symbol.earliest # 0
               PROVE  Clock!Now - shown.flip >= symbol.hold - Period
  BY DEF Clock!HoldKept
<1>2. symbol.last_visible # 0 /\ past.seen >= shown.seen + symbol.hold
  BY <1>1 DEF ClockInv, Deadline
<1>3. /\ timer.initialized /\ shown.flip <= shown.at
      /\ shown.seen - (shown.at - past.first) >= (past.lateFirst - 1) * Period
  BY <1>1, <1>2 DEF ClockInv, Stamped
<1>4. past.seen - (past.at - past.first) <= past.lateFirst * Period /\ past.at <= Clock!Now
  BY <1>3, Distance, NotAhead DEF ClockInv
<1>5. /\ past.seen \in Int /\ past.at \in Int /\ past.first \in Int /\ past.lateFirst \in Int
      /\ shown.seen \in Int /\ shown.at \in Int /\ shown.flip \in Int
      /\ symbol.hold \in Int /\ Clock!Now \in Int /\ Period \in Int
  BY NowTyped DEF ClockInv, Typed, Clock!TicksAssumption
<1> DEFINE lead == past.lateFirst * Period
<1>6. (past.lateFirst - 1) * Period = lead - Period /\ lead \in Int
  BY <1>5
<1>7. /\ shown.seen - (shown.at - past.first) >= lead - Period
      /\ past.seen - (past.at - past.first) <= lead
  BY <1>3, <1>4, <1>6
<1> HIDE DEF lead
<1>8. QED
  BY <1>2, <1>3, <1>4, <1>5, <1>6, <1>7

\* A symbol is never replaced more than one period (55 ms) before its hold time
\* is over: wherever the word wraps, midnight falls or an interrupt is late
\* (sender.c:201-214, vga.c:391-404, 490-501).
THEOREM HoldKeptHolds ==
  ASSUME Clock!TicksAssumption
  PROVE  Clock!Spec => []Clock!HoldKept
<1>1. ClockInv => Clock!HoldKept
  BY HoldLongEnough
<1>2. Clock!Spec => []ClockInv
  BY AlwaysClockInv
<1>3. QED
  BY <1>1, <1>2, PTL

=============================================================================
