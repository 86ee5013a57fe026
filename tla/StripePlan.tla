----------------------------- MODULE StripePlan -----------------------------
(***************************************************************************)
(* How the legacy sender prepares the drawing of a QR symbol in three      *)
(* colour planes, src/dos_sender_legacy/src/vga.c.  The placement map says *)
(* which pixel each bit of each codeword toggles.  Drawing bit by bit is   *)
(* too slow for a 386, so the renderer looks for regular stripes in the    *)
(* map, joins stripes of one framebuffer byte into groups of two to four   *)
(* lanes and draws a group with shifts and table look-ups:                 *)
(*                                                                         *)
(*   runs      codewords below one another in the same two columns         *)
(*   groups    four runs that fill one byte over the same rows             *)
(*   phases    the same, two lanes displaced by half a codeword; the rows  *)
(*             outside the common interval are left over as edges          *)
(*   triples   three lanes of a byte whose fourth is interrupted           *)
(*                                                                         *)
(* What every stage leaves, the later ones draw.  Each iteration of the    *)
(* code's loops is a step.  The three colour planes are drawn alike; one   *)
(* is modelled.                                                            *)
(***************************************************************************)
EXTENDS Integers, Sequences, FiniteSets

CONSTANTS Alignments   \* left edges of the symbol on the screen (QR_X0)

Line == 40            \* VGA_BYTES_PER_LINE
Quiet == 4            \* DOSFER_QR_QUIET, which is QR_Y0 as well
MinRun == 4
MaxRuns == 256
MaxGroups == 8
MaxPhaseGroups == 8
MaxEdges == 64
MaxTriples == 4
PhaseCount == 41      \* codewords of a lane in a phase group, 164 rows

-----------------------------------------------------------------------------
(* The symbol the qrcodegen library lays out for version 40: the modules in   *)
(* the order of the codeword bits.  Finder, timing, alignment, format and     *)
(* version modules are left out.                                              *)

Side == 177
Centres == {6, 30, 58, 86, 114, 142, 170}

NearAlignment(x, y) ==
  \E cx, cy \in Centres :
    /\ <<cx, cy>> \notin {<<6, 6>>, <<6, 170>>, <<170, 6>>}
    /\ x - cx \in -2..2 /\ y - cy \in -2..2

Function(x, y) ==
  \/ x = 6 \/ y = 6
  \/ x <= 8 /\ y <= 8
  \/ x >= Side - 8 /\ y <= 8
  \/ x <= 8 /\ y >= Side - 8
  \/ x \in (Side - 11) .. (Side - 9) /\ y <= 5
  \/ y \in (Side - 11) .. (Side - 9) /\ x <= 5
  \/ NearAlignment(x, y)

\* Column pairs from the right, the timing column skipped, alternately upward
\* and downward; the i-th module of that walk.
Walk(i) ==
  LET pair == i \div (2 * Side)
      right == IF pair < 85 THEN Side - 1 - 2 * pair ELSE Side - 2 - 2 * pair
      v == (i % (2 * Side)) \div 2
      up == ((right + 1) \div 2) % 2 = 0
      y == IF up THEN Side - 1 - v ELSE v
  IN  (y * Side) + right - (i % 2)

Modules ==
  SelectSeq([i \in 1 .. 88 * 2 * Side |-> Walk(i - 1)],
            LAMBDA m : ~Function(m % Side, m \div Side))

Codewords == 0 .. (Len(Modules) \div 8) - 1

VARIABLES
  x0,          \* QR_X0
  pc,          \* the loop that is running, or "ready"
  base,        \* its index into the runs
  runs,        \* stripe_runs
  flag,        \* group_flags of each run
  lut,         \* stripe_group_lut could be allocated
  groups, phases, edges, triples

vars == <<x0, pc, base, runs, flag, lut, groups, phases, edges, triples>>

-----------------------------------------------------------------------------
(* The placement map and the shape of a codeword.                          *)

\* The byte and the pixel in it that bit b of codeword c toggles.
Entry(c, b) ==
  LET linear == Modules[8 * c + b + 1]
      px == x0 + Quiet + (linear % Side)
  IN  <<(Quiet + (linear \div Side)) * Line + (px \div 8), px % 8>>

Stride(c) == Entry(c, 2)[1] - Entry(c, 0)[1]

\* Four pairs of modules below (or above) one another in one byte column.
Shaped(c) ==
  /\ Stride(c) \in {Line, -Line}
  /\ \A r \in 0..3, side \in 0..1 :
       Entry(c, 2 * r + side) =
         <<Entry(c, 0)[1] + r * Stride(c), Entry(c, side)[2]>>

Continues(c) ==
  /\ c + 1 \in Codewords /\ Shaped(c) /\ Shaped(c + 1)
  /\ Stride(c + 1) = Stride(c)
  /\ Entry(c + 1, 0) = <<Entry(c, 0)[1] + 4 * Stride(c), Entry(c, 0)[2]>>
  /\ Entry(c + 1, 1)[2] = Entry(c, 1)[2]

RunFrom(c) ==
  LET count == CHOOSE n \in 1 .. Len(Modules) :
                 /\ ~Continues(c + n - 1)
                 /\ \A k \in 1 .. n - 1 : Continues(c + k - 1)
  IN  [first |-> c, count |-> count, dest |-> Entry(c, 0)[1],
       down |-> Stride(c) > 0, right |-> Entry(c, 0)[2], left |-> Entry(c, 1)[2]]

Starts(c) == Shaped(c) /\ ~(c > 0 /\ Continues(c - 1))

RunsOfMap ==
  LET starts == SelectSeq([i \in 1 .. Cardinality(Codewords) |-> i - 1], Starts)
  IN  SelectSeq([i \in 1 .. Len(starts) |-> RunFrom(starts[i])],
                LAMBDA r : r.count >= MinRun)

-----------------------------------------------------------------------------
(* Lanes: slot 0 is the rightmost pair of pixels of a byte.                *)

NoSlot == -1
Slot(r) ==
  IF \E s \in 0..3 : <<r.left, r.right>> = <<6 - 2 * s, 7 - 2 * s>>
  THEN (7 - r.right) \div 2 ELSE NoSlot

Height(r) == (4 * r.count - 1) * Line
Top(r) == IF r.down THEN r.dest ELSE r.dest - Height(r)
Bottom(r) == Top(r) + Height(r)
SameRows(r, s) == r.count = s.count /\ Top(r) = Top(s)

Indices == 1 .. Len(runs)
Least(S) == CHOOSE i \in S : \A j \in S : i <= j
Greatest(S) == CHOOSE i \in S : \A j \in S : i >= j

\* Runs no group has taken yet, of the given slot and direction.
Free(slot, down) ==
  {j \in Indices : flag[j] = "none" /\ Slot(runs[j]) = slot /\ runs[j].down = down}

\* In the V40 zigzag lanes 0 and 2 run upward, 1 and 3 downward.
Downward(lane) == lane % 2 = 1

\* Mutant of Taken: the loop over the lanes leaves out the last one.
TakenButLast(set, name) ==
  [j \in Indices |-> IF j \in set \ {Greatest(set)} THEN name ELSE flag[j]]
Taken(set, name) == [j \in Indices |-> IF j \in set THEN name ELSE flag[j]]
Firsts(members) == [k \in DOMAIN members |-> runs[members[k]].first]

-----------------------------------------------------------------------------
(* prepare_placement_map(): one action per loop, one step per iteration.    *)

Init ==
  /\ x0 \in Alignments
  /\ pc = "runs" /\ base = 1 /\ lut = FALSE
  /\ runs = <<>> /\ flag = <<>>
  /\ groups = <<>> /\ phases = <<>> /\ edges = {} /\ triples = <<>>

Continue(name) == pc' = name /\ base' = 1
Advance == base' = base + 1 /\ UNCHANGED pc
Leave == base' = Len(runs) + 1 /\ UNCHANGED pc

\* Without memory, or with more runs than the table holds, there are none.
PrepareRuns ==
  /\ pc = "runs"
  /\ \E found \in {RunsOfMap, <<>>} :
       runs' = IF Len(found) \in 0 .. MaxRuns THEN found ELSE <<>>
  /\ flag' = [j \in 1 .. Len(runs') |-> "none"]
  /\ Continue("groups")
  /\ UNCHANGED <<x0, lut, groups, phases, edges, triples>>

\* The first run of each slot that covers the rows of run i, from i onwards.
Fellows(i, lane) ==
  {j \in Free(lane, TRUE) \cup Free(lane, FALSE) :
     j >= i /\ SameRows(runs[j], runs[i])}

ExactGroup(i) ==
  /\ flag[i] = "none" /\ Slot(runs[i]) = 0
  /\ \A lane \in 0..3 :
       /\ Fellows(i, lane) # {}
       /\ runs[Least(Fellows(i, lane))].down = Downward(lane)

FindGroup ==
  /\ pc = "groups" /\ base \in Indices
  /\ IF ~ExactGroup(base)
     THEN Advance /\ UNCHANGED <<groups, flag>>
     ELSE IF Len(groups) >= MaxGroups
     THEN Leave /\ UNCHANGED <<groups, flag>>
     ELSE LET members == [k \in 1..4 |-> Least(Fellows(base, k - 1))]
          IN  /\ groups' = Append(groups, [first |-> Firsts(members),
                    count |-> runs[base].count, dest |-> Top(runs[base])])
              /\ flag' = Taken({members[k] : k \in 1..4}, "exact")
              /\ Advance
  /\ UNCHANGED <<x0, runs, lut, phases, edges, triples>>

PrepareLut ==
  /\ pc = "groups" /\ base \notin Indices
  /\ lut' \in BOOLEAN
  /\ Continue("phases")
  /\ UNCHANGED <<x0, runs, flag, groups, phases, edges, triples>>

\* Run j is displaced by two rows at both ends, inwards or outwards.
Displaced(i, j) ==
  LET d == Top(runs[j]) - Top(runs[i])
  IN  d \in {2 * Line, -2 * Line} /\ Bottom(runs[i]) = Bottom(runs[j]) + d

\* The lanes of the phase group that run i starts, in the order of the slots:
\* the pair that runs upward, and the first downward pair displaced against it.
Upward(i) == {j \in Free(2, FALSE) : SameRows(runs[j], runs[i])}
Mates(j) == {k \in Free(3, TRUE) : SameRows(runs[k], runs[j])}
Across(i) == {j \in Free(1, TRUE) : Displaced(i, j) /\ Mates(j) # {}}

Larger(a, b) == IF a > b THEN a ELSE b
Smaller(a, b) == IF a < b THEN a ELSE b
OverlapTop(i, j) == Larger(Top(runs[i]), Top(runs[j]))
OverlapBottom(i, j) == Smaller(Bottom(runs[i]), Bottom(runs[j]))
Overlap(i, j) == ((OverlapBottom(i, j) - OverlapTop(i, j)) \div Line) + 1

PhaseGroup(i) ==
  /\ i \in Free(0, FALSE) /\ Upward(i) # {} /\ Across(i) # {}
  /\ Overlap(i, Least(Across(i))) = 4 * PhaseCount

\* The row pairs of a run that its phase group does not draw.
EdgesOf(r, top, bottom) ==
  {e \in [codeword : r.first .. (r.first + r.count - 1), pair : 0..3,
          dest : {r.dest + (IF r.down THEN Line ELSE -Line) * n :
                    n \in 0 .. (4 * r.count) - 1},
          right : {r.right}, left : {r.left}] :
     /\ e.dest = r.dest + (IF r.down THEN Line ELSE -Line)
                            * ((4 * (e.codeword - r.first)) + e.pair)
     /\ e.dest \notin top .. bottom}

FindPhase ==
  /\ pc = "phases" /\ base \in Indices
  /\ IF ~PhaseGroup(base)
     THEN Advance /\ UNCHANGED <<phases, edges, flag>>
     ELSE IF Len(phases) >= MaxPhaseGroups
     THEN Leave /\ UNCHANGED <<phases, edges, flag>>
     ELSE LET across == Least(Across(base))
              members == <<base, across, Least(Upward(base)), Least(Mates(across))>>
              taken == {members[k] : k \in 1..4}
              top == OverlapTop(base, across)
              bottom == OverlapBottom(base, across)
              more == UNION {EdgesOf(runs[j], top, bottom) : j \in taken}
          IN  IF Cardinality(edges \cup more) > MaxEdges
              THEN \* No room for an edge: every phase group is given up.
                   /\ phases' = <<>> /\ edges' = {}
                   /\ flag' = [j \in Indices |->
                        IF flag[j] = "phase" THEN "none" ELSE flag[j]]
                   /\ Leave
              ELSE /\ phases' = Append(phases, [first |-> Firsts(members),
                        dest |-> top,
                        shifted |-> IF Top(runs[base]) < Top(runs[across])
                                    THEN {0, 2} ELSE {1, 3}])
                   /\ edges' = edges \cup more
                   /\ flag' = Taken(taken, "phase")
                   /\ Advance
  /\ UNCHANGED <<x0, runs, lut, groups, triples>>

EndPhases ==
  /\ pc = "phases" /\ base \notin Indices
  /\ Continue("triples")
  /\ UNCHANGED <<x0, runs, flag, lut, groups, phases, edges, triples>>

Third(i, lane) == {j \in Free(lane, Downward(lane)) : SameRows(runs[j], runs[i])}

FindTriple ==
  /\ pc = "triples" /\ base \in Indices
  /\ IF ~(base \in Free(1, TRUE) /\ Third(base, 2) # {} /\ Third(base, 3) # {})
     THEN Advance /\ UNCHANGED <<triples, flag>>
     ELSE IF Len(triples) >= MaxTriples
     THEN Leave /\ UNCHANGED <<triples, flag>>
     ELSE LET members == <<base, Greatest(Third(base, 2)), Greatest(Third(base, 3))>>
          IN  /\ triples' = Append(triples, [first |-> Firsts(members),
                    count |-> runs[base].count, dest |-> Top(runs[base])])
              /\ flag' = Taken({members[k] : k \in 1..3}, "triple")
              /\ Advance
  /\ UNCHANGED <<x0, runs, lut, groups, phases, edges>>

EndTriples ==
  /\ pc = "triples" /\ base \notin Indices
  /\ Continue("ready")
  /\ UNCHANGED <<x0, runs, flag, lut, groups, phases, edges, triples>>

Next == PrepareRuns \/ FindGroup \/ PrepareLut \/ FindPhase \/ EndPhases
          \/ FindTriple \/ EndTriples

Spec == Init /\ [][Next]_vars

-----------------------------------------------------------------------------
(* What the kernels draw: records <<painter, codeword, bit, pixel>>, where   *)
(* a pixel is <<byte, pixel in it>>.  A byte is the set of its 1 bits.      *)

Swapped(p) == IF p % 2 = 0 THEN p + 1 ELSE p - 1     \* stripe_pair_swap
Reversed(p) == 7 - p                                \* stripe_bit_reverse
Normalized(lane, p) == IF Downward(lane) THEN Swapped(p) ELSE Reversed(p)

\* One exchange of a bit of the mask with the bit d places above it.
Exchanged(q, mask, d) ==
  IF q \in mask THEN q + d ELSE IF q - d \in mask THEN q - d ELSE q

\* The four by four transposition of pairs: bit of a lane -> bit of a row,
\* byte 0 being the lowest of the four rows.
Transposed(lane, q) ==
  Exchanged(Exchanged(q + (8 * lane), {2, 3, 6, 7, 18, 19, 22, 23}, 6),
            {4, 5, 6, 7, 12, 13, 14, 15}, 12)

\* Where bit q of a normalized lane lands in block k below byte dest.
Landing(lane, q, dest, k) ==
  LET t == Transposed(lane, q)
  IN  <<dest + ((4 * k) + 3 - (t \div 8)) * Line, 7 - (t % 8)>>

\* Mutant of Source: an upward lane starts one codeword too far.
SourcePastEnd(lane, first, count, k) ==
  IF Downward(lane) THEN first + k ELSE first + count - k
\* The codeword a lane reads for block k of count.
Source(lane, first, count, k) ==
  IF Downward(lane) THEN first + k ELSE first + count - 1 - k

LanePaint(name, lane, first, count, dest) ==
  {<<name, Source(lane, first, count, k), 7 - p,
     Landing(lane, Normalized(lane, p), dest, k)>> : p \in 0..7, k \in 0 .. count - 1}

\* Half a codeword and half of the next one.  A lane that runs upward keeps
\* the high nibble of the current and the low nibble of the next codeword, one
\* that runs downward the other halves.
ShiftedPaint(name, lane, first, dest) ==
  LET current(k) == IF Downward(lane) THEN first + k ELSE first + PhaseCount - k
      next(k) == IF Downward(lane) THEN current(k) + 1 ELSE current(k) - 1
      low == IF Downward(lane) THEN 0..3 ELSE 4..7
  IN  {<<name, current(k), 7 - p, Landing(lane, Normalized(lane, p) + 4, dest, k)>> :
         p \in low, k \in 0 .. PhaseCount - 1}
      \cup
      {<<name, next(k), 7 - p, Landing(lane, Normalized(lane, p) - 4, dest, k)>> :
         p \in 0..7 \ low, k \in 0 .. PhaseCount - 1}

\* Codewords drawn through the map, bit by bit.
MapPaint(cs) == {<<<<"map", 0>>, c, b, Entry(c, b)>> : c \in cs, b \in 0..7}

\* The kernel without a plan, also for streams at different offsets.
WholePaint == MapPaint(Codewords)

PairPaint(name, codeword, pair, dest, right, left) ==
  {<<name, codeword, 2 * pair, <<dest, right>>>>,
   <<name, codeword, 2 * pair + 1, <<dest, left>>>>}

RunPaint(name, r) ==
  UNION {PairPaint(name, r.first + k, p,
                   r.dest + (IF r.down THEN Line ELSE -Line) * ((4 * k) + p),
                   r.right, r.left) :
           k \in 0 .. r.count - 1, p \in 0..3}

\* A run that no group took: through the table when its slot has one.
SinglePaint(name, r) ==
  IF lut /\ Slot(r) # NoSlot /\ r.down = Downward(Slot(r))
  THEN LanePaint(name, Slot(r), r.first, r.count, Top(r))
  ELSE RunPaint(name, r)

Covered == UNION {runs[i].first .. (runs[i].first + runs[i].count - 1) : i \in Indices}
RunsPaint(single, indices) ==
  MapPaint(Codewords \ Covered)
    \cup UNION {IF single THEN SinglePaint(<<"run", i>>, runs[i])
               ELSE RunPaint(<<"run", i>>, runs[i]) : i \in indices}

GroupsPaint ==
  UNION {LanePaint(<<"group", g>>, lane, groups[g].first[lane + 1],
                   groups[g].count, groups[g].dest) :
           g \in DOMAIN groups, lane \in 0..3}

PhasesPaint ==
  UNION {IF lane \in phases[g].shifted
         THEN ShiftedPaint(<<"phase", g>>, lane, phases[g].first[lane + 1], phases[g].dest)
         ELSE LanePaint(<<"phase", g>>, lane, phases[g].first[lane + 1],
                        PhaseCount, phases[g].dest) :
           g \in DOMAIN phases, lane \in 0..3}

EdgesPaint ==
  UNION {PairPaint(<<"edge", 0>>, e.codeword, e.pair, e.dest, e.right, e.left) : e \in edges}

TriplesPaint ==
  UNION {LanePaint(<<"triple", g>>, lane, triples[g].first[lane],
                   triples[g].count, triples[g].dest) :
           g \in DOMAIN triples, lane \in 1..3}

Ungrouped == {i \in Indices : flag[i] = "none"}
Inexact == {i \in Indices : flag[i] # "exact"}

\* direct_scatter_rgb3_stripe_optimized(): the driver the plan allows.  The
\* phased one draws nothing at all when there is no exact group.
Painted ==
  IF runs = <<>> THEN WholePaint
  ELSE IF phases # <<>>
  THEN IF groups = <<>> THEN {}
       ELSE RunsPaint(TRUE, Ungrouped) \cup GroupsPaint
              \cup PhasesPaint \cup EdgesPaint \cup TriplesPaint
  ELSE IF groups # <<>> THEN RunsPaint(FALSE, Inexact) \cup GroupsPaint
  ELSE RunsPaint(FALSE, Indices)

-----------------------------------------------------------------------------
(* Properties.                                                              *)

\* Whatever was joined with what, the kernels together toggle every bit of
\* every codeword exactly once, at its own pixel of the placement map.  A
\* module toggled twice or at a neighbour's place is invisible to the sender:
\* the template it captures by toggling the symbol out is wrong in the same way.
DrawnOnce ==
  pc = "ready" =>
    LET drawn == Painted
    IN  /\ Cardinality(drawn) = 8 * Cardinality(Codewords)
        /\ {<<d[2], d[3], d[4]>> : d \in drawn}
             = {<<c, b, Entry(c, b)>> : c \in Codewords, b \in 0..7}

\* A run is left out of the run-by-run drawing exactly when one group draws it,
\* also after the phase groups have been given up for want of edges.
FlagsMatch ==
  /\ {runs[j].first : j \in {j \in Indices : flag[j] # "none"}}
       = UNION {{g.first[k] : k \in DOMAIN g.first} :
                  g \in {groups[n] : n \in DOMAIN groups}
                          \cup {phases[n] : n \in DOMAIN phases}
                          \cup {triples[n] : n \in DOMAIN triples}}
  /\ Cardinality({j \in Indices : flag[j] # "none"})
       = 4 * (Len(groups) + Len(phases)) + 3 * Len(triples)
=============================================================================
