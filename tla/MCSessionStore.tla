---------------------------- MODULE MCSessionStore ----------------------------
(***************************************************************************)
(* Small transfers for TLC: the frames a sender emits for them.            *)
(***************************************************************************)
EXTENDS SessionStore, TLC

Frame(kind, s, w, index, wi, wc, sid, off, flags, payload) ==
  [kind |-> kind, session |-> s, window |-> w, globalIndex |-> index,
   windowIndex |-> wi, windowCount |-> wc, streamId |-> sid,
   streamOffset |-> off, flags |-> flags, payload |-> payload]

DataOf(s, w, start, wc, index) ==
  Frame("DATA", s, w, index, index - start, wc, 0, 0, "WHITENED", {index})

EndOf(s, w, index, wc) ==
  Frame("END_WINDOW", s, w, index, 0, wc, 0, 0, "NONE", {})

ChainOf(s, w, start, wc, index) ==
  Frame("CHAIN_XOR", s, w, index, index - start, wc, 0, 0, "PAIR_WHITENED",
        {index, index + 1})

BlockOf(s, w, start, wc, index, count) ==
  Frame("BLOCK_XOR", s, w, index, index - start, wc, count, 0, "WHITENED",
        index..(index + count - 1))

GroupOf(s, w, start, wc, index, count, stride) ==
  Frame("BLOCK_XOR", s, w, index, index - start, wc, count, stride,
        "GROUP_XOR_WHITENED", {index + i * stride : i \in 0..(count - 1)})

\* The width + 1 plane symbols of the group whose first record is `group`.
PlanesOf(s, w, start, wc, group, width) ==
  {Frame("PLANE_CODED", s, w, c, group - start, wc, group, width, "PLANE_WHITENED",
         {group + BasisOf(c)}) : c \in {b \in BasisCoefficients : BasisOf(b) < width}}
  \cup
  {Frame("PLANE_CODED", s, w, IF width = 3 THEN 7 ELSE 15, group - start, wc, group,
         width, IF width = 3 THEN "PLANE_WHITENED" ELSE "NONE",
         group..(group + width - 1))}

CONSTANTS s1, s2

\* One session in two windows, with chained equations, one contiguous block
\* and one strided group.
PeelFrames ==
  {DataOf(s1, 0, 0, 4, i) : i \in 0..3}
  \cup {DataOf(s1, 1, 4, 1, 4)}
  \cup {ChainOf(s1, 0, 0, 4, 2), BlockOf(s1, 0, 0, 4, 0, 3), GroupOf(s1, 0, 0, 4, 1, 2, 2),
        EndOf(s1, 0, 3, 4)}

\* One window of session s sent as two overlapping plane groups of three, with
\* the final record also shown as a DATA frame.
PlaneFrames(s) ==
  PlanesOf(s, 0, 0, 4, 0, 3) \cup PlanesOf(s, 0, 0, 4, 1, 3)
  \cup {DataOf(s, 0, 0, 4, 3)}

\* Either sender, but not both before a reset; the camera never sees the plane
\* of the middle record of the second group.
TransferFrames ==
  PeelFrames \cup {f \in PlaneFrames(s2) : ~(f.streamId = 1 /\ f.globalIndex = 2)}
TransferEnd == (s1 :> 4) @@ (s2 :> 3)
TransferTokens == 0..4
Untouched(s) == equations[s] = {} /\ Retained(s) = {}
OneSender == Untouched(s1) \/ Untouched(s2)
OneSenderSpec == Init /\ [][Next /\ OneSender']_vars

\* The planes alone.
PlanesAlone == PlaneFrames(s1)
PlanesEnd == s1 :> 3

\* A short and a longer session, whose first record is seen as a plane basis
\* and its others as DATA, beside the parity, and a DATA frame of s1 that
\* carries a record of another transfer.
TwoFrames ==
  {DataOf(s1, 0, 0, 2, i) : i \in 0..1}
  \cup {[DataOf(s1, 0, 0, 2, 1) EXCEPT !.payload = {9}]}
  \cup {ChainOf(s1, 0, 0, 2, 0), EndOf(s1, 0, 1, 2)}
  \cup {DataOf(s2, 0, 0, 3, i) : i \in 1..2}
  \cup {p \in PlanesOf(s2, 0, 0, 3, 0, 3) : p.globalIndex \in {1, 7}}
  \cup {EndOf(s2, 0, 2, 3)}
TwoEnd == (s1 :> 1) @@ (s2 :> 2)
TwoTokens == 0..2 \cup {9}
===============================================================================
