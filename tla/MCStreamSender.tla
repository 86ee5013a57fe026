--------------------------- MODULE MCStreamSender ---------------------------
(***************************************************************************)
(* Transfers for TLC.                                                      *)
(***************************************************************************)
EXTENDS StreamSender

Transfer(width, window, dirs, files) ==
  [width |-> width, window |-> window, dirs |-> dirs, files |-> files]

File(full, part, after) == [full |-> full, part |-> part, dirs |-> after]

\* Both widths; windows that fit the groups and windows with tails of one and
\* two; files of no DATA to a window and a half, one or two of them,
\* with directories before, between and after them.
MCTransfers ==
  {Transfer(width, window, 0, <<File(full, part, 0)>>) :
     width \in {3, 4}, window \in 4..6, full \in 0..9, part \in 0..1}
  \union {Transfer(width, 4, dirs, <<File(1, 1, dirs), File(full, 0, 1)>>) :
     width \in {3, 4}, dirs \in 0..2, full \in 2..5}
=============================================================================
