-------------------------- MODULE MCPlanePlayback ---------------------------
(***************************************************************************)
(* Options and lengths for TLC.                                            *)
(***************************************************************************)
EXTENDS PlanePlayback

Transfer(width, window, total) ==
  [width |-> width, window |-> window, total |-> total]

\* Both widths; windows that fit the groups and that leave one to three over;
\* last windows of every length; and one long enough to fill all the slots.
MCTransfers ==
  {Transfer(width, window, total) :
     width \in {3, 4}, window \in 4..6, total \in 4..9}
  \union {Transfer(3, 4, 21), Transfer(4, 5, 26)}
=============================================================================
