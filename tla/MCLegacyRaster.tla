--------------------------- MODULE MCLegacyRaster ---------------------------
(***************************************************************************)
(* Command lines, lengths and payloads for TLC.                            *)
(***************************************************************************)
EXTENDS LegacyRaster

Config(rgb3, group, chain, anchor, repeat, size) ==
  [rgb3 |-> rgb3, group |-> group, chain |-> chain, anchor |-> anchor,
   repeat |-> repeat, size |-> size]

\* The default /RE:3, no redundancy, other groups and chains, in colour and in
\* BW; windows with short ends, the smaller ones shown twice.
DrawnConfigs ==
  {Config(rgb3, re[1], re[2], re[3], at[1], at[2]) :
     rgb3 \in BOOLEAN, at \in {<<2, 7>>, <<1, 11>>},
     re \in {<<3, 0, 0>>, <<0, 0, 0>>, <<4, 0, 0>>, <<0, 2, 3>>, <<0, 4, 2>>}}
  \cup {Config(FALSE, 0, 4, 0, 1, 5), Config(FALSE, 0, 2, 2, 2, 5)}

\* Full frames but for the ends of files; records of one short length; and
\* lengths that differ all the time.
DrawnPayloads == {<<1, 3, 3, 3, 3, 3, 3, 2>>, <<2>>, <<3, 1, 3, 3, 2, 2>>}

TypedRanges == {{<<2, 4>>}, {<<0, 1>>, <<9, 99>>}, {<<40, 50>>}}
=============================================================================
