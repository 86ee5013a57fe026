----------------------------- MODULE MCTransfer -----------------------------
(***************************************************************************)
(* Transfers of two windows for TLC.                                       *)
(***************************************************************************)
EXTENDS Transfer

Config(rgb3, group, chain) ==
  [rgb3 |-> rgb3, group |-> group, chain |-> chain, anchor |-> 0,
   repeat |-> 1, size |-> 4]

TwoConfigs == {Config(TRUE, 3, 0), Config(FALSE, 0, 2)}
=============================================================================
