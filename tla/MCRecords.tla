----------------------------- MODULE MCRecords -----------------------------
(***************************************************************************)
(* Small disks and selections for TLC.                                     *)
(***************************************************************************)
EXTENDS Records, TLC

CONSTANTS r1, r2

Dir(name, children) == [name |-> name, kind |-> "dir", children |-> children, sizes |-> <<0>>]
File(name, sizes) == [name |-> name, kind |-> "file", children |-> <<>>, sizes |-> sizes]

\* C:\D\{A, E\{A, DOSFER.$$$}}, and another D with an A in it.
Disk ==
  [d |-> Dir("D", <<"a", "e">>), a |-> File("A", <<5, 5, 2, -1>>),
   e |-> Dir("E", <<"b", "m">>), b |-> File("A", <<0, 1>>), m |-> File("DOSFER", <<2>>),
   o |-> Dir("D", <<"c">>), c |-> File("A", <<2, 4>>)]

Disks == {Disk}
Chosen == {<<"d">>, <<"a", "a">>, <<"d", "o">>}
AtRoot == {<<"A">>, <<"D">>}

ReaderPair == {r1, r2}
ReaderSymmetry == Permutations(ReaderPair)
=============================================================================
