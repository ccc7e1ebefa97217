-------------------------- MODULE MCActionJournal --------------------------
(* The journal on three calls, one in the core and two in the toolhost     *)
(* process, which share one key or carry none.                             *)
EXTENDS ActionJournal, TLC

CONSTANTS c1, c2, c3

ThreeCalls == {c1, c2, c3}
ServedRemotely == {c2, c3}
Symmetry == Permutations(Remote)
=============================================================================
