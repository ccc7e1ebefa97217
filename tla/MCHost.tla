------------------------------- MODULE MCHost -------------------------------
(***************************************************************************)
(* The parts beside the loop on a small instance: a directory with one     *)
(* file and a file outside it, and one delegated thread of each role.      *)
(***************************************************************************)
EXTENDS Host

MCHolds == [p \in Paths |-> IF p = "dir" THEN {"dir", "inside"} ELSE {p}]
MCCommands == {<<"inside">>, <<"dir">>, <<"outside", "inside">>}
MCRole == [t \in Threads |-> CASE t = "d" -> "delegate" [] t = "v" -> "verifier" [] t = "s" -> "subagent"]
=============================================================================
