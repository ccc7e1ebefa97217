------------------------------- MODULE MCLive -------------------------------
(***************************************************************************)
(* One goal and two messages; two works over two days; one door of each    *)
(* kind; three keys.                                                       *)
(***************************************************************************)
EXTENDS Live

MCPriority == [commitment |-> 500, venture |-> 600, task |-> 400, habit |-> 400]
=============================================================================
