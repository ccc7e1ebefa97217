------------------------------ MODULE MCRecords ------------------------------
(***************************************************************************)
(* The parts that keep records on a small instance: one message of each    *)
(* door and a second where one may be taken for another, two tools, three  *)
(* old episodes of two months.                                             *)
(***************************************************************************)
EXTENDS Records

M(d, i, n) == [door |-> d, id |-> i, n |-> n]
MCMessages == {M("telegram", 1, 1), M("push", 1, 1), M("push", 0, 1), M("push", 0, 2),
               M("discord", 0, 1), M("email", 1, 1)}
MCTools == <<"patch.write", "shell.run">>
MCSanitized == [n \in {"patch.write", "shell.run"} |-> IF n = "patch.write" THEN "patch__write" ELSE "shell__run"]
MCSalience == [inbound |-> 85, event |-> 35]
MCOld == [e1 |-> [month |-> "may", from |-> 1], e2 |-> [month |-> "may", from |-> 2],
          e3 |-> [month |-> "june", from |-> 2]]
MCReplies == {[claims |-> FALSE, names |-> {}], [claims |-> TRUE, names |-> {}],
              [claims |-> TRUE, names |-> {"apex", "foundry"}]}
=============================================================================
