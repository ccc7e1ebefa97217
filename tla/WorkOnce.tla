------------------------------ MODULE WorkOnce ------------------------------
(***************************************************************************)
(* What an idempotency key promises a caller, with nothing of how          *)
(* (ethos/guardian/journal.py, `replayable` and `begin`): the work of a    *)
(* key is free to be claimed, claimed by one attempt, settled by a         *)
(* success, or in doubt.  Only a failure frees it again; work that is      *)
(* settled, or truly in doubt, is never claimed again.  A failure that the *)
(* record does not show looks like a doubt, and may be freed late.         *)
(***************************************************************************)
CONSTANT Keys

VARIABLE work

Doubtful == {"in_doubt", "failed_in_doubt"}
States   == {"free", "claimed", "settled"} \cup Doubtful

Init == work = [k \in Keys |-> "free"]

Move(k, from, to) ==
    /\ work[k] \in from
    /\ work' = [work EXCEPT ![k] = to]

Claim(k)    == Move(k, {"free"}, "claimed")
Settle(k)   == Move(k, {"claimed"}, "settled")
Refuse(k)   == Move(k, {"claimed"}, "free")
Doubt(k)    == Move(k, {"claimed", "settled"}, "in_doubt")
Misdoubt(k) == Move(k, {"free", "claimed"}, "failed_in_doubt")
Clear(k)    == Move(k, {"failed_in_doubt"}, "free")

\* A crash puts every claim of the process that died in doubt at once.
DoubtAll ==
    /\ work' \in [Keys -> States]
    /\ \A k \in Keys : work'[k] # work[k] =>
          work[k] = "claimed" /\ work'[k] \in Doubtful

KeyStep(k) ==
    Claim(k) \/ Settle(k) \/ Refuse(k) \/ Doubt(k) \/ Misdoubt(k) \/ Clear(k)

Next == DoubtAll \/ \E k \in Keys : KeyStep(k)

Spec == Init /\ [][Next]_work
=============================================================================
