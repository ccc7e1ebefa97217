----------------------------- MODULE AuditChain -----------------------------
(***************************************************************************)
(* The audit trail (ethos/observability/audit.py): every process that      *)
(* writes it keeps the chain's head in memory, reads it from the table     *)
(* once, and moves it when an insert has come back.  The core and the      *)
(* toolhost are two such processes, and each runs several tasks.           *)
(***************************************************************************)
EXTENDS Naturals, Sequences

CONSTANTS Writers,   \* processes with an AuditLog of their own
          Slots,     \* tasks of one process that append
          MaxRows, MaxFaults, Limit

AuditAssumption == {MaxRows, MaxFaults, Limit} \subseteq Nat

GENESIS == [by |-> "genesis", n |-> 0]

VARIABLES audit_log,  \* the table: each row's own hash and the one it covers
          primed, head,
          task,       \* <<writer, slot>> |-> the append it is in
          asked,      \* appends begun so far
          faults,
          shared      \* two were at it, or a row's writer never heard of it

vars == <<audit_log, primed, head, task, asked, faults, shared>>

Tasks  == Writers \X Slots
Idle   == [at |-> "idle", hash |-> GENESIS, prev |-> GENESIS]
Hashes == {GENESIS} \cup [by : Writers, n : 1 .. MaxRows]

TypeOK ==
    /\ audit_log \in Seq([hash : Hashes, prev : Hashes])
    /\ primed \in [Writers -> BOOLEAN] /\ head \in [Writers -> Hashes]
    /\ task \in [Tasks -> [at : {"idle", "asking", "asked", "inserting", "inserted"}, hash : Hashes, prev : Hashes]]
    /\ asked \in 0 .. MaxRows /\ faults \in 0 .. MaxFaults /\ shared \in BOOLEAN

Init ==
    /\ audit_log = << >> /\ primed = [w \in Writers |-> FALSE] /\ head = [w \in Writers |-> GENESIS]
    /\ task = [t \in Tasks |-> Idle] /\ asked = 0 /\ faults = 0 /\ shared = FALSE

\* Variants named mutant_* are mistakes the properties must catch.
last == IF audit_log = << >> THEN GENESIS ELSE audit_log[Len(audit_log)].hash

\* What an append starts from, once the head is known.
Linked(t, h) == [at |-> "inserting", hash |-> [by |-> t[1], n |-> asked'], prev |-> h]

mutant_append_ahead(t) ==
    /\ task[t].at = "idle" /\ asked < MaxRows /\ asked' = asked + 1
    /\ task' = [task EXCEPT ![t] = IF primed[t[1]] THEN Linked(t, head[t[1]])
                                  ELSE [Idle EXCEPT !.at = "asking", !.hash = [by |-> t[1], n |-> asked']]]
    /\ shared' = (shared \/ (\E u \in Tasks : task[u].at # "idle") \/ \E w \in Writers \ {t[1]} : primed[w])
    /\ head' = IF primed[t[1]] THEN [head EXCEPT ![t[1]] = [by |-> t[1], n |-> asked']] ELSE head
    /\ UNCHANGED <<audit_log, primed, faults>>
append(t) ==
    /\ task[t].at = "idle" /\ asked < MaxRows /\ asked' = asked + 1
    /\ task' = [task EXCEPT ![t] = IF primed[t[1]] THEN Linked(t, head[t[1]])
                                  ELSE [Idle EXCEPT !.at = "asking", !.hash = [by |-> t[1], n |-> asked']]]
    /\ shared' = (shared \/ (\E u \in Tasks : task[u].at # "idle") \/ \E w \in Writers \ {t[1]} : primed[w])
    /\ UNCHANGED <<audit_log, primed, head, faults>>

\* _prime: the answer is of when the table was asked, the head moves when the
\* task goes on; of two that ask at once the later one moves it again.
Asks(t) ==
    /\ task[t].at = "asking"
    /\ task' = [task EXCEPT ![t].at = "asked", ![t].prev = last]
    /\ UNCHANGED <<audit_log, primed, head, asked, faults, shared>>
_prime(t) ==
    /\ task[t].at = "asked"
    /\ task' = [task EXCEPT ![t].at = "inserting"]
    /\ primed' = [primed EXCEPT ![t[1]] = TRUE] /\ head' = [head EXCEPT ![t[1]] = task[t].prev]
    /\ UNCHANGED <<audit_log, asked, faults, shared>>

Inserted(t) ==
    /\ task[t].at = "inserting"
    /\ audit_log' = Append(audit_log, [hash |-> task[t].hash, prev |-> task[t].prev])
    /\ task' = [task EXCEPT ![t].at = "inserted"]
    /\ UNCHANGED <<primed, head, asked, faults, shared>>
Returned(t) ==
    /\ task[t].at = "inserted"
    /\ head' = [head EXCEPT ![t[1]] = task[t].hash] /\ task' = [task EXCEPT ![t] = Idle]
    /\ UNCHANGED <<audit_log, primed, asked, faults, shared>>

\* The insert fails, or only its answer is lost; both raise in the caller.
Raised(t) ==
    /\ task[t].at \in {"asking", "inserting", "inserted"} /\ faults < MaxFaults /\ faults' = faults + 1
    /\ shared' = (shared \/ task[t].at = "inserted") /\ task' = [task EXCEPT ![t] = Idle]
    /\ UNCHANGED <<audit_log, primed, head, asked>>
Restarts(w) ==
    /\ faults < MaxFaults /\ faults' = faults + 1 /\ primed[w]
    /\ primed' = [primed EXCEPT ![w] = FALSE] /\ head' = [head EXCEPT ![w] = GENESIS]
    /\ task' = [t \in Tasks |-> IF t[1] = w THEN Idle ELSE task[t]]
    /\ UNCHANGED <<audit_log, asked, shared>>

Next ==
    \/ \E t \in Tasks : append(t) \/ Asks(t) \/ _prime(t) \/ Inserted(t) \/ Returned(t) \/ Raised(t)
    \/ \E w \in Writers : Restarts(w)
Spec == Init /\ [][Next]_vars

-----------------------------------------------------------------------------

\* Over the newest Limit rows, the oldest of which is taken at its word.
entries == SubSeq(audit_log, IF Len(audit_log) > Limit THEN Len(audit_log) - Limit + 1 ELSE 1, Len(audit_log))
verify_chain ==
    /\ entries # << >> => (entries[1].prev = GENESIS \/ Len(audit_log) > Limit)
    /\ \A i \in 2 .. Len(entries) : entries[i].prev = entries[i - 1].hash

\* A trail one task of one process writes at a time verifies, whatever fails
\* and whoever restarts, as long as each writer is told of what it wrote.
ForksOnlyWhenShared == shared \/ verify_chain

\* audit.py:133 "Every entry's hash covers the previous hash, making silent
\* tampering detectable": the trail of an agent nobody tampered with verifies.
UntouchedTrailVerifies == verify_chain
=============================================================================
