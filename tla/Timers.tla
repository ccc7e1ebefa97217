------------------------------- MODULE Timers -------------------------------
(***************************************************************************)
(* Timers and alarms (ethos/core/scheduler.py, asked for through           *)
(* toolhost/tools/schedule.py): a table in memory the loop reads every     *)
(* second, and the rows it is loaded from after a restart.                 *)
(***************************************************************************)
EXTENDS Naturals, FiniteSets

CONSTANTS OneShots, Repeating,  \* timer ids
          MaxFires, MaxFaults

Ids == OneShots \cup Repeating

TimersAssumption ==
    /\ OneShots \cap Repeating = {} /\ "none" \notin Ids
    /\ MaxFires \in Nat /\ MaxFaults \in Nat

VARIABLES timers, rows,  \* ids in memory, ids with a row
          passed,        \* ids whose moment has come
          asks,          \* id |-> what its owner asked and heard
          due, hand,     \* the loop's list, and the timer it is at
          running,       \* whether the loop's task still lives
          fired,         \* id |-> timer.fired events published, counted up to MaxFires
          faults,
          raced, lost    \* asked about while the loop had it; dropped by a crash

vars == <<timers, rows, passed, asks, due, hand, running, fired, faults, raced, lost>>

Nothing == [id |-> "none", at |-> "none"]
Asked   == {"never", "persisting", "known", "refused", "removing", "cancelled", "not cancelled"}

TypeOK ==
    /\ timers \subseteq Ids /\ rows \subseteq Ids /\ passed \subseteq Ids
    /\ asks \in [Ids -> Asked]
    /\ due \subseteq Ids /\ running \in BOOLEAN
    /\ hand \in {Nothing} \cup [id : Ids, at : {"row", "event"}]
    /\ fired \in [Ids -> 0 .. MaxFires] /\ faults \in 0 .. MaxFaults
    /\ raced \subseteq Ids /\ lost \subseteq Ids

Init ==
    /\ timers = {} /\ rows = {} /\ passed = {} /\ asks = [i \in Ids |-> "never"]
    /\ due = {} /\ hand = Nothing /\ running = TRUE
    /\ fired = [i \in Ids |-> 0] /\ faults = 0 /\ raced = {} /\ lost = {}

Held(i) == i \in due \/ hand.id = i

-----------------------------------------------------------------------------
(* The tools: the table is changed at once, the row after an await. *)

schedule(i) ==
    /\ asks[i] = "never"
    /\ asks' = [asks EXCEPT ![i] = "persisting"] /\ timers' = timers \cup {i}
    /\ UNCHANGED <<rows, passed, due, hand, running, fired, faults, raced, lost>>
_persist(i) ==
    /\ asks[i] = "persisting"
    /\ asks' = [asks EXCEPT ![i] = "known"] /\ rows' = rows \cup {i}
    /\ UNCHANGED <<timers, passed, due, hand, running, fired, faults, raced, lost>>
cancel(i) ==
    /\ asks[i] = "known"
    /\ asks' = [asks EXCEPT ![i] = "removing"] /\ timers' = timers \ {i}
    /\ raced' = IF Held(i) THEN raced \cup {i} ELSE raced
    /\ UNCHANGED <<rows, passed, due, hand, running, fired, faults, lost>>
mutant_remove_only_memory(i) ==
    /\ asks[i] = "removing" /\ asks' = [asks EXCEPT ![i] = "cancelled"]
    /\ UNCHANGED <<timers, rows, passed, due, hand, running, fired, faults, raced, lost>>
_remove(i) ==
    /\ asks[i] = "removing"
    /\ asks' = [asks EXCEPT ![i] = "cancelled"] /\ rows' = rows \ {i}
    /\ UNCHANGED <<timers, passed, due, hand, running, fired, faults, raced, lost>>
\* The row cannot be written: the owner is told, the table keeps the change.
Refused(i) ==
    /\ faults < MaxFaults /\ faults' = faults + 1
    /\ \/ asks[i] = "persisting" /\ asks' = [asks EXCEPT ![i] = "refused"]
       \/ asks[i] = "removing" /\ asks' = [asks EXCEPT ![i] = "not cancelled"]
    /\ UNCHANGED <<timers, rows, passed, due, hand, running, fired, raced, lost>>

-----------------------------------------------------------------------------
(* The loop: its list is made at one moment and worked through with awaits. *)

TimeComes(i) ==
    /\ i \in timers \ passed
    /\ passed' = passed \cup {i}
    /\ UNCHANGED <<timers, rows, asks, due, hand, running, fired, faults, raced, lost>>

_loop ==
    /\ running /\ due = {} /\ hand = Nothing /\ timers \cap passed # {}
    /\ due' = timers \cap passed
    /\ raced' = raced \cup {i \in timers \cap passed : asks[i] = "persisting"}
    /\ UNCHANGED <<timers, rows, passed, asks, hand, running, fired, faults, lost>>
Takes(i) ==
    /\ running /\ hand = Nothing /\ i \in due
    /\ due' = due \ {i} /\ hand' = [id |-> i, at |-> "row"]
    /\ timers' = IF i \in OneShots THEN timers \ {i} ELSE timers
    /\ passed' = IF i \in OneShots THEN passed ELSE passed \ {i}
    /\ UNCHANGED <<rows, asks, running, fired, faults, raced, lost>>

\* Variants named mutant_* are mistakes the properties must catch.
mutant_RowAfter(i) == IF i \in Repeating THEN rows \cup {i} ELSE rows
RowAfter(i) == IF i \in Repeating THEN rows \cup {i} ELSE rows \ {i}
RowWritten ==
    /\ hand.at = "row"
    /\ rows' = RowAfter(hand.id) /\ hand' = [hand EXCEPT !.at = "event"]
    /\ UNCHANGED <<timers, passed, asks, due, running, fired, faults, raced, lost>>
_fire ==
    /\ hand.at = "event"
    /\ fired' = [fired EXCEPT ![hand.id] = IF @ < MaxFires THEN @ + 1 ELSE @] /\ hand' = Nothing
    /\ UNCHANGED <<timers, rows, passed, asks, due, running, faults, raced, lost>>

\* What was in hand: with its row rewritten it will not fire this time, else
\* its row still says that its moment came.
Dropped ==
    /\ lost' = IF hand.at = "event" THEN lost \cup {hand.id} ELSE lost
    /\ passed' = IF hand.at = "row" THEN passed \cup {hand.id} ELSE passed
\* Whatever raises ends the loop's task, and nobody starts another.
Raises ==
    /\ running /\ hand # Nothing /\ faults < MaxFaults /\ faults' = faults + 1
    /\ running' = FALSE /\ due' = {} /\ hand' = Nothing
    /\ Dropped
    /\ UNCHANGED <<timers, rows, asks, fired, raced>>

mutant_load_ahead ==
    /\ faults < MaxFaults /\ faults' = faults + 1
    /\ timers' = rows \ passed /\ due' = {} /\ hand' = Nothing /\ running' = TRUE
    /\ asks' = [i \in Ids |-> IF asks[i] = "persisting" THEN "refused"
                              ELSE IF asks[i] = "removing" THEN "not cancelled" ELSE asks[i]]
    /\ Dropped
    /\ UNCHANGED <<rows, fired, raced>>
\* The process ends and is started again: start loads the rows.
load ==
    /\ faults < MaxFaults /\ faults' = faults + 1
    /\ timers' = rows /\ due' = {} /\ hand' = Nothing /\ running' = TRUE
    /\ asks' = [i \in Ids |-> IF asks[i] = "persisting" THEN "refused"
                              ELSE IF asks[i] = "removing" THEN "not cancelled" ELSE asks[i]]
    /\ Dropped
    /\ UNCHANGED <<rows, fired, raced>>

Next ==
    \/ _loop \/ RowWritten \/ _fire \/ Raises \/ load
    \/ \E i \in Ids : schedule(i) \/ _persist(i) \/ cancel(i) \/ _remove(i) \/ Refused(i) \/ TimeComes(i) \/ Takes(i)

\* The loop goes on as long as its task lives; nothing is said of callers.
Fairness == WF_vars(_loop) /\ WF_vars(RowWritten) /\ WF_vars(_fire) /\ \A i \in Ids : WF_vars(Takes(i))
Spec == Init /\ [][Next]_vars /\ Fairness

-----------------------------------------------------------------------------

\* A one-shot timer fires once at most, over crashes too: only one that came
\* due before its own row was written leaves a row to be fired again.
FiredOnce == \A i \in OneShots \ raced : fired[i] <= 1

\* What was cancelled is gone from the table and the rows, so that no restart
\* brings it back, unless the loop had it in hand as it was cancelled.
CancelledIsGone == \A i \in Ids \ raced : asks[i] = "cancelled" => i \notin timers \cup rows

\* A timer whose moment came fires or is cancelled; a loop that a failed write
\* ended fires nothing more, and a crash may take an alarm already off the row.
ComesToFire ==
    \A i \in Ids : (asks[i] = "known" /\ i \in passed \cap timers /\ running) ~>
        (fired[i] > 0 \/ i \in lost \/ asks[i] # "known" \/ ~running)
=============================================================================
