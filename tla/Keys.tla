-------------------------------- MODULE Keys --------------------------------
(***************************************************************************)
(* The signing keys a push door believes (PublicKeys of comms/jwt.py, as   *)
(* Teams and Google Chat hold them): fetched from two urls at start, then  *)
(* again by a task that a request schedules when they have aged.           *)
(*                                                                         *)
(* A key is a number.  0 is what the first url publishes; the others are   *)
(* published by the second, whose owner signs the messages and rotates.    *)
(***************************************************************************)
EXTENDS Integers, FiniteSets, FiniteSetsExt

CONSTANTS TTL,        \* KEY_TTL_S, in ticks
          KeyBound,   \* bound of the model: keys the owner ever has
          FaultBound, \* bound of the model: fetches that fail
          TaskBound   \* bound of the model: refreshes at a time

KeysAssumption ==
    TTL \in Nat /\ KeyBound \in Nat \ {0} /\ FaultBound \in Nat /\ TaskBound \in Nat \ {0}

VARIABLES published, signing,   \* the owner's keys, and the one in use
          keys, age,            \* _keys, and the age of _fetched_at, TTL when aged out or never set
          refreshing,           \* _refreshing
          tasks,                \* the refreshes: url next, keys collected
          verdict,              \* of the last request
          faults,
          twice                 \* history: one was scheduled while another had not begun

vars == <<published, signing, keys, age, refreshing, tasks, verdict, faults, twice>>

Ids == 1 .. TaskBound
Urls == 1 .. 2
Idle == [at |-> 9, collected |-> {}]
Scheduled == [at |-> 0, collected |-> {}]    \* created, its first step not yet run
At(url) == IF url = 1 THEN {0} ELSE published

TypeOK ==
    /\ published \subseteq 1 .. KeyBound /\ signing \in published
    /\ keys \subseteq 0 .. KeyBound /\ age \in 0 .. TTL /\ faults \in 0 .. FaultBound
    /\ {refreshing, twice} \subseteq BOOLEAN /\ verdict \in {"none", "accepted", "refused"}
    /\ tasks \in [Ids -> [at : {0, 1, 2, 3, 9}, collected : SUBSET (0 .. KeyBound)]]

Init ==
    /\ published = {1} /\ signing = 1 /\ keys = {} /\ age = TTL /\ verdict = "none" /\ faults = 0
    /\ refreshing = TRUE /\ twice = FALSE   \* the door's start refreshes at once
    /\ tasks = [i \in Ids |-> IF i = 1 THEN [Scheduled EXCEPT !.at = 1] ELSE Idle]

-----------------------------------------------------------------------------
(* The owner adds a key before it uses it, and withdraws the old one after.*)

AddKey ==
    /\ Max(published) < KeyBound /\ published' = published \cup {Max(published) + 1}
    /\ UNCHANGED <<signing, keys, age, refreshing, tasks, verdict, faults, twice>>
UseKey ==
    /\ signing' = Max(published)
    /\ UNCHANGED <<published, keys, age, refreshing, tasks, verdict, faults, twice>>
DropKeys ==
    /\ published' = {k \in published : k >= signing}
    /\ UNCHANGED <<signing, keys, age, refreshing, tasks, verdict, faults, twice>>
Ages ==
    /\ age < TTL /\ age' = age + 1
    /\ UNCHANGED <<published, signing, keys, refreshing, tasks, verdict, faults, twice>>

-----------------------------------------------------------------------------

\* Variants named mutant_* are mistakes the properties must catch.
mutant_ensure_current == age = TTL
ensure_current == ~refreshing /\ age = TTL

\* A signed request: a refresh is scheduled, never awaited, and every key held
\* is tried.  bearer, verify.
Request ==
    LET idle == {i \in Ids : tasks[i] = Idle}
    IN  /\ verdict' = IF signing \in keys THEN "accepted" ELSE "refused"
        /\ IF ensure_current /\ idle # {}
           THEN /\ tasks' = [tasks EXCEPT ![Min(idle)] = Scheduled]
                /\ twice' = (twice \/ \E i \in Ids : tasks[i] = Scheduled)
           ELSE UNCHANGED <<tasks, twice>>
        /\ UNCHANGED <<published, signing, keys, age, refreshing, faults>>

Begin(i) ==
    /\ tasks[i].at = 0 /\ tasks' = [tasks EXCEPT ![i].at = 1] /\ refreshing' = TRUE
    /\ UNCHANGED <<published, signing, keys, age, verdict, faults, twice>>

\* One url after the other; one that is refused or unreadable is passed over.
Fetch(i) ==
    /\ tasks[i].at \in Urls
    /\ \/ /\ tasks' = [tasks EXCEPT ![i] = [at |-> @.at + 1, collected |-> @.collected \cup At(@.at)]]
          /\ UNCHANGED faults
       \/ /\ faults < FaultBound /\ faults' = faults + 1
          /\ tasks' = [tasks EXCEPT ![i].at = @ + 1]
    /\ UNCHANGED <<published, signing, keys, age, refreshing, verdict, twice>>

\* What was collected, if anything, is all that is believed from here on.
mutant_Ended(collected) == refreshing' = (collected = {})
Ended(collected) == refreshing' = FALSE
refresh(i) ==
    /\ tasks[i].at = 3 /\ tasks' = [tasks EXCEPT ![i] = Idle] /\ Ended(tasks[i].collected)
    /\ IF tasks[i].collected = {} THEN UNCHANGED <<keys, age>>
       ELSE keys' = tasks[i].collected /\ age' = 0
    /\ UNCHANGED <<published, signing, verdict, faults, twice>>

Runs(i) == Begin(i) \/ Fetch(i) \/ refresh(i)
Next ==
    \/ AddKey \/ UseKey \/ DropKeys \/ Ages \/ Request
    \/ \E i \in Ids : Runs(i)

\* The loop runs its tasks, the clock goes on, and the provider retries.
Fairness == WF_vars(Ages) /\ WF_vars(Request) /\ \A i \in Ids : WF_vars(Runs(i))
Spec == Init /\ [][Next]_vars /\ Fairness

-----------------------------------------------------------------------------

\* A set of the owner's keys never gives way to one read before it, but for two
\* refreshes scheduled before either began, which the flag does not keep apart.
KeysDoNotGoBack == [][(\E k \in keys' : k > 0) => Max(keys' \cup {0}) >= Max(keys \cup {0}) \/ twice]_vars

\* "A provider that rotates its signing keys without warning would otherwise be a
\* door that silently stops answering": once the owner stays with a key and the
\* network heals, its messages are accepted and stay so.
RotationIsSurvived == <>[](verdict = "accepted")

\* "A refresh already in flight is not started again."
OneRefresh == Cardinality({i \in Ids : tasks[i].at \in 1 .. 3}) <= 1

\* Partial success is success, so that a transient fault does not close the door:
\* a key in use that was held is not lost to a fetch.
FaultClosesNoDoor == [][(signing \in keys) => (signing \in keys')]_vars
=============================================================================
