--------------------------- MODULE ActionJournal ---------------------------
(***************************************************************************)
(* The write-ahead action journal (ethos/guardian/journal.py) with the two *)
(* parties that write it: Toolhost.execute (ethos/toolhost/server.py), one *)
(* call per tool action, and ContinuityManager.wake_up                     *)
(* (ethos/memory/continuity.py), which reconciles it when a new core       *)
(* incarnation starts.  A call carries an idempotency key; the journal's   *)
(* row decides whether it runs, is answered from the row, or is told that  *)
(* nobody knows.  Calls run in the core or in the ethos-toolhost process,  *)
(* which outlives a core that crashes.                                     *)
(*                                                                         *)
(* One element of Calls is one call of execute, and its journal row is     *)
(* named by the call.  Every await of the handler is a step boundary.      *)
(***************************************************************************)
EXTENDS Naturals, FiniteSets

CONSTANTS Calls,    \* calls of Toolhost.execute
          Remote,   \* those served by the ethos-toolhost process
          Keys,     \* idempotency keys
          NoKey,    \* the SQL NULL of the key column, and a call without a key
          NoRow     \* no prior row was found

ASSUME JournalAssumption ==
    /\ Remote \subseteq Calls
    /\ NoKey \notin Keys
    /\ NoRow \notin Calls

VARIABLES asked,    \* the key each call was made with
          pc,       \* where each call is
          prior,    \* the row a call read before it decided to release it
          outcome,  \* how the tool run of each call ended
          answer,   \* what execute returned
          rowKey,   \* the journal: key column of each call's row
          status,   \* the journal: status column, "absent" before the INSERT
          effect,   \* the tool's work has happened
          stray,    \* work left behind by a call that gave up on it
          core,     \* the core process: "up", "down" or reconciling
          doubtful  \* wake_up's SELECT of running rows, not yet marked

callVars == <<asked, pc, prior, outcome, answer>>
rowVars  == <<rowKey, status>>
workVars == <<effect, stray>>
coreVars == <<core, doubtful>>
vars     == <<callVars, rowVars, workVars, coreVars>>

Decided  == {"failed", "timeout", "rejected"}
Terminal == Decided \cup {"ok"}
Status   == Terminal \cup {"absent", "running", "interrupted"}
Owning   == {"reviewing", "running", "finishing"}
InFlight == Owning \cup {"finding", "releasing", "inserting"}
Ended    == {"answered", "gone"}
Answers  == {"none", "ok", "not_ok", "replayed", "unknown", "raised"}

Local == Calls \ Remote

Holders(k) == {d \in Calls : k # NoKey /\ rowKey[d] = k}

\* Variants named mutant_* are mistakes the properties must catch; no action
\* uses them.
mutant_replayable_running(d) == status[d] \in {"ok", "running"}
replayable(d) == status[d] = "ok"

mutant_released_interrupted(d) == status[d] \in Decided \cup {"interrupted"}
mutant_released_terminal(d)    == status[d] \in Terminal
released(d) == status[d] \in Decided

TypeOK ==
    /\ asked \in [Calls -> Keys \cup {NoKey}]
    /\ pc \in [Calls -> InFlight \cup Ended \cup {"idle"}]
    /\ prior \in [Calls -> Calls \cup {NoRow}]
    /\ outcome \in [Calls -> Terminal \cup {"none"}]
    /\ answer \in [Calls -> Answers]
    /\ rowKey \in [Calls -> Keys \cup {NoKey}]
    /\ status \in [Calls -> Status]
    /\ effect \in [Calls -> BOOLEAN]
    /\ stray \in [Calls -> BOOLEAN]
    /\ core \in {"up", "down", "waking"}
    /\ doubtful \in SUBSET Calls

Init ==
    /\ asked = [c \in Calls |-> NoKey]
    /\ pc = [c \in Calls |-> "idle"]
    /\ prior = [c \in Calls |-> NoRow]
    /\ outcome = [c \in Calls |-> "none"]
    /\ answer = [c \in Calls |-> "none"]
    /\ rowKey = [c \in Calls |-> NoKey]
    /\ status = [c \in Calls |-> "absent"]
    /\ effect = [c \in Calls |-> FALSE]
    /\ stray = [c \in Calls |-> FALSE]
    /\ core = "up"
    /\ doubtful = {}

-----------------------------------------------------------------------------
(* A call of execute, step by step. *)

execute(c, k) ==
    /\ pc[c] = "idle"
    /\ c \in Local => core = "up"
    /\ asked' = [asked EXCEPT ![c] = k]
    /\ pc' = [pc EXCEPT ![c] = IF k = NoKey THEN "inserting" ELSE "finding"]
    /\ UNCHANGED <<prior, outcome, answer, rowVars, workVars, coreVars>>

Answer(c, a) ==
    /\ pc' = [pc EXCEPT ![c] = "answered"]
    /\ answer' = [answer EXCEPT ![c] = a]

\* begin: read the row that holds the key, and decide on what was read.
FindNothing(c) ==
    /\ pc[c] = "finding"
    /\ Holders(asked[c]) = {}
    /\ pc' = [pc EXCEPT ![c] = "inserting"]
    /\ UNCHANGED <<asked, prior, outcome, answer, rowVars, workVars, coreVars>>

FindDuplicate(c) ==
    /\ pc[c] = "finding"
    /\ \E d \in Holders(asked[c]) :
          /\ ~released(d)
          /\ Answer(c, IF replayable(d) THEN "replayed" ELSE "unknown")
    /\ UNCHANGED <<asked, prior, outcome, rowVars, workVars, coreVars>>

FindDecided(c) ==
    /\ pc[c] = "finding"
    /\ \E d \in Holders(asked[c]) :
          /\ released(d)
          /\ prior' = [prior EXCEPT ![c] = d]
    /\ pc' = [pc EXCEPT ![c] = "releasing"]
    /\ UNCHANGED <<asked, outcome, answer, rowVars, workVars, coreVars>>

_release(c) ==
    /\ pc[c] = "releasing"
    /\ rowKey' = [rowKey EXCEPT ![prior[c]] = NoKey]
    /\ pc' = [pc EXCEPT ![c] = "inserting"]
    /\ UNCHANGED <<asked, prior, outcome, answer, status, workVars, coreVars>>

mutant_begin_without_unique(c) ==
    /\ pc[c] = "inserting"
    /\ rowKey' = [rowKey EXCEPT ![c] = asked[c]]
    /\ status' = [status EXCEPT ![c] = "running"]
    /\ pc' = [pc EXCEPT ![c] = "reviewing"]
    /\ UNCHANGED <<asked, prior, outcome, answer, workVars, coreVars>>

begin(c) ==
    /\ pc[c] = "inserting"
    /\ Holders(asked[c]) = {}
    /\ rowKey' = [rowKey EXCEPT ![c] = asked[c]]
    /\ status' = [status EXCEPT ![c] = "running"]
    /\ pc' = [pc EXCEPT ![c] = "reviewing"]
    /\ UNCHANGED <<asked, prior, outcome, answer, workVars, coreVars>>

\* The UNIQUE constraint refuses the INSERT and execute raises.
BeginCollides(c) ==
    /\ pc[c] = "inserting"
    /\ Holders(asked[c]) # {}
    /\ Answer(c, "raised")
    /\ UNCHANGED <<asked, prior, outcome, rowVars, workVars, coreVars>>

Conclude(c, o) ==
    /\ outcome' = [outcome EXCEPT ![c] = o]
    /\ pc' = [pc EXCEPT ![c] = "finishing"]

\* The gate allows, rejects, or raises into execute's outer handler.
review(c) ==
    /\ pc[c] = "reviewing"
    /\ \/ /\ pc' = [pc EXCEPT ![c] = "running"]
          /\ UNCHANGED outcome
       \/ \E o \in {"rejected", "failed"} : Conclude(c, o)
    /\ UNCHANGED <<asked, prior, answer, rowVars, workVars, coreVars>>

\* The work happens while the tool runs, or after its caller gave up on it: a
\* cancelled shell.run leaves its detached process running, an http request is
\* already with the other side.
TakeEffect(c) ==
    /\ pc[c] = "running" \/ stray[c]
    /\ ~effect[c]
    /\ effect' = [effect EXCEPT ![c] = TRUE]
    /\ stray' = [stray EXCEPT ![c] = FALSE]
    /\ UNCHANGED <<callVars, rowVars, coreVars>>

ToolReturns(c) ==
    /\ pc[c] = "running"
    /\ effect[c]
    /\ Conclude(c, "ok")
    /\ UNCHANGED <<asked, prior, answer, rowVars, workVars, coreVars>>

MayLeaveBehind(c) ==
    \E left \in BOOLEAN :
        stray' = [stray EXCEPT ![c] = left /\ pc[c] = "running" /\ ~effect[c]]

ToolGivesUp(c) ==
    /\ pc[c] = "running"
    /\ \E o \in {"failed", "timeout"} : Conclude(c, o)
    /\ MayLeaveBehind(c)
    /\ UNCHANGED <<asked, prior, answer, rowVars, effect, coreVars>>

end(c) ==
    /\ pc[c] = "finishing"
    /\ status' = [status EXCEPT ![c] = outcome[c]]
    /\ Answer(c, IF outcome[c] = "ok" THEN "ok" ELSE "not_ok")
    /\ UNCHANGED <<asked, prior, outcome, rowKey, workVars, coreVars>>

\* journal.end raised; _finish swallows it and the call is answered all the same.
EndLost(c) ==
    /\ pc[c] = "finishing"
    /\ Answer(c, IF outcome[c] = "ok" THEN "ok" ELSE "not_ok")
    /\ UNCHANGED <<asked, prior, outcome, rowVars, workVars, coreVars>>

-----------------------------------------------------------------------------
(* Cancellation, crashes, and the next incarnation. *)

\* A stop cancels the cycle and the call in it, or the toolhost process dies.
Abandon(c) ==
    /\ pc[c] \in InFlight
    /\ pc' = [pc EXCEPT ![c] = "gone"]
    /\ MayLeaveBehind(c)
    /\ UNCHANGED <<asked, prior, outcome, answer, rowVars, effect, coreVars>>

Crash ==
    /\ core # "down"
    /\ core' = "down"
    /\ doubtful' = {}
    /\ pc' = [c \in Calls |->
                IF c \in Local /\ pc[c] \in InFlight THEN "gone" ELSE pc[c]]
    /\ \E left \in SUBSET {c \in Local : pc[c] = "running" /\ ~effect[c]} :
          stray' = [c \in Calls |-> stray[c] \/ c \in left]
    /\ UNCHANGED <<asked, prior, outcome, answer, rowVars, effect>>

wake_up ==
    /\ core = "down"
    /\ core' = "waking"
    /\ doubtful' = {c \in Calls : status[c] = "running"}
    /\ UNCHANGED <<callVars, rowVars, workVars>>

\* One UPDATE per row that was read, by id alone: it does not look again.
MarkInterrupted(c) ==
    /\ core = "waking"
    /\ c \in doubtful
    /\ doubtful' = doubtful \ {c}
    /\ status' = [status EXCEPT ![c] = "interrupted"]
    /\ UNCHANGED <<callVars, rowKey, workVars, core>>

mutant_WakeDone_early ==
    /\ core = "waking"
    /\ core' = "up"
    /\ UNCHANGED <<callVars, rowVars, workVars, doubtful>>

WakeDone ==
    /\ core = "waking"
    /\ doubtful = {}
    /\ core' = "up"
    /\ UNCHANGED <<callVars, rowVars, workVars, doubtful>>

-----------------------------------------------------------------------------

CallStep(c) ==
    \/ \E k \in Keys \cup {NoKey} : execute(c, k)
    \/ FindNothing(c) \/ FindDuplicate(c) \/ FindDecided(c)
    \/ _release(c) \/ begin(c) \/ BeginCollides(c)
    \/ review(c) \/ TakeEffect(c) \/ ToolReturns(c) \/ ToolGivesUp(c)
    \/ end(c) \/ EndLost(c)
    \/ Abandon(c)

CoreStep ==
    \/ Crash \/ wake_up \/ WakeDone
    \/ \E c \in Calls : MarkInterrupted(c)

Next == CoreStep \/ \E c \in Calls : CallStep(c)

Spec == Init /\ [][Next]_vars

-----------------------------------------------------------------------------
(* What the journal promises. *)

\* Two calls never own one piece of work: while a call is between its INSERT
\* and its answer, no other call with the same key is (journal.begin: "two
\* attempts come to own one piece of work").
SoleOwner ==
    \A c, d \in Calls :
        /\ pc[c] \in Owning
        /\ pc[d] \in Owning
        /\ asked[c] = asked[d]
        /\ asked[c] # NoKey
        => c = d

\* The work of a key is done twice only if an attempt that the journal took for
\* a decided failure had done it: among calls with one key that took effect, at
\* most one ended otherwise than "failed" or "timeout".  Crashes, cancelled
\* calls, lost answers and stale reconciliation included.
ConfirmedOnce ==
    \A c, d \in Calls :
        /\ effect[c] /\ outcome[c] \notin Decided
        /\ effect[d] /\ outcome[d] \notin Decided
        /\ asked[c] = asked[d]
        /\ asked[c] # NoKey
        => c = d

\* A duplicate is told "ok" only about work that really happened.
HonestReplay ==
    \A c \in Calls : answer[c] = "replayed" =>
        \E d \in Calls : asked[d] = asked[c] /\ effect[d] /\ outcome[d] = "ok"

\* When a new incarnation starts working, no row still says "running" for a
\* call of an earlier one: every attempt in doubt has been marked so.
ReconciledAtWake ==
    [][core = "waking" /\ core' = "up" =>
         \A c \in Local : status'[c] # "running"]_vars

-----------------------------------------------------------------------------
(* The journal as an implementation of WorkOnce. *)

\* What a row says of the work of the key it holds, and what became of it.
Fate(d) ==
    IF pc[d] \in Owning THEN "claimed"
    ELSE IF status[d] = "ok" THEN "settled"
    ELSE IF status[d] \in Decided THEN "free"
    ELSE IF outcome[d] \in Decided THEN "failed_in_doubt"
    ELSE "in_doubt"

WorkOf(k) ==
    IF Holders(k) = {} THEN "free" ELSE Fate(CHOOSE d \in Holders(k) : TRUE)

WorkMap == [k \in Keys |-> WorkOf(k)]

Work == INSTANCE WorkOnce WITH work <- WorkMap

\* The journal keeps the promise of an idempotency key (journal.py, `begin` and
\* `_release`): settled work and work in doubt are never claimed again, whatever
\* crashes, races and stale reconciliation do to the rows.
WorkOnceSpec == Work!Spec
=============================================================================
