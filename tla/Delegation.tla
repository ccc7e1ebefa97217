----------------------------- MODULE Delegation -----------------------------
(***************************************************************************)
(* Delegated work: the thread manager (ethos/threads/manager.py), the      *)
(* worker it runs in its own process or asks for over the bus              *)
(* (threads/worker.py, the worker command of __main__.py), and the         *)
(* programs wired in as sub-agents (ethos/subagents), which run in process *)
(* and, where that fails, once more as a child.                            *)
(***************************************************************************)
EXTENDS Naturals, FiniteSets, Sequences

CONSTANTS Threads, Workers,
          Role,             \* thread |-> "delegate" | "verifier" | "subagent"
          Modes,            \* threads.mode: "inprocess" or "process"
          MaxConcurrent, Retention,
          Spawners,         \* calls of spawn_spec that may be under way at once
          MaxFaults

Roles == {"delegate", "verifier", "subagent"}
DelegationAssumption ==
    /\ Role \in [Threads -> Roles] /\ Modes \subseteq {"inprocess", "process"}
    /\ IsFiniteSet(Workers) /\ MaxConcurrent \in Nat \ {0} /\ Retention \in Nat
    /\ Spawners \in Nat \ {0} /\ MaxFaults \in Nat

VARIABLES mode,
          at,         \* thread |-> how far its spawning and its run have come
          active,     \* the manager's table of threads in flight
          finished,   \* the last handles, oldest first
          handle,     \* thread |-> status of its handle
          intention,  \* thread |-> status of the row made for it
          came,       \* history: what its runs came to
          job,        \* worker process |-> its place with each request
          waits,      \* verifiers: what has become of the wait for them
          faults

vars == <<mode, at, active, finished, handle, intention, came, job, waits, faults>>

Ends     == {"done", "short", "raised"}  \* short: a result that says failed, blocked or unknown
Stations == {"none", "asking", "requested", "working", "again", "closing", "over", "refused", "unsent", "lost"}
Places   == {"idle", "working", "again", "closing"}

TypeOK ==
    /\ mode \in Modes /\ at \in [Threads -> Stations]
    /\ active \subseteq Threads
    /\ finished \in Seq(Threads) /\ Len(finished) <= Retention
    /\ handle \in [Threads -> {"none", "running", "done", "failed"}]
    /\ intention \in [Threads -> {"none", "proposed", "done", "failed"}]
    /\ came \in [Threads -> SUBSET Ends]
    /\ job \in [Workers -> [Threads -> Places \cup {"over"}]]
    /\ waits \in [Threads -> {"no", "waiting", "answered", "gave up"}]
    /\ faults \in 0 .. MaxFaults

Init ==
    /\ mode \in Modes /\ at = [t \in Threads |-> "none"]
    /\ active = {} /\ finished = << >>
    /\ handle = [t \in Threads |-> "none"] /\ intention = [t \in Threads |-> "none"]
    /\ came = [t \in Threads |-> {}]
    /\ job = [w \in Workers |-> [t \in Threads |-> "idle"]]
    /\ waits = [t \in Threads |-> "no"] /\ faults = 0

Fails == faults < MaxFaults /\ faults' = faults + 1
Well  == UNCHANGED faults

\* What ends a handle takes it out of the table of threads in flight, and the
\* oldest out of the archive.  Variants named mutant_* are mistakes.
Kept(s) == IF Len(s) > Retention THEN SubSeq(s, Len(s) - Retention + 1, Len(s)) ELSE s
mutant_retire_archives(t) ==
    /\ UNCHANGED active
    /\ finished' = Kept(Append(finished, t))
_retire(t) ==
    /\ active' = active \ {t}
    /\ finished' = Kept(Append(finished, t))

-----------------------------------------------------------------------------
(* spawn_spec: the bound is checked, the intention is awaited, and only     *)
(* then is the handle in the table that the bound counts.                   *)

mutant_Room == TRUE
Room == Cardinality(active) < MaxConcurrent
Asking == {t \in Threads : at[t] = "asking"}
spawn_spec(t) ==
    /\ at[t] = "none" /\ Cardinality(Asking) < Spawners
    /\ at' = [at EXCEPT ![t] = IF Room THEN "asking" ELSE "refused"]
    /\ UNCHANGED <<mode, active, finished, handle, intention, came, job, waits, faults>>

\* The row, the handle and, in a mode of processes, the request; when that is
\* not published the caller is told, and the handle stays.
register(t) ==
    /\ at[t] = "asking"
    /\ \/ /\ Fails /\ at' = [at EXCEPT ![t] = "refused"]
          /\ UNCHANGED <<active, handle, intention, waits>>
       \/ /\ active' = active \cup {t} /\ handle' = [handle EXCEPT ![t] = "running"]
          /\ intention' = [intention EXCEPT ![t] = IF Role[t] = "verifier" THEN "none" ELSE "proposed"]
          /\ \/ /\ Well
                /\ at' = [at EXCEPT ![t] = IF mode = "process" THEN "requested" ELSE "working"]
                /\ waits' = [waits EXCEPT ![t] = IF Role[t] = "verifier" THEN "waiting" ELSE "no"]
             \/ mode = "process" /\ Fails /\ at' = [at EXCEPT ![t] = "unsent"] /\ UNCHANGED waits
    /\ UNCHANGED <<mode, finished, came, job>>

-----------------------------------------------------------------------------
(* The work itself.  A delegate or a verifier has one try.  A sub-agent in  *)
(* mode auto has a second, as a child, when the first ended in an exception *)
(* whether that was before anything was done or after.                      *)

Tries(t) == Role[t] = "subagent"
Ended(t, e) == came' = [came EXCEPT ![t] = @ \cup {e}]

\* What the manager and the worker command make of an end: only an exception
\* is a failure.
Verdict(e) == IF e = "raised" THEN "failed" ELSE "done"

\* A sub-agent's own exception is a result that says failed.
Outcomes(t) == IF Role[t] = "delegate" THEN {"done", "short", "raised"}
               ELSE IF Role[t] = "verifier" THEN {"done", "raised"} ELSE {"done", "short"}

_run_inprocess(t) ==
    /\ at[t] = "working" /\ Tries(t)
    /\ Ended(t, "raised")
    /\ at' = [at EXCEPT ![t] = "again"]
    /\ UNCHANGED <<mode, active, finished, handle, intention, job, waits, faults>>

\* In process: the worker returns or raises, and the handle is finished.
run_thread(t) ==
    /\ at[t] \in {"working", "again"}
    /\ \E e \in Outcomes(t) :
         /\ Ended(t, e)
         /\ handle' = [handle EXCEPT ![t] = Verdict(e)]
         /\ waits' = [waits EXCEPT ![t] = IF @ = "waiting" THEN "answered" ELSE @]
    /\ at' = [at EXCEPT ![t] = "closing"]
    /\ UNCHANGED <<mode, active, finished, intention, job, faults>>

mutant_Closing_done(t) == "done"
Closing(t) == handle[t]

\* The intention takes the handle's word, unless the row cannot be written;
\* the handle is retired, and the result published or not.
_run(t) ==
    /\ at[t] = "closing"
    /\ \/ Well /\ intention' = [intention EXCEPT ![t] = IF @ = "none" THEN @ ELSE Closing(t)]
       \/ Fails /\ UNCHANGED intention
    /\ _retire(t)
    /\ at' = [at EXCEPT ![t] = "over"]
    /\ UNCHANGED <<mode, handle, came, job, waits>>

\* wait gives up after its timeout; the thread it waited for runs on.
wait(t) ==
    /\ waits[t] = "waiting"
    /\ waits' = [waits EXCEPT ![t] = "gave up"]
    /\ UNCHANGED <<mode, at, active, finished, handle, intention, came, job, faults>>

-----------------------------------------------------------------------------
(* Worker processes: every one of them hears every request.                 *)

Place(w, t, p) == job' = [job EXCEPT ![w][t] = p]
worker(w, t) ==
    /\ at[t] \in {"requested", "over", "lost"} /\ mode = "process" /\ job[w][t] = "idle"
    /\ Place(w, t, "working")
    /\ UNCHANGED <<mode, at, active, finished, handle, intention, came, waits, faults>>
_run_subagent(w, t) ==
    /\ job[w][t] = "working" /\ Tries(t)
    /\ Ended(t, "raised") /\ Place(w, t, "again")
    /\ UNCHANGED <<mode, at, active, finished, handle, intention, waits, faults>>

\* It closes the intention itself, then says so; the first result to reach
\* the manager finishes the handle and the others find none.
Heard(t) == t \in active /\ handle[t] = "running"
_on_process_result(w, t) ==
    /\ job[w][t] \in {"working", "again"}
    /\ \E e \in Outcomes(t) :
         /\ Ended(t, e)
         /\ intention' = [intention EXCEPT ![t] = IF @ = "none" THEN @ ELSE Verdict(e)]
         /\ IF Heard(t)
            THEN /\ handle' = [handle EXCEPT ![t] = Verdict(e)] /\ _retire(t)
                 /\ at' = [at EXCEPT ![t] = "over"]
                 /\ waits' = [waits EXCEPT ![t] = IF @ = "waiting" THEN "answered" ELSE @]
            ELSE UNCHANGED <<handle, active, finished, at, waits>>
    /\ Place(w, t, "over")
    /\ UNCHANGED <<mode, faults>>

\* A worker dies, and what it was doing is nobody's.
WorkerDies(w) ==
    /\ mode = "process" /\ Fails
    /\ \E t \in Threads : job[w][t] \in {"working", "again"}
    /\ job' = [job EXCEPT ![w] = [t \in Threads |-> IF job[w][t] = "idle" THEN "idle" ELSE "over"]]
    /\ UNCHANGED <<mode, at, active, finished, handle, intention, came, waits>>

\* The core is started again: table, archive and runs in process are gone.
Restart ==
    /\ Fails /\ active # {}
    /\ active' = {} /\ finished' = << >>
    /\ at' = [t \in Threads |-> IF at[t] \in {"none", "refused", "unsent", "over"} THEN at[t] ELSE "lost"]
    /\ waits' = [t \in Threads |-> IF waits[t] = "waiting" THEN "gave up" ELSE waits[t]]
    /\ UNCHANGED <<mode, handle, intention, came, job>>

Next ==
    \/ \E t \in Threads : spawn_spec(t) \/ register(t) \/ _run_inprocess(t) \/ run_thread(t) \/ _run(t) \/ wait(t)
    \/ \E w \in Workers, t \in Threads : worker(w, t) \/ _run_subagent(w, t) \/ _on_process_result(w, t)
    \/ \E w \in Workers : WorkerDies(w)
    \/ Restart

\* Tasks are run, workers are served, programs have ceilings on their time.
Runs(t) == register(t) \/ run_thread(t) \/ _run(t)
Serves(w, t) == worker(w, t) \/ _on_process_result(w, t)
Fairness == \A t \in Threads : WF_vars(Runs(t)) /\ \A w \in Workers : WF_vars(Serves(w, t))
Spec == Init /\ [][Next]_vars /\ Fairness

-----------------------------------------------------------------------------

\* Callers that pass the check before any of them is in the table overshoot
\* the bound on delegates by one less than their number, and no more.
BoundOvershoot == Cardinality(active) <= MaxConcurrent + Spawners - 1

\* One process, one word: the row of a thread that ran in process, or that a
\* lone worker ran, never says other than its handle.
RowFollowsHandle ==
    \A t \in Threads :
       intention[t] \in {"done", "failed"} /\ (mode = "inprocess" \/ Cardinality(Workers) = 1)
         => intention[t] = handle[t] \/ at[t] = "lost"

\* The place a thread takes under the bound comes free, or a fault holds it:
\* a request that was not published, a worker that died.
PlacesComeFree ==
    \A t \in Threads : (t \in active) ~> (t \notin active \/ faults > 0)

\* subagents/tools.py:38-45: "Only `done` is success.  Everything else means
\* the step's work was not accomplished, and reporting it as anything but a
\* failure lets the caller mark the step done over a run that failed".
DoneMeansDone ==
    \A t \in Threads : intention[t] = "done" => "done" \in came[t]
=============================================================================
