----------------------------- MODULE Supervisor -----------------------------
(***************************************************************************)
(* The processes of the agent: the supervisor (ethos/core/supervisor.py)   *)
(* that starts its children, sweeps them every two seconds and closes      *)
(* them; `ethos up` (core/bootstrap.py), which starts a supervisor where   *)
(* the pid file names none that lives; and `ethos stop` (__main__.py), a   *)
(* signal, or a file where the system has no signals.                      *)
(***************************************************************************)
EXTENDS Naturals, FiniteSets

CONSTANTS Supers,         \* processes that may come to be a supervisor
          Children, Optional,
          MAX_RESTARTS,
          Launches,       \* `ethos up` commands
          MaxKills        \* how many supervisors are killed outright

NoPid == "no pid"

SupervisorAssumption ==
    /\ Optional \subseteq Children /\ NoPid \notin Supers
    /\ MAX_RESTARTS \in Nat \ {0} /\ MaxKills \in Nat

VARIABLES windows,    \* whether a stop is asked for by a file
          up,         \* launch |-> how far `ethos up` has come
          phase,      \* supervisor |-> where its run is
          stopping, unopened,
          spec,       \* supervisor |-> child |-> its ProcessSpec
          pid_file, stop_file,
          killed      \* supervisors that were given no chance to shut down

vars == <<windows, up, phase, stopping, unopened, spec, pid_file, stop_file, killed>>

\* waiting: it could not be started, and its next attempt is still ahead.
Specs  == [proc : {"none", "waiting", "up", "dead", "retired"}, restarts : 0 .. MAX_RESTARTS]
Alive(s) == phase[s] \in {"born", "opening", "watching", "closing"}
IsUp(s, c) == spec[s][c].proc = "up"

TypeOK ==
    /\ windows \in BOOLEAN /\ up \in [Launches -> {"idle", "found none", "over"}]
    /\ phase \in [Supers -> {"none", "born", "opening", "watching", "closing", "gone"}]
    /\ stopping \in [Supers -> BOOLEAN] /\ unopened \in [Supers -> SUBSET Children]
    /\ spec \in [Supers -> [Children -> Specs]]
    /\ pid_file \in Supers \cup {NoPid} /\ stop_file \in BOOLEAN
    /\ killed \subseteq Supers

Init ==
    /\ windows \in BOOLEAN /\ up = [u \in Launches |-> "idle"]
    /\ phase = [s \in Supers |-> "none"]
    /\ stopping = [s \in Supers |-> FALSE] /\ unopened = [s \in Supers |-> Children]
    /\ spec = [s \in Supers |-> [c \in Children |-> [proc |-> "none", restarts |-> 0]]]
    /\ pid_file = NoPid /\ stop_file = FALSE /\ killed = {}

\* Variants named mutant_* are mistakes the properties must catch.
read_pid == IF pid_file # NoPid /\ Alive(pid_file) THEN pid_file ELSE NoPid

-----------------------------------------------------------------------------
(* ethos up asks, and then starts: the one it starts writes its pid later.  *)

_running_pid(u) ==
    /\ up[u] = "idle"
    /\ up' = [up EXCEPT ![u] = IF read_pid = NoPid THEN "found none" ELSE "over"]
    /\ UNCHANGED <<windows, phase, stopping, unopened, spec, pid_file, stop_file, killed>>
_start_supervisor(u, s) ==
    /\ up[u] = "found none" /\ phase[s] = "none"
    /\ up' = [up EXCEPT ![u] = "over"]
    /\ phase' = [phase EXCEPT ![s] = "born"]
    /\ UNCHANGED <<windows, stopping, unopened, spec, pid_file, stop_file, killed>>

(* run: the pid file is taken whosever it was, a stale request dropped, and *)
(* each child opened in turn, also when a stop was asked for meanwhile.     *)

_write_pid_file(s) ==
    /\ phase[s] = "born"
    /\ phase' = [phase EXCEPT ![s] = "opening"]
    /\ pid_file' = s /\ stop_file' = FALSE
    /\ UNCHANGED <<windows, up, stopping, unopened, spec, killed>>
_open(s, c) ==
    /\ phase[s] = "opening" /\ c \in unopened[s]
    /\ unopened' = [unopened EXCEPT ![s] = @ \ {c}]
    /\ \E p \in {"up", "none"} : spec' = [spec EXCEPT ![s][c].proc = p]
    /\ UNCHANGED <<windows, up, phase, stopping, pid_file, stop_file, killed>>
mutant_run_afresh(s) ==
    /\ phase[s] = "opening" /\ unopened[s] = {}
    /\ phase' = [phase EXCEPT ![s] = "watching"] /\ stopping' = [stopping EXCEPT ![s] = FALSE]
    /\ UNCHANGED <<windows, up, unopened, spec, pid_file, stop_file, killed>>
run(s) ==
    /\ phase[s] = "opening" /\ unopened[s] = {}
    /\ phase' = [phase EXCEPT ![s] = "watching"]
    /\ UNCHANGED <<windows, up, stopping, unopened, spec, pid_file, stop_file, killed>>

-----------------------------------------------------------------------------
(* One sweep over every child. *)

\* A minute of life forgives what came before it; only one that ran has lived.
Forgiven(r) == IF r.proc = "dead" THEN {0, r.restarts} ELSE {r.restarts}
_should_restart(c, n) == c \notin Optional /\ n < MAX_RESTARTS
Left(r) == r.proc \in {"retired", "up", "waiting"}

mutant_Swept_asks(c, r) ==
    IF Left(r) THEN {r}
    ELSE UNION {IF _should_restart(c, n) THEN [proc : {"up", "waiting"}, restarts : {n + 1}]
                ELSE {[r EXCEPT !.restarts = n]} : n \in Forgiven(r)}
\* A child that died is started at once; one that could not be started waits.
Swept(c, r) ==
    IF Left(r) THEN {r}
    ELSE UNION {IF _should_restart(c, n) THEN [proc : {"up", "waiting"}, restarts : {n + 1}]
                ELSE {[proc |-> "retired", restarts |-> n]} : n \in Forgiven(r)}
_sweep(s) ==
    /\ phase[s] = "watching" /\ ~stopping[s] /\ ~stop_file
    /\ \E c \in Children : ~Left(spec[s][c])
    /\ \E f \in [Children -> UNION {Swept(c, spec[s][c]) : c \in Children}] :
         /\ \A c \in Children : f[c] \in Swept(c, spec[s][c])
         /\ spec' = [spec EXCEPT ![s] = f]
    /\ UNCHANGED <<windows, up, phase, stopping, unopened, pid_file, stop_file, killed>>

\* A child ends, of itself or because it failed; a wait ends.
Dies(s, c) ==
    /\ IsUp(s, c) /\ spec' = [spec EXCEPT ![s][c].proc = "dead"]
    /\ UNCHANGED <<windows, up, phase, stopping, unopened, pid_file, stop_file, killed>>
WaitEnds(s, c) ==
    /\ phase[s] = "watching" /\ spec[s][c].proc = "waiting"
    /\ spec' = [spec EXCEPT ![s][c].proc = "none"]
    /\ UNCHANGED <<windows, up, phase, stopping, unopened, pid_file, stop_file, killed>>

-----------------------------------------------------------------------------
(* The end.  ethos stop asks whoever the pid file names and who lives.      *)

stop ==
    /\ read_pid # NoPid
    /\ IF windows THEN stop_file' = TRUE /\ UNCHANGED stopping
       ELSE stopping' = [stopping EXCEPT ![read_pid] = TRUE] /\ UNCHANGED stop_file
    /\ UNCHANGED <<windows, up, phase, unopened, spec, pid_file, killed>>
_request_stop(s) ==
    /\ phase[s] = "watching" /\ stop_file /\ ~stopping[s]
    /\ stopping' = [stopping EXCEPT ![s] = TRUE]
    /\ UNCHANGED <<windows, up, phase, unopened, spec, pid_file, stop_file, killed>>

\* terminate, ten seconds of grace, kill.
mutant_Closed_watched(s) == {c \in Children : IsUp(s, c) /\ spec[s][c].restarts = 0}
Closed(s) == {c \in Children : IsUp(s, c)}
_close_children(s) ==
    /\ phase[s] = "watching" /\ stopping[s]
    /\ phase' = [phase EXCEPT ![s] = "closing"]
    /\ spec' = [spec EXCEPT ![s] = [c \in Children |-> IF c \in Closed(s) THEN [spec[s][c] EXCEPT !.proc = "dead"] ELSE spec[s][c]]]
    /\ UNCHANGED <<windows, up, stopping, unopened, pid_file, stop_file, killed>>

mutant_Mine_any(s) == TRUE
Mine(s) == pid_file = s
shutdown(s) ==
    /\ phase[s] = "closing"
    /\ phase' = [phase EXCEPT ![s] = "gone"]
    /\ pid_file' = IF Mine(s) THEN NoPid ELSE pid_file
    /\ stop_file' = FALSE
    /\ UNCHANGED <<windows, up, stopping, unopened, spec, killed>>

\* Killed outright: the file and the children stay.  On Windows an `ethos stop`
\* that was not answered takes the tree of processes with it.
Killed(s) ==
    /\ Alive(s) /\ Cardinality(killed) < MaxKills
    /\ killed' = killed \cup {s} /\ phase' = [phase EXCEPT ![s] = "gone"]
    /\ UNCHANGED <<windows, up, stopping, unopened, spec, pid_file, stop_file>>
_stop_windows(s) ==
    /\ windows /\ stop_file /\ pid_file = s /\ Alive(s) /\ Cardinality(killed) < MaxKills
    /\ killed' = killed \cup {s} /\ phase' = [phase EXCEPT ![s] = "gone"]
    /\ spec' = [spec EXCEPT ![s] = [c \in Children |-> IF IsUp(s, c) THEN [spec[s][c] EXCEPT !.proc = "dead"] ELSE spec[s][c]]]
    /\ UNCHANGED <<windows, up, stopping, unopened, pid_file, stop_file>>

Next ==
    \/ stop
    \/ \E u \in Launches : _running_pid(u) \/ \E s \in Supers : _start_supervisor(u, s)
    \/ \E s \in Supers :
         \/ _write_pid_file(s) \/ run(s) \/ _sweep(s) \/ _request_stop(s) \/ _close_children(s)
         \/ shutdown(s) \/ Killed(s) \/ _stop_windows(s)
         \/ \E c \in Children : _open(s, c) \/ Dies(s, c) \/ WaitEnds(s, c)

\* A supervisor's program goes on, and waits end.
Goes(s) ==
    \/ _write_pid_file(s) \/ \E c \in Children : _open(s, c)
    \/ run(s) \/ _sweep(s) \/ _request_stop(s) \/ _close_children(s) \/ shutdown(s)
Fairness == \A s \in Supers : WF_vars(Goes(s)) /\ \A c \in Children : WF_vars(WaitEnds(s, c))
Spec == Init /\ [][Next]_vars /\ Fairness

-----------------------------------------------------------------------------

\* A supervisor that shut down leaves no child of its own behind, whenever the
\* stop came: while children were being opened, or between two restarts.
NoneLeftBehind ==
    \A s \in Supers : phase[s] = "gone" /\ s \notin killed => \A c \in Children : ~IsUp(s, c)

\* The end of one supervisor does not take away the file that names another.
PidFileOfTheLiving ==
    [][\A s \in Supers : pid_file = s /\ Alive(s) /\ phase'[s] = phase[s] => pid_file' # NoPid]_vars

\* A stop that was asked for comes to an end, restarts or not.
StopEnds == \A s \in Supers : stopping[s] ~> phase[s] = "gone"

\* A child that is needed and not there is started again or given up on.
AbsentIsAnswered ==
    \A s \in Supers, c \in Children \ Optional :
       (phase[s] = "watching" /\ ~IsUp(s, c)) ~> (IsUp(s, c) \/ spec[s][c].proc = "retired" \/ stopping[s] \/ phase[s] # "watching")

\* __main__.py:137, of `ethos up`: "Idempotent: run it on a running agent and
\* it says so and leaves it alone."
UpLeavesARunningAgentAlone ==
    [][\A s \in Supers : phase[s] = "none" /\ phase'[s] # "none"
          => \A t \in Supers, c \in Children : ~IsUp(t, c)]_vars
=============================================================================
