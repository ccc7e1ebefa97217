-------------------------------- MODULE Host --------------------------------
(***************************************************************************)
(* The parts that run beside the loop, checked side by side: one behaviour *)
(* is one part's, the others rest in their initial state, so that no part  *)
(* helps or hinders another and the states are the sum and not the product.*)
(***************************************************************************)
EXTENDS Integers, FiniteSets, Sequences

CONSTANTS Paths, Holds, Commands, Callers, NoVersion, MaxVersions, MaxCalls,   \* Guardian
          Opens, Execs, PoolThreads, MaxResets,                                \* Workbench
          Threads, Workers, Role, Modes, MaxConcurrent, Retention, Spawners,   \* Delegation
          Supers, Children, Optional, MAX_RESTARTS, Launches, MaxKills,        \* Supervisor
          OneShots, Repeating, MaxFires,                                       \* Timers
          MaxFaults   \* faults, of the parts that count them

VARIABLE part
Parts == {"guardian", "terminals", "delegation", "supervisor", "timers"}

\* Shared by the parts that have one of the name, of one type and initial value.
VARIABLES faults, due

VARIABLES at, versions, backups, beside, artifacts, trash, job, calls, undo, clobbered
Guardian == INSTANCE Guardian WITH None <- NoVersion

VARIABLES sessions, handed, alive, closed, kernel, exec, held, queue
Terminals == INSTANCE Workbench WITH running <- held, Threads <- PoolThreads

VARIABLES mode, thread, active, finished, handle, intention, came, serves, waits
Delegation == INSTANCE Delegation WITH at <- thread, job <- serves

VARIABLES windows, up, phase, stopping, unopened, spec, pid_file, stop_file, killed
Supervisor == INSTANCE Supervisor

VARIABLES timers, rows, passed, asks, hand, running, fired, raced, lost
Timers == INSTANCE Timers

ASSUME HostAssumption ==
    /\ Guardian!GuardianAssumption /\ Terminals!WorkbenchAssumption
    /\ Delegation!DelegationAssumption /\ Supervisor!SupervisorAssumption
    /\ Timers!TimersAssumption

guardianVars == <<at, versions, backups, beside, artifacts, trash, job, calls, undo, clobbered>>
terminalsVars == <<sessions, handed, alive, closed, kernel, exec, held, queue>>
delegationVars == <<mode, thread, active, finished, handle, intention, came, serves, waits>>
supervisorVars == <<windows, up, phase, stopping, unopened, spec, pid_file, stop_file, killed>>
timersVars == <<timers, rows, passed, asks, hand, running, fired, raced, lost>>
vars == <<part, faults, due, guardianVars, terminalsVars, delegationVars, supervisorVars, timersVars>>

Init ==
    /\ part \in Parts
    /\ Guardian!Init /\ Terminals!Init /\ Delegation!Init /\ Supervisor!Init
    /\ Timers!Init
    /\ part # "delegation" => mode = CHOOSE m \in Modes : TRUE
    /\ part # "supervisor" => ~windows

Next ==
    \/ /\ part = "guardian" /\ Guardian!Next
       /\ UNCHANGED <<part, due, terminalsVars, delegationVars, supervisorVars, timersVars>>
    \/ /\ part = "terminals" /\ Terminals!Next
       /\ UNCHANGED <<part, faults, due, guardianVars, delegationVars, supervisorVars, timersVars>>
    \/ /\ part = "delegation" /\ Delegation!Next
       /\ UNCHANGED <<part, due, guardianVars, terminalsVars, supervisorVars, timersVars>>
    \/ /\ part = "supervisor" /\ Supervisor!Next
       /\ UNCHANGED <<part, faults, due, guardianVars, terminalsVars, delegationVars, timersVars>>
    \/ /\ part = "timers" /\ Timers!Next
       /\ UNCHANGED <<part, guardianVars, terminalsVars, delegationVars, supervisorVars>>

\* The fairness of each part's own specification.
Fairness ==
    /\ WF_<<faults, guardianVars>>(part = "guardian" /\ Guardian!Undoes)
    /\ WF_terminalsVars(part = "terminals" /\ Terminals!run_in_executor)
    /\ \A o \in Opens : WF_terminalsVars(part = "terminals" /\ Terminals!_drain_sync(o))
    /\ \A t \in Threads :
          /\ WF_<<faults, delegationVars>>(part = "delegation" /\ Delegation!Runs(t))
          /\ \A w \in Workers : WF_<<faults, delegationVars>>(part = "delegation" /\ Delegation!Serves(w, t))
    /\ \A s \in Supers :
          /\ WF_supervisorVars(part = "supervisor" /\ Supervisor!Goes(s))
          /\ \A c \in Children : WF_supervisorVars(part = "supervisor" /\ Supervisor!WaitEnds(s, c))
    /\ WF_<<faults, due, timersVars>>(part = "timers" /\ Timers!_loop) /\ WF_<<faults, due, timersVars>>(part = "timers" /\ Timers!RowWritten)
    /\ WF_<<faults, due, timersVars>>(part = "timers" /\ Timers!_fire)
    /\ \A i \in OneShots \cup Repeating : WF_<<faults, due, timersVars>>(part = "timers" /\ Timers!Takes(i))
Spec == Init /\ [][Next]_vars /\ Fairness

-----------------------------------------------------------------------------
(* What the parts' modules state, each with its own comment there.          *)

\* A deletion keeps the bytes, can be undone, and was reviewed when it had to be.
GuardianSafe ==
    part = "guardian" => /\ Guardian!TypeOK
                         /\ Guardian!BytesSurvive /\ Guardian!Restorable /\ Guardian!DueProcess

\* An opening is handed a terminal of its own, as long as none was closed.
TerminalsSafe == part = "terminals" => Terminals!TypeOK /\ Terminals!OneTerminalEach

\* Delegates stay within reach of their bound, and a thread's row tells its fate.
DelegationSafe ==
    part = "delegation" => Delegation!TypeOK /\ Delegation!BoundOvershoot /\ Delegation!RowFollowsHandle

\* A supervisor that ends takes its children with it, and its own pid file only.
SupervisorSafe ==
    /\ [](part = "supervisor" => Supervisor!TypeOK /\ Supervisor!NoneLeftBehind)
    /\ Supervisor!PidFileOfTheLiving

\* A timer fires once, and one that was cancelled does not come back.
TimersSafe == part = "timers" => Timers!TypeOK /\ Timers!FiredOnce /\ Timers!CancelledIsGone

\* What is begun is finished: undos, places under the bound, waits for a thread
\* of the pool, timers come due, stops, and children that are missing.
WorkSettles ==
    /\ (part = "guardian") => Guardian!UndoBringsBack
    /\ (part = "delegation") => Delegation!PlacesComeFree
    /\ (part = "terminals") => Terminals!ThreadsComeFree
    /\ (part = "timers") => Timers!ComesToFire
    /\ (part = "supervisor") => Supervisor!StopEnds /\ Supervisor!AbsentIsAnswered
=============================================================================
