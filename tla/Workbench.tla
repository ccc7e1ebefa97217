----------------------------- MODULE Workbench -----------------------------
(***************************************************************************)
(* What the toolhost keeps between two tool calls: terminals               *)
(* (ethos/toolhost/pty_session.py) and Python kernels (kernels.py,         *)
(* tools/code.py).  A terminal's reader and a kernel's code each hold a    *)
(* thread of the one pool the process has.                                 *)
(***************************************************************************)
EXTENDS Naturals, Sequences, SequencesExt, FiniteSets, Functions

CONSTANTS Opens, Execs,  \* calls of shell.session_open and code.exec
          Threads,       \* size of the pool
          MaxResets

None == "none"

WorkbenchAssumption ==
    /\ IsFiniteSet(Opens) /\ None \notin Opens /\ Opens \cap Execs = {}
    /\ Threads \in Nat \ {0} /\ MaxResets \in Nat

VARIABLES sessions,  \* number in its id |-> the terminal, named after its opening
          handed,    \* opening |-> the terminal it was handed
          alive,     \* terminals that were not closed
          closed,    \* whether a terminal was ever closed
          kernel,    \* how often the kernel was reset
          exec,      \* code.exec |-> [at, kernel]
          running,   \* readers and codes that have a thread
          queue      \* and those that wait for one

vars == <<sessions, handed, alive, closed, kernel, exec, running, queue>>
terminals == <<sessions, handed, alive, closed>>
kernels == <<kernel, exec>>

TypeOK ==
    /\ DOMAIN sessions \subseteq 0 .. Cardinality(Opens) /\ Range(sessions) \subseteq alive
    /\ handed \in [Opens -> Opens \cup {None}] /\ alive \subseteq Opens /\ closed \in BOOLEAN
    /\ kernel \in 0 .. MaxResets
    /\ exec \in [Execs -> [at : {"new", "waiting", "running", "over"}, kernel : 0 .. MaxResets, told : BOOLEAN]]
    /\ running \subseteq Opens \cup Execs /\ Cardinality(running) <= Threads
    /\ IsInjective(queue) /\ ToSet(queue) \subseteq (Opens \cup Execs) \ running

Init ==
    /\ sessions = << >> /\ handed = [o \in Opens |-> None] /\ alive = {} /\ closed = FALSE
    /\ kernel = 0 /\ exec = [x \in Execs |-> [at |-> "new", kernel |-> 0, told |-> FALSE]]
    /\ running = {} /\ queue = << >>

-----------------------------------------------------------------------------
(* The pool: first come, first served. *)

run_in_executor ==
    /\ queue # << >> /\ Cardinality(running) < Threads
    /\ running' = running \cup {Head(queue)} /\ queue' = Tail(queue)
    /\ UNCHANGED <<terminals, kernels>>

-----------------------------------------------------------------------------
(* Terminals.  An opening without a name is numbered by how many there are. *)

\* Variants named mutant_* are mistakes the properties must catch.
mutant_Number == 0
Number == Cardinality(DOMAIN sessions)
open_session(o) ==
    /\ handed[o] = None
    /\ IF Number \in DOMAIN sessions
       THEN handed' = [handed EXCEPT ![o] = sessions[Number]] /\ UNCHANGED <<sessions, alive, queue>>
       ELSE /\ handed' = [handed EXCEPT ![o] = o] /\ alive' = alive \cup {o}
            /\ sessions' = [n \in DOMAIN sessions \cup {Number} |-> IF n = Number THEN o ELSE sessions[n]]
            /\ queue' = Append(queue, o)
    /\ UNCHANGED <<closed, kernels, running>>
\* The reader is cancelled where it still waits, and sees the end where it runs.
close_session(n) ==
    /\ n \in DOMAIN sessions
    /\ sessions' = Restrict(sessions, DOMAIN sessions \ {n})
    /\ alive' = alive \ {sessions[n]} /\ closed' = TRUE
    /\ queue' = RemoveFirst(queue, sessions[n])
    /\ UNCHANGED <<handed, kernels, running>>
mutant_Reads(o) == TRUE
Reads(o) == o \in alive
\* It also ends with its shell, of which nobody tells the session.
_drain_sync(o) ==
    /\ o \in running \cap Opens /\ ~Reads(o)
    /\ running' = running \ {o}
    /\ UNCHANGED <<terminals, kernels, queue>>
ShellExits(o) ==
    /\ o \in running \cap Opens
    /\ running' = running \ {o}
    /\ UNCHANGED <<terminals, kernels, queue>>

-----------------------------------------------------------------------------
(* Kernels: one code at a time in each; a thread is held to wait for it.    *)

get_or_create(x) ==
    /\ exec[x].at = "new"
    /\ exec' = [exec EXCEPT ![x].at = "waiting", ![x].kernel = kernel]
    /\ queue' = Append(queue, x)
    /\ UNCHANGED <<terminals, kernel, running>>
Free(k) == \A y \in Execs : ~(exec[y].at = "running" /\ exec[y].kernel = k)
Locks(x) ==
    /\ x \in running /\ exec[x].at = "waiting" /\ Free(exec[x].kernel)
    /\ exec' = [exec EXCEPT ![x].at = "running"]
    /\ UNCHANGED <<terminals, kernel, running, queue>>
\* The code ends, if it does.
Ends(x) ==
    /\ exec[x].at = "running"
    /\ exec' = [exec EXCEPT ![x].at = "over", ![x].told = TRUE] /\ running' = running \ {x}
    /\ UNCHANGED <<terminals, kernel, queue>>
\* The tool's time is over: what has no thread yet never gets one, what has
\* one goes on.
TimesOut(x) ==
    /\ exec[x].at \in {"waiting", "running"} /\ ~exec[x].told
    /\ exec' = [exec EXCEPT ![x].told = TRUE, ![x].at = IF x \in ToSet(queue) THEN "over" ELSE @]
    /\ queue' = RemoveFirst(queue, x)
    /\ UNCHANGED <<terminals, kernel, running>>
reset ==
    /\ kernel < MaxResets /\ kernel' = kernel + 1
    /\ UNCHANGED <<terminals, exec, running, queue>>

Next ==
    \/ run_in_executor \/ reset
    \/ \E o \in Opens : open_session(o) \/ _drain_sync(o) \/ ShellExits(o)
    \/ \E n \in DOMAIN sessions : close_session(n)
    \/ \E x \in Execs : get_or_create(x) \/ Locks(x) \/ Ends(x) \/ TimesOut(x)

\* The pool works and readers see the end; no code need ever come to one.
Fairness == WF_vars(run_in_executor) /\ \A o \in Opens : WF_vars(_drain_sync(o))
Spec == Init /\ [][Next]_vars /\ Fairness

-----------------------------------------------------------------------------

\* Two that open a terminal without a name are given one each, as long as none
\* was closed: the number a closed one frees may be that of a live one.
OneTerminalEach ==
    closed \/ \A o, p \in Opens : o # p /\ handed[o] # None => handed[o] # handed[p]

\* Code that waits for a thread gets one, or its time is over, unless open
\* terminals and code that has not ended hold them all.
ThreadsComeFree ==
    \A x \in Execs : (x \in ToSet(queue)) ~>
       (x \notin ToSet(queue) \/ Cardinality(running \cap (alive \cup Execs)) = Threads)
=============================================================================
