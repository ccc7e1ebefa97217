---------------------------- MODULE ControlPlane ----------------------------
(***************************************************************************)
(* Oversight as the core process sees it: the lifecycle flags of           *)
(* ControlPlane (ethos/core/control.py), the hard files of the host, the   *)
(* asyncio events that mirror the flags, the life loop that parks on them  *)
(* (Life.life, _parked, _parked_stopped, _cycle_until_stopped in           *)
(* ethos/engine/life.py), and the gate that reads them before a tool runs  *)
(* (GuardianGate.review).  The row that the other processes share is       *)
(* module ControlRow.                                                      *)
(*                                                                         *)
(* The three coroutines (bus handler, signal handler, life loop) share one *)
(* event loop: a step runs from one await to the next.                     *)
(***************************************************************************)
EXTENDS Lifecycle

CONSTANT HostFiles    \* the files the host may write: stop, paused, emergency

ASSUME HostFilesAssumption == HostFiles \subseteq {"stop", "paused", "emergency"}

VARIABLES flags,      \* the flags standing in this process
          pressed,    \* history: those a surface raised and has not lowered
          fromFile,   \* the switches standing because a file says so
          ending,     \* a signal asked the process to end
          stopEvent, resumeEvent, wakeEvent,
          files,      \* the run dir
          loop,       \* where the life loop is
          asked,      \* wait_stop of the running cycle has returned
          tool        \* the tool call of the running cycle

controlVars == <<flags, pressed, fromFile, ending, stopEvent, resumeEvent, wakeEvent>>
loopVars    == <<loop, asked, tool>>
vars        == <<controlVars, files, loopVars>>

TypeOK ==
    /\ flags \subseteq Flags
    /\ pressed \subseteq Flags
    /\ fromFile \subseteq {"stop", "hold"}
    /\ files \subseteq HostFiles
    /\ ending \in BOOLEAN
    /\ stopEvent \in BOOLEAN /\ resumeEvent \in BOOLEAN /\ wakeEvent \in BOOLEAN
    /\ asked \in BOOLEAN
    /\ loop \in {"top", "cycling", "parked", "parked_stopped", "left"}
    /\ tool \in {"none", "reviewing", "running"}

-----------------------------------------------------------------------------

Unheld(now) == "stopped" \notin now /\ "paused" \notin now

\* Variants named mutant_* are mistakes the properties must catch; no action
\* uses them.
mutant_after_change_no_stop(was, now) ==
    /\ stopEvent' = ("stopped" \in now)
    /\ resumeEvent' = Unheld(now)
    /\ wakeEvent' = TRUE
    /\ asked' = asked

mutant_after_change_no_wake(was, now) ==
    /\ stopEvent' = ("stopped" \in now)
    /\ resumeEvent' = Unheld(now)
    /\ UNCHANGED wakeEvent
    /\ asked' = (asked \/ (loop = "cycling" /\ "stopped" \in now))

\* The waiters follow the flags; told nothing changed, they are left alone.
_after_change(was, now) ==
    IF was = now
    THEN UNCHANGED <<stopEvent, resumeEvent, wakeEvent, asked>>
    ELSE /\ stopEvent' = ("stopped" \in now)
         /\ resumeEvent' = Unheld(now)
         /\ wakeEvent' = TRUE
         /\ asked' = (asked \/ (loop = "cycling" /\ "stopped" \in now))

\* What the flags become when the files are read.

mutant_StopRead_edge(now) ==
    IF "stop" \in files /\ "stop" \notin fromFile THEN now \cup {"stopped"}
    ELSE IF "stop" \in fromFile /\ "stop" \notin files THEN now \ {"stopped"}
    ELSE now

StopRead(now) ==
    IF "stop" \in files THEN now \cup {"stopped"}
    ELSE IF "stop" \in fromFile THEN now \ {"stopped"}
    ELSE now

HoldRead(now) ==
    IF files \cap {"paused", "emergency"} # {}
    THEN now \cup {"paused", "pause_actions"} \cup (files \cap {"emergency"})
    ELSE IF "hold" \in fromFile THEN now \ Holds
    ELSE now

FlagsRead == HoldRead(StopRead(flags))

mutant_FilesStanding_kept ==
    fromFile \cup (IF "stop" \in files THEN {"stop"} ELSE {}) \cup
    (IF files \cap {"paused", "emergency"} # {} THEN {"hold"} ELSE {})

FilesStanding ==
    (IF "stop" \in files THEN {"stop"} ELSE {}) \cup
    (IF files \cap {"paused", "emergency"} # {} THEN {"hold"} ELSE {})

_apply_files ==
    /\ flags' = FlagsRead
    /\ fromFile' = FilesStanding
    /\ UNCHANGED <<pressed, ending>>

\* A verb, from the bus or from a signal.
apply_command(v) ==
    /\ flags' = Merge(v, flags)
    /\ pressed' = Merge(v, pressed)
    /\ _after_change(flags, flags')
    /\ UNCHANGED <<fromFile, ending, files, loop, tool>>

\* SIGTERM or SIGINT: _shutdown calls end, and then applies `stop`.
end ==
    /\ loop # "left"
    /\ ending' = TRUE
    /\ flags' = flags \cup {"stopped"}
    /\ pressed' = pressed \cup {"stopped"}
    /\ stopEvent' = TRUE
    /\ resumeEvent' = FALSE
    /\ wakeEvent' = TRUE
    /\ asked' = (asked \/ loop = "cycling")
    /\ UNCHANGED <<fromFile, files, loop, tool>>

HostMoves ==
    /\ \E f \in HostFiles :
          files' = IF f \in files THEN files \ {f} ELSE files \cup {f}
    /\ UNCHANGED <<controlVars, loopVars>>

-----------------------------------------------------------------------------
(* The life loop. *)

\* Where the top of the loop goes, on the flags it has just refreshed.
mutant_NextPass_stop_first(now) ==
    IF "stopped" \in now THEN "parked_stopped"
    ELSE IF "paused" \in now THEN "parked"
    ELSE IF ending THEN "left"
    ELSE "cycling"

NextPass(now) ==
    IF ending THEN "left"
    ELSE IF "stopped" \in now THEN "parked_stopped"
    ELSE IF "paused" \in now THEN "parked"
    ELSE "cycling"

Top ==
    /\ loop = "top"
    /\ _apply_files
    /\ _after_change(flags, flags')
    /\ loop' = NextPass(flags')
    /\ UNCHANGED <<files, tool>>

StillParked(now) ==
    \/ loop = "parked" /\ "paused" \in now /\ "stopped" \notin now
    \/ loop = "parked_stopped" /\ "stopped" \in now /\ ~ending

\* A parked pass: the wait is over, the event is cleared, the files are read,
\* and the flags decide whether to wait again.
ParkedPass(woken) ==
    /\ loop \in {"parked", "parked_stopped"}
    /\ _apply_files
    /\ IF flags' = flags
       THEN /\ wakeEvent' = (wakeEvent /\ ~woken)
            /\ UNCHANGED <<stopEvent, resumeEvent, asked>>
       ELSE _after_change(flags, flags')
    /\ loop' = IF StillParked(flags') THEN loop ELSE "top"
    /\ UNCHANGED <<files, tool>>

Woken     == wakeEvent /\ ParkedPass(TRUE)
Heartbeat == ParkedPass(FALSE)

\* The gate reads the flags once, before everything else it awaits.
GateAdmits ==
    /\ loop = "cycling"
    /\ tool = "none"
    /\ flags \cap {"pause_actions", "preview"} = {}
    /\ tool' = "reviewing"
    /\ UNCHANGED <<controlVars, files, loop, asked>>

RunTool ==
    /\ tool = "reviewing"
    /\ tool' \in {"running", "none"}
    /\ UNCHANGED <<controlVars, files, loop, asked>>

ToolEnds ==
    /\ tool = "running"
    /\ tool' = "none"
    /\ UNCHANGED <<controlVars, files, loop, asked>>

LeaveCycle ==
    /\ loop' = "top"
    /\ tool' = "none"
    /\ asked' = FALSE
    /\ UNCHANGED <<controlVars, files>>

\* The cycle ends by itself, well or badly.
CycleEnds ==
    /\ loop = "cycling"
    /\ tool = "none"
    /\ LeaveCycle

\* wait_stop returned first: the cycle is cancelled, wherever it is.
CutCycle ==
    /\ loop = "cycling"
    /\ asked
    /\ LeaveCycle

-----------------------------------------------------------------------------

\* What the verbs can have left in the row that `load` inherits; a stop is not
\* inherited, and load brings the events in step.
Inherited == {{}, {"pause_actions"}, {"paused", "pause_actions"}, Holds}

Init ==
    /\ \E held \in Inherited, mode \in SUBSET {"preview"} : flags = held \cup mode
    /\ pressed = flags
    /\ fromFile = {}
    /\ ending = FALSE
    /\ stopEvent = FALSE
    /\ resumeEvent = ("paused" \notin flags)
    /\ wakeEvent = TRUE
    /\ files \in SUBSET HostFiles
    /\ loop = "top"
    /\ asked = FALSE
    /\ tool = "none"

LoopStep ==
    \/ Top \/ Woken \/ Heartbeat
    \/ GateAdmits \/ RunTool \/ ToolEnds \/ CycleEnds \/ CutCycle

Next ==
    \/ \E v \in AllVerbs : apply_command(v)
    \/ end
    \/ HostMoves
    \/ LoopStep

\* The event loop runs whatever is ready; the heartbeat is a timeout.  A cycle
\* makes a bounded number of calls, each with a timeout of its own, so it ends
\* although it may start one tool call after another.
Fairness ==
    /\ WF_vars(Top)
    /\ WF_vars(Woken)
    /\ WF_vars(Heartbeat)
    /\ WF_vars(RunTool)
    /\ WF_vars(ToolEnds)
    /\ SF_vars(CycleEnds)
    /\ WF_vars(CutCycle)

Spec == Init /\ [][Next]_vars /\ Fairness

-----------------------------------------------------------------------------
(* What oversight promises. *)

\* A stop never misses the cycle it was pressed in: while a cycle runs and the
\* agent is stopped, the waiter that will cut the cycle has returned.
NoLostStop == loop = "cycling" /\ "stopped" \in flags => asked

\* A loop that is parked over flags which no longer park it has a wake-up
\* waiting for it: no verb is noticed only at the next heartbeat.
NoLostWake ==
    loop \in {"parked", "parked_stopped"} /\ ~StillParked(flags) => wakeEvent

\* The host's stop file wins for as long as it is there: whatever the surfaces
\* press, the loop comes to rest and stays there ("the agent must be stoppable
\* by something that is neither the agent nor the database").
StopFileHolds == <>[]("stop" \in files) => <>[](loop # "cycling")

\* Removing the files lifts every hold they set, without a restart.
FilesLiftTheirHolds == <>[](files = {}) => <>[](fromFile = {} \/ loop = "left")

\* A signal ends the life loop unless a surface resumes the agent after it.
EndingLeaves == <>[](ending /\ "stopped" \in flags) => <>(loop = "left")

\* A hold that a surface pressed stands until a surface lifts it, whatever the
\* host's files do meanwhile (control.py: "removing the file release the hold
\* without also releasing a hold a surface pressed").
PressedStands == pressed \subseteq flags
=============================================================================
