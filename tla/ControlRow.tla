----------------------------- MODULE ControlRow -----------------------------
(***************************************************************************)
(* The lifecycle row (env_entities, kind control) and those who write it:  *)
(* the interface's bridge (POST /api/control in web/server/index.mjs)      *)
(* merges a verb's flags and then publishes control.update; the core and   *)
(* the ethos-toolhost process each hear it on their bus, apply it to their *)
(* own ControlPlane and merge the same flags again                         *)
(* (ethos/core/control.py: load, apply_command, _persist).  What one       *)
(* process does with its flags is module ControlPlane; the host's files    *)
(* and the signals are there and not here.                                 *)
(*                                                                         *)
(* The two processes start in different orders.  The core starts its bus,  *)
(* loads the row and only then subscribes; the toolhost loads the row and  *)
(* only then listens (ethos/core/runner.py start, ethos/__main__.py).      *)
(***************************************************************************)
EXTENDS Lifecycle, Naturals, Sequences

CONSTANTS Verbs,       \* the verbs surfaces press
          MaxPresses,  \* bound: verbs pressed in a behaviour
          MaxCrashes   \* bound: process deaths in a behaviour

RowAssumption ==
    /\ Verbs \subseteq AllVerbs
    /\ MaxPresses \in Nat
    /\ MaxCrashes \in Nat

Procs == {"core", "toolhost"}
Full  == "full"
None  == "none"

VARIABLES row,       \* the flags the row says are standing
          pressing,  \* presses merged into the row and not yet published
          presses,   \* how many there have been
          inbox,     \* control.update events each bus has and has not dispatched
          flags,     \* each process' own reading
          phase,     \* how far each process has started
          saving,    \* the write each process is awaiting
          crashes,
          overlapped \* history: a verb was under way while a process was not up

vars == <<row, pressing, presses, inbox, flags, phase, saving, crashes, overlapped>>

TypeOK ==
    /\ row \subseteq Flags
    /\ presses \in 0..MaxPresses
    /\ pressing \subseteq (1..MaxPresses) \X Verbs
    /\ inbox \in [Procs -> Seq(Verbs)]
    /\ flags \in [Procs -> SUBSET Flags]
    /\ phase \in [Procs -> {"down", "deaf", "loaded", "ready"}]
    /\ saving \in [Procs -> Verbs \cup {Full, None}]
    /\ crashes \in 0..MaxCrashes
    /\ overlapped \in BOOLEAN

UnderWay == pressing # {} \/ \E p \in Procs : inbox[p] # <<>> \/ saving[p] \in Verbs
AllUp    == \A p \in Procs : phase[p] = "ready"

Watch == overlapped' = (overlapped \/ ((UnderWay \/ UnderWay') /\ ~AllUp'))

-----------------------------------------------------------------------------
(* The bridge. *)

Press(v) ==
    /\ presses < MaxPresses
    /\ presses' = presses + 1
    /\ row' = Merge(v, row)
    /\ pressing' = pressing \cup {<<presses + 1, v>>}
    /\ UNCHANGED <<inbox, flags, phase, saving, crashes>>
    /\ Watch

Listening(p) == phase[p] = "ready" \/ (p = "core" /\ phase[p] # "down")

\* Variants named mutant_* are mistakes the properties must catch; no action
\* uses them.
mutant_Publish_to_toolhost_only ==
    \E press \in pressing :
        /\ pressing' = pressing \ {press}
        /\ inbox' = [inbox EXCEPT !["toolhost"] =
                       IF phase["toolhost"] = "ready" THEN Append(@, press[2]) ELSE @]
        /\ UNCHANGED <<row, presses, flags, phase, saving, crashes>>
        /\ Watch

\* A process that is not listening never hears of the verb.
Publish ==
    \E press \in pressing :
        /\ pressing' = pressing \ {press}
        /\ inbox' = [p \in Procs |->
                       IF Listening(p) THEN Append(inbox[p], press[2]) ELSE inbox[p]]
        /\ UNCHANGED <<row, presses, flags, phase, saving, crashes>>
        /\ Watch

-----------------------------------------------------------------------------
(* A process starts. *)

BusStart ==
    /\ phase["core"] = "down"
    /\ phase' = [phase EXCEPT !["core"] = "deaf"]
    /\ UNCHANGED <<row, pressing, presses, inbox, flags, saving, crashes>>
    /\ Watch

\* A stop is a record of how the last run ended and is not inherited.  Only the
\* core owns the row, and writes it back whole.
mutant_load_forgets_pause(p) ==
    /\ phase[p] = IF p = "core" THEN "deaf" ELSE "down"
    /\ flags' = [flags EXCEPT ![p] = row \ {"stopped", "paused"}]
    /\ phase' = [phase EXCEPT ![p] = "loaded"]
    /\ saving' = [saving EXCEPT ![p] = IF p = "core" THEN Full ELSE None]
    /\ UNCHANGED <<row, pressing, presses, inbox, crashes>>
    /\ Watch

load(p) ==
    /\ phase[p] = IF p = "core" THEN "deaf" ELSE "down"
    /\ flags' = [flags EXCEPT ![p] = row \ {"stopped"}]
    /\ phase' = [phase EXCEPT ![p] = "loaded"]
    /\ saving' = [saving EXCEPT ![p] = IF p = "core" THEN Full ELSE None]
    /\ UNCHANGED <<row, pressing, presses, inbox, crashes>>
    /\ Watch

\* The toolhost's bus starts.
Listen ==
    /\ phase["toolhost"] = "loaded"
    /\ phase' = [phase EXCEPT !["toolhost"] = "ready"]
    /\ UNCHANGED <<row, pressing, presses, inbox, flags, saving, crashes>>
    /\ Watch

\* The dispatch loop runs before there is a handler.
DispatchToNobody ==
    /\ phase["core"] \in {"deaf", "loaded"}
    /\ inbox["core"] # <<>>
    /\ inbox' = [inbox EXCEPT !["core"] = Tail(@)]
    /\ UNCHANGED <<row, pressing, presses, flags, phase, saving, crashes>>
    /\ Watch

-----------------------------------------------------------------------------
(* A process hears a verb: one handler at a time, the write awaited. *)

apply_command(p) ==
    /\ phase[p] = "ready"
    /\ saving[p] = None
    /\ inbox[p] # <<>>
    /\ flags' = [flags EXCEPT ![p] = Merge(Head(inbox[p]), @)]
    /\ saving' = [saving EXCEPT ![p] = Head(inbox[p])]
    /\ inbox' = [inbox EXCEPT ![p] = Tail(@)]
    /\ UNCHANGED <<row, pressing, presses, phase, crashes>>
    /\ Watch

mutant_persist_only_raises(p) ==
    /\ saving[p] \notin {None, Full}
    /\ row' = row \cup Raises(saving[p])
    /\ saving' = [saving EXCEPT ![p] = None]
    /\ UNCHANGED <<pressing, presses, inbox, flags, phase, crashes>>
    /\ Watch

_persist(p) ==
    /\ saving[p] \notin {None, Full}
    /\ row' = Merge(saving[p], row)
    /\ saving' = [saving EXCEPT ![p] = None]
    /\ UNCHANGED <<pressing, presses, inbox, flags, phase, crashes>>
    /\ Watch

\* The full write of load, after which the core subscribes its handler.
PersistWhole ==
    /\ saving["core"] = Full
    /\ row' = flags["core"]
    /\ saving' = [saving EXCEPT !["core"] = None]
    /\ phase' = [phase EXCEPT !["core"] = "ready"]
    /\ UNCHANGED <<pressing, presses, inbox, flags, crashes>>
    /\ Watch

\* The supervisor starts it again.  The verbs it had not heard, or not
\* written, are gone.
Crash(p) ==
    /\ phase[p] # "down"
    /\ crashes < MaxCrashes
    /\ crashes' = crashes + 1
    /\ phase' = [phase EXCEPT ![p] = "down"]
    /\ inbox' = [inbox EXCEPT ![p] = <<>>]
    /\ saving' = [saving EXCEPT ![p] = None]
    /\ UNCHANGED <<row, pressing, presses, flags>>
    /\ Watch

-----------------------------------------------------------------------------

Init ==
    /\ row = {}
    /\ pressing = {}
    /\ presses = 0
    /\ inbox = [p \in Procs |-> <<>>]
    /\ flags = [p \in Procs |-> {}]
    /\ phase = [p \in Procs |-> "down"]
    /\ saving = [p \in Procs |-> None]
    /\ crashes = 0
    /\ overlapped = FALSE

ProcStep(p) == load(p) \/ apply_command(p) \/ _persist(p)

Next ==
    \/ \E v \in Verbs : Press(v)
    \/ Publish
    \/ BusStart \/ DispatchToNobody \/ PersistWhole \/ Listen
    \/ \E p \in Procs : ProcStep(p) \/ Crash(p)

\* A request in the bridge is finished, a process that can step does.
Fairness ==
    /\ WF_vars(Publish)
    /\ WF_vars(BusStart) /\ WF_vars(DispatchToNobody)
    /\ WF_vars(PersistWhole) /\ WF_vars(Listen)
    /\ \A p \in Procs : WF_vars(ProcStep(p))

Spec == Init /\ [][Next]_vars /\ Fairness

-----------------------------------------------------------------------------

\* Nothing is under way: every verb pressed has been told to everyone who was
\* listening, heard and written.
Quiet ==
    /\ pressing = {}
    /\ \A p \in Procs : inbox[p] = <<>> /\ saving[p] = None
    /\ phase["core"] = "ready"

\* Whatever the order in which the bridge, the core and the toolhost write the
\* row: once things are quiet, the row every surface reads says what the core is
\* doing, as long as no process was starting or dying while a verb was under way.
RowAgrees == Quiet /\ ~overlapped => flags["core"] = row

\* An emergency, in the row or in a process, always holds thought and action.
EmergencyHolds ==
    \A standing \in {row} \cup {flags[p] : p \in Procs} :
        "emergency" \in standing => Holds \subseteq standing

\* Pressing comes to an end, and then the core and the row agree for good.
EventuallyAgree == []~overlapped => <>[](flags["core"] = row)
=============================================================================
