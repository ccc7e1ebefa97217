------------------------------- MODULE Doors -------------------------------
(***************************************************************************)
(* One CommsHost (ethos/comms/host.py): the channel adapters a process     *)
(* holds, the watcher that follows the saved channel settings, the retry   *)
(* of doors that would not open, and the shared webhook receiver.  A       *)
(* polled door is of the Telegram kind (start and listen both ask the      *)
(* provider), a pushed door of the Google Chat kind (deliveries arrive at  *)
(* the receiver and are checked against keys that the adapter's start      *)
(* fetches).  ethos-comms is a host that listens, ethos-core one that only *)
(* sends.  What is inside a message is the subject of Inbound.             *)
(***************************************************************************)
EXTENDS Naturals, FiniteSets

CONSTANTS Polled, Pushed,          \* the doors of each kind
          Versions,                \* settings a door may be saved with
          Rescan,                  \* polls after which the files are read anyway
          MaxSaves, MaxFaults, MaxStrikes   \* bounds

Doors    == Polled \cup Pushed
Receiver == "receiver"             \* the webhook settings, among the channels'
Settings == [Doors \cup {Receiver} -> 0 .. Versions]     \* 0 is off

DoorsAssumption ==
    /\ Polled \cap Pushed = {} /\ Receiver \notin Doors
    /\ Versions \in Nat \ {0} /\ Rescan \in Nat \ {0}
    /\ MaxSaves \in Nat /\ MaxFaults \in Nat /\ MaxStrikes \in Nat

VARIABLES listens,    \* whether this process holds the doors open
          saved,      \* the settings in the files
          stamped,    \* the files' stamp is the one last looked at
          polls,      \* polls since the files were read
          task,       \* where start() or the watcher is, and its plan
          applied,    \* the settings the fingerprint stands for
          open,       \* door |-> the settings of the adapter that is held
          started,    \* doors whose adapter's start has succeeded
          polling,    \* doors whose adapter believes that it polls
          pollers,    \* the pollers that run: <<door, settings>>
          failed,     \* doors that are configured and shut
          due,        \* those whose wait is over
          strikes,    \* door |-> consecutive failures, as counted
          receiver,   \* the listener: its settings, and whether it is bound
          routes,     \* pushed door |-> the settings of the route
          keyed,      \* routes whose keys the start of an adapter fetched
          heard,      \* doors that delivered to this process
          saves, faults

vars == <<listens, saved, stamped, polls, task, applied, open, started, polling, pollers,
          failed, due, strikes, receiver, routes, keyed, heard, saves, faults>>

Places == {"starting", "sleeping", "closing", "opening", "listening", "receiving", "retrying"}

TypeOK ==
    /\ listens \in BOOLEAN /\ stamped \in BOOLEAN /\ polls \in 0 .. Rescan
    /\ saved \in Settings /\ applied \in Settings
    /\ task \in [at : Places, plan : Settings, todo : SUBSET Doors, opened : SUBSET Doors,
                 turn : SUBSET Doors]
    /\ open \in [Doors -> 0 .. Versions]
    /\ started \subseteq Doors /\ polling \subseteq Polled /\ pollers \subseteq Polled \X (1 .. Versions)
    /\ failed \subseteq Doors /\ due \subseteq Doors /\ strikes \in [Doors -> 0 .. MaxStrikes]
    /\ receiver \in [settings : 0 .. Versions, bound : BOOLEAN]
    /\ routes \in [Pushed -> 0 .. Versions] /\ keyed \subseteq Pushed /\ heard \subseteq Doors
    /\ saves \in 0 .. MaxSaves /\ faults \in 0 .. MaxFaults

Fails == faults < MaxFaults /\ faults' = faults + 1
Well  == UNCHANGED faults

\* What settings ask for: a pushed door needs the receiver, the receiver a
\* pushed door.
plan(s) ==
    LET doors == [d \in Doors |-> IF d \in Pushed /\ s[Receiver] = 0 THEN 0 ELSE s[d]] IN
    [d \in Doors \cup {Receiver} |->
       IF d # Receiver THEN doors[d]
       ELSE IF \E p \in Pushed : doors[p] # 0 THEN s[Receiver] ELSE 0]
Wanted(p) == {d \in Doors : p[d] # 0}

-----------------------------------------------------------------------------
(* start: every door in turn, then the receiver. *)

\* What a host is when its process begins with the settings s.
Fresh(s) ==
    [task |-> [at |-> "starting", plan |-> plan(s), todo |-> Wanted(plan(s)),
               opened |-> Wanted(plan(s)), turn |-> {}],
     open |-> [d \in Doors |-> plan(s)[d]], strikes |-> [d \in Doors |-> 0],
     receiver |-> [settings |-> 0, bound |-> FALSE], routes |-> [d \in Pushed |-> 0]]

Init ==
    /\ listens \in BOOLEAN
    /\ saved = [d \in Doors \cup {Receiver} |-> 1]
    /\ stamped = TRUE /\ polls = Rescan - 1 /\ applied = plan(saved)
    /\ task = Fresh(saved).task /\ open = Fresh(saved).open /\ strikes = Fresh(saved).strikes
    /\ receiver = Fresh(saved).receiver /\ routes = Fresh(saved).routes
    /\ started = {} /\ polling = {} /\ pollers = {} /\ failed = {} /\ due = {} /\ keyed = {}
    /\ heard = {} /\ saves = 0 /\ faults = 0

\* The settings are saved, by the interface or a terminal.  A stamp that
\* misses the save is possible, which is what the rescan is for.
Save ==
    /\ saves < MaxSaves /\ saves' = saves + 1
    /\ \E d \in Doors \cup {Receiver}, v \in 0 .. Versions : saved' = [saved EXCEPT ![d] = v]
    /\ saved' # saved
    /\ \/ stamped' = FALSE /\ Well
       \/ Fails /\ UNCHANGED stamped
    /\ UNCHANGED <<listens, polls, task, applied, open, started, polling, pollers, failed, due,
                   strikes, receiver, routes, keyed, heard>>

-----------------------------------------------------------------------------
(* A door.  Variants named mutant_* are mistakes the properties must catch; *)
(* no action uses them.                                                     *)

_mark_shut(d) ==
    /\ failed' = failed \cup {d} /\ due' = due \ {d}
    /\ strikes' = [strikes EXCEPT ![d] = IF @ = MaxStrikes THEN @ ELSE @ + 1]
_mark_open(d) ==
    /\ failed' = failed \ {d} /\ due' = due \ {d}
    /\ strikes' = [strikes EXCEPT ![d] = 0]

\* Start an adapter.  The start of a pushed door never fails: what it asks of
\* the provider may, and is then only logged.  A port that another process
\* holds is no failure to a host that does not listen.
Opens(d)    == _mark_open(d) /\ started' = started \cup {d} /\ Well
Refuses(d)  == d \in Polled /\ Fails /\ _mark_shut(d) /\ UNCHANGED started
Elsewhere(d) == d \in Polled /\ ~listens /\ Fails /\ UNCHANGED <<failed, due, strikes, started>>

\* Listen: an adapter that believes it polls returns at once, and it believes
\* so from before it asks.
Listens(d) ==
    IF d \in Pushed \/ d \in polling
    THEN _mark_open(d) /\ Well /\ UNCHANGED <<polling, pollers>>
    ELSE /\ polling' = polling \cup {d}
         /\ \/ _mark_open(d) /\ pollers' = pollers \cup {<<d, open[d]>>} /\ Well
            \/ Fails /\ _mark_shut(d) /\ UNCHANGED pollers

\* The doors of the list are started one after the other; where start or a
\* retry does it, each is listened to in its turn.
Turn(d)     == IF listens /\ task.at # "opening" THEN {d} ELSE {}
_start_one(d) ==
    /\ task.at \in {"starting", "retrying", "opening"} /\ task.turn = {} /\ d \in task.todo
    /\ open' = [open EXCEPT ![d] = IF task.at = "opening" THEN task.plan[d] ELSE @]
    /\ \/ Opens(d)     /\ task' = [task EXCEPT !.todo = @ \ {d}, !.turn = Turn(d)]
       \/ Refuses(d)   /\ task' = [task EXCEPT !.todo = @ \ {d}]
       \/ Elsewhere(d) /\ task' = [task EXCEPT !.todo = @ \ {d}]
    /\ UNCHANGED <<listens, saved, stamped, polls, applied, polling, pollers, receiver, routes,
                   keyed, heard, saves>>
_listen_one(d) ==
    /\ \/ d \in task.turn /\ task' = [task EXCEPT !.turn = {}]
       \/ /\ task.at = "listening" /\ d \in task.todo
          /\ task' = [task EXCEPT !.todo = @ \ {d}]
    /\ Listens(d)
    /\ UNCHANGED <<listens, saved, stamped, polls, applied, open, started, receiver, routes,
                   keyed, heard, saves>>

\* Closing forgets the door whatever its stop does; the poller goes even when
\* the stop is cut short.
mutant_Stopped_politely(d) == pollers
Stopped(d) == {p \in pollers : p[1] # d}
_close_one(d) ==
    /\ task.at = "closing" /\ d \in task.todo
    /\ task' = [task EXCEPT !.todo = @ \ {d}]
    /\ open' = [open EXCEPT ![d] = 0]
    /\ _mark_open(d)
    /\ started' = started \ {d} /\ polling' = polling \ {d} /\ pollers' = Stopped(d)
    /\ UNCHANGED <<listens, saved, stamped, polls, applied, receiver, routes, keyed, heard,
                   saves, faults>>

\* The wait of a shut door ends.
WaitEnds(d) ==
    /\ d \in failed \ due
    /\ due' = due \cup {d}
    /\ UNCHANGED <<listens, saved, stamped, polls, task, applied, open, started, polling, pollers,
                   failed, strikes, receiver, routes, keyed, heard, saves, faults>>

-----------------------------------------------------------------------------
(* The receiver and its routes.  Every route of the plan is registered     *)
(* again, for the adapter the plan has just built: that adapter is the one *)
(* that was started only where the door was opened this time.              *)

_apply_receiver ==
    /\ task.at = "receiving"
    /\ LET wanted == task.plan[Receiver]
           kept   == receiver.settings = wanted
           now    == {d \in Pushed : task.plan[d] # 0} IN
       IF wanted = 0
       THEN /\ receiver' = [settings |-> 0, bound |-> FALSE]
            /\ routes' = [d \in Pushed |-> 0] /\ keyed' = {} /\ Well
       ELSE /\ routes' = [d \in Pushed |-> IF d \in now THEN task.plan[d]
                                          ELSE IF kept THEN routes[d] ELSE 0]
            /\ keyed' = (now \cap task.opened \cap started) \cup (IF kept THEN keyed \ now ELSE {})
            /\ \/ /\ receiver' = [settings |-> wanted, bound |-> listens]
                  /\ Well
               \/ /\ listens /\ ~(kept /\ receiver.bound)
                  /\ Fails
                  /\ receiver' = [settings |-> wanted, bound |-> FALSE]
    /\ task' = [task EXCEPT !.at = "sleeping", !.todo = {}, !.opened = {}]
    /\ applied' = task.plan
    /\ UNCHANGED <<listens, saved, stamped, polls, open, started, polling, pollers, failed, due,
                   strikes, heard, saves>>

\* A provider delivers at a route, and is refused unless the keys are there;
\* a polled door hands on what its poller reads.
Deliver(d) ==
    /\ \/ d \in Pushed /\ receiver.bound /\ routes[d] # 0 /\ d \in keyed
       \/ \E v \in 1 .. Versions : <<d, v>> \in pollers
    /\ heard' = heard \cup {d}
    /\ heard' # heard
    /\ UNCHANGED <<listens, saved, stamped, polls, task, applied, open, started, polling, pollers,
                   failed, due, strikes, receiver, routes, keyed, saves, faults>>

-----------------------------------------------------------------------------
(* The watcher. *)

Moves(at, todo) == task' = [task EXCEPT !.at = at, !.todo = todo]

\* Every door that has to change is closed before any door is opened.
Changed(p) == {d \in Doors : open[d] # 0 /\ open[d] # p[d]}
mutant_Due_none(p) == {}
Due(p)     == {d \in failed \cap due : open[d] # 0}

\* One poll: unchanged stamps are believed until the rescan; then the files
\* are read, which may fail, and the doors follow, or those due are retried.
reconcile ==
    LET p == plan(saved) IN
    IF p = applied
    THEN task' = [task EXCEPT !.at = IF Due(p) = {} THEN "sleeping" ELSE "retrying", !.todo = Due(p)]
    ELSE task' = [at |-> "closing", plan |-> p, todo |-> Changed(p), opened |-> {}, turn |-> {}]
watch_channels ==
    /\ task.at = "sleeping"
    /\ IF stamped /\ polls + 1 < Rescan
       THEN polls' = polls + 1 /\ Well /\ UNCHANGED <<stamped, task>>
       ELSE /\ polls' = 0 /\ stamped' = TRUE
            /\ \/ reconcile /\ Well
               \/ Fails /\ UNCHANGED task
    /\ UNCHANGED <<listens, saved, applied, open, started, polling, pollers, failed, due, strikes,
                   receiver, routes, keyed, heard, saves>>

\* A list is through.
Through ==
    /\ task.todo = {} /\ task.turn = {}
    /\ \/ task.at = "starting" /\ Moves("receiving", {})
       \/ task.at = "retrying" /\ Moves("sleeping", {})
       \/ /\ task.at = "closing"
          /\ LET new == {d \in Doors : task.plan[d] # 0 /\ open[d] = 0} IN
             task' = [task EXCEPT !.at = "opening", !.todo = new, !.opened = new]
       \/ /\ task.at = "opening"
          /\ IF listens THEN Moves("listening", task.opened \ failed) ELSE Moves("receiving", {})
       \/ task.at = "listening" /\ Moves("receiving", {})
    /\ UNCHANGED <<listens, saved, stamped, polls, applied, open, started, polling, pollers, failed,
                   due, strikes, receiver, routes, keyed, heard, saves, faults>>

\* The process is stopped, or dies, and comes back with the saved settings.
Restart ==
    /\ Fails
    /\ UNCHANGED <<listens, saved, heard, saves>>
    /\ stamped' = TRUE /\ polls' = Rescan - 1 /\ applied' = plan(saved)
    /\ task' = Fresh(saved).task /\ open' = Fresh(saved).open /\ strikes' = Fresh(saved).strikes
    /\ receiver' = Fresh(saved).receiver /\ routes' = Fresh(saved).routes
    /\ started' = {} /\ polling' = {} /\ pollers' = {} /\ failed' = {} /\ due' = {} /\ keyed' = {}

Works ==
    \/ \E d \in Doors : _start_one(d) \/ _listen_one(d) \/ _close_one(d)
    \/ _apply_receiver \/ watch_channels \/ Through
Next ==
    \/ Works
    \/ \E d \in Doors : WaitEnds(d) \/ Deliver(d)
    \/ Save \/ Restart

\* The tasks of the host go on, and time passes.
Fairness == WF_vars(Works) /\ \A d \in Doors : WF_vars(WaitEnds(d))
Spec == Init /\ [][Next]_vars /\ Fairness

-----------------------------------------------------------------------------

\* CommsHost's two rules (host.py:179-182): only a process told to listen
\* listens, and never two pollers of one door, whatever was saved, refused,
\* retried or restarted in between.
OnePoller ==
    /\ ~listens => pollers = {} /\ ~receiver.bound
    /\ \A p, q \in pollers : p[1] = q[1] => p = q
    /\ \A p \in pollers : open[p[1]] # 0 => open[p[1]] = p[2]

\* A saved door opens without anybody's help, and a closed one closes: once
\* the settings rest and faults stop, the doors are those that are saved and
\* none is left shut.
DoorsFollowTheFile ==
    <>[](/\ \A d \in Doors : open[d] = plan(saved)[d]
         /\ failed = {} /\ applied = plan(saved))

\* _retry_shut_doors (host.py:911-915) ends the failure in which doors "stayed
\* shut for the life of the process": a polled door that is open, not marked
\* shut and at rest is polled.
OpenDoorHears ==
    (listens /\ task.at = "sleeping") =>
      \A d \in Polled : open[d] # 0 /\ d \notin failed => <<d, open[d]>> \in pollers

\* reconcile (host.py:773-776): a door that has not changed is not touched at
\* all.  So where only other doors were saved, and the listener stays as it
\* is, a pushed door keeps the keys that its deliveries are checked against.
UnchangedDoorHears ==
    [][\A d \in Pushed :
         (/\ listens /\ task'.at # "starting" /\ d \in keyed /\ receiver = receiver'
          /\ open[d] # 0 /\ open'[d] = open[d] /\ applied'[d] = open[d])
           => d \in keyed']_vars
=============================================================================
