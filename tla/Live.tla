-------------------------------- MODULE Live --------------------------------
(***************************************************************************)
(* What moves the agent, side by side: the life loop (LifeLoop), the       *)
(* choice of the idle agent's work, the doors a host holds and the keys    *)
(* they believe.  One behaviour is one part's; the other parts rest in     *)
(* their initial state.                                                    *)
(***************************************************************************)
EXTENDS LifeLoop, Integers

CONSTANTS Bypass, Threshold, Limit, Priority, Dues, WorkBound, Tick, Horizon,     \* Motivation
          Polled, Pushed, Versions, Rescan, MaxSaves, DoorFaults, MaxStrikes,     \* Doors
          TTL, KeyBound, FaultBound, TaskBound                                    \* Keys

VARIABLE part
Parts == {"life", "motivation", "doors", "keys"}

\* faults is counted by three of the parts, each in behaviours of its own.

VARIABLES works, now, work, slot, dropped
Motivation == INSTANCE Motivation WITH focus <- work, suspended <- slot

VARIABLES listens, settings, stamped, polls, task, applied, open, started, polling, pollers, failed, due, strikes,
          receiver, routes, keyed, heard, saves
Doors == INSTANCE Doors WITH saved <- settings, MaxFaults <- DoorFaults

VARIABLES published, signing, keys, age, refreshing, tasks, answer, twice
Keys == INSTANCE Keys WITH verdict <- answer

ASSUME LiveAssumption == Motivation!MotivationAssumption /\ Doors!DoorsAssumption /\ Keys!KeysAssumption

motivationVars == <<works, now, work, slot, dropped>>
doorsVars == <<listens, settings, stamped, polls, task, applied, open, started, polling, pollers, failed, due,
               strikes, receiver, routes, keyed, heard, saves>>
keysVars == <<published, signing, keys, age, refreshing, tasks, answer, twice>>
loopOnlyVars == <<pc, loopVars, percepts, queueVars, turnVars, goal, notice, saved, events, histVars>>
liveVars == <<part, vars, motivationVars, doorsVars, keysVars>>

LiveInit ==
    /\ part \in Parts
    /\ Init /\ Motivation!Init /\ Doors!Init /\ Keys!Init
    /\ part # "doors" => ~listens

LiveNext ==
    \/ part = "life" /\ Next /\ UNCHANGED <<part, motivationVars, doorsVars, keysVars>>
    \/ part = "motivation" /\ Motivation!Next /\ UNCHANGED <<part, vars, doorsVars, keysVars>>
    \/ part = "doors" /\ Doors!Next /\ UNCHANGED <<part, loopOnlyVars, motivationVars, keysVars>>
    \/ part = "keys" /\ Keys!Next /\ UNCHANGED <<part, loopOnlyVars, motivationVars, doorsVars>>

\* The fairness of each part's own specification.
LiveFairness ==
    /\ WF_vars(part = "life" /\ Cycle)
    /\ WF_vars(part = "life" /\ WaitElapses)
    /\ WF_vars(part = "life" /\ NoticeDue)
    /\ WF_motivationVars(part = "motivation" /\ Motivation!Ticks)
    /\ WF_motivationVars(part = "motivation" /\ Motivation!Answered)
    /\ SF_motivationVars(part = "motivation" /\ Motivation!GoalEnds)
    /\ SF_motivationVars(part = "motivation" /\ Motivation!Draws)
    /\ WF_<<faults, doorsVars>>(part = "doors" /\ Doors!Works)
    /\ \A d \in Polled \cup Pushed : WF_<<faults, doorsVars>>(part = "doors" /\ Doors!WaitEnds(d))
    /\ WF_<<faults, keysVars>>(part = "keys" /\ Keys!Ages)
    /\ WF_<<faults, keysVars>>(part = "keys" /\ Keys!Request)
    /\ \A i \in 1 .. TaskBound : WF_<<faults, keysVars>>(part = "keys" /\ Keys!Runs(i))
LiveSpec == LiveInit /\ [][LiveNext]_liveVars /\ LiveFairness

-----------------------------------------------------------------------------
(* What the parts' modules state, each with its own comment there.          *)

\* Every message is answered, declined or given up after its last attempt.
MessagesSettle == (part = "life") => EveryMessageSettles

\* A stage notice is told or abandoned, if no goal holds the focus for ever.
NoticesSettle == (part = "life") => NoticeSettles

\* The idle agent takes overdue work only when nothing still ahead is due.
LiveBeforeMissed == Motivation!LiveBeforeMissed

\* An open promise is worked in the end, whatever else takes the pass.
EveryPromiseIsReached == (part = "motivation") => Motivation!EveryPromiseIsReached

\* Never two pollers of one door, no way back to keys that were replaced, and
\* nothing owed where the loop is idle.
StaysInOrder ==
    /\ [](part = "life" => TypeOK /\ IdleOwesNothing)
    /\ [](part = "doors" => Doors!TypeOK /\ Doors!OnePoller)
    /\ [](part = "keys" => Keys!TypeOK)
    /\ Keys!KeysDoNotGoBack

\* Doors come to be those that are saved, and a rotated key comes to be believed.
DoorsSettle ==
    /\ (part = "doors") => Doors!DoorsFollowTheFile
    /\ (part = "keys") => Keys!RotationIsSurvived
=============================================================================
