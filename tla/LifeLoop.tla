------------------------------ MODULE LifeLoop ------------------------------
(***************************************************************************)
(* The cycle of the life loop (ethos/engine/life.py): what takes a pass.   *)
(* An interrupting percept, the head of the inbound queue, the goal in     *)
(* focus, a stage notice somebody is owed and the idle choices compete for *)
(* it; a goal that loses the pass is held in a one-deep slot.  The queue   *)
(* is the messages table (ethos/social/deliberation.py), which the comms   *)
(* process fills while the loop awaits a model.                            *)
(*                                                                         *)
(* A message is a number: its ts, which the sender's service stamped, so   *)
(* an older message may arrive after a newer one.                          *)
(***************************************************************************)
EXTENDS Naturals, FiniteSets

CONSTANTS Messages,       \* inbound messages, by ts
          Goals,          \* intentions
          Social, Event,  \* the focus on a message, and on any other percept
          Nothing,        \* no focus, no message, no commission
          DefersMax,      \* inbound_defers_goal_max
          MaxAttempts,    \* MAX_DELIBERATION_ATTEMPTS / MAX_TRANSIENT_ATTEMPTS
          MaxNotices,     \* stage_notice_max_attempts
          MaxEvents,      \* bound: percepts that are not messages
          MaxFaults       \* bound: raised or cancelled cycles, and crashes

ASSUME LifeAssumption ==
    /\ Messages \subseteq Nat /\ IsFiniteSet(Messages)
    /\ {Social, Event, Nothing} \cap Goals = {} /\ Social # Event /\ Nothing \notin {Social, Event}
    /\ DefersMax \in Nat /\ MaxAttempts \in Nat \ {0} /\ MaxNotices \in Nat \ {0}
    /\ MaxEvents \in Nat /\ MaxFaults \in Nat

VARIABLES pc,         \* where the cycle is
          focus,      \* self.focus
          suspended,  \* self._suspended_focus
          deferrals,  \* self._inbound_deferrals
          percepts,   \* kinds waiting in the percept queue
          arrived, handled, waiting, attempts,   \* the messages table
          subject,    \* the message that was deliberated
          target,     \* the message the decision is applied to
          verdict,    \* the social decision
          commission, \* the intention the turn committed to
          goal,       \* status of each intention
          notice,     \* the stage notice: its state, and the attempts
          saved,      \* the intention the continuity snapshot's focus names
          events, faults,
          streak,     \* history: passes in a row a message took from owed work
          cutIn,      \* history: one of them began with an interrupting percept
          slipped     \* history: a cycle raised or was cancelled

queueVars  == <<arrived, handled, waiting, attempts>>
turnVars   == <<subject, target, verdict, commission>>
loopVars   == <<focus, suspended, deferrals>>
histVars   == <<streak, cutIn, slipped>>
boundVars  == <<events, faults>>
vars == <<pc, loopVars, percepts, queueVars, turnVars, goal, notice, saved, boundVars, histVars>>

Foci     == Goals \cup {Social, Event, Nothing}
Verdicts == {"reply", "silence", "undecided"}
Places   == {"top", "deciding", "deliberating", "acting", "marking", "holding",
             "advancing", "notifying", "settling_social", "settling_goal", "settling_idle",
             "settling_none"}
Unowed   == [state |-> "none", tries |-> 0]

TypeOK ==
    /\ pc \in Places
    /\ focus \in Foci /\ suspended \in Goals \cup {Nothing}
    /\ deferrals \in 0 .. DefersMax + 1
    /\ percepts \subseteq {Social, Event}
    /\ handled \subseteq arrived /\ waiting \subseteq arrived /\ arrived \subseteq Messages
    /\ attempts \in [Messages -> 0 .. MaxAttempts]
    /\ subject \in Messages \cup {Nothing} /\ target \in Messages \cup {Nothing}
    /\ verdict \in Verdicts /\ commission \in Goals \cup {Nothing}
    /\ goal \in [Goals -> {"none", "open", "closed"}]
    /\ notice \in [state : {"none", "owed", "later", "told", "abandoned"}, tries : 0 .. MaxNotices]
    /\ saved \in Goals \cup {Nothing}
    /\ events \in 0 .. MaxEvents /\ faults \in 0 .. MaxFaults
    /\ streak \in Nat /\ cutIn \in BOOLEAN /\ slipped \in BOOLEAN

Init ==
    /\ pc = "top"
    /\ focus = Nothing /\ suspended = Nothing /\ deferrals = 0
    /\ percepts = {}
    /\ arrived = {} /\ handled = {} /\ waiting = {}
    /\ attempts = [m \in Messages |-> 0]
    /\ subject = Nothing /\ target = Nothing /\ verdict = "undecided" /\ commission = Nothing
    /\ goal = [g \in Goals |-> "none"]
    /\ notice = Unowed
    /\ saved = Nothing
    /\ events = 0 /\ faults = 0
    /\ streak = 0 /\ cutIn = FALSE /\ slipped = FALSE

-----------------------------------------------------------------------------
(* The queue.  Variants named mutant_* are mistakes the properties must    *)
(* catch; no action uses them.                                             *)

\* Rows pending_inbound returns, and the one it returns first.
Pending == {m \in arrived \ (handled \cup waiting) : attempts[m] < MaxAttempts}
FirstPending == CHOOSE m \in Pending : \A n \in Pending : m <= n

_goal_is_owed == focus \in Goals
Owing         == focus \in Goals \/ suspended # Nothing

\* _inbound_deferrals after decide has looked at a non-empty queue.
Counted == IF _goal_is_owed THEN deferrals + 1 ELSE 0

mutant_Yields_never == FALSE
Yields == Counted > DefersMax

Answers == Pending # {} /\ ~Yields

mutant_Suspended_overwrites == IF focus \in Goals THEN focus ELSE Nothing
Suspended == IF focus \in Goals /\ suspended = Nothing THEN focus ELSE suspended

Due == notice.state = "owed"

-----------------------------------------------------------------------------
(* The top of the cycle. *)

\* An interrupting percept takes the pass; owed work goes to the slot.
Interrupt(kind) ==
    /\ pc = "top"
    /\ kind \in percepts
    /\ percepts' = {}
    /\ suspended' = Suspended
    /\ focus' = kind
    /\ pc' = "deciding"
    /\ UNCHANGED <<deferrals, queueVars, turnVars, goal, notice, saved, boundVars, histVars>>

Continue ==
    /\ pc = "top"
    /\ focus # Nothing
    /\ percepts' = {}
    /\ pc' = "deciding"
    /\ UNCHANGED <<loopVars, queueVars, turnVars, goal, notice, saved, boundVars, histVars>>

\* The drives name an open intention, write a new one, or name nothing.
_choose_focus ==
    /\ pc = "top"
    /\ focus = Nothing
    /\ percepts' = {}
    /\ pc' = "deciding"
    /\ \/ UNCHANGED <<focus, goal>>
       \/ \E g \in Goals : /\ goal[g] # "closed"
                           /\ focus' = g
                           /\ goal' = [goal EXCEPT ![g] = "open"]
    /\ UNCHANGED <<suspended, deferrals, queueVars, turnVars, notice, saved, boundVars, histVars>>

-----------------------------------------------------------------------------
(* decide. *)

\* A message takes the pass.
DecideSocial ==
    /\ pc = "deciding"
    /\ Answers
    /\ pc' = "deliberating"
    /\ subject' = FirstPending
    /\ deferrals' = Counted
    /\ suspended' = Suspended
    /\ streak' = IF Owing THEN streak + 1 ELSE 0
    /\ cutIn' = (Owing /\ (cutIn \/ focus \notin Goals))
    /\ UNCHANGED <<focus, percepts, queueVars, target, verdict, commission,
                   goal, notice, saved, boundVars, slipped>>

DecideGoal ==
    /\ pc = "deciding"
    /\ ~Answers
    /\ focus \in Goals
    /\ pc' = "advancing"
    /\ deferrals' = 0
    /\ streak' = 0 /\ cutIn' = FALSE
    /\ UNCHANGED <<focus, suspended, percepts, queueVars, turnVars,
                   goal, notice, saved, boundVars, slipped>>

DecideNotice ==
    /\ pc = "deciding"
    /\ ~Answers
    /\ focus \notin Goals
    /\ Due
    /\ pc' = "notifying"
    /\ UNCHANGED <<loopVars, percepts, queueVars, turnVars, goal, notice, saved, boundVars, histVars>>

\* Reverie or mind-wandering if one is due, else nothing; a social focus with no
\* message is dropped first.
DecideIdle ==
    /\ pc = "deciding"
    /\ ~Answers
    /\ focus \notin Goals
    /\ ~Due
    /\ focus' = IF focus = Social THEN Nothing ELSE focus
    /\ pc' \in {"settling_idle", "settling_none"}
    /\ UNCHANGED <<suspended, deferrals, percepts, queueVars, turnVars,
                   goal, notice, saved, boundVars, histVars>>

-----------------------------------------------------------------------------
(* A social pass. *)

\* The model answers, or no model does.
deliberate ==
    /\ pc = "deliberating"
    /\ pc' = "acting"
    /\ verdict' \in Verdicts
    /\ UNCHANGED <<loopVars, percepts, queueVars, subject, target, commission, goal, notice,
                   saved, boundVars, histVars>>

\* _act_social asks the queue again for the message it acts on, and writes the
\* intention it promises.
Acted == FirstPending
_act_social ==
    /\ pc = "acting"
    /\ IF Pending = {}
       THEN pc' = "settling_social" /\ UNCHANGED <<target, commission, goal>>
       ELSE /\ target' = Acted
            /\ pc' = IF verdict = "undecided" THEN "holding" ELSE "marking"
            /\ \/ UNCHANGED <<commission, goal>>
               \/ \E g \in Goals : /\ verdict = "reply"
                                   /\ goal[g] # "closed"
                                   /\ commission' = g
                                   /\ goal' = [goal EXCEPT ![g] = "open"]
    /\ UNCHANGED <<loopVars, percepts, queueVars, subject, verdict, notice,
                   saved, boundVars, histVars>>

\* The texts of a reply go out, each after its pause, and then the row is
\* settled: a cycle that ends in between leaves the message pending.
mark_handled ==
    /\ pc = "marking"
    /\ pc' = "settling_social"
    /\ handled' = handled \cup {target}
    /\ UNCHANGED <<loopVars, percepts, arrived, waiting, attempts, turnVars,
                   goal, notice, saved, boundVars, histVars>>

\* Nothing was decided: the attempt is counted, and a rate limit makes it wait.
mutant_Tried_uncounted == attempts[target]
Tried == attempts[target] + 1
record_failure ==
    /\ pc = "holding"
    /\ pc' = "settling_social"
    /\ attempts' = [attempts EXCEPT ![target] = Tried]
    /\ waiting' \in {waiting, waiting \cup {target}}
    /\ UNCHANGED <<loopVars, percepts, arrived, handled, turnVars,
                   goal, notice, saved, boundVars, histVars>>

-----------------------------------------------------------------------------
(* A goal pass and a notice pass. *)

\* gsl.advance: progress, or the end of the goal, which may owe its
\* commissioner a word.  A goal that failed keeps the focus for one more pass.
_advance_goal ==
    /\ pc = "advancing"
    /\ \/ /\ goal[focus] = "open"
          /\ pc' = "settling_idle"
          /\ UNCHANGED <<goal, notice>>
       \/ /\ goal[focus] = "open"
          /\ goal' = [goal EXCEPT ![focus] = "closed"]
          /\ notice' \in {notice} \cup (IF notice = Unowed
                                        THEN {[state |-> "owed", tries |-> 0]} ELSE {})
          /\ pc' \in {"settling_goal", "settling_idle"}
       \/ /\ goal[focus] = "closed"
          /\ pc' = "settling_goal"
          /\ UNCHANGED <<goal, notice>>
    /\ UNCHANGED <<loopVars, percepts, queueVars, turnVars, saved, boundVars, histVars>>

\* Sent or queued settles the debt; anything else counts, and the last attempt
\* abandons it.
mutant_Retried == [state |-> "later", tries |-> notice.tries]
Retried == IF notice.tries + 1 >= MaxNotices
           THEN [state |-> "abandoned", tries |-> MaxNotices]
           ELSE [state |-> "later", tries |-> notice.tries + 1]
_notify_stage ==
    /\ pc = "notifying"
    /\ pc' = "settling_idle"
    /\ notice' \in {[notice EXCEPT !.state = "told"], Retried}
    /\ UNCHANGED <<loopVars, percepts, queueVars, turnVars, goal, saved, boundVars, histVars>>

-----------------------------------------------------------------------------
(* record and next_focus. *)

\* The locals of the pass are gone.
TurnOver ==
    /\ subject' = Nothing /\ target' = Nothing
    /\ verdict' = "undecided" /\ commission' = Nothing

Settled == CASE pc = "settling_social" -> commission
             [] pc \in {"settling_goal", "settling_none"} -> Nothing
             [] OTHER -> focus

mutant_Handback_social_only == Settled = Nothing /\ suspended # Nothing /\ pc = "settling_social"
Handback == Settled = Nothing /\ suspended # Nothing

\* The snapshot is written with the focus of the pass, before the next one is
\* chosen.  A new commission takes the slot's place.
next_focus ==
    /\ pc \in {"settling_social", "settling_goal", "settling_idle", "settling_none"}
    /\ pc' = "top"
    /\ saved' = IF focus \in Goals THEN focus ELSE Nothing
    /\ focus' = IF Handback THEN suspended ELSE Settled
    /\ suspended' = IF Handback \/ (pc = "settling_social" /\ commission # Nothing)
                    THEN Nothing ELSE suspended
    /\ TurnOver
    /\ UNCHANGED <<deferrals, percepts, queueVars, goal, notice, boundVars, histVars>>

-----------------------------------------------------------------------------
(* What happens around the loop. *)

\* The comms process writes the row; the bus brings the percept.
record_inbound(m) ==
    /\ m \notin arrived
    /\ arrived' = arrived \cup {m}
    /\ percepts' = percepts \cup {Social}
    /\ UNCHANGED <<pc, loopVars, handled, waiting, attempts, turnVars,
                   goal, notice, saved, boundVars, histVars>>

OtherPercept ==
    /\ events < MaxEvents
    /\ events' = events + 1
    /\ percepts' = percepts \cup {Event}
    /\ UNCHANGED <<pc, loopVars, queueVars, turnVars, goal, notice, saved, faults, histVars>>

\* next_retry_after_epoch, and next_attempt_at, pass.
WaitElapses ==
    /\ waiting # {}
    /\ \E m \in waiting : waiting' = waiting \ {m}
    /\ UNCHANGED <<pc, loopVars, percepts, arrived, handled, attempts, turnVars,
                   goal, notice, saved, boundVars, histVars>>

NoticeDue ==
    /\ notice.state = "later"
    /\ notice' = [notice EXCEPT !.state = "owed"]
    /\ UNCHANGED <<pc, loopVars, percepts, queueVars, turnVars, goal, saved, boundVars, histVars>>

\* The cycle raises, or a stop cancels it, at whatever await it is in.
CycleFails ==
    /\ faults < MaxFaults
    /\ faults' = faults + 1
    /\ pc # "top"
    /\ pc' = "top"
    /\ TurnOver
    /\ slipped' = TRUE
    /\ UNCHANGED <<loopVars, percepts, queueVars, goal, notice, saved, events, streak, cutIn>>

\* The process dies and wakes with the focus of its snapshot, if that is open
\* work.
Crash ==
    /\ faults < MaxFaults
    /\ faults' = faults + 1
    /\ pc' = "top"
    /\ focus' = IF saved # Nothing /\ goal[saved] = "open" THEN saved ELSE Nothing
    /\ suspended' = Nothing /\ deferrals' = 0
    /\ percepts' = {}
    /\ TurnOver
    /\ streak' = 0 /\ cutIn' = FALSE /\ slipped' = FALSE
    /\ UNCHANGED <<queueVars, goal, notice, saved, events>>

-----------------------------------------------------------------------------

Decide == DecideSocial \/ DecideGoal \/ DecideNotice \/ DecideIdle
Social_ == deliberate \/ _act_social \/ mark_handled \/ record_failure
Cycle  == \/ \E kind \in {Social, Event} : Interrupt(kind)
          \/ Continue \/ _choose_focus \/ Decide \/ Social_
          \/ _advance_goal \/ _notify_stage \/ next_focus

Next ==
    \/ Cycle
    \/ \E m \in Messages : record_inbound(m)
    \/ OtherPercept \/ WaitElapses \/ NoticeDue
    \/ CycleFails \/ Crash

\* The loop keeps cycling and the clocks run; what the model, the drives and the
\* senders answer is theirs.
Spec == Init /\ [][Next]_vars /\ WF_vars(Cycle) /\ WF_vars(WaitElapses) /\ WF_vars(NoticeDue)

-----------------------------------------------------------------------------

\* Messages that arrive while a goal is in focus defer it DefersMax passes in a
\* row at most, as long as none of them broke in as a percept.
BoundedDeferral == ~cutIn => streak <= DefersMax

\* Open work in focus or in the slot stays in one of the two, except for a newer
\* commission: no kind of interruption drops it.  (A cycle that fails half way
\* may.)
Held(g) == g \in {focus, suspended}
OwedWorkKept ==
    [][\A g \in Goals :
        (Held(g) /\ goal[g] = "open" /\ ~slipped /\ faults' = faults)
          => Held(g)' \/ commission # Nothing]_vars

\* The slot never keeps work while the loop has nothing in focus.
IdleOwesNothing == (pc = "top" /\ focus = Nothing /\ ~slipped) => suspended = Nothing

\* Every message is answered, declined, or given up after its last attempt,
\* whatever the model answers and whatever the goals do.
EveryMessageSettles ==
    \A m \in Messages :
        m \in arrived ~> (m \in handled \/ attempts[m] = MaxAttempts)

\* If a goal does not hold the focus for ever, a stage notice is told or, after
\* its last attempt, abandoned.  The premise is needed: decide looks at the goal
\* before it looks at the notices.
NoticeSettles ==
    ([]<>(pc = "deciding" /\ focus \notin Goals /\ ~Answers))
      => (notice.state \in {"owed", "later"} ~> notice.state \in {"told", "abandoned"})

\* life.py:438-443: "After inbound_defers_goal_max consecutive passes spent on a
\* message while holding a goal, the goal is worked ... neither can starve the
\* other".
GoalNotStarved == streak <= DefersMax

\* life.py:775-781: every text "names the question it answers ... nothing is
\* decided twice": the decision is carried out on the message it was made for.
DecidedForIt == pc \in {"marking", "holding"} => target = subject
=============================================================================
