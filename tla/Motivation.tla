----------------------------- MODULE Motivation -----------------------------
(***************************************************************************)
(* Which of its open work the idle agent takes (Motivation of              *)
(* engine/drives.py, fed by Life._choose_focus), and how the one slot for  *)
(* suspended work and the commissions of a message change that.            *)
(*                                                                         *)
(* A work is its number, in the order of creation.  Time is in hours, a    *)
(* pressure or an urgency in thousandths.  The gains of curiosity, mastery,*)
(* order and social contact, the energy and the random draw among the      *)
(* proposed impulses are left open.  A goal that awaits a person's review  *)
(* keeps the focus (its outcome is neither done nor parked): no goal here  *)
(* has a criterion only a person can judge.                                *)
(***************************************************************************)
EXTENDS Integers, FiniteSets, FiniteSetsExt, Sequences

CONSTANTS Bypass,      \* rhythm.drives.deadline_bypass_h
          Threshold,   \* rhythm.drives.propose_threshold
          Limit,       \* of list_attentionable_intentions
          Priority,    \* kind of work |-> its priority
          Dues,        \* hours of the deadlines a work is given; 0: none
          WorkBound, Tick, Horizon   \* bounds of the model: works ever; hours of a step, hours lived

MotivationAssumption ==
    /\ Bypass \in Nat /\ Threshold \in Nat /\ Limit \in Nat
    /\ \A kind \in DOMAIN Priority : Priority[kind] \in Nat
    /\ {"commitment", "venture", "task", "habit"} \subseteq DOMAIN Priority
    /\ Dues \subseteq Nat /\ WorkBound \in Nat /\ Tick \in Nat /\ Horizon \in Nat

VARIABLES works,       \* work |-> kind, due, open
          now,
          focus, suspended,   \* a work, 0 for none; Message for a message
          dropped      \* history: works whose suspension a newer promise ended

vars == <<works, now, focus, suspended, dropped>>

Message == 0 - 1
Kinds == DOMAIN Priority
Ids == DOMAIN works
Open(w) == works[w].open
TypeOK ==
    /\ \A w \in Ids : works[w] \in [kind : Kinds, due : Dues \cup {0}, open : BOOLEAN]
    /\ Len(works) <= WorkBound /\ now \in 0 .. Horizon
    /\ focus \in Ids \cup {0, Message} /\ suspended \in Ids \cup {0}
    /\ dropped \subseteq Ids

Init ==
    /\ works = << >> /\ now = 0 /\ focus = 0 /\ suspended = 0 /\ dropped = {}

-----------------------------------------------------------------------------

Dated(w) == works[w].due # 0
_hours_left(w) == works[w].due - now
Clip(x) == IF x < 0 THEN 0 ELSE IF x > 1000 THEN 1000 ELSE x

Pressing(w) == Clip(Priority[works[w].kind] \div 2
                    + (IF _hours_left(w) < 0 THEN 1000 ELSE Clip(1000 - (1000 * _hours_left(w)) \div 168)) \div 2)
Wanted(w) == (Priority[works[w].kind] * 2) \div 5

\* Variants named mutant_* are mistakes the properties must catch.
mutant_intent_urgency(w) == IF Dated(w) THEN Pressing(w) ELSE Wanted(w)
intent_urgency(w) ==
    IF Dated(w) THEN Pressing(w) ELSE IF works[w].kind = "commitment" THEN Max({Wanted(w), 500}) ELSE Wanted(w)

\* All that is dated and, of the rest, the first by priority and age.
list_attentionable_intentions ==
    LET open == {w \in Ids : Open(w)}
        dated == {w \in open : Dated(w)}
        Before(v, w) == \/ Priority[works[v].kind] > Priority[works[w].kind]
                        \/ Priority[works[v].kind] = Priority[works[w].kind] /\ v < w
        undated == open \ dated
    IN  dated \cup {w \in undated : Cardinality({v \in undated : Before(v, w)}) < Limit - Cardinality(dated)}

\* What is still ahead, the nearest first; what is past, the newest first; then
\* what has no deadline, the newest first.
mutant_selection_key(w) == IF Dated(w) THEN <<1, 0 - _hours_left(w)>> ELSE <<-1, w>>
selection_key(w) ==
    IF ~Dated(w) THEN <<-1, w>> ELSE IF _hours_left(w) >= 0 THEN <<1, 0 - _hours_left(w)>> ELSE <<0, w>>
Best(ws) ==
    LET key == [w \in ws |-> selection_key(w)]
        Above(v, w) == key[v][1] > key[w][1] \/ (key[v][1] = key[w][1] /\ key[v][2] >= key[w][2])
    IN  {w \in ws : \A v \in ws : Above(w, v)}

DRIVES == {"commitment", "curiosity", "mastery", "creation", "order", "social", "homeostasis"}
pressures(seen, energy, others) ==
    [d \in DRIVES |->
       CASE d = "commitment" -> Clip(200 + Max({0} \cup {intent_urgency(w) : w \in seen}))
         [] d = "creation" -> 350 + 100 * Min({3, Cardinality({w \in seen : works[w].kind = "venture"})})
         [] d = "homeostasis" -> Clip(200 + (800 * (100 - energy)) \div 100)
         [] OTHER -> IF others THEN Threshold + 1 ELSE Threshold]
propose_impulses(p) == {d \in DRIVES : p[d] > Threshold}

IMPULSE_TARGETS == [commitment |-> "commitment", creation |-> "venture"]
resolve_impulse_target(d, seen) ==
    IF d \in DOMAIN IMPULSE_TARGETS THEN Best({w \in seen : works[w].kind = IMPULSE_TARGETS[d]}) ELSE {}

Take(w) == focus' = w
Made(kind, due) == Append(works, [kind |-> kind, due |-> due, open |-> TRUE])
Due(seen) == {w \in seen : Dated(w) /\ _hours_left(w) <= Bypass}

DeadlineBypass ==
    LET due == Due(list_attentionable_intentions)
    IN  /\ focus = 0 /\ due # {}
        /\ \E w \in Best(due) : Take(w)
        /\ UNCHANGED <<works, now, suspended, dropped>>

arbitrate(d, energy, others) ==
    LET seen == list_attentionable_intentions
        target == resolve_impulse_target(d, seen)
    IN  /\ focus = 0 /\ Due(seen) = {} /\ d \in propose_impulses(pressures(seen, energy, others))
        /\ \/ \E w \in target : Take(w) /\ UNCHANGED works
           \/ /\ target = {} /\ Len(works) < WorkBound   \* work of its own making
              /\ works' = Made(IF d = "homeostasis" THEN "habit" ELSE "task", 0) /\ Take(Len(works) + 1)
        /\ UNCHANGED <<now, suspended, dropped>>

\* A message, by interrupt or in the inbound queue, takes the pass; the goal it
\* takes it from goes to the slot if that is free.
MessageTakesThePass ==
    /\ focus # Message /\ focus' = Message
    /\ suspended' = IF focus # 0 /\ suspended = 0 THEN focus ELSE suspended
    /\ UNCHANGED <<works, now, dropped>>

Handback == focus' = suspended /\ suspended' = 0
Answered == focus = Message /\ Handback /\ UNCHANGED <<works, now, dropped>>

\* The message asked for work: the promise takes the pass, be it new or one that
\* is open already (_already_commissioned), and the slot is emptied.
_commission_focus(w) ==
    /\ focus = Message /\ Take(w) /\ suspended' = 0
    /\ dropped' = (IF suspended \in {0, w} THEN dropped ELSE dropped \cup {suspended}) \ {w}
Commissioned(due) ==
    /\ Len(works) < WorkBound /\ works' = Made("commitment", due)
    /\ _commission_focus(Len(works) + 1) /\ UNCHANGED now
\* A commission somebody gave before and that is still open, by its title.
find_open_intention == {w \in Ids : Open(w) /\ works[w].kind = "commitment"}
_already_commissioned(w) == w \in find_open_intention /\ _commission_focus(w) /\ UNCHANGED <<works, now>>

\* intent.propose, while a goal is worked; reverie, while nothing is.
Proposed(kind) ==
    /\ focus \notin {0, Message} /\ Len(works) < WorkBound /\ works' = Made(kind, 0)
    /\ UNCHANGED <<now, focus, suspended, dropped>>
_reverie ==
    /\ focus = 0 /\ Len(works) < WorkBound /\ works' = Made("venture", 0) /\ Take(Len(works) + 1)
    /\ UNCHANGED <<now, suspended, dropped>>

\* The goal in focus is done, has failed or is parked: its pass goes to the slot.
GoalEnds ==
    /\ focus \in Ids /\ works' = [works EXCEPT ![focus].open = FALSE]
    /\ Handback /\ dropped' = dropped \ {focus}
    /\ UNCHANGED <<now>>

\* The focus was saved; the slot was not.
Restart ==
    /\ focus' = (IF focus \in Ids /\ Open(focus) THEN focus ELSE 0) /\ suspended' = 0
    /\ UNCHANGED <<works, now, dropped>>

Ticks == now + Tick <= Horizon /\ now' = now + Tick /\ UNCHANGED <<works, focus, suspended, dropped>>

\* None of them may be worth its cost (utility): the agent is then idle.
Energies == {10, 60, 100}
Choose(d) == \E energy \in Energies, others \in BOOLEAN : arbitrate(d, energy, others)
Next ==
    \/ DeadlineBypass
    \/ \E d \in DRIVES : Choose(d)
    \/ MessageTakesThePass \/ Answered
    \/ \E due \in Dues \cup {0} : Commissioned(due)
    \/ \E w \in Ids : _already_commissioned(w)
    \/ \E kind \in {"task", "venture"} : Proposed(kind)
    \/ _reverie \/ GoalEnds \/ Restart \/ Ticks

\* A message is answered in the end, a goal that is taken up again and again
\* ends, and the agent that is idle again and again draws open work some time
\* (softmax gives each impulse some chance), if no deadline takes the pass.
Draws == DeadlineBypass \/ \E d \in DOMAIN IMPULSE_TARGETS : Choose(d)
Fairness == WF_vars(Ticks) /\ WF_vars(Answered) /\ SF_vars(GoalEnds) /\ SF_vars(Draws)
Spec == Init /\ [][Next]_vars /\ Fairness

-----------------------------------------------------------------------------

\* What can still be missed comes before what already has been: the idle agent
\* takes overdue work only when nothing still ahead is due within the window.
LiveBeforeMissed ==
    [][\A w \in Ids :
         (focus = 0 /\ focus' = w /\ Dated(w) /\ _hours_left(w) < 0) =>
            ~ \E v \in Ids : Open(v) /\ Dated(v) /\ _hours_left(v) \in 0 .. Bypass]_vars

\* A promise that is open is worked in the end, however often a message, newer
\* promises, deadlines or the agent's own ventures have taken the pass.
EveryPromiseIsReached ==
    \A w \in 1 .. WorkBound :
       (w \in Ids /\ works[w].kind = "commitment" /\ Open(w)) ~> (focus = w \/ w \notin Ids \/ ~Open(w))

\* "The work this turn suspended for the message stays open and the drives can
\* still find it" (Life._settled_focus).
DroppedWorkIsFound == \A w \in 1 .. WorkBound : (w \in dropped) ~> (w \notin dropped \/ focus = w)
=============================================================================
