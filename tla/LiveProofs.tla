----------------------------- MODULE LiveProofs -----------------------------
(***************************************************************************)
(* Proofs about what moves the agent: how long messages keep a goal        *)
(* waiting and where owed work is (of the life loop alone), and then, of   *)
(* Live, that doors, keys and the choice of work stay in order, whatever   *)
(* the messages, goals, doors, settings and deadlines are.                 *)
(***************************************************************************)
EXTENDS Live, FiniteSetTheorems, SequenceTheorems, TLAPS

\* The history of passes lost and the loop's own count keep step while no pass
\* broke in as a percept.
CountKeepsStep ==
    /\ streak \in Nat
    /\ deferrals \in 0 .. DefersMax
    /\ ~cutIn => streak <= deferrals

LEMMA BoundIsNat == DefersMax \in Nat
  BY LifeAssumption DEF LifeAssumption

LEMMA CountInit == Init => CountKeepsStep
  BY BoundIsNat DEF Init, CountKeepsStep

\* A pass a message takes is counted, and stays within the bound.
LEMMA CountDecideSocial == CountKeepsStep /\ DecideSocial => CountKeepsStep'
<1> SUFFICES ASSUME CountKeepsStep, DecideSocial PROVE CountKeepsStep'
  OBVIOUS
<1>1. deferrals' \in 0 .. DefersMax
  BY BoundIsNat DEF CountKeepsStep, DecideSocial, Answers, Yields, Counted
<1>2. streak' \in Nat
  BY DEF CountKeepsStep, DecideSocial
<1>3. ASSUME ~cutIn' PROVE streak' <= deferrals'
  <2>1. CASE Owing
    <3>1. focus \in Goals /\ ~cutIn
      BY <1>3, <2>1 DEF DecideSocial
    <3>2. streak' = streak + 1 /\ deferrals' = deferrals + 1
      BY <2>1, <3>1 DEF DecideSocial, Counted, _goal_is_owed
    <3>3. QED
      BY <3>1, <3>2, BoundIsNat DEF CountKeepsStep
  <2>2. CASE ~Owing
    <3>1. streak' = 0
      BY <2>2 DEF DecideSocial
    <3>2. QED
      BY <1>1, <3>1
  <2>3. QED
    BY <2>1, <2>2
<1>4. QED
  BY <1>1, <1>2, <1>3 DEF CountKeepsStep

LEMMA CountStep == CountKeepsStep /\ [Next]_vars => CountKeepsStep'
<1> SUFFICES ASSUME CountKeepsStep, [Next]_vars PROVE CountKeepsStep'
  OBVIOUS
<1>1. CASE DecideSocial
  BY <1>1, CountDecideSocial
<1>2. CASE DecideGoal
  BY <1>2, BoundIsNat DEF DecideGoal, CountKeepsStep
<1>3. CASE Crash
  BY <1>3, BoundIsNat DEF Crash, CountKeepsStep
<1>4. CASE DecideIdle \/ DecideNotice \/ Continue \/ _choose_focus
             \/ \E kind \in {Social, Event} : Interrupt(kind)
  <2>1. UNCHANGED <<deferrals, streak, cutIn>>
    BY <1>4 DEF DecideIdle, DecideNotice, Continue, _choose_focus, Interrupt, loopVars, histVars
  <2>2. QED
    BY <2>1 DEF CountKeepsStep
<1>5. CASE Social_ \/ _advance_goal \/ _notify_stage \/ next_focus
  <2>1. UNCHANGED <<deferrals, streak, cutIn>>
    BY <1>5 DEF Social_, deliberate, _act_social, mark_handled, record_failure, _advance_goal,
                _notify_stage, next_focus, loopVars, histVars
  <2>2. QED
    BY <2>1 DEF CountKeepsStep
<1>6. CASE (\E m \in Messages : record_inbound(m)) \/ OtherPercept \/ WaitElapses
             \/ NoticeDue \/ CycleFails
  <2>1. UNCHANGED <<deferrals, streak, cutIn>>
    BY <1>6 DEF record_inbound, OtherPercept, WaitElapses, NoticeDue, CycleFails, loopVars, histVars
  <2>2. QED
    BY <2>1 DEF CountKeepsStep
<1>7. CASE UNCHANGED vars
  BY <1>7 DEF vars, loopVars, histVars, CountKeepsStep
<1>8. QED
  BY <1>1, <1>2, <1>3, <1>4, <1>5, <1>6, <1>7 DEF Next, Cycle, Decide

\* For every bound, however many messages and goals: as long as no message
\* breaks in as a percept, a goal that is owed loses at most that many passes in
\* a row (decide, life.py:443-455).
THEOREM GoalDeferredBoundedly == Spec => []BoundedDeferral
<1>1. CountKeepsStep => BoundedDeferral
  BY BoundIsNat DEF CountKeepsStep, BoundedDeferral
<1>2. QED
  BY <1>1, CountInit, CountStep, PTL DEF Spec

-----------------------------------------------------------------------------
(* Where owed work is while a pass goes on. *)

SocialPlaces == {"deliberating", "acting", "marking", "holding", "settling_social"}

SlotTyped ==
    /\ pc \in Places
    /\ focus \in Foci /\ suspended \in Goals \cup {Nothing}
    /\ commission \in Goals \cup {Nothing} /\ saved \in Goals \cup {Nothing}
    /\ goal \in [Goals -> {"none", "open", "closed"}]

\* The slot is free when a goal is in focus or nothing is, unless a message has
\* taken the pass: then the goal it took it from is in the slot too.
SlotKept ==
    ~slipped =>
      /\ pc \in {"top", "deciding"} /\ focus \in Goals \cup {Nothing} => suspended = Nothing
      /\ pc \in {"advancing", "settling_goal"} => focus \in Goals /\ suspended = Nothing
      /\ pc = "settling_goal" => goal[focus] = "closed"
      /\ pc \in SocialPlaces /\ focus \in Goals => suspended = focus
      /\ pc = "settling_idle" /\ focus \in Goals => suspended = Nothing
      /\ pc \in {"notifying", "settling_none"} => focus \notin Goals

SlotInv == SlotTyped /\ SlotKept

LEMMA FociApart ==
    /\ Social \notin Goals /\ Event \notin Goals /\ Nothing \notin Goals
    /\ Social # Event /\ Social # Nothing /\ Event # Nothing
  BY LifeAssumption DEF LifeAssumption

LEMMA SlotInit == Init => SlotInv
  BY DEF Init, SlotInv, SlotTyped, SlotKept, Places, Foci, SocialPlaces

\* The top of the cycle: what takes the pass.
LEMMA SlotAtTheTop ==
    ASSUME SlotInv, (\E kind \in {Social, Event} : Interrupt(kind)) \/ Continue \/ _choose_focus
    PROVE  SlotInv'
<1>1. CASE \E kind \in {Social, Event} : Interrupt(kind)
  <2>1. focus' \in {Social, Event} /\ suspended' = Suspended /\ pc' = "deciding" /\ UNCHANGED <<goal, saved, commission, slipped>>
    BY <1>1 DEF Interrupt, turnVars, histVars
  <2>2. suspended' \in Goals \cup {Nothing}
    BY <2>1 DEF Suspended, SlotInv, SlotTyped
  <2>3. SlotTyped'
    BY <2>1, <2>2 DEF SlotInv, SlotTyped, Places, Foci
  <2>4. SlotKept'
    BY <2>1, FociApart DEF SlotKept, SocialPlaces
  <2>5. QED
    BY <2>3, <2>4 DEF SlotInv
<1>2. CASE Continue
  <2>1. pc = "top" /\ pc' = "deciding" /\ UNCHANGED <<focus, suspended, goal, saved, commission, slipped>>
    BY <1>2 DEF Continue, loopVars, turnVars, histVars
  <2>2. QED
    BY <2>1 DEF SlotInv, SlotTyped, SlotKept, SocialPlaces, Places
<1>3. CASE _choose_focus
  <2>1. pc = "top" /\ focus = Nothing /\ pc' = "deciding" /\ UNCHANGED <<suspended, saved, commission, slipped>>
    BY <1>3 DEF _choose_focus, turnVars, histVars
  <2>2. focus' \in Goals \cup {Nothing} /\ goal' \in [Goals -> {"none", "open", "closed"}]
    BY <1>3 DEF _choose_focus, SlotInv, SlotTyped
  <2>3. QED
    BY <2>1, <2>2 DEF SlotInv, SlotTyped, SlotKept, SocialPlaces, Places, Foci
<1>4. QED
  BY <1>1, <1>2, <1>3

LEMMA SlotDecide == ASSUME SlotInv, Decide PROVE SlotInv'
<1>1. pc = "deciding" /\ UNCHANGED <<goal, saved, commission, slipped>>
  BY DEF Decide, DecideSocial, DecideGoal, DecideNotice, DecideIdle, turnVars, histVars
<1>2. CASE DecideSocial
  <2>1. pc' = "deliberating" /\ suspended' = Suspended /\ focus' = focus
    BY <1>2 DEF DecideSocial
  <2>2. suspended' \in Goals \cup {Nothing}
    BY <2>1 DEF Suspended, SlotInv, SlotTyped
  <2>3. ~slipped' /\ focus' \in Goals => suspended' = focus'
    BY <1>1, <2>1, FociApart DEF Suspended, SlotInv, SlotKept
  <2>4. QED
    BY <1>1, <2>1, <2>2, <2>3 DEF SlotInv, SlotTyped, SlotKept, SocialPlaces, Places
<1>3. CASE DecideGoal
  <2>1. pc' = "advancing" /\ focus \in Goals /\ UNCHANGED <<focus, suspended>>
    BY <1>3 DEF DecideGoal
  <2>2. QED
    BY <1>1, <2>1 DEF SlotInv, SlotTyped, SlotKept, SocialPlaces, Places
<1>4. CASE DecideNotice
  <2>1. pc' = "notifying" /\ focus \notin Goals /\ UNCHANGED <<focus, suspended>>
    BY <1>4 DEF DecideNotice, loopVars
  <2>2. QED
    BY <1>1, <2>1 DEF SlotInv, SlotTyped, SlotKept, SocialPlaces, Places
<1>5. CASE DecideIdle
  <2>1. pc' \in {"settling_idle", "settling_none"} /\ focus' \in {focus, Nothing} /\ focus \notin Goals /\ suspended' = suspended
    BY <1>5 DEF DecideIdle
  <2>2. QED
    BY <1>1, <2>1, FociApart DEF SlotInv, SlotTyped, SlotKept, SocialPlaces, Places, Foci
<1>6. QED
  BY <1>2, <1>3, <1>4, <1>5 DEF Decide

\* A social pass ends or goes on; neither focus nor slot moves.
LEMMA SlotSocial == ASSUME SlotInv, Social_ PROVE SlotInv'
<1>1. pc \in SocialPlaces /\ pc' \in SocialPlaces /\ UNCHANGED <<focus, suspended, saved, slipped>>
  BY DEF Social_, deliberate, _act_social, mark_handled, record_failure, SocialPlaces, loopVars, histVars
<1>2. commission' \in Goals \cup {Nothing} /\ goal' \in [Goals -> {"none", "open", "closed"}]
  BY DEF Social_, deliberate, _act_social, mark_handled, record_failure, SlotInv, SlotTyped, turnVars
<1>3. QED
  BY <1>1, <1>2 DEF SlotInv, SlotTyped, SlotKept, SocialPlaces, Places

LEMMA SlotWorks == ASSUME SlotInv, _advance_goal \/ _notify_stage PROVE SlotInv'
<1>1. CASE _advance_goal
  <2>1. pc = "advancing" /\ pc' \in {"settling_idle", "settling_goal"}
        /\ UNCHANGED <<focus, suspended, saved, commission, slipped>>
    BY <1>1 DEF _advance_goal, loopVars, turnVars, histVars
  <2>2. goal' \in [Goals -> {"none", "open", "closed"}]
    BY <1>1 DEF _advance_goal, SlotInv, SlotTyped
  <2>3. ~slipped /\ pc' = "settling_goal" => goal'[focus] = "closed"
    BY <1>1, <2>1 DEF _advance_goal, SlotInv, SlotTyped, SlotKept
  <2>4. QED
    BY <2>1, <2>2, <2>3 DEF SlotInv, SlotTyped, SlotKept, SocialPlaces, Places
<1>2. CASE _notify_stage
  <2>1. pc = "notifying" /\ pc' = "settling_idle" /\ UNCHANGED <<focus, suspended, saved, commission, goal, slipped>>
    BY <1>2 DEF _notify_stage, loopVars, turnVars, histVars
  <2>2. QED
    BY <2>1 DEF SlotInv, SlotTyped, SlotKept, SocialPlaces, Places
<1>3. QED
  BY <1>1, <1>2

LEMMA SettledTyped == ASSUME SlotTyped PROVE Settled \in Foci /\ (Handback => Settled = Nothing)
  BY DEF SlotTyped, Settled, Handback, Foci

LEMMA SlotNext == ASSUME SlotInv, next_focus PROVE SlotInv'
<1>1. /\ pc \in {"settling_social", "settling_goal", "settling_idle", "settling_none"} /\ pc' = "top"
      /\ saved' = IF focus \in Goals THEN focus ELSE Nothing
      /\ focus' = IF Handback THEN suspended ELSE Settled
      /\ suspended' = IF Handback \/ (pc = "settling_social" /\ commission # Nothing) THEN Nothing ELSE suspended
      /\ commission' = Nothing /\ UNCHANGED <<goal, slipped>>
  BY DEF next_focus, TurnOver, histVars
<1>2. SlotTyped'
  BY <1>1, SettledTyped DEF SlotInv, SlotTyped, Foci, Places
<1>3. ASSUME ~slipped, focus' \in Goals \cup {Nothing} PROVE suspended' = Nothing
  <2>1. CASE Handback
    BY <1>1, <2>1
  <2>2. CASE ~Handback /\ pc = "settling_social"
    BY <1>1, <2>2 DEF Handback, Settled
  <2>3. CASE ~Handback /\ pc \in {"settling_goal", "settling_none"}
    BY <1>1, <2>3 DEF Handback, Settled
  <2>4. CASE ~Handback /\ pc = "settling_idle"
    <3>1. Settled = focus /\ focus' = focus /\ suspended' = suspended
      BY <1>1, <2>4 DEF Settled
    <3>2. CASE focus \in Goals
      BY <1>3, <2>4, <3>1, <3>2 DEF SlotInv, SlotKept
    <3>3. CASE focus = Nothing
      BY <2>4, <3>1, <3>3 DEF Handback
    <3>4. QED
      BY <1>3, <3>1, <3>2, <3>3
  <2>5. QED
    BY <1>1, <2>1, <2>2, <2>3, <2>4
<1>4. SlotKept'
  BY <1>1, <1>3 DEF SlotKept, SocialPlaces
<1>5. QED
  BY <1>2, <1>4 DEF SlotInv

LEMMA SlotStep == SlotInv /\ [Next]_vars => SlotInv'
<1> SUFFICES ASSUME SlotInv, [Next]_vars PROVE SlotInv'
  OBVIOUS
<1>1. CASE Cycle
  BY <1>1, SlotAtTheTop, SlotDecide, SlotSocial, SlotWorks, SlotNext DEF Cycle
<1>2. CASE UNCHANGED <<pc, focus, suspended, commission, saved, goal, slipped>>
  BY <1>2 DEF SlotInv, SlotTyped, SlotKept
<1>3. CASE (\E m \in Messages : record_inbound(m)) \/ OtherPercept \/ WaitElapses \/ NoticeDue \/ UNCHANGED vars
  BY <1>2, <1>3 DEF record_inbound, OtherPercept, WaitElapses, NoticeDue, vars, loopVars, turnVars, histVars
<1>4. CASE CycleFails
  BY <1>4 DEF CycleFails, TurnOver, SlotInv, SlotTyped, SlotKept, Places, loopVars
<1>5. CASE Crash
  BY <1>5 DEF Crash, TurnOver, SlotInv, SlotTyped, SlotKept, Places, Foci, SocialPlaces
<1>6. QED
  BY <1>1, <1>3, <1>4, <1>5 DEF Next

FaultsTyped == faults \in Nat

LEMMA FaultsCounted == FaultsTyped /\ [Next]_vars => FaultsTyped'
<1> USE DEF FaultsTyped
<1>1. CASE CycleFails \/ Crash
  BY <1>1 DEF CycleFails, Crash
<1>2. CASE Cycle
  <2>1. CASE (\E kind \in {Social, Event} : Interrupt(kind)) \/ Continue \/ _choose_focus \/ Decide
    BY <2>1 DEF Interrupt, Continue, _choose_focus, Decide, DecideSocial, DecideGoal, DecideNotice, DecideIdle,
                boundVars
  <2>2. CASE Social_ \/ _advance_goal \/ _notify_stage \/ next_focus
    BY <2>2 DEF Social_, deliberate, _act_social, mark_handled, record_failure, _advance_goal, _notify_stage,
                next_focus, boundVars
  <2>3. QED
    BY <1>2, <2>1, <2>2 DEF Cycle
<1>3. CASE (\E m \in Messages : record_inbound(m)) \/ OtherPercept \/ WaitElapses \/ NoticeDue \/ UNCHANGED vars
  BY <1>3 DEF record_inbound, OtherPercept, WaitElapses, NoticeDue, vars, boundVars
<1>4. QED
  BY <1>1, <1>2, <1>3 DEF Next

LEMMA SlotKeepsWork ==
    ASSUME SlotInv, FaultsTyped, [Next]_vars, NEW g \in Goals, Held(g), goal[g] = "open", ~slipped, faults' = faults
    PROVE  Held(g)' \/ commission # Nothing
<1>1. g # Social /\ g # Event /\ g # Nothing /\ g \in {focus, suspended}
  BY FociApart DEF Held
<1>2. CASE \E kind \in {Social, Event} : Interrupt(kind)
  <2>1. pc = "top" /\ suspended' = Suspended
    BY <1>2 DEF Interrupt
  <2>2. suspended' = g
    BY <1>1, <2>1, FociApart DEF Suspended, SlotInv, SlotTyped, SlotKept
  <2>3. QED
    BY <2>2 DEF Held
<1>3. CASE UNCHANGED <<focus, suspended>>
  BY <1>1, <1>3 DEF Held
<1>4. CASE _choose_focus
  <2>1. pc = "top" /\ focus = Nothing
    BY <1>4 DEF _choose_focus
  <2>2. suspended = Nothing
    BY <2>1 DEF SlotInv, SlotKept
  <2>3. QED
    BY <1>1, <2>1, <2>2
<1>5. CASE DecideSocial
  <2>1. focus' = focus /\ suspended' = Suspended
    BY <1>5 DEF DecideSocial
  <2>2. g \in {focus', suspended'}
    BY <1>1, <2>1 DEF Suspended
  <2>3. QED
    BY <2>2 DEF Held
<1>6. CASE DecideIdle
  <2>1. focus \notin Goals /\ suspended' = suspended
    BY <1>6 DEF DecideIdle
  <2>2. QED
    BY <1>1, <2>1 DEF Held
<1>7. CASE next_focus
  <2>1. /\ pc \in {"settling_social", "settling_goal", "settling_idle", "settling_none"}
        /\ focus' = IF Handback THEN suspended ELSE Settled
        /\ suspended' = IF Handback \/ (pc = "settling_social" /\ commission # Nothing) THEN Nothing ELSE suspended
    BY <1>7 DEF next_focus
  <2>2. CASE pc = "settling_social"
    <3>1. CASE commission = Nothing
      <4>1. suspended = g
        BY <1>1, <2>2 DEF SlotInv, SlotKept, SocialPlaces
      <4>2. Handback
        BY <1>1, <2>2, <3>1, <4>1 DEF Handback, Settled
      <4>3. QED
        BY <2>1, <4>1, <4>2 DEF Held
    <3>2. QED
      BY <3>1
  <2>3. CASE pc = "settling_goal"
    <3>1. suspended = Nothing /\ goal[focus] = "closed"
      BY <2>3 DEF SlotInv, SlotKept
    <3>2. QED
      BY <1>1, <3>1
  <2>4. CASE pc = "settling_none"
    <3>1. suspended = g /\ Settled = Nothing
      BY <1>1, <2>4 DEF SlotInv, SlotKept, Settled
    <3>2. Handback
      BY <1>1, <3>1 DEF Handback
    <3>3. QED
      BY <2>1, <3>1, <3>2 DEF Held
  <2>5. CASE pc = "settling_idle"
    <3>1. Settled = focus
      BY <2>5 DEF Settled
    <3>2. CASE Handback
      BY <1>1, <2>1, <3>1, <3>2 DEF Handback, Held
    <3>3. CASE ~Handback
      BY <1>1, <2>1, <2>5, <3>1, <3>3 DEF Held
    <3>4. QED
      BY <3>2, <3>3
  <2>6. QED
    BY <2>1, <2>2, <2>3, <2>4, <2>5
<1>8. UNCHANGED <<focus, suspended>> \/ (\E kind \in {Social, Event} : Interrupt(kind)) \/ _choose_focus
      \/ DecideSocial \/ DecideIdle \/ next_focus
  <2>1. CASE Continue \/ DecideGoal \/ DecideNotice \/ Social_
    BY <2>1 DEF Continue, DecideGoal, DecideNotice, Social_, deliberate, _act_social, mark_handled,
                record_failure, loopVars
  <2>2. CASE _advance_goal \/ _notify_stage \/ UNCHANGED vars
    BY <2>2 DEF _advance_goal, _notify_stage, vars, loopVars
  <2>3. CASE (\E m \in Messages : record_inbound(m)) \/ OtherPercept \/ WaitElapses \/ NoticeDue \/ CycleFails
    BY <2>3 DEF record_inbound, OtherPercept, WaitElapses, NoticeDue, CycleFails, loopVars
  <2>4. ~Crash
    BY DEF Crash, FaultsTyped
  <2>5. QED
    BY <2>1, <2>2, <2>3, <2>4 DEF Next, Cycle, Decide
<1>9. QED
  BY <1>2, <1>3, <1>4, <1>5, <1>6, <1>7, <1>8

\* Whatever interrupts, in whatever order: open work in focus or in the slot is in
\* one of the two after every step that no fault breaks off, unless the pass has
\* just promised something newer (life.py:1418-1431, 1712-1728).
THEOREM OwedWorkIsNotDropped == Spec => OwedWorkKept
<1>1. Init => FaultsTyped
  BY DEF Init, FaultsTyped
<1>2. SlotInv /\ FaultsTyped /\ [Next]_vars =>
        [\A g \in Goals : (Held(g) /\ goal[g] = "open" /\ ~slipped /\ faults' = faults)
            => Held(g)' \/ commission # Nothing]_vars
  BY SlotKeepsWork
<1>3. QED
  BY <1>1, <1>2, SlotInit, SlotStep, FaultsCounted, PTL DEF Spec, OwedWorkKept

-----------------------------------------------------------------------------
(* Finite sets of numbers have a greatest and a least. *)

\* Of finitely many there is one that none is above, whatever above means.
LEMMA NoneAbove ==
    ASSUME NEW S, IsFiniteSet(S), S # {}, NEW A, \A x \in S : A[x] \in SUBSET S,
           \A x, y \in S : y \in A[x] => A[y] \subseteq A[x] /\ y \notin A[y]
    PROVE  \E x \in S : A[x] = {}
<1>1. PICK R : R = StrictSubsetOrdering(S)
  OBVIOUS
<1>2. IsWellFoundedOn(R, SUBSET S)
  <2>1. IsWellFoundedOn(R, FiniteSubsetsOf(S))
    BY <1>1, FS_StrictSubsetOrderingWellFounded
  <2>2. FiniteSubsetsOf(S) = SUBSET S
    BY FS_FiniteSubsetsOfFinite
  <2> QED BY <2>1, <2>2
<1>3. PICK T : T = {A[x] : x \in S}
  OBVIOUS
<1>4. T \subseteq SUBSET S /\ T # {}
  BY <1>3
<1>5. PICK u \in T : \A v \in T : ~ (<<v, u>> \in R)
  BY <1>2, <1>4, WFMin
<1>6. PICK x \in S : u = A[x]
  BY <1>3, <1>5
<1>7. ASSUME NEW y \in S, y \in A[x] PROVE FALSE
  <2>1. A[y] \in T /\ A[y] \in SUBSET S /\ A[x] \in SUBSET S
    BY <1>3
  <2>2. A[y] \subseteq A[x] /\ A[y] # A[x]
    BY <1>7
  <2>3. <<A[y], A[x]>> \in R
    <3>1. <<A[y], A[x]>> \in (SUBSET S) \X (SUBSET S)
      BY <2>1
    <3> QED BY <1>1, <2>2, <3>1 DEF StrictSubsetOrdering
  <2> QED BY <1>5, <1>6, <2>1, <2>3
<1>8. A[x] = {}
  BY <1>7
<1> QED BY <1>8

LEMMA Greatest == ASSUME NEW S, S \subseteq Int, IsFiniteSet(S), S # {} PROVE \E x \in S : \A y \in S : x >= y
<1>1. PICK A : A = [x \in S |-> {y \in S : y > x}]
  OBVIOUS
<1>2. \A x \in S : A[x] \in SUBSET S
  BY <1>1
<1>3. \A x, y \in S : y \in A[x] => A[y] \subseteq A[x] /\ y \notin A[y]
  <2> SUFFICES ASSUME NEW x \in S, NEW y \in S, y \in A[x] PROVE A[y] \subseteq A[x] /\ y \notin A[y]
    OBVIOUS
  <2>1. y > x
    BY <1>1
  <2>2. ASSUME NEW z \in A[y] PROVE z \in A[x]
    <3>1. z \in S /\ z > y
      BY <1>1
    <3> QED BY <1>1, <2>1, <3>1
  <2>3. y \notin A[y]
    BY <1>1
  <2> QED BY <2>2, <2>3
<1>4. PICK x \in S : A[x] = {}
  BY <1>2, <1>3, NoneAbove
<1> QED BY <1>1, <1>4

LEMMA Least == ASSUME NEW S, S \subseteq Int, IsFiniteSet(S), S # {} PROVE \E x \in S : \A y \in S : x <= y
<1>1. PICK A : A = [x \in S |-> {y \in S : y < x}]
  OBVIOUS
<1>2. \A x \in S : A[x] \in SUBSET S
  BY <1>1
<1>3. \A x, y \in S : y \in A[x] => A[y] \subseteq A[x] /\ y \notin A[y]
  <2> SUFFICES ASSUME NEW x \in S, NEW y \in S, y \in A[x] PROVE A[y] \subseteq A[x] /\ y \notin A[y]
    OBVIOUS
  <2>1. y < x
    BY <1>1
  <2>2. ASSUME NEW z \in A[y] PROVE z \in A[x]
    <3>1. z \in S /\ z < y
      BY <1>1
    <3> QED BY <1>1, <2>1, <3>1
  <2>3. y \notin A[y]
    BY <1>1
  <2> QED BY <2>2, <2>3
<1>4. PICK x \in S : A[x] = {}
  BY <1>2, <1>3, NoneAbove
<1> QED BY <1>1, <1>4

-----------------------------------------------------------------------------
(* The rest of the loop's state: the queue, the turn and the notice. *)

QueueTyped ==
    /\ percepts \subseteq {Social, Event}
    /\ handled \subseteq arrived /\ waiting \subseteq arrived /\ arrived \subseteq Messages
    /\ attempts \in [Messages -> 0 .. MaxAttempts]
TurnTyped ==
    /\ subject \in Messages \cup {Nothing} /\ target \in Messages \cup {Nothing} /\ verdict \in Verdicts
    /\ pc \in {"marking", "holding"} => target \in arrived /\ attempts[target] < MaxAttempts
\* A notice that is told is still owed, and has an attempt left.
NoticeTyped ==
    /\ notice \in [state : {"none", "owed", "later", "told", "abandoned"}, tries : 0 .. MaxNotices]
    /\ notice.state \in {"owed", "later"} => notice.tries < MaxNotices
    /\ pc = "notifying" => notice.state = "owed"
HistTyped == events \in 0 .. MaxEvents /\ cutIn \in BOOLEAN /\ slipped \in BOOLEAN
TurnInv == QueueTyped /\ TurnTyped /\ NoticeTyped /\ HistTyped

LEMMA LifeConstants ==
    /\ MaxAttempts \in Nat /\ MaxAttempts # 0 /\ MaxNotices \in Nat /\ MaxNotices # 0
    /\ MaxEvents \in Nat /\ MaxFaults \in Nat /\ Messages \subseteq Nat /\ IsFiniteSet(Messages)
  BY LifeAssumption DEF LifeAssumption

\* The queue's head is one of the rows it has.
LEMMA HeadIsPending == ASSUME QueueTyped, Pending # {} PROVE FirstPending \in Pending
<1>1. Pending \subseteq Messages
  BY DEF QueueTyped, Pending
<1>2. IsFiniteSet(Pending)
  BY <1>1, LifeConstants, FS_Subset
<1>a. Pending \subseteq Int
  BY <1>1, LifeConstants
<1>3. \E m \in Pending : \A n \in Pending : m <= n
  BY <1>2, <1>a, Least
<1> QED BY <1>3 DEF FirstPending

LEMMA TurnInit == Init => TurnInv
<1> SUFFICES ASSUME Init PROVE TurnInv
  OBVIOUS
<1>1. QueueTyped
  <2>1. 0 \in 0 .. MaxAttempts
    BY LifeConstants
  <2> QED BY <2>1 DEF Init, QueueTyped
<1>2. TurnTyped
  BY DEF Init, TurnTyped, Verdicts
<1>3. NoticeTyped
  <2>0. 0 \in 0 .. MaxNotices
    BY LifeConstants
  <2>1. notice = [state |-> "none", tries |-> 0] /\ pc = "top" /\ 0 \in 0 .. MaxNotices
    BY <2>0 DEF Init, Unowed
  <2> QED BY <2>1 DEF NoticeTyped
<1>4. HistTyped
  <2>1. 0 \in 0 .. MaxEvents
    BY LifeConstants
  <2> QED BY <2>1 DEF Init, HistTyped
<1> QED BY <1>1, <1>2, <1>3, <1>4 DEF TurnInv

LEMMA TurnStep == TurnInv /\ [Next]_vars => TurnInv'
<1> SUFFICES ASSUME TurnInv, [Next]_vars PROVE TurnInv'
  OBVIOUS
<1> USE DEF TurnInv
<1>1. CASE \E kind \in {Social, Event} : Interrupt(kind)
  <2>1. pc' = "deciding" /\ percepts' = {} /\ UNCHANGED <<queueVars, turnVars, notice, boundVars, histVars>>
    BY <1>1 DEF Interrupt
  <2> QED BY <2>1 DEF QueueTyped, TurnTyped, NoticeTyped, HistTyped, queueVars, turnVars, boundVars, histVars
<1>2. CASE Continue \/ _choose_focus
  <2>1. pc' = "deciding" /\ percepts' = {} /\ UNCHANGED <<queueVars, turnVars, notice, boundVars, histVars>>
    BY <1>2 DEF Continue, _choose_focus
  <2> QED BY <2>1 DEF QueueTyped, TurnTyped, NoticeTyped, HistTyped, queueVars, turnVars, boundVars, histVars
<1>3. CASE DecideSocial
  <2>1. FirstPending \in Messages
    BY <1>3, HeadIsPending DEF DecideSocial, Answers, Pending, QueueTyped
  <2>2. /\ pc' = "deliberating" /\ subject' = FirstPending /\ cutIn' \in BOOLEAN
        /\ UNCHANGED <<percepts, queueVars, target, verdict, notice, boundVars, slipped>>
    BY <1>3 DEF DecideSocial, HistTyped
  <2> QED BY <2>1, <2>2 DEF QueueTyped, TurnTyped, NoticeTyped, HistTyped, queueVars, boundVars
<1>4. CASE DecideGoal
  BY <1>4 DEF DecideGoal, QueueTyped, TurnTyped, NoticeTyped, HistTyped, queueVars, turnVars, boundVars
<1>5. CASE DecideNotice
  BY <1>5 DEF DecideNotice, Due, QueueTyped, TurnTyped, NoticeTyped, HistTyped, queueVars, turnVars, boundVars, histVars
<1>6. CASE DecideIdle
  BY <1>6 DEF DecideIdle, QueueTyped, TurnTyped, NoticeTyped, HistTyped, queueVars, turnVars, boundVars, histVars
<1>7. CASE deliberate
  BY <1>7 DEF deliberate, QueueTyped, TurnTyped, NoticeTyped, HistTyped, queueVars, boundVars, histVars
<1>8. CASE _act_social
  <2>1. /\ UNCHANGED <<percepts, queueVars, subject, verdict, notice, boundVars, histVars>>
        /\ \/ pc' = "settling_social" /\ UNCHANGED target
           \/ Pending # {} /\ target' = FirstPending /\ pc' \in {"holding", "marking"}
    BY <1>8 DEF _act_social, Acted
  <2>2. Pending # {} => FirstPending \in arrived /\ attempts[FirstPending] < MaxAttempts
    BY HeadIsPending DEF Pending
  <2> QED BY <2>1, <2>2 DEF QueueTyped, TurnTyped, NoticeTyped, HistTyped, queueVars, boundVars, histVars
<1>9. CASE mark_handled
  BY <1>9 DEF mark_handled, QueueTyped, TurnTyped, NoticeTyped, HistTyped, turnVars, boundVars, histVars
<1>10. CASE record_failure
  <2>1. /\ pc = "holding" /\ pc' = "settling_social" /\ attempts' = [attempts EXCEPT ![target] = attempts[target] + 1]
        /\ waiting' \in {waiting, waiting \cup {target}}
        /\ UNCHANGED <<percepts, arrived, handled, turnVars, notice, boundVars, histVars>>
    BY <1>10 DEF record_failure, Tried
  <2>2. target \in arrived /\ attempts[target] + 1 \in 0 .. MaxAttempts
    <3>1. target \in Messages /\ target \in arrived /\ attempts[target] < MaxAttempts
      BY <2>1 DEF TurnTyped, QueueTyped
    <3>2. attempts[target] \in 0 .. MaxAttempts
      BY <3>1 DEF QueueTyped
    <3> QED BY <3>1, <3>2, LifeConstants
  <2>3. QueueTyped'
    BY <2>1, <2>2 DEF QueueTyped
  <2> QED BY <2>1, <2>3 DEF TurnTyped, NoticeTyped, HistTyped, turnVars, boundVars, histVars
<1>11. CASE _advance_goal
  <2>1. /\ pc' \in {"settling_idle", "settling_goal"}
        /\ notice' = notice \/ notice' = [state |-> "owed", tries |-> 0]
        /\ UNCHANGED <<percepts, queueVars, turnVars, boundVars, histVars>>
    BY <1>11 DEF _advance_goal
  <2>2. NoticeTyped'
    BY <2>1, LifeConstants DEF NoticeTyped
  <2> QED BY <2>1, <2>2 DEF QueueTyped, TurnTyped, HistTyped, queueVars, turnVars, boundVars, histVars
<1>12. CASE _notify_stage
  <2>1. /\ pc = "notifying" /\ pc' = "settling_idle" /\ UNCHANGED <<percepts, queueVars, turnVars, boundVars, histVars>>
        /\ notice' = [notice EXCEPT !.state = "told"] \/ notice' = Retried
    BY <1>12 DEF _notify_stage
  <2>2. notice.state = "owed" /\ notice.tries \in 0 .. MaxNotices /\ notice.tries < MaxNotices
    BY <2>1 DEF NoticeTyped
  <2>3. NoticeTyped'
    <3>1. CASE notice' = [notice EXCEPT !.state = "told"]
      BY <2>1, <3>1 DEF NoticeTyped
    <3>2. CASE notice' = [state |-> "abandoned", tries |-> MaxNotices]
      BY <2>1, <3>2, LifeConstants DEF NoticeTyped
    <3>3. CASE notice' = [state |-> "later", tries |-> notice.tries + 1] /\ notice.tries + 1 < MaxNotices
      BY <2>1, <2>2, <3>3, LifeConstants DEF NoticeTyped
    <3> QED BY <2>1, <2>2, <3>1, <3>2, <3>3, LifeConstants DEF Retried
  <2> QED BY <2>1, <2>3 DEF QueueTyped, TurnTyped, HistTyped, queueVars, turnVars, boundVars, histVars
<1>13. CASE next_focus
  BY <1>13 DEF next_focus, TurnOver, QueueTyped, TurnTyped, NoticeTyped, HistTyped, Verdicts, queueVars, boundVars, histVars
<1>14. CASE \E m \in Messages : record_inbound(m)
  BY <1>14 DEF record_inbound, QueueTyped, TurnTyped, NoticeTyped, HistTyped, turnVars, boundVars, histVars
<1>15. CASE OtherPercept
  <2>1. events' \in 0 .. MaxEvents
    BY <1>15, LifeConstants DEF OtherPercept, HistTyped
  <2> QED BY <1>15, <2>1 DEF OtherPercept, QueueTyped, TurnTyped, NoticeTyped, HistTyped, queueVars, turnVars, histVars
<1>16. CASE WaitElapses
  BY <1>16 DEF WaitElapses, QueueTyped, TurnTyped, NoticeTyped, HistTyped, turnVars, boundVars, histVars
<1>17. CASE NoticeDue
  BY <1>17 DEF NoticeDue, QueueTyped, TurnTyped, NoticeTyped, HistTyped, queueVars, turnVars, boundVars, histVars
<1>18. CASE CycleFails
  BY <1>18 DEF CycleFails, TurnOver, QueueTyped, TurnTyped, NoticeTyped, HistTyped, Verdicts, queueVars
<1>19. CASE Crash
  BY <1>19 DEF Crash, TurnOver, QueueTyped, TurnTyped, NoticeTyped, HistTyped, Verdicts, queueVars
<1>20. CASE UNCHANGED vars
  BY <1>20 DEF vars, QueueTyped, TurnTyped, NoticeTyped, HistTyped, queueVars, turnVars, boundVars, histVars
<1> QED
  BY <1>1, <1>2, <1>3, <1>4, <1>5, <1>6, <1>7, <1>8, <1>9, <1>10, <1>11, <1>12, <1>13, <1>14, <1>15, <1>16,
     <1>17, <1>18, <1>19, <1>20
     DEF Next, Cycle, Decide, Social_

-----------------------------------------------------------------------------
(* The doors: module Doors. *)

DoorsTyped ==
    /\ listens \in BOOLEAN /\ stamped \in BOOLEAN /\ polls \in 0 .. Rescan /\ saves \in 0 .. MaxSaves
    /\ settings \in Doors!Settings /\ applied \in Doors!Settings
    /\ task \in [at : Doors!Places, plan : Doors!Settings, todo : SUBSET Doors!Doors, opened : SUBSET Doors!Doors,
                 turn : SUBSET Doors!Doors]
    /\ open \in [Doors!Doors -> 0 .. Versions]
    /\ started \subseteq Doors!Doors /\ polling \subseteq Polled /\ pollers \subseteq Polled \X (1 .. Versions)
    /\ failed \subseteq Doors!Doors /\ due \subseteq Doors!Doors /\ strikes \in [Doors!Doors -> 0 .. MaxStrikes]
    /\ receiver \in [settings : 0 .. Versions, bound : BOOLEAN]
    /\ routes \in [Pushed -> 0 .. Versions] /\ keyed \subseteq Pushed /\ heard \subseteq Doors!Doors
\* What polls is what its adapter says polls, with the settings the door is open with.
PollersKnown == \A p \in pollers : p[1] \in polling /\ open[p[1]] = p[2]
SendsOnly == ~listens => pollers = {} /\ ~receiver.bound /\ task.turn = {} /\ task.at # "listening"
\* A door that is to be listened to is open, one that is to be opened is not yet.
ListsFit ==
    /\ task.at \notin {"starting", "retrying"} => task.turn = {}
    /\ \A d \in task.turn : open[d] # 0
    /\ task.at \in {"starting", "retrying", "listening"} => \A d \in task.todo : open[d] # 0
    /\ task.at = "opening" =>
         /\ task.todo \subseteq task.opened
         /\ \A d \in task.opened : task.plan[d] # 0 /\ open[d] = IF d \in task.todo THEN 0 ELSE task.plan[d]
DoorsInv == DoorsTyped /\ PollersKnown /\ SendsOnly /\ ListsFit

LEMMA DoorConstants ==
    /\ Versions \in Nat /\ Versions # 0 /\ Rescan \in Nat /\ Rescan # 0
    /\ MaxSaves \in Nat /\ DoorFaults \in Nat /\ MaxStrikes \in Nat
    /\ Polled \cap Pushed = {} /\ Doors!Receiver \notin Doors!Doors
    /\ Polled \subseteq Doors!Doors /\ Pushed \subseteq Doors!Doors
  BY LiveAssumption DEF LiveAssumption, Doors!DoorsAssumption, Doors!Doors

LEMMA PlanTyped == ASSUME NEW s \in Doors!Settings PROVE Doors!plan(s) \in Doors!Settings
<1>1. \A d \in Doors!Doors \cup {Doors!Receiver} : s[d] \in 0 .. Versions
  BY DEF Doors!Settings
<1>2. 0 \in 0 .. Versions
  BY DoorConstants
<1>3. PICK g : g = [d \in Doors!Doors |-> IF d \in Pushed /\ s[Doors!Receiver] = 0 THEN 0 ELSE s[d]]
  OBVIOUS
<1>4. Doors!plan(s) = [d \in Doors!Doors \cup {Doors!Receiver} |->
          IF d # Doors!Receiver THEN g[d] ELSE IF \E p \in Pushed : g[p] # 0 THEN s[Doors!Receiver] ELSE 0]
  BY <1>3 DEF Doors!plan
<1>5. \A d \in Doors!Doors : g[d] \in 0 .. Versions
  BY <1>1, <1>2, <1>3
<1> QED BY <1>1, <1>2, <1>4, <1>5 DEF Doors!Settings

DoorTasks == [at : Doors!Places, plan : Doors!Settings, todo : SUBSET Doors!Doors, opened : SUBSET Doors!Doors,
              turn : SUBSET Doors!Doors]

\* A process begins with the adapters of the plan built, and nothing polls.
LEMMA FreshFits ==
    ASSUME NEW s \in Doors!Settings, NEW t, t = Doors!Fresh(s).task, NEW o, o = Doors!Fresh(s).open,
           NEW r, r = Doors!Fresh(s).receiver
    PROVE  /\ t \in DoorTasks /\ t.at = "starting" /\ t.turn = {} /\ \A d \in t.todo : o[d] # 0
           /\ o \in [Doors!Doors -> 0 .. Versions] /\ Doors!Fresh(s).strikes \in [Doors!Doors -> 0 .. MaxStrikes]
           /\ r \in [settings : 0 .. Versions, bound : BOOLEAN] /\ ~r.bound
           /\ Doors!Fresh(s).routes \in [Pushed -> 0 .. Versions]
           /\ Doors!plan(s) \in Doors!Settings /\ Rescan - 1 \in 0 .. Rescan
<1>1. PICK p \in Doors!Settings : p = Doors!plan(s)
  BY PlanTyped
<1>2. /\ t = [at |-> "starting", plan |-> p, todo |-> Doors!Wanted(p), opened |-> Doors!Wanted(p), turn |-> {}]
      /\ o = [d \in Doors!Doors |-> p[d]] /\ Doors!Fresh(s).strikes = [d \in Doors!Doors |-> 0]
      /\ r = [settings |-> 0, bound |-> FALSE] /\ Doors!Fresh(s).routes = [d \in Pushed |-> 0]
  BY <1>1 DEF Doors!Fresh
<1>3. Doors!Wanted(p) \subseteq Doors!Doors /\ \A d \in Doors!Wanted(p) : p[d] # 0
  BY DEF Doors!Wanted
<1>4. 0 \in 0 .. Versions /\ 0 \in 0 .. MaxStrikes /\ Rescan - 1 \in 0 .. Rescan
  BY DoorConstants
<1>5. o \in [Doors!Doors -> 0 .. Versions]
  BY <1>1, <1>2 DEF Doors!Settings
<1>6. t \in DoorTasks
  BY <1>1, <1>2, <1>3 DEF Doors!Places, DoorTasks
<1>7. \A d \in t.todo : o[d] # 0
  BY <1>2, <1>3
<1> QED BY <1>1, <1>2, <1>4, <1>5, <1>6, <1>7

LEMMA DoorsInit == Doors!Init => DoorsInv
<1> SUFFICES ASSUME Doors!Init PROVE DoorsInv
  OBVIOUS
<1>1. settings \in Doors!Settings
  <2>1. 1 \in 0 .. Versions
    BY DoorConstants
  <2> QED BY <2>1 DEF Doors!Init, Doors!Settings
<1>2. /\ task \in DoorTasks /\ task.at = "starting" /\ task.turn = {} /\ \A d \in task.todo : open[d] # 0
      /\ open \in [Doors!Doors -> 0 .. Versions] /\ strikes \in [Doors!Doors -> 0 .. MaxStrikes]
      /\ receiver \in [settings : 0 .. Versions, bound : BOOLEAN] /\ ~receiver.bound
      /\ routes \in [Pushed -> 0 .. Versions] /\ applied \in Doors!Settings /\ polls \in 0 .. Rescan
  BY <1>1, FreshFits DEF Doors!Init
<1>3. 0 \in 0 .. MaxSaves
  BY DoorConstants
<1>4. DoorsTyped
  BY <1>1, <1>2, <1>3 DEF Doors!Init, DoorsTyped, DoorTasks
<1>5. PollersKnown /\ SendsOnly /\ ListsFit
  BY <1>2 DEF Doors!Init, PollersKnown, SendsOnly, ListsFit
<1> QED BY <1>4, <1>5 DEF DoorsInv

LEMMA DoorsRestart == ASSUME DoorsInv, Doors!Restart PROVE DoorsInv'
<1>1. settings \in Doors!Settings /\ settings' = settings
  BY DEF Doors!Restart, DoorsInv, DoorsTyped
<1>2. /\ task' \in DoorTasks /\ task'.at = "starting" /\ task'.turn = {} /\ \A d \in task'.todo : open'[d] # 0
      /\ open' \in [Doors!Doors -> 0 .. Versions] /\ strikes' \in [Doors!Doors -> 0 .. MaxStrikes]
      /\ receiver' \in [settings : 0 .. Versions, bound : BOOLEAN] /\ ~receiver'.bound
      /\ routes' \in [Pushed -> 0 .. Versions] /\ applied' \in Doors!Settings /\ polls' \in 0 .. Rescan
  BY <1>1, FreshFits DEF Doors!Restart
<1>3. DoorsTyped'
  BY <1>1, <1>2 DEF Doors!Restart, DoorsTyped, DoorTasks, DoorsInv
<1>4. PollersKnown' /\ SendsOnly' /\ ListsFit'
  BY <1>2 DEF Doors!Restart, PollersKnown, SendsOnly, ListsFit
<1> QED BY <1>3, <1>4 DEF DoorsInv

\* The settings are saved, a wait ends, a door hears.
LEMMA DoorsAround ==
    ASSUME DoorsInv, Doors!Save \/ \E d \in Doors!Doors : Doors!WaitEnds(d) \/ Doors!Deliver(d)
    PROVE  DoorsInv'
<1>1. UNCHANGED <<listens, polls, task, applied, open, started, polling, pollers, failed, strikes, receiver, routes, keyed>>
  BY DEF Doors!Save, Doors!WaitEnds, Doors!Deliver
<1>2. /\ settings' \in Doors!Settings /\ stamped' \in BOOLEAN /\ saves' \in 0 .. MaxSaves
      /\ due' \subseteq Doors!Doors /\ heard' \subseteq Doors!Doors
  <2>1. CASE Doors!Save
    <3>1. settings' \in Doors!Settings
      <4>1. PICK d \in Doors!Doors \cup {Doors!Receiver}, v \in 0 .. Versions : settings' = [settings EXCEPT ![d] = v]
        BY <2>1 DEF Doors!Save
      <4> QED BY <4>1 DEF DoorsInv, DoorsTyped, Doors!Settings
    <3>2. saves' \in 0 .. MaxSaves
      BY <2>1, DoorConstants DEF Doors!Save, DoorsInv, DoorsTyped
    <3> QED BY <2>1, <3>1, <3>2 DEF Doors!Save, DoorsInv, DoorsTyped
  <2>2. CASE \E d \in Doors!Doors : Doors!WaitEnds(d)
    BY <2>2 DEF Doors!WaitEnds, DoorsInv, DoorsTyped
  <2>3. CASE \E d \in Doors!Doors : Doors!Deliver(d)
    BY <2>3 DEF Doors!Deliver, DoorsInv, DoorsTyped
  <2> QED BY <2>1, <2>2, <2>3
<1>3. DoorsTyped'
  BY <1>1, <1>2 DEF DoorsInv, DoorsTyped
<1>4. PollersKnown' /\ SendsOnly' /\ ListsFit'
  BY <1>1 DEF DoorsInv, PollersKnown, SendsOnly, ListsFit
<1> QED BY <1>3, <1>4 DEF DoorsInv

\* Counting strikes, open or shut.
LEMMA Marked ==
    ASSUME DoorsTyped, NEW d \in Doors!Doors, Doors!_mark_shut(d) \/ Doors!_mark_open(d)
    PROVE  failed' \subseteq Doors!Doors /\ due' \subseteq Doors!Doors /\ strikes' \in [Doors!Doors -> 0 .. MaxStrikes]
<1>1. strikes[d] \in 0 .. MaxStrikes /\ 0 \in 0 .. MaxStrikes
  BY DoorConstants DEF DoorsTyped
<1>2. (IF strikes[d] = MaxStrikes THEN strikes[d] ELSE strikes[d] + 1) \in 0 .. MaxStrikes
  BY <1>1, DoorConstants
<1>3. strikes' \in [Doors!Doors -> 0 .. MaxStrikes]
  BY <1>1, <1>2 DEF Doors!_mark_shut, Doors!_mark_open, DoorsTyped
<1> QED BY <1>3 DEF Doors!_mark_shut, Doors!_mark_open, DoorsTyped

LEMMA StartOne == ASSUME DoorsInv, NEW d \in Doors!Doors, Doors!_start_one(d) PROVE DoorsInv'
<1>0. DoorsTyped /\ PollersKnown /\ SendsOnly /\ ListsFit
  BY DEF DoorsInv
<1>1. PICK t : t = task
  OBVIOUS
<1>2. t \in DoorTasks /\ t.at \in {"starting", "retrying", "opening"} /\ t.turn = {} /\ d \in t.todo
  BY <1>0, <1>1 DEF Doors!_start_one, DoorsTyped, DoorTasks
<1>3. /\ open' = [open EXCEPT ![d] = IF t.at = "opening" THEN t.plan[d] ELSE open[d]]
      /\ UNCHANGED <<listens, settings, stamped, polls, applied, polling, pollers, receiver, routes, keyed, heard, saves>>
  BY <1>1 DEF Doors!_start_one
<1>4. PICK u : u \in {{}, Doors!Turn(d)} /\ task' = [t EXCEPT !.todo = t.todo \ {d}, !.turn = u]
  <2>1. CASE Doors!Opens(d) /\ task' = [task EXCEPT !.todo = @ \ {d}, !.turn = Doors!Turn(d)]
    BY <1>1, <2>1
  <2>2. CASE task' = [task EXCEPT !.todo = @ \ {d}]
    <3>1. [t EXCEPT !.todo = t.todo \ {d}] = [t EXCEPT !.todo = t.todo \ {d}, !.turn = {}]
      BY <1>2 DEF DoorTasks
    <3> QED BY <1>1, <2>2, <3>1
  <2> QED BY <2>1, <2>2 DEF Doors!_start_one
<1>5. u \subseteq {d} /\ (t.at = "opening" => u = {}) /\ (~listens => u = {})
  BY <1>1, <1>4 DEF Doors!Turn
<1>6. /\ task' \in DoorTasks /\ task'.at = t.at /\ task'.plan = t.plan /\ task'.todo = t.todo \ {d}
      /\ task'.opened = t.opened /\ task'.turn = u
  BY <1>2, <1>4, <1>5 DEF DoorTasks
<1>7. t.plan[d] \in 0 .. Versions /\ open[d] \in 0 .. Versions
  BY <1>0, <1>2 DEF DoorsTyped, DoorTasks, Doors!Settings
<1>8. /\ open' \in [Doors!Doors -> 0 .. Versions] /\ open'[d] = (IF t.at = "opening" THEN t.plan[d] ELSE open[d])
      /\ \A e \in Doors!Doors : e # d => open'[e] = open[e]
  BY <1>0, <1>3, <1>7 DEF DoorsTyped
<1>9. /\ started' \subseteq Doors!Doors /\ failed' \subseteq Doors!Doors /\ due' \subseteq Doors!Doors
      /\ strikes' \in [Doors!Doors -> 0 .. MaxStrikes]
  <2>1. Doors!Opens(d) \/ Doors!Refuses(d) \/ Doors!Elsewhere(d)
    BY DEF Doors!_start_one
  <2>2. CASE Doors!Opens(d)
    BY <1>0, <2>2, Marked DEF Doors!Opens, DoorsTyped
  <2>3. CASE Doors!Refuses(d)
    BY <1>0, <2>3, Marked DEF Doors!Refuses, DoorsTyped
  <2>4. CASE Doors!Elsewhere(d)
    BY <1>0, <2>4 DEF Doors!Elsewhere, DoorsTyped
  <2> QED BY <2>1, <2>2, <2>3, <2>4
<1>10. DoorsTyped'
  BY <1>0, <1>3, <1>6, <1>8, <1>9 DEF DoorsTyped, DoorTasks
<1>11. PollersKnown'
  <2> SUFFICES ASSUME NEW p \in pollers PROVE p[1] \in polling /\ open'[p[1]] = p[2]
    BY <1>3 DEF PollersKnown
  <2>1. p[1] \in polling /\ open[p[1]] = p[2] /\ p[1] \in Doors!Doors /\ p[2] # 0
    BY <1>0, DoorConstants DEF PollersKnown, DoorsTyped
  <2>2. p[1] = d => t.at # "opening"
    BY <1>0, <1>1, <1>2, <2>1 DEF ListsFit
  <2> QED BY <1>8, <2>1, <2>2
<1>12. SendsOnly'
  BY <1>0, <1>1, <1>3, <1>5, <1>6 DEF SendsOnly
<1>13. ListsFit'
  <2>1. t.at # "opening" => open' = open /\ open[d] # 0
    BY <1>0, <1>1, <1>2, <1>3, <1>8 DEF ListsFit, DoorsTyped
  <2>2. task'.at \notin {"starting", "retrying"} => task'.turn = {}
    BY <1>2, <1>5, <1>6
  <2>3. \A e \in task'.turn : open'[e] # 0
    BY <1>5, <1>6, <2>1
  <2>4. task'.at \in {"starting", "retrying", "listening"} => \A e \in task'.todo : open'[e] # 0
    BY <1>0, <1>1, <1>6, <2>1 DEF ListsFit
  <2>5. ASSUME task'.at = "opening"
        PROVE  /\ task'.todo \subseteq task'.opened
               /\ \A e \in task'.opened : task'.plan[e] # 0 /\ open'[e] = IF e \in task'.todo THEN 0 ELSE task'.plan[e]
    <3>1. /\ t.todo \subseteq t.opened
          /\ \A e \in t.opened : t.plan[e] # 0 /\ open[e] = IF e \in t.todo THEN 0 ELSE t.plan[e]
      BY <1>0, <1>1, <1>6, <2>5 DEF ListsFit
    <3>2. t.opened \subseteq Doors!Doors
      BY <1>2 DEF DoorTasks
    <3> QED BY <1>6, <1>8, <2>5, <3>1, <3>2
  <2> QED BY <2>2, <2>3, <2>4, <2>5 DEF ListsFit
<1> QED BY <1>10, <1>11, <1>12, <1>13 DEF DoorsInv

LEMMA ListenOne == ASSUME DoorsInv, NEW d \in Doors!Doors, Doors!_listen_one(d) PROVE DoorsInv'
<1>0. DoorsTyped /\ PollersKnown /\ SendsOnly /\ ListsFit
  BY DEF DoorsInv
<1>1. PICK t : t = task
  OBVIOUS
<1>2. t \in DoorTasks
  BY <1>0, <1>1 DEF DoorsTyped, DoorTasks
<1>3. UNCHANGED <<listens, settings, stamped, polls, applied, open, started, receiver, routes, keyed, heard, saves>>
  BY DEF Doors!_listen_one
<1>4. /\ listens /\ open[d] # 0
      /\ \/ task' = [t EXCEPT !.turn = {}]
         \/ t.at = "listening" /\ task' = [t EXCEPT !.todo = t.todo \ {d}]
  <2>1. \/ d \in t.turn /\ task' = [t EXCEPT !.turn = {}]
        \/ t.at = "listening" /\ d \in t.todo /\ task' = [t EXCEPT !.todo = t.todo \ {d}]
    BY <1>1 DEF Doors!_listen_one
  <2>2. listens
    BY <1>0, <1>1, <2>1 DEF SendsOnly, DoorsTyped
  <2>3. open[d] # 0
    BY <1>0, <1>1, <2>1 DEF ListsFit
  <2> QED BY <2>1, <2>2, <2>3
<1>5. /\ task' \in DoorTasks /\ task'.at = t.at /\ task'.plan = t.plan /\ task'.todo \subseteq t.todo
      /\ task'.opened = t.opened /\ task'.turn \subseteq t.turn /\ (t.at # "listening" => task'.todo = t.todo)
  BY <1>2, <1>4 DEF DoorTasks
<1>6. /\ failed' \subseteq Doors!Doors /\ due' \subseteq Doors!Doors /\ strikes' \in [Doors!Doors -> 0 .. MaxStrikes]
      /\ \/ UNCHANGED <<polling, pollers>>
         \/ /\ d \in Polled /\ polling' = polling \cup {d}
            /\ pollers' = pollers \/ pollers' = pollers \cup {<<d, open[d]>>}
  <2>1. Doors!Listens(d)
    BY DEF Doors!_listen_one
  <2>2. Doors!_mark_open(d) \/ Doors!_mark_shut(d)
    BY <2>1 DEF Doors!Listens
  <2>3. \/ UNCHANGED <<polling, pollers>>
        \/ /\ d \in Polled /\ polling' = polling \cup {d}
           /\ pollers' = pollers \/ pollers' = pollers \cup {<<d, open[d]>>}
    BY <2>1 DEF Doors!Listens, Doors!Doors
  <2> QED BY <1>0, <2>2, <2>3, Marked
<1>7. <<d, open[d]>> \in Doors!Doors \X (1 .. Versions)
  <2>1. open[d] \in 0 .. Versions
    BY <1>0 DEF DoorsTyped
  <2> QED BY <1>4, <2>1, DoorConstants
<1>8. DoorsTyped'
  <2>1. polling' \subseteq Polled /\ pollers' \subseteq Polled \X (1 .. Versions)
    BY <1>0, <1>6, <1>7 DEF DoorsTyped
  <2> QED BY <1>0, <1>3, <1>5, <1>6, <2>1 DEF DoorsTyped, DoorTasks
<1>9. PollersKnown'
  BY <1>0, <1>3, <1>6 DEF PollersKnown
<1>10. SendsOnly'
  BY <1>3, <1>4 DEF SendsOnly
<1>11. ListsFit'
  BY <1>0, <1>1, <1>3, <1>5 DEF ListsFit
<1> QED BY <1>8, <1>9, <1>10, <1>11 DEF DoorsInv

LEMMA CloseOne == ASSUME DoorsInv, NEW d \in Doors!Doors, Doors!_close_one(d) PROVE DoorsInv'
<1>0. DoorsTyped /\ PollersKnown /\ SendsOnly /\ ListsFit
  BY DEF DoorsInv
<1>1. PICK t : t = task
  OBVIOUS
<1>2. t \in DoorTasks /\ t.at = "closing" /\ t.turn = {}
  BY <1>0, <1>1 DEF Doors!_close_one, DoorsTyped, DoorTasks, ListsFit
<1>3. /\ open' = [open EXCEPT ![d] = 0] /\ started' = started \ {d} /\ polling' = polling \ {d}
      /\ pollers' = {p \in pollers : p[1] # d} /\ task' = [t EXCEPT !.todo = t.todo \ {d}] /\ Doors!_mark_open(d)
      /\ UNCHANGED <<listens, settings, stamped, polls, applied, receiver, routes, keyed, heard, saves>>
  BY <1>1 DEF Doors!_close_one, Doors!Stopped
<1>4. task' \in DoorTasks /\ task'.at = "closing" /\ task'.turn = {}
  BY <1>2, <1>3 DEF DoorTasks
<1>5. open' \in [Doors!Doors -> 0 .. Versions] /\ \A e \in Doors!Doors : e # d => open'[e] = open[e]
  <2>1. 0 \in 0 .. Versions
    BY DoorConstants
  <2> QED BY <1>0, <1>3, <2>1 DEF DoorsTyped
<1>6. failed' \subseteq Doors!Doors /\ due' \subseteq Doors!Doors /\ strikes' \in [Doors!Doors -> 0 .. MaxStrikes]
  BY <1>0, <1>3, Marked
<1>7. DoorsTyped'
  BY <1>0, <1>3, <1>4, <1>5, <1>6 DEF DoorsTyped, DoorTasks
<1>8. PollersKnown'
  <2> SUFFICES ASSUME NEW p \in pollers, p[1] # d PROVE p[1] \in polling \ {d} /\ open'[p[1]] = p[2]
    BY <1>3 DEF PollersKnown
  <2>1. p[1] \in Doors!Doors
    BY <1>0, DoorConstants DEF DoorsTyped
  <2> QED BY <1>0, <1>5, <2>1 DEF PollersKnown
<1>9. SendsOnly'
  BY <1>0, <1>3, <1>4 DEF SendsOnly
<1>10. ListsFit'
  BY <1>4 DEF ListsFit
<1> QED BY <1>7, <1>8, <1>9, <1>10 DEF DoorsInv

LEMMA ApplyReceiver == ASSUME DoorsInv, Doors!_apply_receiver PROVE DoorsInv'
<1>0. DoorsTyped /\ PollersKnown /\ SendsOnly /\ ListsFit
  BY DEF DoorsInv
<1>1. PICK t : t = task
  OBVIOUS
<1>2. t \in DoorTasks /\ t.at = "receiving" /\ t.turn = {}
  BY <1>0, <1>1 DEF Doors!_apply_receiver, DoorsTyped, DoorTasks, ListsFit
<1>3. /\ task' = [t EXCEPT !.at = "sleeping", !.todo = {}, !.opened = {}] /\ applied' = t.plan
      /\ UNCHANGED <<listens, settings, stamped, polls, open, started, polling, pollers, failed, due, strikes, heard, saves>>
  BY <1>1 DEF Doors!_apply_receiver
<1>4. task' \in DoorTasks /\ task'.at = "sleeping" /\ task'.turn = {} /\ applied' \in Doors!Settings
  BY <1>2, <1>3 DEF DoorTasks, Doors!Places
<1>5. /\ receiver' \in [settings : 0 .. Versions, bound : BOOLEAN] /\ (~listens => ~receiver'.bound)
      /\ routes' \in [Pushed -> 0 .. Versions] /\ keyed' \subseteq Pushed
  <2>1. PICK w : w = t.plan[Doors!Receiver]
    OBVIOUS
  <2>2. /\ w \in 0 .. Versions /\ 0 \in 0 .. Versions /\ \A d \in Pushed : t.plan[d] \in 0 .. Versions
    BY <1>2, <2>1, DoorConstants DEF DoorTasks, Doors!Settings
  <2>3. PICK n : n = {d \in Pushed : t.plan[d] # 0}
    OBVIOUS
  <2>4. \/ receiver' = [settings |-> 0, bound |-> FALSE]
        \/ receiver' = [settings |-> w, bound |-> listens]
        \/ receiver' = [settings |-> w, bound |-> FALSE]
    BY <1>1, <2>1 DEF Doors!_apply_receiver
  <2>5. receiver' \in [settings : 0 .. Versions, bound : BOOLEAN] /\ (~listens => ~receiver'.bound)
    <3>1. PICK v \in 0 .. Versions, b \in BOOLEAN : receiver' = [settings |-> v, bound |-> b] /\ (~listens => ~b)
      <4>1. listens \in BOOLEAN
        BY <1>0 DEF DoorsTyped
      <4> QED BY <2>2, <2>4, <4>1
    <3> QED BY <3>1
  <2>6. /\ \/ routes' = [d \in Pushed |-> 0]
           \/ routes' = [d \in Pushed |-> IF d \in n THEN t.plan[d]
                                          ELSE IF receiver.settings = w THEN routes[d] ELSE 0]
        /\ \/ keyed' = {}
           \/ keyed' = (n \cap t.opened \cap started) \cup (IF receiver.settings = w THEN keyed \ n ELSE {})
    BY <1>1, <2>1, <2>3 DEF Doors!_apply_receiver
  <2>7. routes' \in [Pushed -> 0 .. Versions]
    BY <1>0, <2>2, <2>6 DEF DoorsTyped
  <2>8. keyed' \subseteq Pushed
    BY <1>0, <2>3, <2>6 DEF DoorsTyped
  <2> QED BY <2>5, <2>7, <2>8
<1>6. DoorsTyped'
  BY <1>0, <1>3, <1>4, <1>5 DEF DoorsTyped, DoorTasks
<1>7. PollersKnown' /\ SendsOnly' /\ ListsFit'
  BY <1>0, <1>3, <1>4, <1>5 DEF PollersKnown, SendsOnly, ListsFit
<1> QED BY <1>6, <1>7 DEF DoorsInv

LEMMA WatchChannels == ASSUME DoorsInv, Doors!watch_channels PROVE DoorsInv'
<1>0. DoorsTyped /\ PollersKnown /\ SendsOnly /\ ListsFit
  BY DEF DoorsInv
<1>1. PICK t : t = task
  OBVIOUS
<1>2. t \in DoorTasks /\ t.at = "sleeping" /\ t.turn = {}
  BY <1>0, <1>1 DEF Doors!watch_channels, DoorsTyped, DoorTasks, ListsFit
<1>3. PICK p \in Doors!Settings : p = Doors!plan(settings)
  BY <1>0, PlanTyped DEF DoorsTyped
<1>4. PICK c : c = Doors!Changed(p)
  OBVIOUS
<1>5. PICK n : n = Doors!Due(p)
  OBVIOUS
<1>6. c \in SUBSET Doors!Doors /\ n \in SUBSET Doors!Doors /\ \A d \in n : open[d] # 0
  BY <1>0, <1>4, <1>5 DEF Doors!Changed, Doors!Due, DoorsTyped
<1>7. /\ UNCHANGED <<listens, settings, applied, open, started, polling, pollers, failed, due, strikes, receiver, routes,
                     keyed, heard, saves>>
      /\ polls' \in 0 .. Rescan /\ stamped' \in BOOLEAN
      /\ \/ task' = t
         \/ task' = [t EXCEPT !.at = IF n = {} THEN "sleeping" ELSE "retrying", !.todo = n]
         \/ task' = [at |-> "closing", plan |-> p, todo |-> c, opened |-> {}, turn |-> {}]
  <2>1. polls' \in 0 .. Rescan /\ stamped' \in BOOLEAN
    <3>1. polls' = 0 \/ (polls' = polls + 1 /\ polls + 1 < Rescan)
      BY DEF Doors!watch_channels
    <3>2. polls' \in 0 .. Rescan
      BY <1>0, <3>1, DoorConstants DEF DoorsTyped
    <3> QED BY <1>0, <3>2 DEF Doors!watch_channels, DoorsTyped
  <2>2. task' = t \/ Doors!reconcile
    BY <1>1 DEF Doors!watch_channels
  <2>3. Doors!reconcile => \/ task' = [t EXCEPT !.at = IF n = {} THEN "sleeping" ELSE "retrying", !.todo = n]
                           \/ task' = [at |-> "closing", plan |-> p, todo |-> c, opened |-> {}, turn |-> {}]
    BY <1>1, <1>3, <1>4, <1>5 DEF Doors!reconcile
  <2> QED BY <2>1, <2>2, <2>3 DEF Doors!watch_channels
<1>8. /\ task' \in DoorTasks /\ task'.turn = {} /\ task'.at \in {"sleeping", "retrying", "closing"}
      /\ task'.at = "retrying" => task'.todo = n
  <2>1. CASE task' = t
    BY <1>2, <2>1
  <2>2. CASE task' = [t EXCEPT !.at = IF n = {} THEN "sleeping" ELSE "retrying", !.todo = n]
    BY <1>2, <1>6, <2>2 DEF DoorTasks, Doors!Places
  <2>3. CASE task' = [at |-> "closing", plan |-> p, todo |-> c, opened |-> {}, turn |-> {}]
    BY <1>6, <2>3 DEF DoorTasks, Doors!Places
  <2> QED BY <1>7, <2>1, <2>2, <2>3
<1>9. DoorsTyped'
  BY <1>0, <1>7, <1>8 DEF DoorsTyped, DoorTasks
<1>10. PollersKnown' /\ SendsOnly' /\ ListsFit'
  BY <1>0, <1>6, <1>7, <1>8 DEF PollersKnown, SendsOnly, ListsFit
<1> QED BY <1>9, <1>10 DEF DoorsInv

LEMMA ListThrough == ASSUME DoorsInv, Doors!Through PROVE DoorsInv'
<1>0. DoorsTyped /\ PollersKnown /\ SendsOnly /\ ListsFit
  BY DEF DoorsInv
<1>1. PICK t : t = task
  OBVIOUS
<1>2. t \in DoorTasks /\ t.todo = {} /\ t.turn = {}
  BY <1>0, <1>1 DEF Doors!Through, DoorsTyped, DoorTasks
<1>3. PICK n : n = {d \in Doors!Doors : t.plan[d] # 0 /\ open[d] = 0}
  OBVIOUS
<1>4. /\ UNCHANGED <<listens, settings, stamped, polls, applied, open, started, polling, pollers, failed, due, strikes,
                     receiver, routes, keyed, heard, saves>>
      /\ \/ \E at \in {"receiving", "sleeping"} : task' = [t EXCEPT !.at = at, !.todo = {}]
         \/ task' = [t EXCEPT !.at = "opening", !.todo = n, !.opened = n]
         \/ listens /\ t.at = "opening" /\ task' = [t EXCEPT !.at = "listening", !.todo = t.opened \ failed]
  <2>1. PICK f : f = t.opened \ failed
    OBVIOUS
  <2>2. \/ \E at \in {"receiving", "sleeping"} : task' = [t EXCEPT !.at = at, !.todo = {}]
        \/ task' = [t EXCEPT !.at = "opening", !.todo = n, !.opened = n]
        \/ listens /\ t.at = "opening" /\ task' = [t EXCEPT !.at = "listening", !.todo = f]
    BY <1>1, <1>3, <2>1 DEF Doors!Through, Doors!Moves
  <2> QED BY <2>1, <2>2 DEF Doors!Through
<1>5. CASE \E at \in {"receiving", "sleeping"} : task' = [t EXCEPT !.at = at, !.todo = {}]
  <2>1. task' \in DoorTasks /\ task'.turn = {} /\ task'.at \in {"receiving", "sleeping"}
    BY <1>2, <1>5 DEF DoorTasks, Doors!Places
  <2>2. DoorsTyped'
    BY <1>0, <1>4, <2>1 DEF DoorsTyped, DoorTasks
  <2>3. PollersKnown' /\ SendsOnly' /\ ListsFit'
    BY <1>0, <1>4, <2>1 DEF PollersKnown, SendsOnly, ListsFit
  <2> QED BY <2>2, <2>3 DEF DoorsInv
<1>6. CASE task' = [t EXCEPT !.at = "opening", !.todo = n, !.opened = n]
  <2>1. /\ task' \in DoorTasks /\ task'.turn = {} /\ task'.at = "opening" /\ task'.todo = n /\ task'.opened = n
        /\ task'.plan = t.plan
    BY <1>2, <1>3, <1>6 DEF DoorTasks, Doors!Places
  <2>2. DoorsTyped'
    BY <1>0, <1>4, <2>1 DEF DoorsTyped, DoorTasks
  <2>3. PollersKnown' /\ SendsOnly'
    BY <1>0, <1>4, <2>1 DEF PollersKnown, SendsOnly
  <2>4. ListsFit'
    BY <1>3, <1>4, <2>1 DEF ListsFit
  <2> QED BY <2>2, <2>3, <2>4 DEF DoorsInv
<1>7. CASE listens /\ t.at = "opening" /\ task' = [t EXCEPT !.at = "listening", !.todo = t.opened \ failed]
  <2>1. task' \in DoorTasks /\ task'.turn = {} /\ task'.at = "listening" /\ task'.todo \subseteq t.opened
    BY <1>2, <1>7 DEF DoorTasks, Doors!Places
  <2>2. DoorsTyped'
    BY <1>0, <1>4, <2>1 DEF DoorsTyped, DoorTasks
  <2>3. PollersKnown' /\ SendsOnly'
    BY <1>0, <1>4, <1>7 DEF PollersKnown, SendsOnly
  <2>4. \A d \in t.opened : open[d] # 0
    BY <1>0, <1>1, <1>2, <1>7 DEF ListsFit
  <2>5. ListsFit'
    BY <1>4, <2>1, <2>4 DEF ListsFit
  <2> QED BY <2>2, <2>3, <2>5 DEF DoorsInv
<1> QED BY <1>4, <1>5, <1>6, <1>7

LEMMA DoorsStep == ASSUME DoorsInv, Doors!Next PROVE DoorsInv'
<1>1. CASE Doors!Works
  BY <1>1, StartOne, ListenOne, CloseOne, ApplyReceiver, WatchChannels, ListThrough DEF Doors!Works
<1>2. CASE Doors!Save \/ \E d \in Doors!Doors : Doors!WaitEnds(d) \/ Doors!Deliver(d)
  BY <1>2, DoorsAround
<1>3. CASE Doors!Restart
  BY <1>3, DoorsRestart
<1> QED BY <1>1, <1>2, <1>3 DEF Doors!Next

LEMMA DoorsStand == ASSUME DoorsInv, faults \in 0 .. DoorFaults PROVE Doors!TypeOK /\ Doors!OnePoller
<1>1. Doors!TypeOK
  BY DEF DoorsInv, DoorsTyped, Doors!TypeOK
<1>2. \A p, q \in pollers : p[1] = q[1] => p = q
  <2> SUFFICES ASSUME NEW p \in pollers, NEW q \in pollers, p[1] = q[1] PROVE p = q
    OBVIOUS
  <2>1. p[2] = q[2]
    BY DEF DoorsInv, PollersKnown
  <2>2. p = <<p[1], p[2]>> /\ q = <<q[1], q[2]>>
    BY DEF DoorsInv, DoorsTyped
  <2> QED BY <2>1, <2>2
<1>3. \A p \in pollers : open[p[1]] = p[2]
  BY DEF DoorsInv, PollersKnown
<1>4. ~listens => pollers = {} /\ ~receiver.bound
  BY DEF DoorsInv, SendsOnly
<1> QED BY <1>1, <1>2, <1>3, <1>4 DEF Doors!OnePoller

-----------------------------------------------------------------------------
(* The keys a door believes. *)

KeysTyped ==
    /\ published \subseteq 1 .. KeyBound /\ signing \in published
    /\ keys \subseteq 0 .. KeyBound /\ age \in 0 .. TTL
    /\ refreshing \in BOOLEAN /\ twice \in BOOLEAN /\ answer \in {"none", "accepted", "refused"}
    /\ tasks \in [1 .. TaskBound -> [at : {0, 1, 2, 3, 9}, collected : SUBSET (0 .. KeyBound)]]

AtNone == [at |-> 9, collected |-> {}]

\* Nothing believed or collected is newer than what the owner has.
Known(ks) == \A k \in ks : \E m \in published : k <= m
TasksKnown ==
    /\ Known(keys) /\ \A i \in 1 .. TaskBound : Known(tasks[i].collected)
    /\ \A i \in 1 .. TaskBound : tasks[i].at \in {0, 9} => tasks[i].collected = {}

\* While no two were scheduled together there is at most one refresh, the flag says
\* whether it has begun, and what it read of the owner's is not behind what is believed.
OneAtATime ==
    /\ \A i, j \in 1 .. TaskBound : tasks[i] # AtNone /\ tasks[j] # AtNone => i = j
    /\ refreshing <=> \E i \in 1 .. TaskBound : tasks[i].at \in 1 .. 3
Ahead(ks) == (\E k \in ks : k > 0) => \E m \in ks : \A k \in keys : k <= m
NotBehind == \A i \in 1 .. TaskBound : Ahead(tasks[i].collected)

KeysInv == KeysTyped /\ TasksKnown /\ (~twice => OneAtATime /\ NotBehind)

LEMMA KeyConstants == TTL \in Nat /\ KeyBound \in Nat /\ KeyBound # 0 /\ TaskBound \in Nat /\ TaskBound # 0
  BY LiveAssumption DEF Keys!KeysAssumption

LEMMA KeysMax == ASSUME NEW S, S \subseteq 0 .. KeyBound, S # {}
                 PROVE  Keys!Max(S) \in S /\ \A y \in S : Keys!Max(S) >= y
<1>0. S \subseteq Int
  OBVIOUS
<1>1. IsFiniteSet(S)
  <2>1. IsFiniteSet(0 .. KeyBound)
    BY KeyConstants, FS_Interval
  <2> QED BY <2>1, FS_Subset
<1>2. \E x \in S : \A y \in S : x >= y
  BY <1>0, <1>1, Greatest
<1> QED BY <1>2 DEF Keys!Max

LEMMA KeysMin == ASSUME NEW S, S \subseteq 1 .. TaskBound, S # {} PROVE Keys!Min(S) \in S
<1>0. S \subseteq Int
  OBVIOUS
<1>1. IsFiniteSet(S)
  <2>1. IsFiniteSet(1 .. TaskBound)
    BY KeyConstants, FS_Interval
  <2> QED BY <2>1, FS_Subset
<1>2. \E x \in S : \A y \in S : x <= y
  BY <1>0, <1>1, Least
<1> QED BY <1>2 DEF Keys!Min

LEMMA PublishedMax == ASSUME KeysTyped
                      PROVE  Keys!Max(published) \in published /\ \A y \in published : Keys!Max(published) >= y
<1>1. published \subseteq 0 .. KeyBound /\ published # {}
  BY KeyConstants DEF KeysTyped
<1> QED BY <1>1, KeysMax

LEMMA KeysInit == Keys!Init => KeysInv
<1> SUFFICES ASSUME Keys!Init PROVE KeysInv
  OBVIOUS
<1> USE KeyConstants
<1>1. /\ published = {1} /\ signing = 1 /\ keys = {} /\ age = TTL /\ answer = "none" /\ refreshing = TRUE
      /\ twice = FALSE
      /\ tasks = [i \in 1 .. TaskBound |-> IF i = 1 THEN [at |-> 1, collected |-> {}] ELSE AtNone]
  <2>1. [Keys!Scheduled EXCEPT !.at = 1] = [at |-> 1, collected |-> {}] /\ Keys!Idle = AtNone
    BY DEF Keys!Scheduled, Keys!Idle, AtNone
  <2> QED BY <2>1 DEF Keys!Init, Keys!Ids
<1>2. KeysTyped
  <2>1. TTL \in 0 .. TTL /\ 1 \in 1 .. KeyBound
    OBVIOUS
  <2>2. [at |-> 1, collected |-> {}] \in [at : {0, 1, 2, 3, 9}, collected : SUBSET (0 .. KeyBound)]
        /\ AtNone \in [at : {0, 1, 2, 3, 9}, collected : SUBSET (0 .. KeyBound)]
    BY DEF AtNone
  <2> QED BY <1>1, <2>1, <2>2 DEF KeysTyped
<1>3. \A i \in 1 .. TaskBound : tasks[i].collected = {} /\ tasks[i].at = IF i = 1 THEN 1 ELSE 9
  BY <1>1 DEF AtNone
<1>4. TasksKnown
  BY <1>1, <1>3 DEF TasksKnown, Known
<1>5. NotBehind
  BY <1>3 DEF NotBehind, Ahead
<1>6. OneAtATime
  <2>1. 1 \in 1 .. TaskBound
    OBVIOUS
  <2>2. \A i \in 1 .. TaskBound : tasks[i] # AtNone => i = 1
    BY <1>1
  <2> QED BY <1>1, <1>3, <2>1, <2>2 DEF OneAtATime
<1> QED BY <1>2, <1>4, <1>5, <1>6 DEF KeysInv

\* The owner's own steps: what it has never gets older.
LEMMA OwnerStep ==
    ASSUME KeysInv, Keys!AddKey \/ Keys!UseKey \/ Keys!DropKeys PROVE KeysInv'
<1>0. KeysTyped /\ TasksKnown
  BY DEF KeysInv
<1>1. Keys!Max(published) \in published /\ \A y \in published : Keys!Max(published) >= y
  BY <1>0, PublishedMax
<1>2. UNCHANGED <<keys, age, refreshing, tasks, answer, twice>>
  BY DEF Keys!AddKey, Keys!UseKey, Keys!DropKeys
<1>3. published' \subseteq 1 .. KeyBound /\ signing' \in published'
  <2>0. PICK top : top = Keys!Max(published)
    OBVIOUS
  <2>4. top \in 1 .. KeyBound /\ published \subseteq 1 .. KeyBound /\ signing \in published /\ top \in published
    BY <1>0, <1>1, <2>0 DEF KeysTyped
  <2>1. CASE Keys!AddKey
    <3>1. top < KeyBound /\ published' = published \cup {top + 1} /\ signing' = signing
      BY <2>0, <2>1 DEF Keys!AddKey
    <3>2. top + 1 \in 1 .. KeyBound
      BY <2>4, <3>1, KeyConstants
    <3> QED BY <2>4, <3>1, <3>2
  <2>2. CASE Keys!UseKey
    BY <2>0, <2>4, <2>2 DEF Keys!UseKey
  <2>3. CASE Keys!DropKeys
    <3>1. published' = {k \in published : k >= signing} /\ signing' = signing
      BY <2>3 DEF Keys!DropKeys
    <3>2. signing >= signing
      BY <2>4
    <3> QED BY <2>4, <3>1, <3>2
  <2> QED BY <2>1, <2>2, <2>3
<1>4. \A m \in published : \E n \in published' : m <= n
  <2>1. CASE Keys!AddKey \/ Keys!UseKey
    <3>1. published \subseteq published' /\ published \subseteq Int
      BY <1>0, <2>1 DEF Keys!AddKey, Keys!UseKey, KeysTyped
    <3> QED BY <3>1
  <2>2. CASE Keys!DropKeys
    BY <1>0, <1>3, <2>2, KeyConstants DEF Keys!DropKeys, KeysTyped
  <2> QED BY <2>1, <2>2
<1>5. ASSUME NEW ks \in SUBSET (0 .. KeyBound), Known(ks) PROVE \A k \in ks : \E m \in published' : k <= m
  <2> SUFFICES ASSUME NEW k \in ks PROVE \E m \in published' : k <= m
    OBVIOUS
  <2>1. PICK m \in published : k <= m
    BY <1>5 DEF Known
  <2>2. PICK n \in published' : m <= n
    BY <1>4, <2>1
  <2>3. k \in Int /\ m \in Int /\ n \in Int
    BY <1>0, <1>3, KeyConstants DEF KeysTyped
  <2> QED BY <2>1, <2>2, <2>3
<1>6. KeysTyped'
  BY <1>0, <1>2, <1>3 DEF KeysTyped
<1>7. TasksKnown'
  <2>1. keys \in SUBSET (0 .. KeyBound) /\ \A i \in 1 .. TaskBound : tasks[i].collected \in SUBSET (0 .. KeyBound)
    BY <1>0 DEF KeysTyped
  <2> QED BY <1>0, <1>2, <1>5, <2>1 DEF TasksKnown, Known
<1>8. ~twice' => OneAtATime' /\ NotBehind'
  BY <1>2 DEF KeysInv, OneAtATime, NotBehind, Ahead
<1> QED BY <1>6, <1>7, <1>8 DEF KeysInv

\* A request: at most one refresh is scheduled, and only where none has begun.
LEMMA RequestStep == ASSUME KeysInv, Keys!Request PROVE KeysInv'
<1>0. KeysTyped /\ TasksKnown
  BY DEF KeysInv
<1>1. UNCHANGED <<published, signing, keys, age, refreshing>> /\ answer' \in {"accepted", "refused"}
  BY DEF Keys!Request
<1>2. PICK idle : idle = {i \in 1 .. TaskBound : tasks[i] = AtNone}
  OBVIOUS
<1>3. \/ UNCHANGED <<tasks, twice>>
      \/ /\ ~refreshing /\ idle # {}
         /\ tasks' = [tasks EXCEPT ![Keys!Min(idle)] = [at |-> 0, collected |-> {}]]
         /\ twice' = (twice \/ \E i \in 1 .. TaskBound : tasks[i] = [at |-> 0, collected |-> {}])
  <2>1. idle = {i \in Keys!Ids : tasks[i] = Keys!Idle}
    BY <1>2 DEF Keys!Ids, Keys!Idle, AtNone
  <2> QED BY <2>1 DEF Keys!Request, Keys!ensure_current, Keys!Ids, Keys!Scheduled
<1>4. CASE UNCHANGED <<tasks, twice>>
  BY <1>0, <1>1, <1>4 DEF KeysInv, KeysTyped, TasksKnown, Known, OneAtATime, NotBehind, Ahead
<1>5. CASE ~ UNCHANGED <<tasks, twice>>
  <2>1. PICK n : n = Keys!Min(idle)
    OBVIOUS
  <2>2. n \in idle
    BY <1>2, <1>3, <1>5, <2>1, KeysMin
  <2>3. /\ ~refreshing /\ n \in 1 .. TaskBound /\ tasks[n] = AtNone
        /\ tasks' = [tasks EXCEPT ![n] = [at |-> 0, collected |-> {}]]
        /\ twice' = (twice \/ \E i \in 1 .. TaskBound : tasks[i] = [at |-> 0, collected |-> {}])
    BY <1>2, <1>3, <1>5, <2>1, <2>2
  <2>4. /\ \A i \in 1 .. TaskBound : i # n => tasks'[i] = tasks[i]
        /\ tasks'[n] = [at |-> 0, collected |-> {}]
        /\ tasks' \in [1 .. TaskBound -> [at : {0, 1, 2, 3, 9}, collected : SUBSET (0 .. KeyBound)]]
    <3>1. [at |-> 0, collected |-> {}] \in [at : {0, 1, 2, 3, 9}, collected : SUBSET (0 .. KeyBound)]
      OBVIOUS
    <3>2. tasks \in [1 .. TaskBound -> [at : {0, 1, 2, 3, 9}, collected : SUBSET (0 .. KeyBound)]]
      BY <1>0 DEF KeysTyped
    <3> QED BY <2>3, <3>1, <3>2
  <2>5. KeysTyped'
    <3>1. twice' \in BOOLEAN
      BY <1>0, <2>3 DEF KeysTyped
    <3> QED BY <1>0, <1>1, <2>4, <3>1 DEF KeysTyped
  <2>6. TasksKnown'
    BY <1>0, <1>1, <2>4 DEF TasksKnown, Known
  <2>7. ASSUME ~twice' PROVE OneAtATime' /\ NotBehind'
    <3>1. /\ ~twice /\ OneAtATime /\ NotBehind
          /\ \A i \in 1 .. TaskBound : tasks[i] # [at |-> 0, collected |-> {}]
      BY <2>3, <2>7 DEF KeysInv
    <3>2. ASSUME NEW i \in 1 .. TaskBound PROVE tasks[i] = AtNone
      <4>1. PICK r : r = tasks[i]
        OBVIOUS
      <4>2. r \in [at : {0, 1, 2, 3, 9}, collected : SUBSET (0 .. KeyBound)]
        BY <1>0, <4>1 DEF KeysTyped
      <4>3. r.at \notin 1 .. 3
        BY <2>3, <3>1, <4>1 DEF OneAtATime
      <4>4. r.at \in {0, 9} /\ r.collected = {}
        <5>1. r.at \in {0, 9}
          BY <4>2, <4>3
        <5> QED BY <1>0, <4>1, <5>1 DEF TasksKnown
      <4>5. r = [at |-> r.at, collected |-> r.collected]
        BY <4>2
      <4> QED BY <3>1, <4>1, <4>4, <4>5 DEF AtNone
    <3>3. OneAtATime'
      <4>1. \A i \in 1 .. TaskBound : i # n => tasks'[i] = AtNone
        BY <2>4, <3>2
      <4>2. \A i \in 1 .. TaskBound : tasks'[i].at \notin 1 .. 3
        BY <2>4, <4>1 DEF AtNone
      <4>3. ~refreshing'
        BY <1>1, <2>3
      <4> QED BY <4>1, <4>2, <4>3 DEF OneAtATime
    <3>4. NotBehind'
      BY <1>1, <2>4, <3>1 DEF NotBehind, Ahead
    <3> QED BY <3>3, <3>4
  <2> QED BY <2>5, <2>6, <2>7 DEF KeysInv
<1> QED BY <1>4, <1>5

\* What every step of a refresh does to the others: nothing.
LEMMA OneMoves ==
    ASSUME KeysTyped, NEW i \in 1 .. TaskBound, NEW r \in [at : {0, 1, 2, 3, 9}, collected : SUBSET (0 .. KeyBound)],
           tasks' = [tasks EXCEPT ![i] = r]
    PROVE  /\ tasks'[i] = r /\ \A j \in 1 .. TaskBound : j # i => tasks'[j] = tasks[j]
           /\ tasks' \in [1 .. TaskBound -> [at : {0, 1, 2, 3, 9}, collected : SUBSET (0 .. KeyBound)]]
<1>1. tasks \in [1 .. TaskBound -> [at : {0, 1, 2, 3, 9}, collected : SUBSET (0 .. KeyBound)]]
  BY DEF KeysTyped
<1> QED BY <1>1

LEMMA BeginStep == ASSUME KeysInv, NEW i \in 1 .. TaskBound, Keys!Begin(i) PROVE KeysInv'
<1>0. KeysTyped /\ TasksKnown
  BY DEF KeysInv
<1>1. PICK t : t = tasks[i]
  OBVIOUS
<1>2. t \in [at : {0, 1, 2, 3, 9}, collected : SUBSET (0 .. KeyBound)]
  BY <1>0, <1>1 DEF KeysTyped
<1>3. t.at = 0 /\ t.collected = {} /\ refreshing' = TRUE /\ UNCHANGED <<published, signing, keys, age, answer, twice>>
  BY <1>0, <1>1 DEF Keys!Begin, TasksKnown
<1>4. PICK r : r = [at |-> 1, collected |-> {}]
  OBVIOUS
<1>5. r \in [at : {0, 1, 2, 3, 9}, collected : SUBSET (0 .. KeyBound)]
  BY <1>4
<1>6. tasks' = [tasks EXCEPT ![i] = r]
  <2>1. [t EXCEPT !.at = 1] = r
    BY <1>2, <1>3, <1>4
  <2> QED BY <1>1, <2>1 DEF Keys!Begin
<1>7. /\ tasks'[i] = r /\ \A j \in 1 .. TaskBound : j # i => tasks'[j] = tasks[j]
      /\ tasks' \in [1 .. TaskBound -> [at : {0, 1, 2, 3, 9}, collected : SUBSET (0 .. KeyBound)]]
  BY <1>0, <1>5, <1>6, OneMoves
<1>8. KeysTyped'
  BY <1>0, <1>3, <1>7 DEF KeysTyped
<1>9. TasksKnown'
  BY <1>0, <1>3, <1>4, <1>7 DEF TasksKnown, Known
<1>10. ASSUME ~twice' PROVE OneAtATime' /\ NotBehind'
  <2>1. OneAtATime /\ NotBehind
    BY <1>3, <1>10 DEF KeysInv
  <2>2. t # AtNone
    BY <1>3 DEF AtNone
  <2>3. \A j \in 1 .. TaskBound : j # i => tasks'[j] = AtNone
    BY <1>1, <1>7, <2>1, <2>2 DEF OneAtATime
  <2>4. OneAtATime'
    BY <1>3, <1>4, <1>7, <2>3 DEF OneAtATime
  <2>5. NotBehind'
    BY <1>3, <1>4, <1>7, <2>1 DEF NotBehind, Ahead
  <2> QED BY <2>4, <2>5
<1> QED BY <1>8, <1>9, <1>10 DEF KeysInv

LEMMA FetchStep == ASSUME KeysInv, NEW i \in 1 .. TaskBound, Keys!Fetch(i) PROVE KeysInv'
<1>0. KeysTyped /\ TasksKnown
  BY DEF KeysInv
<1>1. PICK t : t = tasks[i]
  OBVIOUS
<1>2. t \in [at : {0, 1, 2, 3, 9}, collected : SUBSET (0 .. KeyBound)]
  BY <1>0, <1>1 DEF KeysTyped
<1>3. t.at \in {1, 2} /\ UNCHANGED <<published, signing, keys, age, refreshing, answer, twice>>
  BY <1>1 DEF Keys!Fetch, Keys!Urls
<1>4. published \subseteq 1 .. KeyBound /\ published \subseteq 0 .. KeyBound /\ 0 \in 0 .. KeyBound
  BY <1>0, KeyConstants DEF KeysTyped
<1>5. PICK more \in SUBSET (0 .. KeyBound) :
        more \in {{}, {0}, published} /\ tasks' = [tasks EXCEPT ![i] = [at |-> t.at + 1, collected |-> t.collected \cup more]]
  <2>1. CASE tasks' = [tasks EXCEPT ![i] = [at |-> t.at + 1, collected |-> t.collected \cup Keys!At(t.at)]]
    <3>1. Keys!At(t.at) \in {{0}, published} /\ Keys!At(t.at) \in SUBSET (0 .. KeyBound)
      BY <1>3, <1>4 DEF Keys!At
    <3> QED BY <2>1, <3>1
  <2>2. CASE tasks' = [tasks EXCEPT ![i] = [t EXCEPT !.at = t.at + 1]]
    <3>1. [t EXCEPT !.at = t.at + 1] = [at |-> t.at + 1, collected |-> t.collected \cup {}]
      BY <1>2
    <3>2. {} \in SUBSET (0 .. KeyBound)
      OBVIOUS
    <3> QED BY <2>2, <3>1, <3>2
  <2> QED BY <1>1, <2>1, <2>2 DEF Keys!Fetch
<1>6. PICK r : r = [at |-> t.at + 1, collected |-> t.collected \cup more]
  OBVIOUS
<1>7. r \in [at : {0, 1, 2, 3, 9}, collected : SUBSET (0 .. KeyBound)] /\ r.at \in {2, 3}
  <2>1. t.at + 1 \in {2, 3}
    BY <1>3
  <2>2. t.collected \cup more \in SUBSET (0 .. KeyBound)
    BY <1>2
  <2> QED BY <1>6, <2>1, <2>2
<1>8. /\ tasks'[i] = r /\ \A j \in 1 .. TaskBound : j # i => tasks'[j] = tasks[j]
      /\ tasks' \in [1 .. TaskBound -> [at : {0, 1, 2, 3, 9}, collected : SUBSET (0 .. KeyBound)]]
  BY <1>0, <1>5, <1>6, <1>7, OneMoves
<1>9. KeysTyped'
  BY <1>0, <1>3, <1>8 DEF KeysTyped
<1>10. Known(more)
  <2>1. CASE more = {0}
    <3>1. signing \in published /\ signing \in 1 .. KeyBound
      BY <1>0, <1>4 DEF KeysTyped
    <3> QED BY <2>1, <3>1, KeyConstants DEF Known
  <2>2. CASE more = published
    BY <1>4, <2>2, KeyConstants DEF Known
  <2> QED BY <1>5, <2>1, <2>2 DEF Known
<1>11. TasksKnown'
  <2>1. Known(t.collected)
    BY <1>0, <1>1 DEF TasksKnown
  <2>2. Known(r.collected)
    BY <1>6, <1>10, <2>1 DEF Known
  <2> QED BY <1>0, <1>3, <1>7, <1>8, <2>2 DEF TasksKnown, Known
<1>12. ASSUME ~twice' PROVE OneAtATime' /\ NotBehind'
  <2>1. OneAtATime /\ NotBehind
    BY <1>3, <1>12 DEF KeysInv
  <2>2. t # AtNone /\ r # AtNone
    BY <1>3, <1>7 DEF AtNone
  <2>3. \A j \in 1 .. TaskBound : j # i => tasks'[j] = AtNone
    BY <1>1, <1>8, <2>1, <2>2 DEF OneAtATime
  <2>4. OneAtATime'
    <3>1. refreshing
      BY <1>1, <1>3, <2>1 DEF OneAtATime
    <3>2. tasks'[i].at \in 1 .. 3
      BY <1>7, <1>8
    <3> QED BY <1>3, <2>3, <3>1, <3>2 DEF OneAtATime
  <2>5. Ahead(r.collected)
    <3>1. Ahead(t.collected)
      BY <1>1, <2>1 DEF NotBehind
    <3> SUFFICES ASSUME \E k \in r.collected : k > 0 PROVE \E m \in r.collected : \A k \in keys : k <= m
      BY DEF Ahead
    <3>2. CASE \E k \in t.collected : k > 0
      BY <1>6, <3>1, <3>2 DEF Ahead
    <3>3. CASE ~ \E k \in t.collected : k > 0
      <4>1. more = published
        <5>1. PICK k \in r.collected : k > 0
          OBVIOUS
        <5>2. k \in more
          BY <1>6, <3>3, <5>1
        <5>3. more # {} /\ more # {0}
          BY <5>1, <5>2
        <5> QED BY <1>5, <5>3
      <4>2. PICK top : top = Keys!Max(published)
        OBVIOUS
      <4>3. top \in published /\ \A y \in published : top >= y
        BY <1>0, <4>2, PublishedMax
      <4>4. ASSUME NEW k \in keys PROVE k <= top
        <5>1. PICK m \in published : k <= m
          BY <1>0 DEF TasksKnown, Known
        <5>2. k \in Int /\ m \in Int /\ top \in Int
          BY <1>0, <1>4, <4>3, KeyConstants DEF KeysTyped
        <5> QED BY <4>3, <5>1, <5>2
      <4> QED BY <1>6, <4>1, <4>3, <4>4
    <3> QED BY <3>2, <3>3
  <2>6. NotBehind'
    BY <1>3, <1>8, <2>1, <2>5 DEF NotBehind, Ahead
  <2> QED BY <2>4, <2>6
<1> QED BY <1>9, <1>11, <1>12 DEF KeysInv

LEMMA refreshStep == ASSUME KeysInv, NEW i \in 1 .. TaskBound, Keys!refresh(i) PROVE KeysInv'
<1>0. KeysTyped /\ TasksKnown
  BY DEF KeysInv
<1>1. PICK t : t = tasks[i]
  OBVIOUS
<1>2. t \in [at : {0, 1, 2, 3, 9}, collected : SUBSET (0 .. KeyBound)]
  BY <1>0, <1>1 DEF KeysTyped
<1>3. t.at = 3 /\ refreshing' = FALSE /\ UNCHANGED <<published, signing, answer, twice>>
  BY <1>1 DEF Keys!refresh, Keys!Ended
<1>4. \/ UNCHANGED <<keys, age>>
      \/ keys' = t.collected /\ age' = 0
  BY <1>1 DEF Keys!refresh
<1>5. AtNone \in [at : {0, 1, 2, 3, 9}, collected : SUBSET (0 .. KeyBound)]
  BY DEF AtNone
<1>6. tasks' = [tasks EXCEPT ![i] = AtNone]
  BY DEF Keys!refresh, Keys!Idle, AtNone
<1>7. /\ tasks'[i] = AtNone /\ \A j \in 1 .. TaskBound : j # i => tasks'[j] = tasks[j]
      /\ tasks' \in [1 .. TaskBound -> [at : {0, 1, 2, 3, 9}, collected : SUBSET (0 .. KeyBound)]]
  BY <1>0, <1>5, <1>6, OneMoves
<1>8. KeysTyped'
  <2>1. keys' \subseteq 0 .. KeyBound
    BY <1>0, <1>2, <1>4 DEF KeysTyped
  <2>2. age' \in 0 .. TTL
    <3>1. 0 \in 0 .. TTL
      BY KeyConstants
    <3> QED BY <1>0, <1>4, <3>1 DEF KeysTyped
  <2> QED BY <1>0, <1>3, <1>7, <2>1, <2>2 DEF KeysTyped
<1>9. TasksKnown'
  <2>1. Known(t.collected) /\ Known(keys)
    BY <1>0, <1>1 DEF TasksKnown
  <2> QED BY <1>0, <1>3, <1>4, <1>7, <2>1 DEF TasksKnown, Known, AtNone
<1>10. ASSUME ~twice' PROVE OneAtATime' /\ NotBehind'
  <2>1. OneAtATime /\ NotBehind
    BY <1>3, <1>10 DEF KeysInv
  <2>2. t # AtNone
    BY <1>3 DEF AtNone
  <2>3. \A j \in 1 .. TaskBound : tasks'[j] = AtNone
    BY <1>1, <1>7, <2>1, <2>2 DEF OneAtATime
  <2>4. OneAtATime'
    BY <1>3, <2>3 DEF OneAtATime, AtNone
  <2>5. NotBehind'
    BY <2>3 DEF NotBehind, Ahead, AtNone
  <2> QED BY <2>4, <2>5
<1> QED BY <1>8, <1>9, <1>10 DEF KeysInv

\* As long as nothing but the bounded counter of faults moves, the keys stand.
LEMMA KeysStand == KeysInv /\ UNCHANGED keysVars => KeysInv'
  BY DEF keysVars, KeysInv, KeysTyped, TasksKnown, Known, OneAtATime, NotBehind, Ahead

LEMMA KeysStep == ASSUME KeysInv, Keys!Next PROVE KeysInv'
<1>1. CASE Keys!Ages
  <2>1. age' \in 0 .. TTL
    BY <1>1, KeyConstants DEF Keys!Ages, KeysInv, KeysTyped
  <2> QED BY <1>1, <2>1 DEF Keys!Ages, KeysInv, KeysTyped, TasksKnown, Known, OneAtATime, NotBehind, Ahead
<1>2. CASE \E i \in Keys!Ids : Keys!Runs(i)
  BY <1>2, BeginStep, FetchStep, refreshStep DEF Keys!Runs, Keys!Ids
<1> QED BY <1>1, <1>2, OwnerStep, RequestStep DEF Keys!Next

\* A step that leaves the believed keys alone, or replaces them with what a
\* refresh read while it was the only one, does not go back.
LEMMA KeysGoOn ==
    ASSUME KeysInv, Keys!Next \/ UNCHANGED keysVars
    PROVE  (\E k \in keys' : k > 0) => Keys!Max(keys' \cup {0}) >= Keys!Max(keys \cup {0}) \/ twice
<1> SUFFICES ASSUME \E k \in keys' : k > 0, ~twice PROVE Keys!Max(keys' \cup {0}) >= Keys!Max(keys \cup {0})
  OBVIOUS
<1>0. KeysTyped /\ NotBehind
  BY DEF KeysInv
<1>1. keys \cup {0} \in SUBSET (0 .. KeyBound)
  BY <1>0, KeyConstants DEF KeysTyped
<1>2. Keys!Max(keys \cup {0}) \in keys \cup {0}
  BY <1>1, KeysMax
<1>3. CASE keys' = keys
  BY <1>1, <1>2, <1>3
<1>4. CASE \E i \in 1 .. TaskBound : keys' = tasks[i].collected
  <2>1. PICK i \in 1 .. TaskBound : keys' = tasks[i].collected
    BY <1>4
  <2>2. keys' \cup {0} \in SUBSET (0 .. KeyBound)
    BY <1>0, <2>1, KeyConstants DEF KeysTyped
  <2>3. Ahead(keys')
    BY <1>0, <2>1 DEF NotBehind
  <2>4. PICK m \in keys' : \A k \in keys : k <= m
    BY <2>3 DEF Ahead
  <2>5. PICK top : top = Keys!Max(keys' \cup {0})
    OBVIOUS
  <2>6. top \in Int /\ top >= 0 /\ top >= m /\ m \in Int
    <3>1. top \in keys' \cup {0} /\ \A y \in keys' \cup {0} : top >= y
      BY <2>2, <2>5, KeysMax
    <3> QED BY <2>2, <2>4, <3>1
  <2>7. PICK was : was = Keys!Max(keys \cup {0})
    OBVIOUS
  <2>8. was = 0 \/ was \in keys
    BY <1>2, <2>7
  <2>9. was \in Int /\ (was = 0 \/ was <= m)
    BY <1>1, <2>4, <2>8
  <2> QED BY <2>5, <2>6, <2>7, <2>9
<1>5. keys' = keys \/ \E i \in 1 .. TaskBound : keys' = tasks[i].collected
  <2>1. CASE UNCHANGED keysVars
    BY <2>1 DEF keysVars
  <2>2. CASE Keys!AddKey \/ Keys!UseKey \/ Keys!DropKeys \/ Keys!Ages \/ Keys!Request
    BY <2>2 DEF Keys!AddKey, Keys!UseKey, Keys!DropKeys, Keys!Ages, Keys!Request
  <2>3. CASE \E i \in Keys!Ids : Keys!Runs(i)
    <3>1. PICK i \in 1 .. TaskBound : Keys!Begin(i) \/ Keys!Fetch(i) \/ Keys!refresh(i)
      BY <2>3 DEF Keys!Runs, Keys!Ids
    <3>2. CASE Keys!Begin(i) \/ Keys!Fetch(i)
      BY <3>2 DEF Keys!Begin, Keys!Fetch
    <3>3. CASE Keys!refresh(i)
      BY <3>3 DEF Keys!refresh
    <3> QED BY <3>1, <3>2, <3>3
  <2> QED BY <2>1, <2>2, <2>3 DEF Keys!Next
<1> QED BY <1>3, <1>4, <1>5

-----------------------------------------------------------------------------
(* What the idle agent takes. *)

Work == [kind : DOMAIN Priority, due : Nat, open : BOOLEAN]
WorkInv == works \in Seq(Work) /\ now \in Nat

LEMMA WorkConstants ==
    /\ Bypass \in Nat /\ Dues \subseteq Nat /\ Tick \in Nat
    /\ {"commitment", "venture", "task", "habit"} \subseteq DOMAIN Priority
  BY LiveAssumption DEF Motivation!MotivationAssumption

\* A work is its number.
LEMMA WorksAreNumbered == ASSUME WorkInv PROVE DOMAIN works = 1 .. Len(works) /\ Len(works) \in Nat
  BY DEF WorkInv

LEMMA WorkInit == Motivation!Init => WorkInv
<1>1. << >> \in Seq(Work)
  OBVIOUS
<1> QED BY <1>1 DEF Motivation!Init, WorkInv

LEMMA MadeFits ==
    ASSUME WorkInv, NEW kind \in {"commitment", "venture", "task", "habit"}, NEW by \in Nat
    PROVE  Motivation!Made(kind, by) \in Seq(Work)
<1>1. [kind |-> kind, due |-> by, open |-> TRUE] \in Work
  BY WorkConstants DEF Work
<1> QED BY <1>1 DEF WorkInv, Motivation!Made

LEMMA WorkStep == ASSUME WorkInv, Motivation!Next PROVE WorkInv'
<1>0. DOMAIN works = 1 .. Len(works) /\ Len(works) \in Nat
  BY WorksAreNumbered
<1>1. CASE Motivation!DeadlineBypass \/ Motivation!MessageTakesThePass \/ Motivation!Answered \/ Motivation!Restart
  BY <1>1 DEF Motivation!DeadlineBypass, Motivation!MessageTakesThePass, Motivation!Answered, Motivation!Restart, WorkInv
<1>2. CASE \E d \in Motivation!DRIVES : Motivation!Choose(d)
  <2>1. PICK d, energy, others : Motivation!arbitrate(d, energy, others)
    BY <1>2 DEF Motivation!Choose
  <2>2. now' = now /\ (works' = works \/ \E kind \in {"habit", "task"} : works' = Motivation!Made(kind, 0))
    BY <2>1 DEF Motivation!arbitrate
  <2> QED BY <2>2, MadeFits DEF WorkInv
<1>3. CASE \E by \in Dues \cup {0} : Motivation!Commissioned(by)
  BY <1>3, WorkConstants, MadeFits DEF Motivation!Commissioned, WorkInv
<1>4. CASE \E w \in Motivation!Ids : Motivation!_already_commissioned(w)
  BY <1>4 DEF Motivation!_already_commissioned, WorkInv
<1>5. CASE \E kind \in {"task", "venture"} : Motivation!Proposed(kind)
  BY <1>5, MadeFits DEF Motivation!Proposed, WorkInv
<1>6. CASE Motivation!_reverie
  BY <1>6, MadeFits DEF Motivation!_reverie, WorkInv
<1>7. CASE Motivation!GoalEnds
  <2>1. work \in 1 .. Len(works) /\ now' = now /\ works' = [works EXCEPT ![work].open = FALSE]
    BY <1>0, <1>7 DEF Motivation!GoalEnds, Motivation!Ids
  <2>2. works[work] \in Work
    BY <2>1 DEF WorkInv
  <2>3. [works[work] EXCEPT !.open = FALSE] \in Work
    BY <2>2 DEF Work
  <2>4. works' = [works EXCEPT ![work] = [works[work] EXCEPT !.open = FALSE]]
    BY <2>1
  <2>5. works' \in Seq(Work)
    BY <2>1, <2>3, <2>4 DEF WorkInv
  <2> QED BY <2>1, <2>5 DEF WorkInv
<1>8. CASE Motivation!Ticks
  BY <1>8, WorkConstants DEF Motivation!Ticks, WorkInv
<1> QED BY <1>1, <1>2, <1>3, <1>4, <1>5, <1>6, <1>7, <1>8 DEF Motivation!Next

LEMMA WorkStands == WorkInv /\ UNCHANGED motivationVars => WorkInv'
  BY DEF WorkInv, motivationVars

\* What has a deadline still ahead stands above what is past it.
LEMMA AheadIsAbove ==
    ASSUME WorkInv, NEW ws \in SUBSET Motivation!Ids, NEW w \in Motivation!Best(ws), NEW v \in ws,
           Motivation!Dated(v), Motivation!_hours_left(v) >= 0, Motivation!Dated(w)
    PROVE  Motivation!_hours_left(w) >= 0
<1>1. PICK key : key = [x \in ws |-> Motivation!selection_key(x)]
  OBVIOUS
<1>2. w \in ws /\ (key[w][1] > key[v][1] \/ key[w][1] = key[v][1])
  BY <1>1 DEF Motivation!Best
<1>3. key[v] = <<1, 0 - Motivation!_hours_left(v)>>
  BY <1>1 DEF Motivation!selection_key
<1>4. CASE ~ (Motivation!_hours_left(w) >= 0)
  <2>1. key[w] = <<0, w>>
    BY <1>1, <1>2, <1>4 DEF Motivation!selection_key
  <2>2. key[w][1] = 0 /\ key[v][1] = 1
    BY <1>3, <2>1
  <2> QED BY <1>2, <2>2
<1> QED BY <1>4

\* All that is open and dated is among what the drives are shown.
LEMMA DatedIsShown ==
    ASSUME NEW v \in Motivation!Ids, Motivation!Open(v), Motivation!Dated(v)
    PROVE  v \in Motivation!list_attentionable_intentions
  BY DEF Motivation!list_attentionable_intentions

LEMMA LiveComesFirst ==
    ASSUME WorkInv, Motivation!Next \/ UNCHANGED motivationVars, NEW w \in Motivation!Ids, work = 0, work' = w,
           Motivation!Dated(w), Motivation!_hours_left(w) < 0
    PROVE  ~ \E v \in Motivation!Ids :
                Motivation!Open(v) /\ Motivation!Dated(v) /\ Motivation!_hours_left(v) \in 0 .. Bypass
<1> SUFFICES ASSUME NEW v \in Motivation!Ids, Motivation!Open(v), Motivation!Dated(v),
                    Motivation!_hours_left(v) \in 0 .. Bypass
             PROVE  FALSE
  OBVIOUS
<1>0. DOMAIN works = 1 .. Len(works) /\ Len(works) \in Nat /\ w \in 1 .. Len(works)
  BY WorksAreNumbered DEF Motivation!Ids
<1>1. PICK seen : seen = Motivation!list_attentionable_intentions
  OBVIOUS
<1>2. v \in Motivation!Due(seen) /\ seen \subseteq Motivation!Ids
  <2>1. v \in seen /\ Motivation!_hours_left(v) <= Bypass
    BY <1>1, DatedIsShown, WorkConstants
  <2>2. seen \subseteq Motivation!Ids
    BY <1>1 DEF Motivation!list_attentionable_intentions
  <2> QED BY <2>1, <2>2 DEF Motivation!Due
<1>3. CASE Motivation!DeadlineBypass
  <2>1. w \in Motivation!Best(Motivation!Due(seen))
    BY <1>1, <1>3 DEF Motivation!DeadlineBypass, Motivation!Take
  <2>2. Motivation!Due(seen) \in SUBSET Motivation!Ids
    BY <1>2 DEF Motivation!Due
  <2>3. Motivation!_hours_left(w) >= 0
    <3>1. Motivation!_hours_left(v) >= 0
      BY WorkConstants
    <3> QED BY <1>2, <2>1, <2>2, <3>1, AheadIsAbove
  <2>4. Motivation!_hours_left(w) \in Int
    <3>1. works[w] \in Work
      BY <1>0 DEF WorkInv
    <3> QED BY <3>1 DEF Motivation!_hours_left, WorkInv, Work
  <2> QED BY <2>3, <2>4
<1>4. CASE \E d \in Motivation!DRIVES : Motivation!Choose(d)
  <2>1. PICK d, energy, others : Motivation!arbitrate(d, energy, others)
    BY <1>4 DEF Motivation!Choose
  <2> QED BY <1>1, <1>2, <2>1 DEF Motivation!arbitrate
<1>5. CASE Motivation!MessageTakesThePass
  BY <1>0, <1>5 DEF Motivation!MessageTakesThePass, Motivation!Message
<1>6. CASE Motivation!Answered \/ (\E by \in Dues \cup {0} : Motivation!Commissioned(by))
             \/ (\E x \in Motivation!Ids : Motivation!_already_commissioned(x))
  BY <1>6 DEF Motivation!Answered, Motivation!Commissioned, Motivation!_already_commissioned,
              Motivation!_commission_focus, Motivation!Message
<1>7. CASE \E kind \in {"task", "venture"} : Motivation!Proposed(kind)
  BY <1>7 DEF Motivation!Proposed
<1>8. CASE Motivation!_reverie
  BY <1>0, <1>8 DEF Motivation!_reverie, Motivation!Take
<1>9. CASE Motivation!GoalEnds
  BY <1>0, <1>9 DEF Motivation!GoalEnds, Motivation!Ids
<1>10. CASE Motivation!Restart
  BY <1>0, <1>10 DEF Motivation!Restart
<1>11. CASE Motivation!Ticks \/ UNCHANGED motivationVars
  BY <1>0, <1>11 DEF Motivation!Ticks, motivationVars
<1> QED BY <1>3, <1>4, <1>5, <1>6, <1>7, <1>8, <1>9, <1>10, <1>11 DEF Motivation!Next

-----------------------------------------------------------------------------
(* The parts side by side: one moves, the others rest. *)

LoopInv == TurnInv /\ SlotInv /\ CountKeepsStep
FaultsBounded ==
    /\ part = "life" => faults \in 0 .. MaxFaults
    /\ part = "doors" => faults \in 0 .. DoorFaults
    /\ part = "keys" => faults \in 0 .. FaultBound
LiveInv == LoopInv /\ DoorsInv /\ KeysInv /\ WorkInv /\ FaultsBounded

LEMMA LoopInit == Init => LoopInv
  BY TurnInit, SlotInit, CountInit DEF LoopInv
LEMMA LoopStep == LoopInv /\ [Next]_vars => LoopInv'
  BY TurnStep, SlotStep, CountStep DEF LoopInv
LEMMA LoopStands == LoopInv /\ UNCHANGED loopOnlyVars => LoopInv'
<1> SUFFICES ASSUME LoopInv, UNCHANGED loopOnlyVars PROVE LoopInv'
  OBVIOUS
<1>1. UNCHANGED <<pc, focus, suspended, deferrals, percepts, arrived, handled, waiting, attempts, subject, target,
                  verdict, commission, goal, notice, saved, events, streak, cutIn, slipped>>
  BY DEF loopOnlyVars, loopVars, queueVars, turnVars, histVars
<1>2. TurnInv'
  BY <1>1 DEF LoopInv, TurnInv, QueueTyped, TurnTyped, NoticeTyped, HistTyped
<1>3. SlotInv' /\ CountKeepsStep'
  BY <1>1 DEF LoopInv, SlotInv, SlotTyped, SlotKept, CountKeepsStep
<1> QED BY <1>2, <1>3 DEF LoopInv
LEMMA DoorsRest == DoorsInv /\ UNCHANGED doorsVars => DoorsInv'
  BY DEF doorsVars, DoorsInv, DoorsTyped, PollersKnown, SendsOnly, ListsFit

\* A fault is counted while the bound allows one.
LEMMA LoopFaults == Next => faults' = faults \/ (faults < MaxFaults /\ faults' = faults + 1)
<1> SUFFICES ASSUME Next PROVE faults' = faults \/ (faults < MaxFaults /\ faults' = faults + 1)
  OBVIOUS
<1>1. CASE CycleFails \/ Crash
  BY <1>1 DEF CycleFails, Crash
<1>2. CASE (\E kind \in {Social, Event} : Interrupt(kind)) \/ Continue \/ _choose_focus \/ Decide
  BY <1>2 DEF Interrupt, Continue, _choose_focus, Decide, DecideSocial, DecideGoal, DecideNotice, DecideIdle, boundVars
<1>3. CASE Social_ \/ _advance_goal \/ _notify_stage \/ next_focus
  BY <1>3 DEF Social_, deliberate, _act_social, mark_handled, record_failure, _advance_goal, _notify_stage,
              next_focus, boundVars
<1>4. CASE (\E m \in Messages : record_inbound(m)) \/ OtherPercept \/ WaitElapses \/ NoticeDue
  BY <1>4 DEF record_inbound, OtherPercept, WaitElapses, NoticeDue, boundVars
<1> QED BY <1>1, <1>2, <1>3, <1>4 DEF Next, Cycle

LEMMA DoorsFaults == Doors!Next => faults' = faults \/ (faults < DoorFaults /\ faults' = faults + 1)
<1> SUFFICES ASSUME Doors!Next PROVE faults' = faults \/ (faults < DoorFaults /\ faults' = faults + 1)
  OBVIOUS
<1>1. Doors!Well \/ Doors!Fails => faults' = faults \/ (faults < DoorFaults /\ faults' = faults + 1)
  BY DEF Doors!Well, Doors!Fails
<1>2. ASSUME NEW d \in Doors!Doors, Doors!_start_one(d) PROVE Doors!Well \/ Doors!Fails
  BY <1>2 DEF Doors!_start_one, Doors!Opens, Doors!Refuses, Doors!Elsewhere
<1>3. ASSUME NEW d \in Doors!Doors, Doors!_listen_one(d) PROVE Doors!Well \/ Doors!Fails
  BY <1>3 DEF Doors!_listen_one, Doors!Listens
<1>4. ASSUME NEW d \in Doors!Doors, Doors!_close_one(d) PROVE Doors!Well \/ Doors!Fails
  BY <1>4 DEF Doors!_close_one, Doors!Well
<1>5. CASE Doors!_apply_receiver
  BY <1>1, <1>5 DEF Doors!_apply_receiver
<1>6. CASE Doors!watch_channels
  BY <1>1, <1>6 DEF Doors!watch_channels
<1>7. CASE Doors!Through \/ Doors!Save \/ \E d \in Doors!Doors : Doors!WaitEnds(d) \/ Doors!Deliver(d)
  BY <1>1, <1>7 DEF Doors!Through, Doors!Save, Doors!WaitEnds, Doors!Deliver, Doors!Well, Doors!Fails
<1>8. CASE Doors!Restart
  BY <1>1, <1>8 DEF Doors!Restart
<1> QED BY <1>1, <1>2, <1>3, <1>4, <1>5, <1>6, <1>7, <1>8 DEF Doors!Next, Doors!Works

LEMMA KeysFaults == Keys!Next => faults' = faults \/ (faults < FaultBound /\ faults' = faults + 1)
<1>1. ASSUME NEW i, Keys!Runs(i) PROVE faults' = faults \/ (faults < FaultBound /\ faults' = faults + 1)
  BY <1>1 DEF Keys!Runs, Keys!Begin, Keys!Fetch, Keys!refresh
<1> QED BY <1>1 DEF Keys!Next, Keys!AddKey, Keys!UseKey, Keys!DropKeys, Keys!Ages, Keys!Request

LEMMA Counts == ASSUME NEW n \in Nat, NEW f \in 0 .. n, NEW g, g = f \/ (f < n /\ g = f + 1) PROVE g \in 0 .. n
  OBVIOUS

LEMMA LiveStarts == LiveInit => LiveInv
<1> SUFFICES ASSUME LiveInit PROVE LiveInv
  OBVIOUS
<1>1. LoopInv /\ DoorsInv /\ KeysInv /\ WorkInv
  BY LoopInit, DoorsInit, KeysInit, WorkInit DEF LiveInit
<1>2. faults = 0
  BY DEF LiveInit, Init
<1>3. 0 \in 0 .. MaxFaults /\ 0 \in 0 .. DoorFaults /\ 0 \in 0 .. FaultBound
  <2>1. FaultBound \in Nat
    BY LiveAssumption DEF Keys!KeysAssumption
  <2> QED BY <2>1, LifeConstants, DoorConstants
<1> QED BY <1>1, <1>2, <1>3 DEF LiveInv, FaultsBounded

LEMMA LiveSteps == LiveInv /\ [LiveNext]_liveVars => LiveInv'
<1> SUFFICES ASSUME LiveInv, [LiveNext]_liveVars PROVE LiveInv'
  OBVIOUS
<1>0. LoopInv /\ DoorsInv /\ KeysInv /\ WorkInv /\ FaultsBounded
  BY DEF LiveInv
<1>c. MaxFaults \in Nat /\ DoorFaults \in Nat /\ FaultBound \in Nat
  BY LiveAssumption, LifeConstants, DoorConstants DEF Keys!KeysAssumption
<1>1. CASE part = "life" /\ Next /\ UNCHANGED <<part, motivationVars, doorsVars, keysVars>>
  <2>1. LoopInv'
    BY <1>0, <1>1, LoopStep
  <2>2. DoorsInv' /\ KeysInv' /\ WorkInv'
    BY <1>0, <1>1, DoorsRest, KeysStand, WorkStands
  <2>3. FaultsBounded'
    <3>1. faults' \in 0 .. MaxFaults
      BY <1>0, <1>1, <1>c, LoopFaults, Counts DEF FaultsBounded
    <3> QED BY <1>1, <3>1 DEF FaultsBounded
  <2> QED BY <2>1, <2>2, <2>3 DEF LiveInv
<1>2. CASE part = "motivation" /\ Motivation!Next /\ UNCHANGED <<part, vars, doorsVars, keysVars>>
  <2>1. LoopInv'
    BY <1>0, <1>2, LoopStep
  <2>2. DoorsInv' /\ KeysInv' /\ WorkInv'
    BY <1>0, <1>2, DoorsRest, KeysStand, WorkStep
  <2>3. FaultsBounded'
    BY <1>2 DEF FaultsBounded
  <2> QED BY <2>1, <2>2, <2>3 DEF LiveInv
<1>3. CASE part = "doors" /\ Doors!Next /\ UNCHANGED <<part, loopOnlyVars, motivationVars, keysVars>>
  <2>1. LoopInv'
    BY <1>0, <1>3, LoopStands
  <2>2. DoorsInv' /\ KeysInv' /\ WorkInv'
    BY <1>0, <1>3, DoorsStep, KeysStand, WorkStands
  <2>3. FaultsBounded'
    <3>1. faults' \in 0 .. DoorFaults
      BY <1>0, <1>3, <1>c, DoorsFaults, Counts DEF FaultsBounded
    <3> QED BY <1>3, <3>1 DEF FaultsBounded
  <2> QED BY <2>1, <2>2, <2>3 DEF LiveInv
<1>4. CASE part = "keys" /\ Keys!Next /\ UNCHANGED <<part, loopOnlyVars, motivationVars, doorsVars>>
  <2>1. LoopInv'
    BY <1>0, <1>4, LoopStands
  <2>2. DoorsInv' /\ KeysInv' /\ WorkInv'
    BY <1>0, <1>4, DoorsRest, KeysStep, WorkStands
  <2>3. FaultsBounded'
    <3>1. faults' \in 0 .. FaultBound
      BY <1>0, <1>4, <1>c, KeysFaults, Counts DEF FaultsBounded
    <3> QED BY <1>4, <3>1 DEF FaultsBounded
  <2> QED BY <2>1, <2>2, <2>3 DEF LiveInv
<1>5. CASE UNCHANGED liveVars
  <2>1. UNCHANGED <<part, vars, motivationVars, doorsVars, keysVars>>
    BY <1>5 DEF liveVars
  <2>2. UNCHANGED faults
    BY <2>1 DEF vars, boundVars
  <2>3. LoopInv'
    BY <1>0, <2>1, LoopStep
  <2>4. DoorsInv' /\ KeysInv' /\ WorkInv'
    BY <1>0, <2>1, DoorsRest, KeysStand, WorkStands
  <2> QED BY <1>0, <2>1, <2>2, <2>3, <2>4 DEF LiveInv, FaultsBounded
<1> QED BY <1>1, <1>2, <1>3, <1>4, <1>5 DEF LiveNext

LEMMA LoopIsTyped == ASSUME LoopInv, faults \in 0 .. MaxFaults PROVE TypeOK /\ IdleOwesNothing
<1>1. deferrals \in 0 .. DefersMax + 1
  BY BoundIsNat DEF LoopInv, CountKeepsStep
<1>2. TypeOK
  BY <1>1 DEF LoopInv, TurnInv, QueueTyped, TurnTyped, NoticeTyped, HistTyped, SlotInv, SlotTyped, CountKeepsStep, TypeOK
<1>3. IdleOwesNothing
  BY DEF LoopInv, SlotInv, SlotKept, IdleOwesNothing
<1> QED BY <1>2, <1>3

LEMMA KeysAreTyped == ASSUME KeysInv, faults \in 0 .. FaultBound PROVE Keys!TypeOK
  BY DEF KeysInv, KeysTyped, Keys!TypeOK, Keys!Ids

\* Whatever the messages, the doors and their settings are, and whatever fails:
\* no door has two pollers, a poller has the settings its door is open with, a
\* host that only sends has none (comms/host.py:868-879, 948-965; telegram.py:238-250); a set of the
\* owner's keys never gives way to an older one unless two refreshes were
\* scheduled together (comms/jwt.py:322-368); and no work waits in the slot of
\* a loop that has nothing in focus (life.py:1418-1479).
THEOREM OrderIsKept == LiveSpec => StaysInOrder
<1>1. LiveInv => /\ part = "life" => TypeOK /\ IdleOwesNothing
                 /\ part = "doors" => Doors!TypeOK /\ Doors!OnePoller
                 /\ part = "keys" => Keys!TypeOK
  <2> SUFFICES ASSUME LiveInv PROVE /\ part = "life" => TypeOK /\ IdleOwesNothing
                                    /\ part = "doors" => Doors!TypeOK /\ Doors!OnePoller
                                    /\ part = "keys" => Keys!TypeOK
    OBVIOUS
  <2> QED BY LoopIsTyped, DoorsStand, KeysAreTyped DEF LiveInv, FaultsBounded
<1>2. LiveInv /\ [LiveNext]_liveVars =>
        [(\E k \in keys' : k > 0) => Keys!Max(keys' \cup {0}) >= Keys!Max(keys \cup {0}) \/ twice]_(Keys!vars)
  <2> SUFFICES ASSUME LiveInv, [LiveNext]_liveVars
               PROVE  (\E k \in keys' : k > 0) => Keys!Max(keys' \cup {0}) >= Keys!Max(keys \cup {0}) \/ twice
    OBVIOUS
  <2>1. Keys!Next \/ UNCHANGED keysVars
    BY DEF LiveNext, liveVars
  <2> QED BY <2>1, KeysGoOn DEF LiveInv
<1>3. QED
  BY <1>1, <1>2, LiveStarts, LiveSteps, PTL DEF LiveSpec, StaysInOrder, Keys!KeysDoNotGoBack

\* Whatever work there is and whenever it is due: the idle agent takes overdue
\* work only when nothing that can still be met is due within the window
\* (engine/drives.py:291-339, 371-439).
THEOREM MissedComesAfterLive == LiveSpec => LiveBeforeMissed
<1>1. LiveInv /\ [LiveNext]_liveVars =>
        [\A w \in Motivation!Ids :
           (work = 0 /\ work' = w /\ Motivation!Dated(w) /\ Motivation!_hours_left(w) < 0) =>
             ~ \E v \in Motivation!Ids :
                  Motivation!Open(v) /\ Motivation!Dated(v) /\ Motivation!_hours_left(v) \in 0 .. Bypass]_(Motivation!vars)
  <2>1. [LiveNext]_liveVars => Motivation!Next \/ UNCHANGED motivationVars
    BY DEF LiveNext, liveVars
  <2> QED BY <2>1, LiveComesFirst DEF LiveInv
<1>2. QED
  BY <1>1, LiveStarts, LiveSteps, PTL DEF LiveSpec, LiveBeforeMissed, Motivation!LiveBeforeMissed
=============================================================================
