--------------------------- MODULE GslLoopProofs ---------------------------
(***************************************************************************)
(* A step of a goal is done only over work that happened (StepsRestOnWork),*)
(* for any actions, plan sizes, numbers of strategies and retry limits,    *)
(* and whatever is cut.                                                    *)
(***************************************************************************)
EXTENDS GslLoop, SequenceTheorems, FiniteSetTheorems, TLAPS

\* The pass's copy differs from what was saved only in its bookkeeping: plan and
\* results change in the same step as the save.
SamePlan ==
    /\ work.strategy = saved.strategy
    /\ work.results = saved.results

Outcomes == {"open", "failed", "succeeded"}

Record == [understood : BOOLEAN, strategy : Nat, failures : Nat,
           results : Seq(Seq(Actions)), planAttempts : Nat, attempt : Nat]

\* The record of the steps that are done is that of steps the plan has.
PlanTyped ==
    /\ saved \in Record
    /\ work \in Record
    /\ attempts \in Seq(Outcomes)
    /\ saved.strategy <= MaxStrategies
    /\ Len(saved.results) <= StepCount

Tries == [chosen : Seq(Actions), made : Nat, failed : SUBSET Nat]

TryTyped ==
    /\ try \in Tries
    /\ try.made <= Len(try.chosen)
    /\ Len(try.chosen) <= MaxActions

LedgerTyped ==
    /\ row \in [Keys -> {"free", "ok", "unknown"}]
    /\ did \in [Keys -> Actions \cup {Nothing}]

\* A step is being executed only under a plan that has it, and a new strategy is
\* begun only while one is left.
AtItsPlace ==
    /\ pc = "acting" => StepsLeft
    /\ pc \in {"devising", "installing"} => saved.strategy < MaxStrategies

\* The journal says ok only of work that happened.
OkIsDone == \A k \in Keys : row[k] = "ok" => k \in Worked

\* Every action answered with ok so far has run, in this try or in an earlier one
\* of the same strategy.
TryRestsOnWork ==
    pc = "acting" =>
        \A p \in (1..try.made) \ try.failed :
            <<work.strategy, Len(work.results) + 1, p>> \in Worked

GslInv == /\ SamePlan /\ PlanTyped /\ TryTyped /\ LedgerTyped /\ AtItsPlace
          /\ OkIsDone /\ TryRestsOnWork /\ StepsRestOnWork

-----------------------------------------------------------------------------

LEMMA InitInv == Init => GslInv
  <1> SUFFICES ASSUME Init PROVE GslInv
    OBVIOUS
  <1>1. Fresh \in Record /\ Fresh.strategy = 0 /\ Fresh.results = <<>>
    BY DEF Fresh, Record
  <1>2. SamePlan /\ PlanTyped /\ StepsRestOnWork
    BY <1>1, GslAssumption DEF GslAssumption, Init, Outcomes, SamePlan, PlanTyped, StepsRestOnWork
  <1>3. TryTyped
    BY GslAssumption DEF GslAssumption, Init, NoTry, TryTyped, Tries
  <1>4. LedgerTyped /\ AtItsPlace /\ OkIsDone /\ TryRestsOnWork
    BY DEF Init, LedgerTyped, AtItsPlace, OkIsDone, TryRestsOnWork
  <1> QED
    BY <1>2, <1>3, <1>4 DEF GslInv

LEMMA NoTryTyped ==
  /\ NoTry \in Tries
  /\ NoTry.made <= Len(NoTry.chosen)
  /\ Len(NoTry.chosen) <= MaxActions
  BY GslAssumption DEF GslAssumption, NoTry, Tries

\* A step that neither installs a plan nor finishes a step, that does no work,
\* and does not go on executing.
LEMMA Leaves ==
  ASSUME GslInv, UNCHANGED did, LedgerTyped', OkIsDone',
         saved' \in Record, work' \in Record, attempts' \in Seq(Outcomes),
         saved'.strategy = saved.strategy, saved'.results = saved.results,
         work'.strategy = saved.strategy, work'.results = saved.results,
         try' = try \/ try' = NoTry, pc' # "acting",
         pc' \in {"devising", "installing"} => saved.strategy < MaxStrategies
  PROVE  GslInv'
  <1>1. TryTyped'
    BY NoTryTyped DEF GslInv, TryTyped
  <1>2. SamePlan' /\ PlanTyped' /\ AtItsPlace' /\ TryRestsOnWork'
    BY DEF GslInv, SamePlan, PlanTyped, AtItsPlace, TryRestsOnWork
  <1>3. StepsRestOnWork'
    BY DEF GslInv, Worked, StepsRestOnWork
  <1> QED
    BY <1>1, <1>2, <1>3 DEF GslInv

\* Such a step that leaves the journal alone.
LEMMA Moves ==
  ASSUME GslInv, UNCHANGED toolVars,
         saved' \in Record, work' \in Record, attempts' \in Seq(Outcomes),
         saved'.strategy = saved.strategy, saved'.results = saved.results,
         work'.strategy = saved.strategy, work'.results = saved.results,
         try' = try \/ try' = NoTry, pc' # "acting",
         pc' \in {"devising", "installing"} => saved.strategy < MaxStrategies
  PROVE  GslInv'
  <1>1. UNCHANGED did /\ LedgerTyped' /\ OkIsDone'
    BY DEF GslInv, LedgerTyped, OkIsDone, Worked, toolVars
  <1> QED
    BY <1>1, Leaves

\* The bookkeeping of a pass leaves plan and results as they are.
Alike(v, w) == v \in Record /\ v.strategy = w.strategy /\ v.results = w.results

LEMMA Bookkeeping ==
  ASSUME NEW w \in Record, NEW a \in Nat
  PROVE  /\ Alike([w EXCEPT !.planAttempts = @ + 1], w)
         /\ Alike([w EXCEPT !.failures = @ + 1], w)
         /\ Alike([w EXCEPT !.understood = TRUE], w)
         /\ Alike([w EXCEPT !.attempt = a], w)
  <1>1. Alike([w EXCEPT !.planAttempts = @ + 1], w)
    <2>1. w.planAttempts + 1 \in Nat
      BY DEF Record
    <2>2. [w EXCEPT !.planAttempts = @ + 1] \in Record
      BY <2>1 DEF Record
    <2> QED
      BY <2>2 DEF Record, Alike
  <1>2. Alike([w EXCEPT !.failures = @ + 1], w)
    BY DEF Record, Alike
  <1>3. Alike([w EXCEPT !.understood = TRUE], w)
    BY DEF Record, Alike
  <1>4. Alike([w EXCEPT !.attempt = a], w)
    BY DEF Record, Alike
  <1> QED
    BY <1>1, <1>2, <1>3, <1>4

\* Advance to devising, or to its failure.
LEMMA PlanningFails ==
  ASSUME GslInv, _planning_failed(work)
  PROVE  GslInv'
  <1> DEFINE failed == [work EXCEPT !.planAttempts = @ + 1]
  <1>1. work \in Record /\ work.strategy = saved.strategy /\ work.results = saved.results
    BY DEF GslInv, SamePlan, PlanTyped
  <1>2. failed \in Record /\ failed.strategy = saved.strategy /\ failed.results = saved.results
    BY <1>1, Bookkeeping DEF Alike
  <1>3. /\ saved' = failed /\ work' = failed /\ UNCHANGED toolVars
        /\ try' = try \/ try' = NoTry
        /\ pc' \in {"idle", "parking"}
        /\ attempts' \in Seq(Outcomes)
    BY DEF GslInv, PlanTyped, _planning_failed, Save
  <1> QED
    BY <1>2, <1>3, Moves

\* Closing an attempt writes one outcome.
LEMMA Closes ==
  ASSUME NEW o \in Outcomes, _close_attempt(o), attempts \in Seq(Outcomes)
  PROVE  attempts' \in Seq(Outcomes)
  <1>1. CASE work.attempt \in 1..Len(attempts)
    BY <1>1, ExceptSeq DEF _close_attempt
  <1>2. CASE work.attempt \notin 1..Len(attempts)
    <2>1. [attempts EXCEPT ![work.attempt] = o] = attempts
      BY <1>2
    <2> QED
      BY <2>1 DEF _close_attempt
  <1> QED
    BY <1>1, <1>2

\* The steps that only move the pass along, plan it, or end it.
LEMMA PassMoves ==
  ASSUME GslInv,
         \/ advance \/ ParkBudget \/ _backing_off \/ understand \/ _strategy
         \/ DeviseFails \/ DevisePlan \/ GiveUp \/ NoAnswer \/ RateLimited
         \/ AwaitReview \/ VerificationPasses \/ VerificationFails
         \/ close_intention \/ _notice_stage
  PROVE  GslInv'
  <1>1. /\ work \in Record /\ work.strategy = saved.strategy /\ work.results = saved.results
        /\ saved \in Record /\ saved.strategy <= MaxStrategies
        /\ attempts \in Seq(Outcomes)
    BY DEF GslInv, SamePlan, PlanTyped
  <1>2. CASE advance
    BY <1>1, <1>2, Moves DEF advance
  <1>3. CASE ParkBudget
    BY <1>1, <1>3, Moves DEF ParkBudget, goalVars
  <1>4. CASE _backing_off
    BY <1>1, <1>4, Moves DEF _backing_off, goalVars
  <1>5. CASE understand
    <2> DEFINE w == [work EXCEPT !.understood = TRUE]
    <2>1. w \in Record /\ w.strategy = saved.strategy /\ w.results = saved.results
      BY <1>1, Bookkeeping DEF Alike
    <2>2. CASE Save(w) /\ UNCHANGED <<attempts, toolVars>>
      BY <1>1, <2>1, <2>2, Moves DEF Save
    <2> QED
      BY <1>5, <2>2, PlanningFails DEF understand
  <1>6. CASE _strategy
    <2> DEFINE w == [work EXCEPT !.attempt = 0]
    <2>1. w \in Record /\ w.strategy = saved.strategy /\ w.results = saved.results
      BY <1>1, Bookkeeping DEF Alike
    <2>2. saved.strategy < MaxStrategies
      <3>1. CASE Planless
        BY <1>1, <3>1, GslAssumption DEF Planless, GslAssumption
      <3>2. CASE Replans
        BY <1>1, <1>6, <3>2, GslAssumption DEF _strategy, Exhausted, GslAssumption, Record
      <3> QED
        BY <1>6, <3>1, <3>2 DEF _strategy
    <2>3. attempts' \in Seq(Outcomes)
      BY <1>1, <1>6, Closes DEF _strategy, Outcomes
    <2> QED
      BY <1>1, <1>6, <2>1, <2>2, <2>3, Moves DEF _strategy, _close_attempt
  <1>7. CASE DeviseFails
    BY <1>7, PlanningFails DEF DeviseFails
  <1>8. CASE GiveUp
    BY <1>1, <1>8, Moves DEF GiveUp, goalVars
  <1>9. CASE NoAnswer \/ RateLimited
    <2> DEFINE w == [work EXCEPT !.failures = @ + 1]
    <2>1. w \in Record /\ w.strategy = saved.strategy /\ w.results = saved.results
      BY <1>1, Bookkeeping DEF Alike
    <2>2. Save(w) /\ UNCHANGED <<attempts, toolVars>>
      BY <1>9 DEF NoAnswer, RateLimited, StepFailed
    <2> QED
      BY <1>1, <2>1, <2>2, Moves DEF Save
  <1>10. CASE VerificationPasses
    <2> DEFINE w == [work EXCEPT !.attempt = 0]
    <2>1. w \in Record /\ w.strategy = saved.strategy /\ w.results = saved.results
      BY <1>1, Bookkeeping DEF Alike
    <2>2. attempts' \in Seq(Outcomes)
      BY <1>1, <1>10, Closes DEF VerificationPasses, Outcomes
    <2> QED
      BY <1>1, <1>10, <2>1, <2>2, Moves DEF VerificationPasses, _close_attempt
  <1>11. CASE AwaitReview \/ VerificationFails
    BY <1>1, <1>11, Moves DEF AwaitReview, VerificationFails
  <1>12. CASE close_intention
    BY <1>1, <1>12, Moves DEF close_intention
  <1>13. CASE _notice_stage
    BY <1>1, <1>13, Moves DEF _notice_stage
  <1>14. CASE DevisePlan
    <2> DEFINE w == [work EXCEPT !.attempt = Len(attempts) + 1]
    <2>1. Len(attempts) + 1 \in Nat /\ attempts' \in Seq(Outcomes)
      BY <1>1, <1>14 DEF DevisePlan, Outcomes
    <2>2. w \in Record /\ w.strategy = saved.strategy /\ w.results = saved.results
      BY <1>1, <2>1, Bookkeeping DEF Alike
    <2>3. saved.strategy < MaxStrategies
      BY <1>14 DEF DevisePlan, GslInv, AtItsPlace
    <2> QED
      BY <1>1, <1>14, <2>1, <2>2, <2>3, Moves DEF DevisePlan
  <1> QED
    BY <1>2, <1>3, <1>4, <1>5, <1>6, <1>7, <1>8, <1>9, <1>10, <1>11, <1>12, <1>13, <1>14

\* A new plan starts with nothing done.
LEMMA Installs ==
  ASSUME GslInv, _install_plan
  PROVE  GslInv'
  <1> DEFINE w == [work EXCEPT !.strategy = @ + 1, !.failures = 0,
                               !.results = <<>>, !.planAttempts = 0]
  <1>1. /\ work \in Record /\ work.strategy = saved.strategy
        /\ saved.strategy < MaxStrategies /\ attempts \in Seq(Outcomes)
    BY DEF GslInv, SamePlan, PlanTyped, AtItsPlace, _install_plan
  <1>2. w \in Record /\ w.strategy = saved.strategy + 1 /\ w.results = <<>>
    <2>1. <<>> \in Seq(Seq(Actions)) /\ work.strategy + 1 \in Nat
      BY <1>1 DEF Record
    <2> QED
      BY <1>1, <2>1 DEF Record
  <1>3. /\ saved' = w /\ work' = w /\ try' = NoTry /\ pc' = "idle"
        /\ UNCHANGED <<attempts, toolVars>>
    BY DEF _install_plan, Save
  <1>4. SamePlan' /\ StepsRestOnWork'
    BY <1>2, <1>3 DEF SamePlan, StepsRestOnWork
  <1>5. PlanTyped'
    <2>1. MaxStrategies \in Nat /\ StepCount \in Nat
      BY GslAssumption DEF GslAssumption
    <2>2. saved.strategy \in Nat
      <3>1. work.strategy \in Nat
        BY <1>1 DEF Record
      <3> QED
        BY <1>1, <3>1
    <2>3. saved.strategy + 1 <= MaxStrategies /\ Len(<<>>) <= StepCount
      BY <1>1, <2>1, <2>2
    <2>4. saved' = w /\ work' = w /\ attempts' = attempts
      BY <1>3 DEF toolVars
    <2>5. saved'.strategy <= MaxStrategies
      BY <1>2, <2>3, <2>4
    <2>6. Len(saved'.results) <= StepCount
      BY <1>2, <2>3, <2>4
    <2>7. saved' \in Record /\ work' \in Record /\ attempts' \in Seq(Outcomes)
      BY <1>1, <1>2, <2>4
    <2> QED
      BY <2>5, <2>6, <2>7 DEF PlanTyped
  <1>6. TryTyped' /\ AtItsPlace' /\ TryRestsOnWork'
    BY <1>3, NoTryTyped DEF TryTyped, AtItsPlace, TryRestsOnWork
  <1>7. LedgerTyped' /\ OkIsDone'
    BY <1>3 DEF GslInv, LedgerTyped, OkIsDone, Worked, toolVars
  <1> QED
    BY <1>4, <1>5, <1>6, <1>7 DEF GslInv

\* A step is done with the actions of a try that rests on work.
LEMMA StepIsDone ==
  ASSUME GslInv, NEW chosen \in Seq(Actions), StepDone(chosen), StepsLeft,
         \A p \in 1..Len(chosen) :
             <<work.strategy, Len(work.results) + 1, p>> \in Worked
  PROVE  GslInv'
  <1> DEFINE w == [work EXCEPT !.results = Append(@, chosen), !.failures = 0]
  <1>1. /\ work \in Record /\ work.strategy = saved.strategy
        /\ work.results = saved.results /\ Len(saved.results) < StepCount
        /\ attempts \in Seq(Outcomes) /\ saved.strategy <= MaxStrategies
    BY DEF GslInv, SamePlan, PlanTyped, StepsLeft
  <1>2. w \in Record /\ w.strategy = saved.strategy
        /\ w.results = Append(saved.results, chosen)
    <2>1. work.results \in Seq(Seq(Actions))
      BY <1>1 DEF Record
    <2>2. Append(work.results, chosen) \in Seq(Seq(Actions))
      BY <2>1, AppendProperties
    <2> QED
      BY <1>1, <2>2 DEF Record
  <1>3. /\ saved' = w /\ work' = w /\ try' = NoTry /\ pc' = "idle"
        /\ UNCHANGED <<attempts, toolVars>>
    BY DEF StepDone, Save
  <1>4. SamePlan'
    BY <1>3 DEF SamePlan
  <1>5. PlanTyped'
    <2>1. saved.results \in Seq(Seq(Actions))
      BY <1>1 DEF Record
    <2>2. Len(w.results) = Len(saved.results) + 1 /\ Len(saved.results) \in Nat
      BY <1>2, <2>1, AppendProperties
    <2> QED
      BY <1>1, <1>2, <1>3, <2>2, GslAssumption DEF PlanTyped, GslAssumption
  <1>6. TryTyped' /\ AtItsPlace' /\ TryRestsOnWork'
    BY <1>3, NoTryTyped DEF TryTyped, AtItsPlace, TryRestsOnWork
  <1>7. LedgerTyped' /\ OkIsDone'
    BY <1>3 DEF GslInv, LedgerTyped, OkIsDone, Worked, toolVars
  <1>8. StepsRestOnWork'
    <2> SUFFICES ASSUME NEW s \in DOMAIN w.results, NEW p \in DOMAIN w.results[s]
                 PROVE  <<w.strategy, s, p>> \in Worked
      BY <1>3 DEF StepsRestOnWork, Worked, toolVars
    <2>1. saved.results \in Seq(Seq(Actions))
      BY <1>1 DEF Record
    <2>2. /\ Len(w.results) = Len(saved.results) + 1
          /\ w.results[Len(saved.results) + 1] = chosen
          /\ \A i \in 1..Len(saved.results) : w.results[i] = saved.results[i]
          /\ DOMAIN w.results = 1..(Len(saved.results) + 1)
          /\ DOMAIN saved.results = 1..Len(saved.results)
          /\ Len(saved.results) \in Nat
      BY <1>2, <2>1, AppendProperties
    <2>3. CASE s = Len(saved.results) + 1
      <3>1. p \in 1..Len(chosen)
        BY <2>2, <2>3
      <3> QED
        BY <1>1, <1>2, <2>3, <3>1
    <2>4. CASE s # Len(saved.results) + 1
      <3>1. s \in DOMAIN saved.results /\ w.results[s] = saved.results[s]
        BY <2>2, <2>4
      <3> QED
        BY <1>2, <3>1 DEF GslInv, StepsRestOnWork
    <2> QED
      BY <2>3, <2>4
  <1> QED
    BY <1>4, <1>5, <1>6, <1>7, <1>8 DEF GslInv

-----------------------------------------------------------------------------

LEMMA KeyIsOne ==
  ASSUME GslInv, Acting
  PROVE  Key \in Keys
  <1>1. /\ work.strategy \in 1..MaxStrategies
        /\ Len(work.results) \in Nat /\ Len(work.results) < StepCount
    BY GslAssumption DEF GslInv, AtItsPlace, StepsLeft, Acting, SamePlan, PlanTyped,
       Record, GslAssumption
  <1>2. try.made \in Nat /\ try.made + 1 <= MaxActions
    BY GslAssumption DEF GslInv, TryTyped, Tries, Acting, GslAssumption
  <1> QED
    BY <1>1, <1>2, GslAssumption DEF Key, Keys, GslAssumption

LEMMA OneMore ==
  ASSUME NEW t \in Tries, NEW failed \in SUBSET Nat
  PROVE  LET v == [t EXCEPT !.made = @ + 1, !.failed = @ \cup failed] IN
         /\ v \in Tries /\ v.chosen = t.chosen /\ v.made = t.made + 1
         /\ v.failed = t.failed \cup failed
  <1> DEFINE u == [t EXCEPT !.made = @ + 1]
             v == [u EXCEPT !.failed = @ \cup failed]
  <1>1. [t EXCEPT !.made = @ + 1, !.failed = @ \cup failed] = v
    OBVIOUS
  <1>2. u \in Tries /\ u.chosen = t.chosen /\ u.made = t.made + 1 /\ u.failed = t.failed
    BY DEF Tries
  <1> HIDE DEF u
  <1>3. /\ v \in Tries /\ v.chosen = u.chosen /\ v.made = u.made
        /\ v.failed = u.failed \cup failed
    BY <1>2 DEF Tries
  <1> QED
    BY <1>1, <1>2, <1>3

\* An action of the step is answered: what was worked stays worked, and unless
\* the answer is a failure the action's own position is among it.
LEMMA Answers ==
  ASSUME GslInv, Acting, NEW failed \in SUBSET Nat, Answered(failed),
         LedgerTyped', OkIsDone', Worked \subseteq Worked',
         Key \in Worked' \/ try.made + 1 \in failed
  PROVE  GslInv'
  <1>1. /\ try' = [try EXCEPT !.made = @ + 1, !.failed = @ \cup failed]
        /\ UNCHANGED <<saved, work, attempts, pc>>
    BY DEF Answered, goalVars
  <1>2. try \in Tries /\ Len(try.chosen) <= MaxActions /\ try.made < Len(try.chosen)
    BY DEF GslInv, TryTyped, Acting
  <1>3. /\ try' \in Tries /\ try'.chosen = try.chosen /\ try'.made = try.made + 1
        /\ try'.failed = try.failed \cup failed
    BY <1>1, <1>2, OneMore
  <1>4. TryTyped'
    BY <1>2, <1>3 DEF TryTyped, Tries
  <1>5. SamePlan' /\ PlanTyped' /\ AtItsPlace' /\ StepsRestOnWork'
    BY <1>1 DEF GslInv, SamePlan, PlanTyped, AtItsPlace, StepsLeft, StepsRestOnWork
  <1>6. TryRestsOnWork'
    <2> SUFFICES ASSUME NEW p \in (1..try'.made) \ try'.failed
                 PROVE  <<work.strategy, Len(work.results) + 1, p>> \in Worked'
      BY <1>1 DEF TryRestsOnWork
    <2>1. CASE p = try.made + 1
      BY <1>3, <2>1 DEF Key
    <2>2. CASE p # try.made + 1
      <3>1. p \in (1..try.made) \ try.failed
        BY <1>2, <1>3, <2>2 DEF Tries
      <3> QED
        BY <3>1 DEF GslInv, TryRestsOnWork, Acting
    <2> QED
      BY <2>1, <2>2
  <1> QED
    BY <1>4, <1>5, <1>6 DEF GslInv

LEMMA ActionAnswered ==
  ASSUME GslInv, ActionRuns \/ ActionFails \/ _replay
  PROVE  GslInv'
  <1>1. Acting /\ Key \in Keys /\ LedgerTyped /\ OkIsDone /\ TryTyped
    BY KeyIsOne DEF ActionRuns, ActionFails, _replay, GslInv
  <1>5. try.made + 1 \in Nat /\ {} \in SUBSET Nat /\ {try.made + 1} \in SUBSET Nat
    BY <1>1 DEF TryTyped, Tries
  <1>2. CASE ActionRuns
    <2>1. try.chosen[try.made + 1] \in Actions
      BY <1>1 DEF TryTyped, Tries, Acting
    <2>2. /\ did' = [did EXCEPT ![Key] = try.chosen[try.made + 1]]
          /\ \E says \in {"ok", "unknown"} : row' = [row EXCEPT ![Key] = says]
          /\ Answered({})
      BY <1>2 DEF ActionRuns, AnsweredOk
    <2>3. LedgerTyped'
      BY <1>1, <2>1, <2>2 DEF LedgerTyped
    <2>4. Worked \subseteq Worked' /\ Key \in Worked'
      BY <1>1, <2>1, <2>2, GslAssumption DEF Worked, LedgerTyped, GslAssumption
    <2>5. OkIsDone'
      BY <1>1, <2>2, <2>4 DEF OkIsDone, LedgerTyped
    <2> QED
      BY <1>1, <1>5, <2>2, <2>3, <2>4, <2>5, Answers
  <1>3. CASE ActionFails
    <2>1. /\ \E says \in {"free", "unknown"} : row' = [row EXCEPT ![Key] = says]
          /\ did' = did /\ Answered({try.made + 1})
      BY <1>3 DEF ActionFails, AnsweredNotOk
    <2>2. LedgerTyped' /\ OkIsDone' /\ Worked' = Worked
      BY <1>1, <2>1 DEF LedgerTyped, OkIsDone, Worked
    <2> QED
      BY <1>1, <1>5, <2>1, <2>2, Answers
  <1>4. CASE _replay
    <2>1. UNCHANGED toolVars
      BY <1>4 DEF _replay
    <2>2. LedgerTyped' /\ OkIsDone' /\ Worked' = Worked
      BY <1>1, <2>1 DEF LedgerTyped, OkIsDone, Worked, toolVars
    <2>3. CASE row[Key] = "ok" /\ Answered({})
      BY <1>1, <1>5, <2>2, <2>3, Answers DEF OkIsDone
    <2>4. CASE Answered({try.made + 1})
      BY <1>1, <1>5, <2>2, <2>4, Answers
    <2> QED
      BY <1>4, <2>3, <2>4 DEF _replay, AnsweredOk, AnsweredNotOk
  <1> QED
    BY <1>2, <1>3, <1>4

\* A try begins, and ends.
LEMMA Tried ==
  ASSUME GslInv, ChooseActions \/ StepEnds \/ DeclaredDone
  PROVE  GslInv'
  <1>1. /\ work \in Record /\ work.strategy = saved.strategy /\ work.results = saved.results
        /\ saved \in Record /\ attempts \in Seq(Outcomes)
    BY DEF GslInv, SamePlan, PlanTyped
  <1>2. CASE DeclaredDone
    <2>1. <<>> \in Seq(Actions) /\ StepDone(<<>>) /\ StepsLeft
      BY <1>2 DEF DeclaredDone, Executes
    <2>2. \A p \in 1..Len(<<>>) :
              <<work.strategy, Len(work.results) + 1, p>> \in Worked
      OBVIOUS
    <2> QED
      BY <2>1, <2>2, StepIsDone
  <1>3. CASE ChooseActions
    <2>1. PICK chosen \in Choices : try' = [chosen |-> chosen, made |-> 0, failed |-> {}]
      BY <1>3 DEF ChooseActions
    <2>2. chosen \in Seq(Actions) /\ Len(chosen) \in Nat /\ Len(chosen) <= MaxActions
      BY GslAssumption DEF Choices, GslAssumption
    <2>3. TryTyped'
      BY <2>1, <2>2 DEF TryTyped, Tries
    <2>4. /\ pc' = "acting" /\ StepsLeft
          /\ UNCHANGED <<saved, work, attempts, row, did>>
      BY <1>3 DEF ChooseActions, Executes, goalVars, toolVars
    <2>5. SamePlan' /\ PlanTyped' /\ AtItsPlace' /\ StepsRestOnWork'
      BY <2>4 DEF GslInv, SamePlan, PlanTyped, AtItsPlace, StepsLeft, StepsRestOnWork, Worked
    <2>6. LedgerTyped' /\ OkIsDone'
      BY <2>4 DEF GslInv, LedgerTyped, OkIsDone, Worked
    <2>7. TryRestsOnWork'
      BY <2>1 DEF TryRestsOnWork
    <2> QED
      BY <2>3, <2>5, <2>6, <2>7 DEF GslInv
  <1>4. CASE StepEnds
    <2>1. pc = "acting" /\ StepsLeft /\ try \in Tries /\ try.made = Len(try.chosen)
      BY <1>4 DEF StepEnds, GslInv, AtItsPlace, TryTyped
    <2>2. CASE try.failed = {} /\ StepDone(try.chosen)
      <3>1. \A p \in 1..Len(try.chosen) :
                <<work.strategy, Len(work.results) + 1, p>> \in Worked
        BY <2>1, <2>2 DEF GslInv, TryRestsOnWork
      <3>2. try.chosen \in Seq(Actions)
        BY <2>1 DEF Tries
      <3> QED
        BY <2>1, <2>2, <3>1, <3>2, StepIsDone
    <2>3. CASE StepFailed
      <3> DEFINE w == [work EXCEPT !.failures = @ + 1]
      <3>1. w \in Record /\ w.strategy = saved.strategy /\ w.results = saved.results
        BY <1>1, Bookkeeping DEF Alike
      <3>2. Save(w) /\ UNCHANGED <<attempts, toolVars>>
        BY <2>3 DEF StepFailed
      <3> QED
        BY <1>1, <3>1, <3>2, Moves DEF Save
    <2> QED
      BY <1>4, <2>2, <2>3 DEF StepEnds
  <1> QED
    BY <1>2, <1>3, <1>4

LEMMA CutShort ==
  ASSUME GslInv, Cut
  PROVE  GslInv'
  <1>1. /\ saved \in Record /\ attempts \in Seq(Outcomes)
        /\ UNCHANGED <<saved, attempts, did>>
        /\ work' = saved /\ try' = NoTry /\ pc' = "idle"
    BY DEF GslInv, PlanTyped, Cut, goalVars
  <1>2. LedgerTyped' /\ OkIsDone'
    <2>1. CASE UNCHANGED row
      BY <1>1, <2>1 DEF GslInv, LedgerTyped, OkIsDone, Worked
    <2>2. CASE Acting /\ row' = [row EXCEPT ![Key] = "unknown"]
      BY <1>1, <2>2, KeyIsOne DEF GslInv, LedgerTyped, OkIsDone, Worked
    <2> QED
      BY <2>1, <2>2 DEF Cut
  <1> QED
    BY <1>1, <1>2, Leaves

\* A step that changes neither plan, journal nor try changes nothing here.
LEMMA Aside ==
  ASSUME GslInv, UNCHANGED <<saved, attempts, toolVars, passVars>>
  PROVE  GslInv'
  BY DEF GslInv, SamePlan, PlanTyped, TryTyped, LedgerTyped, AtItsPlace, StepsLeft,
     OkIsDone, Worked, TryRestsOnWork, StepsRestOnWork, toolVars, passVars

LEMMA NextInv == GslInv /\ [Next]_vars => GslInv'
  <1> SUFFICES ASSUME GslInv, [Next]_vars PROVE GslInv'
    OBVIOUS
  <1>1. CASE Pass
    BY <1>1, PassMoves, Installs, Tried, ActionAnswered DEF Pass
  <1>2. CASE WaitElapses \/ IntentClose
    BY <1>2, Aside DEF WaitElapses, IntentClose
  <1>3. CASE Cut
    BY <1>3, CutShort
  <1>4. CASE UNCHANGED vars
    BY <1>4, Aside DEF vars, goalVars
  <1> QED
    BY <1>1, <1>2, <1>3, <1>4 DEF Next

\* advance marks a step done only when every action the model chose for it is
\* backed by work known to have happened, through every retry, replay and crash.
THEOREM DoneRestsOnWork == Spec => []StepsRestOnWork
  <1>1. GslInv => StepsRestOnWork
    BY DEF GslInv
  <1> QED
    BY <1>1, InitInv, NextInv, PTL DEF Spec

-----------------------------------------------------------------------------
(* The rows of the attempts. *)

Orphans == {a \in DOMAIN attempts :
              attempts[a] = "open" /\ a \notin {saved.attempt, work.attempt}}

\* An attempt that is still open, or none; one that has its outcome, or none.
Pending(a) == a = 0 \/ attempts[a] = "open"
Settled(a) == a = 0 \/ attempts[a] # "open"

\* Which attempt the pass's copy names, and which the saved state does.
AttemptNamed ==
    /\ saved.attempt \in 0..Len(attempts) /\ work.attempt \in 0..Len(attempts)
    /\ pc \in {"idle", "advancing", "acting", "rejected"} => work.attempt = saved.attempt
    /\ pc \in {"closing", "parking", "noticing"} => work.attempt \in {0, saved.attempt}
    /\ pc = "devising" => work.attempt = 0 /\ Settled(saved.attempt)
    /\ pc = "installing" =>
         work.attempt # 0 /\ attempts[work.attempt] = "open" /\ Settled(saved.attempt)

\* A pass that may close the saved attempt finds it open, before the first cut.
OpenWhileWorked ==
    cuts = 0 =>
      /\ pc \in {"advancing", "acting", "rejected"} => Pending(saved.attempt)
      /\ pc \in {"idle", "noticing"} /\ status \notin Closed => Pending(saved.attempt)

AttemptsInv ==
    /\ AttemptNamed /\ OpenWhileWorked
    /\ cuts \in Nat /\ Cardinality(Orphans) <= cuts

LEMMA AttemptsInit == Init => AttemptsInv
  <1> SUFFICES ASSUME Init PROVE AttemptsInv
    OBVIOUS
  <1>1. attempts = <<>> /\ saved.attempt = 0 /\ work.attempt = 0 /\ cuts = 0 /\ pc = "idle"
    BY DEF Init, Fresh
  <1>2. Orphans = {}
    BY <1>1 DEF Orphans
  <1>3. Cardinality(Orphans) <= cuts
    BY <1>1, <1>2, FS_EmptySet
  <1> QED
    BY <1>1, <1>3 DEF AttemptsInv, AttemptNamed, OpenWhileWorked, Pending

\* The fields a step of the loop gives its state leave the attempt's id alone.
LEMMA IdKept ==
  ASSUME NEW w \in Record, NEW a \in Nat, NEW r
  PROVE  /\ [w EXCEPT !.planAttempts = @ + 1].attempt = w.attempt
         /\ [w EXCEPT !.failures = @ + 1].attempt = w.attempt
         /\ [w EXCEPT !.understood = TRUE].attempt = w.attempt
         /\ [w EXCEPT !.results = r, !.failures = 0].attempt = w.attempt
         /\ [w EXCEPT !.attempt = a].attempt = a
  <1>1. [w EXCEPT !.planAttempts = @ + 1].attempt = w.attempt
    BY DEF Record
  <1>2. [w EXCEPT !.failures = @ + 1].attempt = w.attempt
    BY DEF Record
  <1>3. [w EXCEPT !.understood = TRUE].attempt = w.attempt
    BY DEF Record
  <1>4. [w EXCEPT !.results = r, !.failures = 0].attempt = w.attempt
    BY DEF Record
  <1>5. [w EXCEPT !.attempt = a].attempt = a
    BY DEF Record
  <1> QED
    BY <1>1, <1>2, <1>3, <1>4, <1>5

\* Who may close the saved attempt.
MayClose == \/ pc \in {"advancing", "acting", "rejected"}
            \/ pc \in {"idle", "noticing"} /\ status \notin Closed

LEMMA RowsCounted ==
  ASSUME GslInv
  PROVE  /\ Len(attempts) \in Nat /\ DOMAIN attempts = 1..Len(attempts)
         /\ 0 \notin DOMAIN attempts
         /\ saved \in Record /\ work \in Record /\ attempts \in Seq(Outcomes)
  BY DEF GslInv, PlanTyped

LEMMA OrphansFinite ==
  ASSUME GslInv
  PROVE  IsFiniteSet(Orphans) /\ Cardinality(Orphans) \in Nat
  <1>1. Orphans \subseteq 1..Len(attempts) /\ Len(attempts) \in Nat
    BY RowsCounted DEF Orphans
  <1>2. IsFiniteSet(1..Len(attempts))
    BY <1>1, FS_Interval
  <1> QED
    BY <1>1, <1>2, FS_Subset, FS_CardinalityType

\* A step that writes no attempt row and keeps to the attempt that is saved.
LEMMA KeepsAttempt ==
  ASSUME GslInv, AttemptsInv, UNCHANGED <<attempts, cuts>>,
         pc \in {"idle", "advancing", "acting", "rejected", "closing", "parking", "noticing"},
         saved'.attempt = saved.attempt, work'.attempt \in {work.attempt, saved.attempt},
         pc' \in {"idle", "advancing", "acting", "rejected", "closing", "parking", "noticing"},
         pc' \in {"idle", "advancing", "acting", "rejected"} => work'.attempt = saved.attempt,
         MayClose' => MayClose
  PROVE  AttemptsInv'
  <1>1. work.attempt \in {0, saved.attempt} /\ work'.attempt \in {0, saved.attempt}
    BY DEF AttemptsInv, AttemptNamed
  <1>2. AttemptNamed'
    BY <1>1 DEF AttemptsInv, AttemptNamed
  <1>3. OpenWhileWorked'
    BY DEF AttemptsInv, OpenWhileWorked, MayClose, Pending
  <1>4. Orphans' = Orphans
    BY <1>1, RowsCounted DEF Orphans
  <1> QED
    BY <1>2, <1>3, <1>4 DEF AttemptsInv

\* The steps of a pass that leave the attempt in flight alone.
LEMMA SteadyPass ==
  ASSUME GslInv, AttemptsInv,
         \/ advance \/ ParkBudget \/ _backing_off \/ understand \/ GiveUp
         \/ NoAnswer \/ RateLimited \/ DeclaredDone \/ ChooseActions
         \/ ActionRuns \/ ActionFails \/ _replay \/ StepEnds
         \/ AwaitReview \/ VerificationFails \/ close_intention \/ _notice_stage \/ IntentClose
  PROVE  AttemptsInv'
  <1>1. saved \in Record /\ work \in Record
    BY RowsCounted
  <1>2. pc \in {"idle", "advancing", "acting", "rejected"} => work.attempt = saved.attempt
    BY DEF AttemptsInv, AttemptNamed
  <1>3. CASE advance
    BY <1>2, <1>3, KeepsAttempt DEF advance, MayClose, Closed
  <1>4. CASE ParkBudget \/ GiveUp
    BY <1>2, <1>4, KeepsAttempt DEF ParkBudget, GiveUp, Exhausted, Replans, goalVars, MayClose
  <1>5. CASE _backing_off
    BY <1>2, <1>5, KeepsAttempt DEF _backing_off, Asks, Planless, Replans, goalVars, MayClose
  <1>6. ASSUME NEW w, w.attempt = work.attempt, Save(w), pc \in {"advancing", "acting"},
               UNCHANGED <<attempts, cuts>>
        PROVE  AttemptsInv'
    BY <1>2, <1>6, KeepsAttempt DEF Save, MayClose
  <1>7. CASE understand
    <2>1. [work EXCEPT !.understood = TRUE].attempt = work.attempt
      BY <1>1, IdKept
    <2> DEFINE failed == [work EXCEPT !.planAttempts = @ + 1]
    <2>2. failed.attempt = work.attempt
      BY <1>1, IdKept
    <2>3. CASE Save([work EXCEPT !.understood = TRUE]) /\ UNCHANGED <<attempts, cuts>>
      BY <1>6, <1>7, <2>1, <2>3 DEF understand
    <2>4. CASE _planning_failed(work)
      <3>1. saved' = failed /\ work' = failed /\ pc' \in {"idle", "parking"} /\ UNCHANGED <<attempts, cuts>>
        BY <2>4 DEF _planning_failed, Save
      <3> HIDE DEF failed
      <3> QED
        BY <1>2, <1>7, <2>2, <3>1, KeepsAttempt DEF understand, MayClose
    <2> QED
      BY <1>7, <2>3, <2>4 DEF understand
  <1>8. [work EXCEPT !.failures = @ + 1].attempt = work.attempt
    BY <1>1, IdKept
  <1>9. \A r : [work EXCEPT !.results = r, !.failures = 0].attempt = work.attempt
    BY <1>1, IdKept
  <1>10. CASE NoAnswer \/ RateLimited \/ DeclaredDone
    <2>1. pc = "advancing" /\ (StepFailed \/ StepDone(<<>>))
      BY <1>10 DEF NoAnswer, RateLimited, DeclaredDone, Executes
    <2> QED
      BY <1>6, <1>8, <1>9, <2>1 DEF StepFailed, StepDone
  <1>11. CASE StepEnds
    BY <1>6, <1>8, <1>9, <1>11 DEF StepEnds, StepFailed, StepDone
  <1>12. CASE ChooseActions
    BY <1>2, <1>12, KeepsAttempt DEF ChooseActions, Executes, goalVars, MayClose
  <1>13. CASE ActionRuns \/ ActionFails \/ _replay
    <2>1. pc = "acting" /\ UNCHANGED <<status, saved, attempts, pc, work, cuts>>
      BY <1>13 DEF ActionRuns, ActionFails, _replay, Acting, AnsweredOk, AnsweredNotOk, Answered, goalVars
    <2> QED
      BY <1>2, <2>1, KeepsAttempt DEF MayClose
  <1>14. CASE AwaitReview \/ VerificationFails
    BY <1>2, <1>14, KeepsAttempt DEF AwaitReview, VerificationFails, Verifies, MayClose
  <1>15. CASE close_intention
    BY <1>15, KeepsAttempt DEF close_intention, MayClose, Closed
  <1>16. CASE _notice_stage
    BY <1>16, KeepsAttempt DEF _notice_stage, MayClose
  <1>17. CASE IntentClose
    BY <1>2, <1>17, KeepsAttempt DEF IntentClose, passVars, MayClose, Closed
  <1> QED
    BY <1>3, <1>4, <1>5, <1>7, <1>10, <1>11, <1>12, <1>13, <1>14, <1>15, <1>16, <1>17

\* Closing an attempt touches the row of that attempt only.
LEMMA ClosesOne ==
  ASSUME GslInv, AttemptsInv, NEW o \in Outcomes \ {"open"}, _close_attempt(o)
  PROVE  /\ DOMAIN attempts' = DOMAIN attempts /\ Len(attempts') = Len(attempts)
         /\ \A a \in DOMAIN attempts :
              attempts'[a] = IF a = work.attempt THEN o ELSE attempts[a]
         /\ work'.attempt = 0
  <1>1. work'.attempt = 0
    BY RowsCounted, IdKept DEF _close_attempt
  <1>2. work.attempt \in 0..Len(attempts) /\ attempts \in Seq(Outcomes)
    BY RowsCounted DEF AttemptsInv, AttemptNamed
  <1>3. CASE work.attempt = 0
    BY <1>1, <1>3, RowsCounted DEF _close_attempt
  <1>4. CASE work.attempt # 0
    <2>1. work.attempt \in 1..Len(attempts) /\ attempts' = [attempts EXCEPT ![work.attempt] = o]
      BY <1>2, <1>4, RowsCounted DEF _close_attempt
    <2>2. Len(attempts') = Len(attempts) /\ DOMAIN attempts' = DOMAIN attempts
      BY <1>2, <2>1, ExceptSeq
    <2> QED
      BY <1>1, <2>1, <2>2
  <1> QED
    BY <1>3, <1>4

\* A strategy's end closes the attempt in flight, which is the saved one.
LEMMA StrategyEnds ==
  ASSUME GslInv, AttemptsInv, _strategy
  PROVE  AttemptsInv'
  <1>1. pc \in {"advancing", "rejected"} /\ work.attempt = saved.attempt
        /\ saved' = saved /\ pc' = "devising" /\ cuts' = cuts
    BY DEF _strategy, Planless, Replans, AttemptsInv, AttemptNamed
  <1>2. /\ DOMAIN attempts' = DOMAIN attempts /\ Len(attempts') = Len(attempts)
        /\ \A a \in DOMAIN attempts :
             attempts'[a] = IF a = work.attempt THEN "failed" ELSE attempts[a]
        /\ work'.attempt = 0
    BY ClosesOne DEF _strategy, Outcomes
  <1>3. saved.attempt = 0 \/ saved.attempt \in DOMAIN attempts
    BY RowsCounted DEF AttemptsInv, AttemptNamed
  <1>4. AttemptNamed'
    BY <1>1, <1>2, <1>3, RowsCounted DEF AttemptsInv, AttemptNamed, Settled
  <1>5. OpenWhileWorked'
    BY <1>1 DEF OpenWhileWorked
  <1>6. Orphans' = Orphans
    BY <1>1, <1>2, RowsCounted DEF Orphans
  <1> QED
    BY <1>1, <1>4, <1>5, <1>6 DEF AttemptsInv

LEMMA VerificationEnds ==
  ASSUME GslInv, AttemptsInv, VerificationPasses
  PROVE  AttemptsInv'
  <1>1. pc = "advancing" /\ work.attempt = saved.attempt
        /\ saved' = saved /\ pc' = "closing" /\ cuts' = cuts
    BY DEF VerificationPasses, Verifies, AttemptsInv, AttemptNamed
  <1>2. /\ DOMAIN attempts' = DOMAIN attempts /\ Len(attempts') = Len(attempts)
        /\ \A a \in DOMAIN attempts :
             attempts'[a] = IF a = work.attempt THEN "succeeded" ELSE attempts[a]
        /\ work'.attempt = 0
    BY ClosesOne DEF VerificationPasses, Outcomes
  <1>3. AttemptNamed'
    BY <1>1, <1>2, RowsCounted DEF AttemptsInv, AttemptNamed
  <1>4. OpenWhileWorked'
    BY <1>1 DEF OpenWhileWorked
  <1>5. Orphans' = Orphans
    BY <1>1, <1>2, RowsCounted DEF Orphans
  <1> QED
    BY <1>1, <1>3, <1>4, <1>5 DEF AttemptsInv

LEMMA AttemptBegins ==
  ASSUME GslInv, AttemptsInv, DevisePlan
  PROVE  AttemptsInv'
  <1>1. pc = "devising" /\ work.attempt = 0 /\ Settled(saved.attempt) /\ saved.attempt \in 0..Len(attempts)
        /\ saved' = saved /\ pc' = "installing" /\ cuts' = cuts
    BY DEF DevisePlan, AttemptsInv, AttemptNamed
  <1>2. Len(attempts) \in Nat /\ work'.attempt = Len(attempts) + 1
    BY RowsCounted, IdKept DEF DevisePlan
  <1>3. /\ Len(attempts') = Len(attempts) + 1 /\ DOMAIN attempts' = 1..(Len(attempts) + 1)
        /\ attempts'[Len(attempts) + 1] = "open"
        /\ \A a \in 1..Len(attempts) : attempts'[a] = attempts[a]
    BY RowsCounted, AppendProperties DEF DevisePlan, Outcomes
  <1>4. AttemptNamed'
    BY <1>1, <1>2, <1>3 DEF AttemptNamed, Settled
  <1>5. OpenWhileWorked'
    BY <1>1 DEF OpenWhileWorked
  <1>6. Orphans' = Orphans
    BY <1>1, <1>2, <1>3, RowsCounted DEF Orphans
  <1> QED
    BY <1>1, <1>4, <1>5, <1>6 DEF AttemptsInv

\* The attempt the new plan belongs to is saved with it; the one it replaces has
\* its outcome.
LEMMA AttemptSaved ==
  ASSUME GslInv, AttemptsInv, _install_plan
  PROVE  AttemptsInv'
  <1>1. pc = "installing" /\ work.attempt # 0 /\ attempts[work.attempt] = "open"
        /\ Settled(saved.attempt) /\ work.attempt \in 0..Len(attempts)
    BY DEF _install_plan, AttemptsInv, AttemptNamed
  <1> DEFINE w == [work EXCEPT !.strategy = @ + 1, !.failures = 0,
                               !.results = <<>>, !.planAttempts = 0]
  <1>2. w.attempt = work.attempt
    BY RowsCounted DEF Record
  <1>3. saved' = w /\ work' = w /\ pc' = "idle" /\ UNCHANGED <<attempts, cuts>>
    BY DEF _install_plan, Save
  <1> HIDE DEF w
  <1>4. AttemptNamed'
    BY <1>1, <1>2, <1>3 DEF AttemptNamed
  <1>5. OpenWhileWorked'
    BY <1>1, <1>2, <1>3 DEF OpenWhileWorked, Pending
  <1>6. Orphans' = Orphans
    BY <1>1, <1>2, <1>3, RowsCounted DEF Orphans, Settled
  <1> QED
    BY <1>3, <1>4, <1>5, <1>6 DEF AttemptsInv

LEMMA DevisingFails ==
  ASSUME GslInv, AttemptsInv, DeviseFails
  PROVE  AttemptsInv'
  <1>1. pc = "devising" /\ work.attempt = 0 /\ Settled(saved.attempt)
    BY DEF DeviseFails, AttemptsInv, AttemptNamed
  <1> DEFINE failed == [work EXCEPT !.planAttempts = @ + 1]
  <1>2. failed.attempt = 0
    BY <1>1, RowsCounted, IdKept
  <1>3. saved' = failed /\ work' = failed /\ pc' \in {"idle", "parking"} /\ UNCHANGED <<attempts, cuts>>
    BY DEF DeviseFails, _planning_failed, Save
  <1> HIDE DEF failed
  <1>4. AttemptNamed'
    BY <1>2, <1>3, RowsCounted DEF AttemptNamed
  <1>5. OpenWhileWorked'
    BY <1>2, <1>3 DEF OpenWhileWorked, Pending
  <1>6. Orphans' = Orphans
    BY <1>1, <1>2, <1>3, RowsCounted DEF Orphans, Settled
  <1> QED
    BY <1>3, <1>4, <1>5, <1>6 DEF AttemptsInv

\* A cut loses the id of one attempt at most: that of the pass's copy.
LEMMA CutOrphansOne ==
  ASSUME GslInv, AttemptsInv, Cut
  PROVE  AttemptsInv'
  <1>1. saved' = saved /\ work' = saved /\ pc' = "idle" /\ attempts' = attempts
        /\ cuts' = cuts + 1 /\ cuts \in Nat
    BY DEF Cut, goalVars, AttemptsInv
  <1>2. AttemptNamed'
    BY <1>1 DEF AttemptsInv, AttemptNamed
  <1>3. OpenWhileWorked'
    BY <1>1 DEF OpenWhileWorked
  <1>4. Orphans' \subseteq Orphans \cup {work.attempt}
    BY <1>1 DEF Orphans
  <1>5. /\ IsFiniteSet(Orphans \cup {work.attempt})
        /\ Cardinality(Orphans \cup {work.attempt}) <= Cardinality(Orphans) + 1
    BY OrphansFinite, FS_AddElement
  <1>6. Cardinality(Orphans') <= Cardinality(Orphans \cup {work.attempt})
    BY <1>4, <1>5, FS_Subset
  <1>7. /\ Cardinality(Orphans') \in Nat /\ Cardinality(Orphans) \in Nat
        /\ Cardinality(Orphans \cup {work.attempt}) \in Nat
    BY <1>4, <1>5, OrphansFinite, FS_Subset, FS_CardinalityType
  <1>8. Cardinality(Orphans)' <= cuts'
    BY <1>1, <1>5, <1>6, <1>7 DEF AttemptsInv
  <1> QED
    BY <1>1, <1>2, <1>3, <1>8 DEF AttemptsInv

LEMMA AttemptsStep == GslInv /\ AttemptsInv /\ [Next]_vars => AttemptsInv'
  <1> SUFFICES ASSUME GslInv, AttemptsInv, [Next]_vars PROVE AttemptsInv'
    OBVIOUS
  <1>1. CASE Pass
    BY <1>1, SteadyPass, StrategyEnds, VerificationEnds, AttemptBegins, AttemptSaved, DevisingFails DEF Pass
  <1>2. CASE IntentClose
    BY <1>2, SteadyPass
  <1>3. CASE Cut
    BY <1>3, CutOrphansOne
  <1>4. CASE UNCHANGED <<status, saved, attempts, pc, work, cuts>>
    BY <1>4 DEF AttemptsInv, AttemptNamed, OpenWhileWorked, Orphans, Pending, Settled
  <1>5. CASE WaitElapses \/ UNCHANGED vars
    BY <1>4, <1>5 DEF WaitElapses, passVars, goalVars, vars
  <1> QED
    BY <1>1, <1>2, <1>3, <1>5 DEF Next

\* For any number of strategies, retries and cuts: an attempt row that stays open
\* and that no state of the goal names any more was left by a pass that was cut,
\* one row by each such pass at most (_strategy, _install_plan, loop.py).
THEOREM OrphansComeFromCuts == Spec => []OnlyCutsOrphan
  <1>1. AttemptsInv => OnlyCutsOrphan
    BY DEF AttemptsInv, Orphans, OnlyCutsOrphan
  <1> QED
    BY <1>1, InitInv, NextInv, AttemptsInit, AttemptsStep, PTL DEF Spec

\* A step that changes the outcome of a row closes an attempt, and before the
\* first cut it finds that attempt open.
LEMMA OutcomeStep ==
  ASSUME GslInv, AttemptsInv, [Next]_vars, NEW a \in DOMAIN attempts,
         attempts[a] # "open", attempts'[a] # attempts[a]
  PROVE  cuts > 0
  <1>1. attempts' # attempts
    OBVIOUS
  <1>2. _strategy \/ VerificationPasses \/ DevisePlan
    <2>1. CASE Pass
      <3>1. CASE advance \/ ParkBudget \/ _backing_off \/ understand \/ GiveUp \/ NoAnswer \/ RateLimited
                 \/ DeclaredDone \/ ChooseActions \/ DeviseFails \/ _install_plan
        BY <1>1, <3>1 DEF advance, ParkBudget, _backing_off, understand, GiveUp, NoAnswer, RateLimited,
           DeclaredDone, ChooseActions, DeviseFails, _install_plan, _planning_failed, StepFailed, StepDone, goalVars
      <3>2. CASE ActionRuns \/ ActionFails \/ _replay \/ StepEnds \/ AwaitReview \/ VerificationFails
                 \/ close_intention \/ _notice_stage
        BY <1>1, <3>2 DEF ActionRuns, ActionFails, _replay, StepEnds, AwaitReview, VerificationFails,
           close_intention, _notice_stage, AnsweredOk, AnsweredNotOk, Answered, StepFailed, StepDone, goalVars
      <3> QED
        BY <2>1, <3>1, <3>2 DEF Pass
    <2>2. CASE WaitElapses \/ IntentClose \/ Cut \/ UNCHANGED vars
      BY <1>1, <2>2 DEF WaitElapses, IntentClose, Cut, vars, goalVars
    <2> QED
      BY <2>1, <2>2 DEF Next
  <1>3. CASE DevisePlan
    BY <1>3, RowsCounted, AppendProperties DEF DevisePlan, Outcomes
  <1>4. CASE _strategy
    <2>1. pc \in {"advancing", "rejected"} /\ a = work.attempt /\ work.attempt = saved.attempt /\ a # 0
      BY <1>4, ClosesOne, RowsCounted DEF _strategy, Planless, Replans, AttemptsInv, AttemptNamed, Outcomes
    <2> QED
      BY <2>1 DEF AttemptsInv, OpenWhileWorked, Pending
  <1>5. CASE VerificationPasses
    <2>1. pc = "advancing" /\ a = work.attempt /\ work.attempt = saved.attempt /\ a # 0
      BY <1>5, ClosesOne, RowsCounted DEF VerificationPasses, Verifies, AttemptsInv, AttemptNamed, Outcomes
    <2> QED
      BY <2>1 DEF AttemptsInv, OpenWhileWorked, Pending
  <1> QED
    BY <1>2, <1>3, <1>4, <1>5

\* An attempt is given its outcome once, by the strategy's end or by the
\* verification that passes, unless a pass was cut between the row's update and
\* the save that forgets its id (_close_attempt, loop.py).
THEOREM OutcomeWrittenOnce == Spec => OutcomeStands
  <1>1. GslInv /\ AttemptsInv /\ [Next]_vars =>
          [\A a \in DOMAIN attempts :
             attempts[a] # "open" /\ attempts'[a] # attempts[a] => cuts > 0]_vars
    BY OutcomeStep
  <1> QED
    BY <1>1, InitInv, NextInv, AttemptsInit, AttemptsStep, PTL DEF Spec, OutcomeStands
=============================================================================
