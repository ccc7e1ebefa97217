------------------------------ MODULE GslLoop ------------------------------
(***************************************************************************)
(* One intention under GeneralSolverLoop (ethos/gsl/loop.py): understand,  *)
(* devise and plan, the steps of the plan, verification, change of         *)
(* strategy, back-off, park.  A pass of the life loop is one call of       *)
(* advance, which loads the intention's row and works on a copy of its     *)
(* resume_state; whatever was not saved is lost when the pass is cut.      *)
(* What the model, the tools, the checks and the verifiers answer is free. *)
(* The journal appears as what a key promises (WorkOnce): a key is that of *)
(* a strategy, a step and a position in the step.                          *)
(***************************************************************************)
EXTENDS Integers, Sequences, FiniteSets

CONSTANTS
    Actions,              \* a tool with its arguments
    Nothing,              \* no action
    StepCount,            \* the steps of a plan
    MaxActions,           \* actions of one step
    MaxStrategies,        \* MAX_STRATEGIES
    FailuresBeforeSwitch, \* STEP_FAILURES_BEFORE_SWITCH
    ParkAt,               \* gsl.plan_attempts_before_park
    MaxCuts               \* bound on the passes that are cut short

ASSUME GslAssumption ==
    /\ Nothing \notin Actions
    /\ StepCount \in Nat \ {0} /\ MaxActions \in Nat \ {0}
    /\ MaxStrategies \in Nat \ {0} /\ FailuresBeforeSwitch \in Nat \ {0}
    /\ ParkAt \in Nat \ {0} /\ MaxCuts \in Nat

VARIABLES
    status,     \* the intention's status
    saved,      \* its resume_state
    waiting,    \* plan_retry_after lies in the future
    attempts,   \* the outcomes of its attempt rows, oldest first
    row,        \* what the journal says of a key
    did,        \* the action known to have run under a key
    noticed,    \* the stages its commissioner is owed a word about
    pc,         \* where the pass is
    work,       \* the pass's copy of resume_state
    try,        \* the step being executed
    cuts

goalVars == <<status, saved, waiting, attempts, noticed>>
toolVars == <<row, did>>
passVars == <<pc, work, try>>
vars == <<goalVars, toolVars, passVars, cuts>>

Closed == {"done", "parked", "failed", "cancelled"}
Status == Closed \cup {"proposed", "active", "in_progress", "awaiting_review"}
Keys   == (1..MaxStrategies) \X (1..StepCount) \X (1..MaxActions)
NoTry  == [chosen |-> <<>>, made |-> 0, failed |-> {}]

\* strategy 0: no plan yet; attempt 0: no attempt open; results holds, for each
\* step that is done, the actions the model chose in the try that finished it.
Fresh == [understood |-> FALSE, strategy |-> 0, failures |-> 0,
          results |-> <<>>, planAttempts |-> 0, attempt |-> 0]

Choices == UNION {[1..n -> Actions] : n \in 1..MaxActions}

Resume == [understood : BOOLEAN, strategy : 0..MaxStrategies,
           failures : 0..FailuresBeforeSwitch,
           results : Seq(Seq(Actions)),
           planAttempts : 0..(ParkAt + MaxCuts), attempt : Nat]

TypeOK ==
    /\ status \in Status
    /\ saved \in Resume /\ work \in Resume
    /\ Len(saved.results) <= StepCount
    /\ {saved.attempt, work.attempt} \subseteq 0..Len(attempts)
    /\ waiting \in BOOLEAN
    /\ attempts \in Seq({"open", "failed", "succeeded"})
    /\ row \in [Keys -> {"free", "ok", "unknown"}]
    /\ did \in [Keys -> Actions \cup {Nothing}]
    /\ noticed \subseteq Status
    /\ pc \in {"idle", "advancing", "devising", "installing", "acting",
               "rejected", "closing", "parking", "noticing"}
    /\ try \in [chosen : Seq(Actions), made : 0..MaxActions,
                failed : SUBSET (1..MaxActions)]
    /\ try.made <= Len(try.chosen) /\ Len(try.chosen) <= MaxActions
    /\ cuts \in 0..MaxCuts

Init ==
    /\ status \in {"proposed", "active"}
    /\ saved = Fresh
    /\ waiting = FALSE
    /\ attempts = <<>>
    /\ row = [k \in Keys |-> "free"]
    /\ did = [k \in Keys |-> Nothing]
    /\ noticed = {}
    /\ pc = "idle"
    /\ work = Fresh
    /\ try = NoTry
    /\ cuts = 0

-----------------------------------------------------------------------------
(* Where the pass stands. *)

StepsLeft == work.strategy > 0 /\ Len(work.results) < StepCount
Stuck     == StepsLeft /\ work.failures >= FailuresBeforeSwitch

Planless  == pc = "advancing" /\ work.understood /\ work.strategy = 0
Replans   == pc = "rejected" \/ (pc = "advancing" /\ Stuck)

Exhausted == Replans /\ work.strategy = MaxStrategies

\* The calls a back-off holds back.
Asks == \/ pc = "advancing" /\ (~work.understood \/ StepsLeft)
        \/ Planless \/ Replans

Save(w) ==
    /\ saved' = w
    /\ work' = w
    /\ try' = NoTry
    /\ pc' = "idle"

-----------------------------------------------------------------------------
(* The way to a plan. *)

advance ==
    /\ pc = "idle"
    /\ status \notin Closed
    /\ status' = IF status = "proposed" THEN "active" ELSE status
    /\ work' = saved
    /\ pc' = "advancing"
    /\ UNCHANGED <<saved, waiting, attempts, noticed, toolVars, try, cuts>>

\* Whether the budget is spent by now is anyone's guess.
ParkBudget ==
    /\ pc = "advancing"
    /\ pc' = "parking"
    /\ UNCHANGED <<goalVars, toolVars, work, try, cuts>>

_backing_off ==
    /\ waiting
    /\ Asks
    /\ ~Exhausted
    /\ pc' = "idle"
    /\ work' = saved
    /\ UNCHANGED <<goalVars, toolVars, try, cuts>>

mutant_planning_failed_uncounted(w) ==
    /\ Save(w)
    /\ waiting' = TRUE
    /\ UNCHANGED <<status, attempts, noticed, toolVars, cuts>>

_planning_failed(w) ==
    LET failed == [w EXCEPT !.planAttempts = @ + 1] IN
    /\ \/ /\ failed.planAttempts < ParkAt
          /\ Save(failed)
          /\ waiting' = TRUE
       \/ /\ failed.planAttempts >= ParkAt
          /\ saved' = failed
          /\ work' = failed
          /\ pc' = "parking"
          /\ UNCHANGED <<waiting, try>>
    /\ UNCHANGED <<status, attempts, noticed, toolVars, cuts>>

understand ==
    /\ pc = "advancing"
    /\ ~work.understood
    /\ ~waiting
    /\ \/ /\ Save([work EXCEPT !.understood = TRUE])
          /\ UNCHANGED <<status, waiting, attempts, noticed, toolVars, cuts>>
       \/ _planning_failed(work)

mutant_close_attempt_kept(outcome) ==
    /\ attempts' = IF work.attempt = 0 THEN attempts
                   ELSE [attempts EXCEPT ![work.attempt] = outcome]
    /\ UNCHANGED work

mutant_close_attempt_only_done(outcome) ==
    /\ attempts' = IF work.attempt = 0 \/ outcome = "failed" THEN attempts
                   ELSE [attempts EXCEPT ![work.attempt] = outcome]
    /\ work' = [work EXCEPT !.attempt = 0]

_close_attempt(outcome) ==
    /\ attempts' = IF work.attempt = 0 THEN attempts
                   ELSE [attempts EXCEPT ![work.attempt] = outcome]
    /\ work' = [work EXCEPT !.attempt = 0]

\* A first plan, or the next strategy: the attempt in flight ends here.
_strategy ==
    /\ Planless \/ Replans
    /\ ~Exhausted
    /\ ~waiting
    /\ _close_attempt("failed")
    /\ pc' = "devising"
    /\ UNCHANGED <<status, saved, waiting, noticed, toolVars, try, cuts>>

DeviseFails ==
    /\ pc = "devising"
    /\ _planning_failed(work)

DevisePlan ==
    /\ pc = "devising"
    /\ attempts' = Append(attempts, "open")
    /\ work' = [work EXCEPT !.attempt = Len(attempts) + 1]
    /\ pc' = "installing"
    /\ UNCHANGED <<status, saved, waiting, noticed, toolVars, try, cuts>>

_install_plan ==
    /\ pc = "installing"
    /\ Save([work EXCEPT !.strategy = @ + 1, !.failures = 0,
                         !.results = <<>>, !.planAttempts = 0])
    /\ waiting' = FALSE
    /\ status' = IF saved.strategy = 0 THEN "in_progress" ELSE status
    /\ UNCHANGED <<attempts, noticed, toolVars, cuts>>

GiveUp ==
    /\ Exhausted
    /\ pc' = "parking"
    /\ UNCHANGED <<goalVars, toolVars, work, try, cuts>>

-----------------------------------------------------------------------------
(* A step. *)

StepFailed ==
    /\ Save([work EXCEPT !.failures = @ + 1])
    /\ UNCHANGED <<status, attempts, noticed, toolVars, cuts>>

StepDone(chosen) ==
    /\ Save([work EXCEPT !.results = Append(@, chosen), !.failures = 0])
    /\ UNCHANGED <<status, waiting, attempts, noticed, toolVars, cuts>>

Executes == pc = "advancing" /\ StepsLeft /\ ~Stuck /\ ~waiting

\* The call raised, was cut off at its ceiling, or named no action.
NoAnswer == Executes /\ StepFailed /\ UNCHANGED waiting

RateLimited == Executes /\ StepFailed /\ waiting' = TRUE

DeclaredDone == Executes /\ StepDone(<<>>)

ChooseActions ==
    /\ Executes
    /\ \E chosen \in Choices :
          try' = [chosen |-> chosen, made |-> 0, failed |-> {}]
    /\ pc' = "acting"
    /\ UNCHANGED <<goalVars, toolVars, work, cuts>>

Key == <<work.strategy, Len(work.results) + 1, try.made + 1>>

Acting == pc = "acting" /\ try.made < Len(try.chosen)

\* failed holds the positions whose answer was not ok.
Answered(failed) ==
    /\ try' = [try EXCEPT !.made = @ + 1, !.failed = @ \cup failed]
    /\ UNCHANGED <<goalVars, pc, work, cuts>>

AnsweredOk    == Answered({})
AnsweredNotOk == Answered({try.made + 1})

\* The key is free and the tool runs; the row's last update may be lost.
ActionRuns ==
    /\ Acting
    /\ row[Key] = "free"
    /\ \E says \in {"ok", "unknown"} : row' = [row EXCEPT ![Key] = says]
    /\ did' = [did EXCEPT ![Key] = try.chosen[try.made + 1]]
    /\ AnsweredOk

ActionFails ==
    /\ Acting
    /\ row[Key] = "free"
    /\ \E says \in {"free", "unknown"} : row' = [row EXCEPT ![Key] = says]
    /\ UNCHANGED did
    /\ AnsweredNotOk

mutant_replay_unknown_ok ==
    /\ Acting
    /\ row[Key] # "free"
    /\ AnsweredOk
    /\ UNCHANGED toolVars

_replay ==
    /\ Acting
    /\ \/ row[Key] = "ok" /\ AnsweredOk
       \/ row[Key] = "unknown" /\ AnsweredNotOk
    /\ UNCHANGED toolVars

\* The plan's own check of the step may look and find the work wanting.
StepEnds ==
    /\ pc = "acting"
    /\ try.made = Len(try.chosen)
    /\ \/ try.failed = {} /\ StepDone(try.chosen)
       \/ StepFailed /\ UNCHANGED waiting

-----------------------------------------------------------------------------
(* The end. *)

Verifies == pc = "advancing" /\ work.strategy > 0 /\ ~StepsLeft

AwaitReview ==
    /\ Verifies
    /\ status' = "awaiting_review"
    /\ pc' = "noticing"
    /\ UNCHANGED <<saved, waiting, attempts, noticed, toolVars, work, try, cuts>>

VerificationPasses ==
    /\ Verifies
    /\ _close_attempt("succeeded")
    /\ pc' = "closing"
    /\ UNCHANGED <<status, saved, waiting, noticed, toolVars, try, cuts>>

VerificationFails ==
    /\ Verifies
    /\ status' = "in_progress"
    /\ pc' = "rejected"
    /\ UNCHANGED <<saved, waiting, attempts, noticed, toolVars, work, try, cuts>>

close_intention ==
    /\ \/ pc = "closing" /\ status' = "done"
       \/ pc = "parking" /\ status' = "parked"
    /\ pc' = "noticing"
    /\ UNCHANGED <<saved, waiting, attempts, noticed, toolVars, work, try, cuts>>

\* Nobody commissioned it, or the insert failed: stepped over.
_notice_stage ==
    /\ pc = "noticing"
    /\ noticed' \in {noticed, noticed \cup {status}}
    /\ pc' = "idle"
    /\ work' = saved
    /\ UNCHANGED <<status, saved, waiting, attempts, toolVars, try, cuts>>

-----------------------------------------------------------------------------
(* The environment. *)

WaitElapses ==
    /\ waiting
    /\ waiting' = FALSE
    /\ UNCHANGED <<status, saved, attempts, noticed, toolVars, passVars, cuts>>

\* The intent.close tool, in a step of this goal or in another pass.
IntentClose ==
    /\ pc \in {"idle", "acting"}
    /\ status \notin Closed
    /\ status' \in Closed
    /\ UNCHANGED <<saved, waiting, attempts, noticed, toolVars, passVars, cuts>>

\* A crash, a stop that cancels the pass, or an exception on its way out of it.
\* A tool in flight leaves its row running, and the next wake-up calls it
\* interrupted.
Cut ==
    /\ pc # "idle"
    /\ cuts < MaxCuts
    /\ cuts' = cuts + 1
    /\ pc' = "idle"
    /\ work' = saved
    /\ try' = NoTry
    /\ \/ UNCHANGED row
       \/ /\ Acting
          /\ row[Key] = "free"
          /\ row' = [row EXCEPT ![Key] = "unknown"]
    /\ UNCHANGED <<goalVars, did>>

-----------------------------------------------------------------------------

Pass ==
    \/ advance \/ ParkBudget \/ _backing_off
    \/ understand \/ _strategy \/ DeviseFails \/ DevisePlan \/ _install_plan
    \/ GiveUp
    \/ NoAnswer \/ RateLimited \/ DeclaredDone \/ ChooseActions
    \/ ActionRuns \/ ActionFails \/ _replay \/ StepEnds
    \/ AwaitReview \/ VerificationPasses \/ VerificationFails
    \/ close_intention \/ _notice_stage

Next == Pass \/ WaitElapses \/ IntentClose \/ Cut

Spec == Init /\ [][Next]_vars

\* A goal the life loop keeps in focus, and a clock.
FairSpec == Spec /\ WF_vars(Pass) /\ WF_vars(WaitElapses)

-----------------------------------------------------------------------------
(* Properties. *)

Worked == {k \in Keys : did[k] # Nothing}

\* A step is done only over work that happened: under the key of every action
\* the model chose for it, some action of this strategy is known to have run,
\* whatever was retried, replayed or cut in between.
StepsRestOnWork ==
    \A s \in DOMAIN saved.results : \A p \in DOMAIN saved.results[s] :
        <<saved.strategy, s, p>> \in Worked

\* And that action is the one chosen: a key names a position, not an action, so
\* this is not so (Toolhost._replay says ok=True must not mark a step done over
\* work that may never have run).
ChosenActionRan ==
    \A s \in DOMAIN saved.results : \A p \in DOMAIN saved.results[s] :
        did[<<saved.strategy, s, p>>] = saved.results[s][p]

\* Only a pass that is cut leaves an attempt row open that nothing names: all
\* others are closed before the next one starts (_strategy).
OnlyCutsOrphan ==
    Cardinality({a \in DOMAIN attempts :
        attempts[a] = "open" /\ a \notin {saved.attempt, work.attempt}}) <= cuts

\* The outcome of an attempt is written once (_close_attempt), unless a pass was
\* cut between that write and the save of the resume_state that forgets its id.
OutcomeStands ==
    [][\A a \in DOMAIN attempts :
          attempts[a] # "open" /\ attempts'[a] # attempts[a] => cuts > 0]_vars

\* No goal is worked for ever: again and again it is closed, or waiting for a
\* person, whatever fails on the way.
EveryGoalEnds == []<>(status \in Closed \cup {"awaiting_review"})

=============================================================================
