------------------------------- MODULE Verdict -------------------------------
(***************************************************************************)
(* One verification of a goal that says it is finished: the checks of the  *)
(* machine, the independent judge, the person (VerificationLadder.verify   *)
(* of gsl/verification.py, with acceptance.py and evaluator.py).           *)
(*                                                                         *)
(* The steps are the awaits of one task.  A changed code file is what the  *)
(* checks can make of it and the project it lies in; a check is its kind   *)
(* and the files its evidence says it covers.  What a command, a judge or  *)
(* a stated check finds is left open.                                      *)
(***************************************************************************)
EXTENDS Integers, FiniteSets, Sequences, Functions

CONSTANTS Files, Roots, none,
          MaxCommands,   \* gsl.code_check_max_commands
          StatedBound    \* bound of the model: stated checks of a goal

VerdictAssumption == {MaxCommands, StatedBound} \subseteq Nat

VARIABLES goal,       \* code files changed, stated criteria, human criterion, configuration
          at,
          checks,     \* the checks not yet made
          objective,  \* of the checks made: failed, observed, covered files, none made
          passed, human_pending, blocked,
          refuted,    \* history: a check that ran has failed
          raised,     \* history: a check could not even be evaluated
          held        \* history: files that parsed, or that a command that passed covers

vars == <<goal, at, checks, objective, passed, human_pending, blocked, refuted, raised, held>>

\* What _syntax_of makes of a file: it parses, it does not, there is no parser.
Syntax == {"ok", "error", "skip"}
Kinds == Syntax \cup {"gone"}
Stated == {"command", "observes", "unknown"}
Code == DOMAIN goal.code
There == {f \in Code : goal.code[f].kind # "gone"}
Clean == [failed |-> FALSE, observed |-> FALSE, covered |-> {}, empty |-> FALSE]

TypeOK ==
    /\ \A f \in Code : f \in Files /\ goal.code[f].kind \in Kinds /\ goal.code[f].root \in Roots \cup {none}
    /\ at \in {"derive", "checking", "coverage", "thread", "model", "human", "done"}
    /\ objective.covered \subseteq Code /\ held \subseteq Code
    /\ {passed, human_pending, blocked, refuted, raised, objective.failed} \subseteq BOOLEAN
    /\ \A i \in DOMAIN checks : checks[i].kind \in Stated \cup {"syntax", "project"} /\ checks[i].on \subseteq Code

changed_paths == UNION {[C -> [kind : Kinds, root : Roots \cup {none}]] : C \in SUBSET Files}
Init ==
    /\ goal \in [code : changed_paths, stated : UNION {[1 .. n -> Stated] : n \in 0 .. StatedBound},
                 human : BOOLEAN, strict : BOOLEAN, verify_code : BOOLEAN]
    /\ at = "derive" /\ checks = << >> /\ objective = Clean
    /\ passed = FALSE /\ human_pending = FALSE /\ blocked = FALSE
    /\ refuted = FALSE /\ raised = FALSE /\ held = {}

-----------------------------------------------------------------------------

\* A project can be asked its tests and its linter, as far as it has them and
\* they are installed here; each is named by the project, and one project's are
\* asked before the next one's, until the budget is spent.
project_root == {goal.code[f].root : f \in Code} \ {none}
_project_commands ==
    {q \in UNION {[1 .. n -> project_root] : n \in 0 .. MaxCommands} :
        \A i, j \in DOMAIN q : i < j /\ q[i] = q[j] => j = i + 1}
Under(r) == {f \in Code : goal.code[f].root = r}

\* The syntax of the changed files, then each project's own commands; the goal's
\* own command stands in for those.
derive_checks(commands) ==
    IF Code = {} \/ ~goal.verify_code THEN << >>
    ELSE <<[kind |-> "syntax", on |-> {}]>> \o
         (IF "command" \in Range(goal.stated) THEN << >>
          ELSE [i \in DOMAIN commands |-> [kind |-> "project", on |-> Under(commands[i])]])

_derive ==
    /\ at = "derive" /\ at' = "checking"
    /\ \E commands \in _project_commands, on \in {{}, Code} :
         \/ LET all == [i \in DOMAIN goal.stated |-> [kind |-> goal.stated[i], on |-> on]] \o derive_checks(commands)
            IN  checks' = all /\ objective' = [Clean EXCEPT !.empty = (all = << >>)]
         \/ /\ Code # {} /\ goal.verify_code   \* OSError: nothing derived, and a note
            /\ checks' = [i \in DOMAIN goal.stated |-> [kind |-> goal.stated[i], on |-> on]]
            /\ objective' = [Clean EXCEPT !.empty = (goal.stated = << >>)]
    /\ UNCHANGED <<goal, passed, human_pending, blocked, refuted, raised, held>>

Made(ok, observed, covered, proves) ==
    /\ checks' = Tail(checks)
    /\ objective' = [objective EXCEPT !.failed = @ \/ ~ok, !.observed = @ \/ observed, !.covered = @ \cup covered]
    /\ refuted' = (refuted \/ (observed /\ ~ok)) /\ held' = held \cup proves
    /\ UNCHANGED <<goal, at, passed, human_pending, blocked, raised>>
Checking(kinds) == at = "checking" /\ checks # << >> /\ Head(checks).kind \in kinds

_check_syntax ==
    /\ Checking({"syntax"})
    /\ LET parsed == {f \in Code : goal.code[f].kind = "ok"}
           errors == {f \in Code : goal.code[f].kind = "error"}
       IN  Made(errors = {}, parsed \cup errors # {}, parsed, parsed)
\* Passed, failed (a timeout too), or not started; its directory counts as covered.
_check_command ==
    /\ Checking({"command", "project"})
    /\ \E ran, ok \in BOOLEAN :
         /\ ok => ran
         /\ Made(ok, ran, Head(checks).on, IF ok THEN Head(checks).on ELSE {})
_check_observes == Checking({"observes"}) /\ \E ok, observed \in BOOLEAN : (ok => observed) /\ Made(ok, observed, {}, {})
_check_unknown == Checking({"unknown"}) /\ Made(TRUE, FALSE, {}, {})

\* Whatever raises (a directory to be read as a file, a URL that is none) ends
\* the checks and takes with it what they have found.
objective_failed ==
    /\ Checking({"observes"})
    /\ at' = "coverage" /\ checks' = << >> /\ raised' = TRUE
    /\ objective' = [Clean EXCEPT !.empty = TRUE]
    /\ UNCHANGED <<goal, passed, human_pending, blocked, refuted, held>>
evaluate_objective ==
    /\ at = "checking" /\ checks = << >> /\ at' = "coverage"
    /\ passed' = (~objective.empty /\ ~objective.failed)
    /\ UNCHANGED <<goal, checks, objective, human_pending, blocked, refuted, raised, held>>

\* Variants named mutant_* are mistakes the properties must catch.
mutant_uncovered_paths == {}
uncovered_paths == There \ objective.covered

Blocked == goal.strict /\ (uncovered_paths # {} \/ (Code # {} /\ ~(passed /\ objective.observed)))

Coverage(commissioned) ==   \* commissioned, a venture or a commitment
    /\ at = "coverage"
    /\ blocked' = Blocked /\ passed' = (passed /\ ~Blocked)
    /\ LET hard == ~passed
           unstated == goal.stated = << >> /\ goal.human
       IN  at' = IF ~passed' \/ commissioned \/ hard \/ unstated THEN "thread" ELSE "human"
    /\ UNCHANGED <<goal, checks, objective, human_pending, refuted, raised, held>>

\* A judge's pass counts only where no check failed and the code was looked at.
mutant_Accepts(verdict) == verdict = "pass" /\ ~blocked
Accepts(verdict) == verdict = "pass" /\ ~objective.failed /\ ~blocked
Judged(verdict) ==
    /\ at' = "human" /\ passed' = Accepts(verdict)
    /\ human_pending' = (verdict # "pass" /\ (verdict = "needs_human" \/ goal.human))
    /\ UNCHANGED <<goal, checks, objective, blocked, refuted, raised, held>>

\* The judge is a thread of its own and, when that cannot be had, comes too late
\* or says no verdict, a model; a model that cannot be asked wants a person.
_independent_verifier(verdict) == at = "thread" /\ Judged(verdict)
NoThread == at = "thread" /\ at' = "model"
            /\ UNCHANGED <<goal, checks, objective, passed, human_pending, blocked, refuted, raised, held>>
run_model_verifier(verdict) == at = "model" /\ Judged(verdict)

HumanReview ==
    /\ at = "human" /\ at' = "done"
    /\ human_pending' = (human_pending \/ goal.human) /\ passed' = (passed /\ ~goal.human)
    /\ UNCHANGED <<goal, checks, objective, blocked, refuted, raised, held>>

Next ==
    \/ _derive \/ _check_syntax \/ _check_command \/ _check_observes \/ _check_unknown
    \/ objective_failed \/ evaluate_objective
    \/ \E commissioned \in BOOLEAN : Coverage(commissioned)
    \/ \E v \in {"pass", "fail", "needs_human"} : _independent_verifier(v) \/ run_model_verifier(v)
    \/ NoThread \/ HumanReview
Spec == Init /\ [][Next]_vars

-----------------------------------------------------------------------------

Verdict == at = "done" /\ passed

\* Code that nothing looked at is not verified: of work that passes, every
\* changed file that is still there parsed, or lies where a command that passed
\* was run, whether it was the checks or the judge that let it pass.
CodeIsLookedAt == (Verdict /\ goal.strict) => There \subseteq held

\* A check that ran and failed is not outvoted: not by the judge, and not by a
\* later check that cannot be evaluated, where code was changed.
FailedCheckStands == (Verdict /\ (~raised \/ (goal.strict /\ Code # {}))) => ~refuted

\* "A check that ran outranks a model that says so." (VerificationLadder)
CheckThatRanOutranks == Verdict => ~refuted
=============================================================================
