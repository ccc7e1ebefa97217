------------------------------ MODULE Gateway ------------------------------
(***************************************************************************)
(* GatewayService.complete (ethos/gateway/service.py) with its router, its *)
(* circuit breakers, its rate limiter and its spend guard.  Callers are    *)
(* tasks of one process, each with one call of complete at a time; a step  *)
(* runs from one await to the next.  A charged answer costs one unit and   *)
(* the estimate of a call is one unit.                                     *)
(***************************************************************************)
EXTENDS Naturals, FiniteSets

CONSTANTS Callers,        \* tasks that call complete
          Discretionary,  \* those whose budget_bucket is "discretionary"
          Catalogue,      \* entries of models.yaml
          Bases,          \* entries a base-model file may pin
          NoBase,         \* no base model is configured
          Keyless,        \* entries whose provider has no key
          Suits,          \* caller |-> the entries its request passes the filters of
          Hinted,         \* caller |-> those of them its hints name
          DailyCap, Reserve,          \* H2_daily_spend_usd, commitment_cap
          MaxAttempts,                \* 1 + max_retries
          MaxFailures, PinLimit,      \* circuit_breaker.max_failures, PIN_STREAK_LIMIT
          MaxEvents                   \* bound: cancelled calls, failed inserts, midnights and
                          \* saved settings

Entries == Catalogue \cup Bases

ASSUME GatewayAssumption ==
    /\ Discretionary \subseteq Callers /\ IsFiniteSet(Callers) /\ Callers # {}
    /\ NoBase \notin Entries /\ Keyless \subseteq Entries
    /\ Suits \in [Callers -> SUBSET Entries]
    /\ Hinted \in [Callers -> SUBSET Entries]
    /\ DailyCap \in Nat /\ Reserve \in 0 .. DailyCap
    /\ MaxAttempts \in Nat \ {0} /\ MaxFailures \in Nat \ {0}
    /\ PinLimit \in Nat \ {0} /\ MaxEvents \in Nat

VARIABLES base, baseFile, \* the pinned entry, and the one the settings file names
          bad, opened,    \* breakers: failures in the window; "no", "open" or "cooled"
          streak,         \* failures_consecutive
          spent,          \* model_calls of today: bucket |-> cost
          call,           \* what each caller's complete is doing
          refused,        \* history: entries that refused this call's credential
          events          \* how many of those so far

routerVars == <<bad, opened, streak>>
baseVars   == <<base, baseFile>>
vars       == <<baseVars, routerVars, spent, call, refused, events>>

Buckets  == {"commitment", "discretionary"}
Scopes   == {"model", "request", "provider"}
\* An outcome of provider.complete and _readable.
Outcome  == [ok : BOOLEAN, scope : Scopes, charged : BOOLEAN, counts : BOOLEAN,
             retryable : BOOLEAN, throttled : BOOLEAN]
Failed(scope, charged, counts, retryable, throttled) ==
    [ok |-> FALSE, scope |-> scope, charged |-> charged, counts |-> counts,
     retryable |-> retryable, throttled |-> throttled]
\* What _readable makes of a body, and failure_scope of an exception.
Answered == [ok |-> TRUE, scope |-> "provider", charged |-> TRUE, counts |-> FALSE,
             retryable |-> FALSE, throttled |-> FALSE]
_readable == {Answered,
              Failed("provider", TRUE, TRUE, TRUE, FALSE),   \* an empty body
              Failed("request", TRUE, FALSE, TRUE, FALSE)}   \* only thinking, or cut off
post_json == {Failed("model", FALSE, TRUE, FALSE, FALSE),    \* 401, 403
              Failed("request", FALSE, TRUE, FALSE, FALSE),  \* 400, 413, 422
              Failed("provider", FALSE, TRUE, FALSE, FALSE), \* another status below 500
              Failed("provider", FALSE, TRUE, TRUE, TRUE),   \* 429
              Failed("provider", FALSE, TRUE, TRUE, FALSE)}  \* 408, 5xx, no connection

Places == {"idle", "checking", "waiting", "vetting", "asking",
           "noting", "recording", "sleeping"}
Resting == [at |-> "idle", entry |-> NoBase, tried |-> {}, attempt |-> 0, outcome |-> Answered]

TypeOK ==
    /\ base \in Bases \cup {NoBase} /\ baseFile \in Bases \cup {NoBase}
    /\ bad \in [Entries -> 0 .. MaxFailures]
    /\ opened \in [Entries -> {"no", "open", "cooled"}]
    /\ streak \in [Entries -> 0 .. PinLimit]
    /\ spent \in [Buckets -> Nat]
    /\ call \in [Callers -> [at : Places, entry : Entries \cup {NoBase},
                             tried : SUBSET Entries, attempt : 0 .. MaxAttempts - 1,
                             outcome : Outcome]]
    /\ refused \in [Callers -> SUBSET Entries]
    /\ events \in 0 .. MaxEvents

Init ==
    /\ baseFile \in Bases \cup {NoBase} /\ base = baseFile
    /\ bad = [e \in Entries |-> 0]
    /\ opened = [e \in Entries |-> "no"]
    /\ streak = [e \in Entries |-> 0]
    /\ spent = [b \in Buckets |-> 0]
    /\ call = [c \in Callers |-> Resting]
    /\ refused = [c \in Callers |-> {}]
    /\ events = 0

-----------------------------------------------------------------------------
(* SpendGuard.  Variants named mutant_* are mistakes the properties must   *)
(* catch; no action uses them.                                             *)

bucketOf(c) == IF c \in Discretionary THEN "discretionary" ELSE "commitment"
CapOf(b)    == IF b = "commitment" THEN Reserve ELSE DailyCap - Reserve
dayTotal    == spent["commitment"] + spent["discretionary"]

mutant_check_any_left(c) == dayTotal <= DailyCap
check(c) ==
    /\ dayTotal + 1 <= DailyCap
    /\ spent[bucketOf(c)] + 1 <= CapOf(bucketOf(c))

Charged(c) == [spent EXCEPT ![bucketOf(c)] = @ + 1]

-----------------------------------------------------------------------------
(* ModelRouter and CircuitBreaker. *)

\* is_open forgets a breaker whose cooldown is over when it is asked.
is_open(e)     == opened[e] = "open"
AskedOpen(E)   == opened' = [e \in Entries |-> IF e \in E /\ opened[e] = "cooled" THEN "no" ELSE opened[e]]
AskedEvents(E) == bad' = [e \in Entries |-> IF e \in E /\ opened[e] = "cooled" THEN 0 ELSE bad[e]]

\* record: the window has dropped some of the older failures, and a breaker
\* at its limit opens, again if it was open, whatever the newest event was.
record(e, ok) ==
    \E kept \in 0 .. bad[e] :
      LET n == IF ok \/ kept = MaxFailures THEN kept ELSE kept + 1 IN
      /\ bad' = [bad EXCEPT ![e] = n]
      /\ opened' = [opened EXCEPT ![e] = IF n >= MaxFailures THEN "open" ELSE @]
record_success(e) == record(e, TRUE) /\ streak' = [streak EXCEPT ![e] = 0]
record_failure(e) ==
    /\ record(e, FALSE)
    /\ streak' = [streak EXCEPT ![e] = IF @ = PinLimit THEN @ ELSE @ + 1]

failing_hard(e)        == streak[e] >= PinLimit
_is_entry_available(e) == e \notin Keyless /\ ~is_open(e)

\* The live catalogue, the entries that pass the filters that are facts about
\* the request, and those of them that can be asked now.
Models           == Catalogue \cup ({base} \ {NoBase})
Fitting(S, X)    == (S \cap Models) \ X
Candidates(S, X) == {e \in Fitting(S, X) : _is_entry_available(e)}
\* The entries select asks: the hints are dropped when they leave nothing.
Asks(c, X) == IF Candidates(Hinted[c] \cap Suits[c], X) # {} THEN Hinted[c] \cap Suits[c] ELSE Suits[c]
Looked(c, X) == Fitting(Hinted[c] \cap Suits[c], X) \cup Fitting(Asks(c, X), X)

\* select: the entries it may return.  NoBase stands for NoModelAvailable; the
\* score is free, and every ranked entry may be below the tier's floor.
select(c, X) ==
    LET found  == Candidates(Asks(c, X), X)
        ranked == found \ {base}
    IN  IF found = {} THEN {NoBase}
        ELSE IF base \in found /\ (~failing_hard(base) \/ ranked = {}) THEN {base}
        ELSE ranked \cup (IF base \in found THEN {base} ELSE {NoBase})
transient(c, X) == Fitting(Suits[c], X) # {}

-----------------------------------------------------------------------------
(* complete. *)

Goes(c, place) == call' = [call EXCEPT ![c].at = place]
\* The call returns or raises.
Returns(c) ==
    /\ call' = [call EXCEPT ![c] = Resting]
    /\ refused' = [refused EXCEPT ![c] = {}]

sync_base_model == base' = baseFile

complete(c) ==
    /\ call[c].at = "idle"
    /\ sync_base_model
    /\ Catalogue \cup ({baseFile} \ {NoBase}) # {}
    /\ Goes(c, "checking")
    /\ UNCHANGED <<baseFile, routerVars, spent, refused, events>>

\* The check of the cheapest cost, then _entry_for: an entry, a wait for one
\* that cannot be asked now, or the end.
_entry_for(c) ==
    /\ call[c].at \in {"checking", "waiting"}
    /\ \/ /\ call[c].at = "checking" /\ ~check(c)
          /\ Returns(c)
          /\ UNCHANGED <<bad, opened>>
       \/ /\ call[c].at = "checking" => check(c)
          /\ AskedOpen(Looked(c, {})) /\ AskedEvents(Looked(c, {}))
          /\ \E e \in select(c, {}) :
               IF e # NoBase
               THEN /\ call' = [call EXCEPT ![c].at = "vetting", ![c].entry = e, ![c].attempt = 0]
                    /\ UNCHANGED refused
               ELSE IF transient(c, {}) /\ call[c].attempt < MaxAttempts - 1
                       /\ Candidates(Suits[c], {}) = {}
               THEN /\ call' = [call EXCEPT ![c].at = "waiting", ![c].attempt = @ + 1]
                    /\ UNCHANGED refused
               ELSE Returns(c)
    /\ UNCHANGED <<baseVars, streak, spent, events>>

\* The limiter stands outside the try: its TimeoutError ends the call.
acquire(c) ==
    \/ Goes(c, "asking") /\ UNCHANGED refused
    \/ Returns(c)

\* The check of this entry's estimate, and the limiter.
vet(c) ==
    /\ call[c].at = "vetting"
    /\ \/ check(c) /\ acquire(c)
       \/ ~check(c) /\ Returns(c)
    /\ UNCHANGED <<baseVars, routerVars, spent, events>>

\* provider.complete answers or raises.
Answers(c) ==
    /\ call[c].at = "asking"
    /\ \E o \in _readable \cup post_json :
         /\ call' = [call EXCEPT ![c].at = IF o.ok THEN "recording" ELSE "noting", ![c].outcome = o]
         /\ refused' = [refused EXCEPT ![c] = IF o.scope = "model" THEN @ \cup {call[c].entry} ELSE @]
         /\ IF o.ok THEN record_success(call[c].entry)
            ELSE IF o.scope = "model" \/ o.counts THEN record_failure(call[c].entry)
            ELSE UNCHANGED routerVars
    /\ UNCHANGED <<baseVars, spent, events>>

_record_success(c) ==
    /\ call[c].at = "recording"
    /\ spent' = Charged(c)
    /\ Returns(c)
    /\ UNCHANGED <<baseVars, routerVars, events>>

mutant_Tried_provider_only(c) ==
    IF call[c].outcome.scope = "provider" THEN call[c].tried \cup {call[c].entry} ELSE call[c].tried
Tried(c) == call[c].tried \cup {call[c].entry}

mutant_Spends_throttled_free(c) ==
    IF call[c].outcome.throttled THEN call[c].attempt ELSE call[c].attempt + 1
Spends(c) == call[c].attempt + 1

\* Where the next attempt goes; NoBase when there is nowhere left.
_next_entry(c) ==
    {IF e # NoBase THEN e
     ELSE IF call[c].outcome.scope = "model" THEN NoBase ELSE call[c].entry :
        e \in select(c, Tried(c))}

\* The call ends or goes on, asleep unless the model changes and nobody was
\* throttled.
Retries(c) ==
    IF \/ ~call[c].outcome.retryable /\ call[c].outcome.scope # "model"
       \/ call[c].attempt = MaxAttempts - 1
    THEN Returns(c) /\ UNCHANGED <<bad, opened>>
    ELSE /\ AskedOpen(Looked(c, Tried(c))) /\ AskedEvents(Looked(c, Tried(c)))
         /\ \E e \in _next_entry(c) :
              IF e = NoBase THEN Returns(c)
              ELSE /\ call' = [call EXCEPT ![c] =
                        [at |-> IF e = @.entry \/ @.outcome.throttled THEN "sleeping" ELSE "vetting",
                         entry |-> e, tried |-> Tried(c), attempt |-> Spends(c), outcome |-> Answered]]
                   /\ UNCHANGED refused

_note_failure(c) ==
    /\ call[c].at = "noting"
    /\ spent' = IF call[c].outcome.charged THEN Charged(c) ELSE spent
    /\ Retries(c)
    /\ UNCHANGED <<baseVars, streak, events>>

_sleep_before_retry(c) ==
    /\ call[c].at = "sleeping"
    /\ Goes(c, "vetting")
    /\ UNCHANGED <<baseVars, routerVars, spent, refused, events>>

\* The insert of the ledger's row fails, or the task is cancelled at an await.
Fault(c) ==
    /\ call[c].at # "idle"
    /\ events < MaxEvents
    /\ events' = events + 1
    /\ Returns(c)
    /\ UNCHANGED <<baseVars, routerVars, spent>>

-----------------------------------------------------------------------------
(* The clock and the settings file. *)

CooldownEnds(e) ==
    /\ opened[e] = "open"
    /\ opened' = [opened EXCEPT ![e] = "cooled"]
    /\ UNCHANGED <<baseVars, bad, streak, spent, call, refused, events>>
start_of_day ==
    /\ dayTotal > 0 /\ events < MaxEvents
    /\ events' = events + 1
    /\ spent' = [b \in Buckets |-> 0]
    /\ UNCHANGED <<baseVars, routerVars, call, refused>>
\* Any request to the service compares the settings file first.
healthz ==
    /\ sync_base_model
    /\ UNCHANGED <<baseFile, routerVars, spent, call, refused, events>>
BaseSaved ==
    /\ events < MaxEvents
    /\ events' = events + 1
    /\ baseFile' \in (Bases \cup {NoBase}) \ {baseFile}
    /\ UNCHANGED <<base, routerVars, spent, call, refused>>

Works(c) ==
    \/ _entry_for(c) \/ vet(c) \/ Answers(c) \/ _record_success(c)
    \/ _note_failure(c) \/ _sleep_before_retry(c)
Next ==
    \/ \E c \in Callers : complete(c) \/ Works(c) \/ Fault(c)
    \/ \E e \in Entries : CooldownEnds(e)
    \/ start_of_day \/ BaseSaved \/ healthz

\* A call makes progress: providers answer or time out, and sleeps end.
Fairness == /\ \A c \in Callers : WF_vars(Works(c))
            /\ \A e \in Entries : WF_vars(CooldownEnds(e))
Spec == Init /\ [][Next]_vars /\ Fairness

-----------------------------------------------------------------------------

\* A day's ledger exceeds the cap of the day, and of each bucket, only by the
\* calls that had passed the check together with the last one allowed: the
\* check reads before the call and the row is written after it.  An answer on
\* its way to the ledger is counted as spent.
Passed(c) == call[c].at \in {"asking", "noting", "recording"}
Paying(C) == Cardinality({c \in C : Passed(c)})
CapsOvershoot ==
    /\ dayTotal + Paying(Callers) <= DailyCap + Cardinality(Callers) - 1
    /\ \A b \in Buckets :
         LET C == {c \in Callers : bucketOf(c) = b} IN
         C # {} => spent[b] + Paying(C) <= CapOf(b) + Cardinality(C) - 1

\* A key that was refused is not tried again by the same call, however the
\* call goes on (_next_entry's docstring, service.py:531-538).
RefusedKeyIsLeft ==
    \A c \in Callers :
      call[c].at \in {"vetting", "asking", "sleeping"} => call[c].entry \notin refused[c]
RoutingSafe == TypeOK /\ RefusedKeyIsLeft

\* Every call of complete ends, whatever providers, keys and breakers do.
EveryCallEnds == \A c \in Callers : call[c].at # "idle" ~> call[c].at = "idle"

\* NoModelAvailable's docstring (router.py:15-24) and _entry_for's
\* (service.py:701-704): a request waits only for an entry that will be back by
\* itself, not for one that nothing but a change of the deployment can help.
WaitsForOneThatReturns ==
    \A c \in Callers : call[c].at = "waiting" => Suits[c] \ Keyless # {}
=============================================================================
