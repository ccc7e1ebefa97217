--------------------------- MODULE GatewayProofs ---------------------------
(***************************************************************************)
(* What GatewayService.complete keeps whatever the catalogue, the callers, *)
(* the caps and the limits are: its types, that a call leaves an entry     *)
(* that refused its credential, and by how much the ledger may pass a cap. *)
(***************************************************************************)
EXTENDS Gateway, FiniteSetTheorems, TLAPS

Calls == [at : Places, entry : Entries \cup {NoBase}, tried : SUBSET Entries,
          attempt : 0 .. MaxAttempts - 1, outcome : Outcome]

LEMMA NatBounds ==
    MaxAttempts \in Nat \ {0} /\ MaxFailures \in Nat \ {0} /\ PinLimit \in Nat \ {0} /\ MaxEvents \in Nat
  BY GatewayAssumption DEF GatewayAssumption

LEMMA OutcomesAreOutcomes == _readable \cup post_json \subseteq Outcome
<1>1. \A scope \in Scopes, ch, co, re, th \in BOOLEAN : Failed(scope, ch, co, re, th) \in Outcome
  BY DEF Failed, Outcome
<1>2. Answered \in Outcome
  BY DEF Answered, Outcome, Scopes
<1>3. "model" \in Scopes /\ "request" \in Scopes /\ "provider" \in Scopes
  BY DEF Scopes
<1>4. TRUE \in BOOLEAN /\ FALSE \in BOOLEAN
  OBVIOUS
<1>5. _readable \subseteq Outcome
  BY <1>1, <1>2, <1>3, <1>4 DEF _readable
<1>6. post_json \subseteq Outcome
  BY <1>1, <1>3, <1>4 DEF post_json
<1>7. QED
  BY <1>5, <1>6

LEMMA RestingIsACall == Resting \in Calls
<1>1. Answered \in Outcome
  BY OutcomesAreOutcomes DEF _readable
<1>2. 0 \in 0 .. MaxAttempts - 1
  BY NatBounds
<1>3. QED
  BY <1>1, <1>2 DEF Resting, Calls, Places

-----------------------------------------------------------------------------
(* Breakers and entries. *)

LEMMA RecordType ==
    ASSUME bad \in [Entries -> 0 .. MaxFailures], opened \in [Entries -> {"no", "open", "cooled"}],
           NEW e \in Entries, NEW ok \in BOOLEAN, record(e, ok)
    PROVE  bad' \in [Entries -> 0 .. MaxFailures] /\ opened' \in [Entries -> {"no", "open", "cooled"}]
<1>1. PICK kept \in 0 .. bad[e] :
         LET n == IF ok \/ kept = MaxFailures THEN kept ELSE kept + 1 IN
         /\ bad' = [bad EXCEPT ![e] = n]
         /\ opened' = [opened EXCEPT ![e] = IF n >= MaxFailures THEN "open" ELSE @]
  BY DEF record
<1> DEFINE n == IF ok \/ kept = MaxFailures THEN kept ELSE kept + 1
<1>2. n \in 0 .. MaxFailures
  BY <1>1, NatBounds
<1>3. bad' = [bad EXCEPT ![e] = n] /\ opened' = [opened EXCEPT ![e] = IF n >= MaxFailures THEN "open" ELSE @]
  BY <1>1
<1> HIDE DEF n
<1>4. QED
  BY <1>2, <1>3

LEMMA AskedType ==
    ASSUME bad \in [Entries -> 0 .. MaxFailures], opened \in [Entries -> {"no", "open", "cooled"}],
           NEW E, AskedOpen(E), AskedEvents(E)
    PROVE  bad' \in [Entries -> 0 .. MaxFailures] /\ opened' \in [Entries -> {"no", "open", "cooled"}]
  BY NatBounds DEF AskedOpen, AskedEvents

\* An entry the router returns is one the call has not tried, or none.
LEMMA SelectedIsUntried ==
    ASSUME base \in Bases \cup {NoBase}, NEW c, NEW X, NEW e \in select(c, X)
    PROVE  e = NoBase \/ (e \in Entries /\ e \notin X)
<1> DEFINE found == Candidates(Asks(c, X), X)
           ranked == found \ {base}
<1>1. \A x \in found : x \in Entries /\ x \notin X
  BY DEF Candidates, Fitting, Models, Entries
<1>2. e \in IF found = {} THEN {NoBase}
            ELSE IF base \in found /\ (~failing_hard(base) \/ ranked = {}) THEN {base}
            ELSE ranked \cup (IF base \in found THEN {base} ELSE {NoBase})
  BY DEF select
<1> HIDE DEF found
<1>3. QED
  BY <1>1, <1>2

-----------------------------------------------------------------------------
(* What is kept of one caller: r is its call, R the entries that refused it. *)

Left(r, R) ==
    /\ r.at \in {"idle", "checking", "waiting"} => R = {}
    /\ r.at \in {"vetting", "asking", "noting", "recording", "sleeping"} => r.entry \in Entries
    /\ r.at \in {"vetting", "asking", "sleeping"} => R \subseteq r.tried /\ r.entry \notin R
    /\ r.at = "noting" =>
         R \subseteq r.tried \cup {r.entry} /\ (r.outcome.scope # "model" => r.entry \notin R)

CallsLeft == \A c \in Callers : Left(call[c], refused[c])

\* The inductive invariant.
RoutingInv == TypeOK /\ CallsLeft

LEMMA CallTyped == TypeOK => call \in [Callers -> Calls] /\ refused \in [Callers -> SUBSET Entries]
  BY DEF TypeOK, Calls

\* What a step does to one call it does to no other.
LEMMA OneCall ==
    ASSUME RoutingInv, NEW c \in Callers, NEW r \in Calls, NEW R \in SUBSET Entries, Left(r, R),
           call' = [call EXCEPT ![c] = r], refused' = [refused EXCEPT ![c] = R]
    PROVE  call' \in [Callers -> Calls] /\ refused' \in [Callers -> SUBSET Entries] /\ CallsLeft'
<1>1. call \in [Callers -> Calls] /\ refused \in [Callers -> SUBSET Entries]
  BY CallTyped DEF RoutingInv
<1>2. call' \in [Callers -> Calls] /\ refused' \in [Callers -> SUBSET Entries]
  BY <1>1
<1>3. ASSUME NEW d \in Callers PROVE Left(call'[d], refused'[d])
  <2>1. CASE d = c
    <3>1. call'[d] = r /\ refused'[d] = R
      BY <1>1, <2>1
    <3>2. QED
      BY <3>1
  <2>2. CASE d # c
    <3>1. call'[d] = call[d] /\ refused'[d] = refused[d]
      BY <1>1, <2>2
    <3>2. QED
      BY <3>1 DEF RoutingInv, CallsLeft
  <2>3. QED
    BY <2>1, <2>2
<1>4. CallsLeft'
  BY <1>3 DEF CallsLeft, Left
<1>5. QED
  BY <1>2, <1>4

\* A call that returns leaves nothing behind.
LEMMA Returned ==
    ASSUME RoutingInv, NEW c \in Callers, Returns(c)
    PROVE  call' \in [Callers -> Calls] /\ refused' \in [Callers -> SUBSET Entries] /\ CallsLeft'
<1>1. Left(Resting, {})
  BY DEF Left, Resting
<1>2. QED
  BY <1>1, RestingIsACall, OneCall DEF Returns

\* A call that only goes to another place.
LEMMA WentTo ==
    ASSUME RoutingInv, NEW c \in Callers, NEW place \in Places, Goes(c, place), UNCHANGED refused,
           \/ call[c].at = "idle" /\ place = "checking"
           \/ call[c].at \in {"vetting", "sleeping"} /\ place \in {"asking", "vetting"}
    PROVE  call' \in [Callers -> Calls] /\ refused' \in [Callers -> SUBSET Entries] /\ CallsLeft'
<1> DEFINE r == [call[c] EXCEPT !.at = place]
<1>1. call \in [Callers -> Calls] /\ refused \in [Callers -> SUBSET Entries]
  BY CallTyped DEF RoutingInv
<1>2. call[c] \in Calls /\ Left(call[c], refused[c])
  BY <1>1 DEF RoutingInv, CallsLeft
<1>3. r \in Calls /\ r.at = place /\ r.entry = call[c].entry /\ r.tried = call[c].tried
      /\ r.outcome = call[c].outcome
  BY <1>2 DEF Calls
<1>4. call' = [call EXCEPT ![c] = r] /\ refused' = [refused EXCEPT ![c] = refused[c]]
  BY <1>1 DEF Goes
<1> HIDE DEF r
<1>5. Left(r, refused[c])
  BY <1>2, <1>3 DEF Left
<1>6. refused[c] \in SUBSET Entries
  BY <1>1
<1>7. QED
  BY <1>3, <1>4, <1>5, <1>6, OneCall

-----------------------------------------------------------------------------
(* The steps of a call. *)

CallsKept == call' \in [Callers -> Calls] /\ refused' \in [Callers -> SUBSET Entries] /\ CallsLeft'

LEMMA LookKeepsCalls ==
    ASSUME RoutingInv, NEW c \in Callers, _entry_for(c) PROVE CallsKept
<1>1. call \in [Callers -> Calls] /\ refused \in [Callers -> SUBSET Entries]
  BY CallTyped DEF RoutingInv
<1>2. call[c] \in Calls /\ refused[c] = {} /\ call[c].attempt \in 0 .. MaxAttempts - 1
  BY <1>1 DEF RoutingInv, CallsLeft, Left, _entry_for, Calls
<1>3. CASE Returns(c)
  BY <1>3, Returned DEF CallsKept
<1>4. ASSUME NEW e \in select(c, {}), e # NoBase, UNCHANGED refused,
             call' = [call EXCEPT ![c].at = "vetting", ![c].entry = e, ![c].attempt = 0]
      PROVE  CallsKept
  <2> DEFINE r == [call[c] EXCEPT !.at = "vetting", !.entry = e, !.attempt = 0]
  <2>1. e \in Entries
    BY <1>4, SelectedIsUntried DEF RoutingInv, TypeOK
  <2>2. 0 \in 0 .. MaxAttempts - 1
    BY NatBounds
  <2>3. r \in Calls /\ r.at = "vetting" /\ r.entry = e
    BY <1>2, <2>1, <2>2 DEF Calls, Places
  <2>4. call' = [call EXCEPT ![c] = r] /\ refused' = [refused EXCEPT ![c] = {}]
    BY <1>1, <1>2, <1>4
  <2> HIDE DEF r
  <2>5. Left(r, {})
    BY <2>1, <2>3 DEF Left
  <2>6. QED
    BY <2>3, <2>4, <2>5, OneCall DEF CallsKept
<1>5. ASSUME UNCHANGED refused, call[c].attempt < MaxAttempts - 1,
             call' = [call EXCEPT ![c].at = "waiting", ![c].attempt = @ + 1]
      PROVE  CallsKept
  <2> DEFINE r == [call[c] EXCEPT !.at = "waiting", !.attempt = @ + 1]
  <2>1. call[c].attempt + 1 \in 0 .. MaxAttempts - 1
    BY <1>2, <1>5, NatBounds
  <2>2. r \in Calls /\ r.at = "waiting"
    BY <1>2, <2>1 DEF Calls, Places
  <2>3. call' = [call EXCEPT ![c] = r] /\ refused' = [refused EXCEPT ![c] = {}]
    BY <1>1, <1>2, <1>5
  <2> HIDE DEF r
  <2>4. Left(r, {})
    BY <2>2 DEF Left
  <2>5. QED
    BY <2>2, <2>3, <2>4, OneCall DEF CallsKept
<1>6. QED
  BY <1>3, <1>4, <1>5 DEF _entry_for

LEMMA AnswerKeepsCalls ==
    ASSUME RoutingInv, NEW c \in Callers, Answers(c) PROVE CallsKept
<1>1. call \in [Callers -> Calls] /\ refused \in [Callers -> SUBSET Entries]
  BY CallTyped DEF RoutingInv
<1>2. call[c] \in Calls /\ refused[c] \in SUBSET Entries
      /\ refused[c] \subseteq call[c].tried /\ call[c].entry \in Entries \ refused[c]
  BY <1>1 DEF RoutingInv, CallsLeft, Left, Answers
<1>3. PICK o \in _readable \cup post_json :
        /\ call' = [call EXCEPT ![c].at = IF o.ok THEN "recording" ELSE "noting", ![c].outcome = o]
        /\ refused' = [refused EXCEPT ![c] = IF o.scope = "model" THEN @ \cup {call[c].entry} ELSE @]
  BY DEF Answers
<1> DEFINE place == IF o.ok THEN "recording" ELSE "noting"
           r == [call[c] EXCEPT !.at = place, !.outcome = o]
           R == IF o.scope = "model" THEN refused[c] \cup {call[c].entry} ELSE refused[c]
<1>4. o \in Outcome
  BY OutcomesAreOutcomes
<1>5. place \in {"recording", "noting"}
  OBVIOUS
<1>6. call' = [call EXCEPT ![c] = r] /\ refused' = [refused EXCEPT ![c] = R]
  BY <1>1, <1>3
<1> HIDE DEF place
<1>7. r \in Calls /\ r.at = place /\ r.entry = call[c].entry /\ r.tried = call[c].tried /\ r.outcome = o
  BY <1>2, <1>4, <1>5 DEF Calls, Places
<1> HIDE DEF r
<1>8. R \in SUBSET Entries
  BY <1>2
<1>9. Left(r, R)
  BY <1>2, <1>5, <1>7 DEF Left
<1>10. QED
  BY <1>6, <1>7, <1>8, <1>9, OneCall DEF CallsKept

\* The next attempt goes to an entry the call has not tried, or to the same one
\* where it was not the credential that failed.
LEMMA RetryKeepsCalls ==
    ASSUME RoutingInv, NEW c \in Callers, call[c].at = "noting", Retries(c) PROVE CallsKept
<1>1. call \in [Callers -> Calls] /\ refused \in [Callers -> SUBSET Entries]
  BY CallTyped DEF RoutingInv
<1>2. call[c] \in Calls /\ refused[c] \in SUBSET Entries /\ call[c].entry \in Entries
      /\ refused[c] \subseteq Tried(c) /\ (call[c].outcome.scope # "model" => call[c].entry \notin refused[c])
  BY <1>1 DEF RoutingInv, CallsLeft, Left, Tried
<1>3. CASE Returns(c)
  BY <1>3, Returned DEF CallsKept
<1>4. CASE ~Returns(c)
  <2>1. PICK e \in _next_entry(c) :
          /\ e # NoBase /\ UNCHANGED refused
          /\ call' = [call EXCEPT ![c] =
               [at |-> IF e = @.entry \/ @.outcome.throttled THEN "sleeping" ELSE "vetting",
                entry |-> e, tried |-> Tried(c), attempt |-> Spends(c), outcome |-> Answered]]
    BY <1>4 DEF Retries
  <2>2. call[c].attempt # MaxAttempts - 1
    BY <1>4 DEF Retries
  <2> DEFINE place == IF e = call[c].entry \/ call[c].outcome.throttled THEN "sleeping" ELSE "vetting"
             r == [at |-> place, entry |-> e, tried |-> Tried(c), attempt |-> Spends(c), outcome |-> Answered]
  <2>3. place \in {"sleeping", "vetting"}
    OBVIOUS
  <2>4. e \in Entries \ refused[c]
    <3>1. PICK x \in select(c, Tried(c)) :
            e = IF x # NoBase THEN x ELSE IF call[c].outcome.scope = "model" THEN NoBase ELSE call[c].entry
      BY DEF _next_entry
    <3>2. x = NoBase \/ (x \in Entries /\ x \notin Tried(c))
      BY <3>1, SelectedIsUntried DEF RoutingInv, TypeOK
    <3>3. QED
      BY <1>2, <2>1, <3>1, <3>2
  <2>5. Tried(c) \in SUBSET Entries
    BY <1>2 DEF Tried, Calls
  <2>6. Spends(c) \in 0 .. MaxAttempts - 1
    BY <1>2, <2>2, NatBounds DEF Spends, Calls
  <2>7. Answered \in Outcome
    BY OutcomesAreOutcomes DEF _readable
  <2>8. call' = [call EXCEPT ![c] = r] /\ refused' = [refused EXCEPT ![c] = refused[c]]
    BY <1>1, <2>1
  <2> HIDE DEF place
  <2>9. r \in Calls
    BY <2>3, <2>4, <2>5, <2>6, <2>7 DEF Calls, Places
  <2>10. Left(r, refused[c])
    BY <1>2, <2>3, <2>4 DEF Left
  <2> HIDE DEF r
  <2>11. QED
    BY <1>2, <2>8, <2>9, <2>10, OneCall DEF CallsKept
<1>5. QED
  BY <1>3, <1>4

-----------------------------------------------------------------------------
(* Types and the refused keys. *)

LEMMA ChargedType ==
    ASSUME spent \in [Buckets -> Nat], NEW c PROVE Charged(c) \in [Buckets -> Nat]
  BY DEF Charged, Buckets, bucketOf

LEMMA RoutersKept ==
    ASSUME TypeOK, NEW e \in Entries, record_success(e) \/ record_failure(e)
    PROVE  /\ bad' \in [Entries -> 0 .. MaxFailures]
           /\ opened' \in [Entries -> {"no", "open", "cooled"}] /\ streak' \in [Entries -> 0 .. PinLimit]
<1>1. bad' \in [Entries -> 0 .. MaxFailures] /\ opened' \in [Entries -> {"no", "open", "cooled"}]
  <2>1. CASE record(e, TRUE)
    BY <2>1, RecordType DEF TypeOK
  <2>2. CASE record(e, FALSE)
    BY <2>2, RecordType DEF TypeOK
  <2>3. QED
    BY <2>1, <2>2 DEF record_success, record_failure
<1>2. streak' \in [Entries -> 0 .. PinLimit]
  <2>1. CASE streak' = [streak EXCEPT ![e] = 0]
    BY <2>1, NatBounds DEF TypeOK
  <2>2. CASE streak' = [streak EXCEPT ![e] = IF @ = PinLimit THEN @ ELSE @ + 1]
    <3>1. streak[e] \in 0 .. PinLimit /\ streak \in [Entries -> 0 .. PinLimit]
      BY DEF TypeOK
    <3>2. (IF streak[e] = PinLimit THEN streak[e] ELSE streak[e] + 1) \in 0 .. PinLimit
      BY <3>1, NatBounds
    <3>3. QED
      BY <2>2, <3>1, <3>2
  <2>3. QED
    BY <2>1, <2>2 DEF record_success, record_failure
<1>3. QED
  BY <1>1, <1>2

\* All that is not of the callers.
RestTyped ==
    /\ base \in Bases \cup {NoBase} /\ baseFile \in Bases \cup {NoBase}
    /\ bad \in [Entries -> 0 .. MaxFailures]
    /\ opened \in [Entries -> {"no", "open", "cooled"}]
    /\ streak \in [Entries -> 0 .. PinLimit]
    /\ spent \in [Buckets -> Nat]
    /\ events \in 0 .. MaxEvents

LEMMA TypeIsRestAndCalls ==
    TypeOK <=> RestTyped /\ call \in [Callers -> Calls] /\ refused \in [Callers -> SUBSET Entries]
  BY DEF TypeOK, RestTyped, Calls

LEMMA WorksKeepsRest ==
    ASSUME RoutingInv, NEW c \in Callers, Works(c) PROVE RestTyped'
<1>1. RestTyped
  BY TypeIsRestAndCalls DEF RoutingInv
<1>2. CASE _entry_for(c)
  <2>1. bad' \in [Entries -> 0 .. MaxFailures] /\ opened' \in [Entries -> {"no", "open", "cooled"}]
    BY <1>1, <1>2, AskedType DEF RestTyped, _entry_for
  <2>2. UNCHANGED <<base, baseFile, streak, spent, events>>
    BY <1>2 DEF _entry_for, baseVars
  <2>3. QED
    BY <1>1, <2>1, <2>2 DEF RestTyped
<1>3. CASE vet(c) \/ _sleep_before_retry(c)
  <2>1. UNCHANGED <<base, baseFile, bad, opened, streak, spent, events>>
    BY <1>3 DEF vet, _sleep_before_retry, baseVars, routerVars
  <2>2. QED
    BY <1>1, <2>1 DEF RestTyped
<1>4. CASE Answers(c)
  <2>1. call[c].entry \in Entries
    BY <1>4 DEF RoutingInv, CallsLeft, Left, Answers
  <2>2. /\ bad' \in [Entries -> 0 .. MaxFailures]
        /\ opened' \in [Entries -> {"no", "open", "cooled"}] /\ streak' \in [Entries -> 0 .. PinLimit]
    <3>1. record_success(call[c].entry) \/ record_failure(call[c].entry) \/ UNCHANGED routerVars
      BY <1>4 DEF Answers
    <3>2. QED
      BY <1>1, <2>1, <3>1, RoutersKept DEF RoutingInv, RestTyped, routerVars
  <2>3. UNCHANGED <<base, baseFile, spent, events>>
    BY <1>4 DEF Answers, baseVars
  <2>4. QED
    BY <1>1, <2>2, <2>3 DEF RestTyped
<1>5. CASE _record_success(c)
  <2>1. spent' \in [Buckets -> Nat]
    BY <1>1, <1>5, ChargedType DEF RestTyped, _record_success
  <2>2. UNCHANGED <<base, baseFile, bad, opened, streak, events>>
    BY <1>5 DEF _record_success, baseVars, routerVars
  <2>3. QED
    BY <1>1, <2>1, <2>2 DEF RestTyped
<1>6. CASE _note_failure(c)
  <2>1. spent' \in [Buckets -> Nat]
    BY <1>1, <1>6, ChargedType DEF RestTyped, _note_failure
  <2>2. bad' \in [Entries -> 0 .. MaxFailures] /\ opened' \in [Entries -> {"no", "open", "cooled"}]
    BY <1>1, <1>6, AskedType DEF RestTyped, _note_failure, Retries
  <2>3. UNCHANGED <<base, baseFile, streak, events>>
    BY <1>6 DEF _note_failure, baseVars
  <2>4. QED
    BY <1>1, <2>1, <2>2, <2>3 DEF RestTyped
<1>7. QED
  BY <1>2, <1>3, <1>4, <1>5, <1>6 DEF Works

LEMMA WorksKeepsCalls ==
    ASSUME RoutingInv, NEW c \in Callers, Works(c) PROVE CallsKept
<1>1. CASE _entry_for(c)
  BY <1>1, LookKeepsCalls
<1>2. CASE vet(c)
  BY <1>2, Returned, WentTo DEF vet, acquire, CallsKept, Places
<1>3. CASE Answers(c)
  BY <1>3, AnswerKeepsCalls
<1>4. CASE _record_success(c)
  BY <1>4, Returned DEF _record_success, CallsKept
<1>5. CASE _note_failure(c)
  BY <1>5, RetryKeepsCalls DEF _note_failure
<1>6. CASE _sleep_before_retry(c)
  BY <1>6, WentTo DEF _sleep_before_retry, CallsKept, Places
<1>7. QED
  BY <1>1, <1>2, <1>3, <1>4, <1>5, <1>6 DEF Works

LEMMA RoutingInit == Init => RoutingInv
<1> SUFFICES ASSUME Init PROVE RoutingInv
  OBVIOUS
<1>1. RestTyped
  BY NatBounds DEF Init, RestTyped
<1>2. call \in [Callers -> Calls] /\ refused \in [Callers -> SUBSET Entries]
  BY RestingIsACall DEF Init
<1>3. CallsLeft
  BY DEF Init, CallsLeft, Left, Resting
<1>4. QED
  BY <1>1, <1>2, <1>3, TypeIsRestAndCalls DEF RoutingInv

LEMMA RoutingStep == RoutingInv /\ [Next]_vars => RoutingInv'
<1> SUFFICES ASSUME RoutingInv, [Next]_vars PROVE RoutingInv'
  OBVIOUS
<1>1. RestTyped /\ call \in [Callers -> Calls] /\ refused \in [Callers -> SUBSET Entries] /\ CallsLeft
  BY TypeIsRestAndCalls DEF RoutingInv
<1> SUFFICES RestTyped' /\ CallsKept
  BY TypeIsRestAndCalls DEF RoutingInv, CallsKept, RestTyped, TypeOK, Calls
<1>2. ASSUME NEW c \in Callers, complete(c) PROVE RestTyped' /\ CallsKept
  <2>1. CallsKept
    BY <1>2, WentTo DEF complete, CallsKept, Places
  <2>2. RestTyped'
    BY <1>1, <1>2 DEF complete, sync_base_model, RestTyped, routerVars
  <2>3. QED
    BY <2>1, <2>2
<1>3. ASSUME NEW c \in Callers, Works(c) PROVE RestTyped' /\ CallsKept
  BY <1>3, WorksKeepsRest, WorksKeepsCalls
<1>4. ASSUME NEW c \in Callers, Fault(c) PROVE RestTyped' /\ CallsKept
  <2>1. CallsKept
    BY <1>4, Returned DEF Fault, CallsKept
  <2>2. RestTyped'
    BY <1>1, <1>4, NatBounds DEF Fault, RestTyped, baseVars, routerVars
  <2>3. QED
    BY <2>1, <2>2
<1>5. CASE UNCHANGED <<call, refused>> /\ RestTyped'
  BY <1>1, <1>5 DEF CallsKept, CallsLeft, Left
<1>6. ASSUME NEW e \in Entries, CooldownEnds(e) PROVE UNCHANGED <<call, refused>> /\ RestTyped'
  BY <1>1, <1>6 DEF CooldownEnds, RestTyped, baseVars
<1>7. CASE start_of_day
  BY <1>1, <1>5, <1>7, NatBounds DEF start_of_day, RestTyped, baseVars, routerVars
<1>8. CASE BaseSaved \/ healthz
  BY <1>1, <1>5, <1>8, NatBounds DEF BaseSaved, healthz, sync_base_model, RestTyped, routerVars
<1>9. CASE UNCHANGED vars
  BY <1>1, <1>5, <1>9 DEF vars, baseVars, routerVars, RestTyped
<1>10. QED
  BY <1>2, <1>3, <1>4, <1>5, <1>6, <1>7, <1>8, <1>9 DEF Next

\* Whatever the catalogue, the hints and the limits, and however the breakers,
\* the settings file and the other calls move between its steps: no call of
\* complete goes back to an entry that refused its credential (_next_entry,
\* service.py:531-582), and every variable keeps its type.
THEOREM RefusedKeyIsNotAskedAgain == Spec => []RoutingSafe
<1>1. RoutingInv => RoutingSafe
  BY DEF RoutingInv, CallsLeft, Left, RoutingSafe, RefusedKeyIsLeft
<1>2. QED
  BY <1>1, RoutingInit, RoutingStep, PTL DEF Spec

-----------------------------------------------------------------------------
(* The caps.  An amount s and the calls S of a set of callers C that passed *)
(* the check stay within a cap, overshot by all callers of C but one.       *)

Within(C, S, s, cap) == s + Cardinality(S) <= cap + Cardinality(C) - 1

PassedIn(C) == {c \in C : Passed(c)}
Members(b)  == {c \in Callers : bucketOf(c) = b}

LEMMA Paid ==
    ASSUME NEW C, IsFiniteSet(C), NEW S \in SUBSET C, NEW s \in Nat, NEW cap \in Nat,
           Within(C, S, s, cap), NEW c \in S
    PROVE  Within(C, S \ {c}, s + 1, cap)
<1>1. IsFiniteSet(S) /\ Cardinality(S) \in Nat /\ Cardinality(C) \in Nat
  BY FS_Subset, FS_CardinalityType
<1>2. Cardinality(S \ {c}) = Cardinality(S) - 1
  BY <1>1, FS_RemoveElement
<1>3. QED
  BY <1>1, <1>2 DEF Within

LEMMA Shrunk ==
    ASSUME NEW C, IsFiniteSet(C), NEW S \in SUBSET C, NEW s \in Nat, NEW cap \in Nat,
           Within(C, S, s, cap), NEW T \in SUBSET S, NEW t \in 0 .. s
    PROVE  Within(C, T, t, cap)
<1>1. IsFiniteSet(S) /\ Cardinality(S) \in Nat /\ Cardinality(C) \in Nat
  BY FS_Subset, FS_CardinalityType
<1>2. Cardinality(T) <= Cardinality(S) /\ Cardinality(T) \in Nat
  BY <1>1, FS_Subset, FS_CardinalityType
<1>3. QED
  BY <1>1, <1>2 DEF Within

\* One more passes the check, which found room for one: it was not among them.
LEMMA Entered ==
    ASSUME NEW C, IsFiniteSet(C), NEW S \in SUBSET C, NEW s \in Nat, NEW cap \in Nat,
           NEW c \in C \ S, s + 1 <= cap
    PROVE  Within(C, S \cup {c}, s, cap)
<1>1. IsFiniteSet(S) /\ Cardinality(S) \in Nat /\ Cardinality(C) \in Nat
  BY FS_Subset, FS_CardinalityType
<1>2. Cardinality(S \cup {c}) = Cardinality(S) + 1
  BY <1>1, FS_AddElement
<1>3. Cardinality(S \cup {c}) <= Cardinality(C)
  BY FS_Subset
<1>4. QED
  BY <1>1, <1>2, <1>3 DEF Within

CapsInv ==
    /\ Within(Callers, PassedIn(Callers), dayTotal, DailyCap)
    /\ \A b \in Buckets :
         Members(b) # {} => Within(Members(b), PassedIn(Members(b)), spent[b], CapOf(b))

LEMMA CapsAreTheProperty == CapsInv => CapsOvershoot
  BY DEF CapsInv, CapsOvershoot, Within, PassedIn, Members, Paying

LEMMA CapTypes ==
    /\ IsFiniteSet(Callers) /\ DailyCap \in Nat
    /\ \A b \in Buckets : CapOf(b) \in Nat /\ IsFiniteSet(Members(b)) /\ Members(b) \subseteq Callers
<1>1. IsFiniteSet(Callers) /\ DailyCap \in Nat /\ Reserve \in 0 .. DailyCap
  BY GatewayAssumption DEF GatewayAssumption
<1>2. \A b : Members(b) \subseteq Callers
  BY DEF Members
<1>3. \A b : IsFiniteSet(Members(b))
  BY <1>1, <1>2, FS_Subset
<1>4. \A b \in Buckets : CapOf(b) \in Nat
  BY <1>1 DEF CapOf, Buckets
<1>5. QED
  BY <1>1, <1>2, <1>3, <1>4

LEMMA SpentTypes ==
    ASSUME spent \in [Buckets -> Nat]
    PROVE  dayTotal \in Nat /\ \A b \in Buckets : spent[b] \in Nat
  BY DEF dayTotal, Buckets

LEMMA ChargedIsOne ==
    ASSUME spent \in [Buckets -> Nat], NEW c, spent' = Charged(c)
    PROVE  /\ dayTotal' = dayTotal + 1
           /\ \A b \in Buckets : spent'[b] = IF b = bucketOf(c) THEN spent[b] + 1 ELSE spent[b]
<1>1. bucketOf(c) \in Buckets
  BY DEF bucketOf, Buckets
<1>2. \A b \in Buckets : spent'[b] = IF b = bucketOf(c) THEN spent[b] + 1 ELSE spent[b]
  BY <1>1 DEF Charged
<1>3. "commitment" \in Buckets /\ "discretionary" \in Buckets /\ bucketOf(c) \in {"commitment", "discretionary"}
  BY DEF Buckets, bucketOf
<1>4. QED
  BY <1>2, <1>3 DEF dayTotal

\* The three kinds of step, for whom they bring past the check or back from it.
NoneEnters  == \A d \in Callers : Passed(d)' => Passed(d)
Leaves(c)   == Passed(c) /\ ~Passed(c)' /\ \A d \in Callers \ {c} : Passed(d)' <=> Passed(d)
Enters(c)   == ~Passed(c) /\ Passed(c)' /\ \A d \in Callers \ {c} : Passed(d)' <=> Passed(d)

LEMMA FreeStep ==
    ASSUME TypeOK, CapsInv, NoneEnters, UNCHANGED spent \/ spent' = [b \in Buckets |-> 0]
    PROVE  CapsInv'
<1>1. spent \in [Buckets -> Nat]
  BY DEF TypeOK
<1>2. dayTotal' \in 0 .. dayTotal /\ \A b \in Buckets : spent'[b] \in 0 .. spent[b]
  BY <1>1 DEF dayTotal, Buckets
<1>3. ASSUME NEW C \in SUBSET Callers
      PROVE  PassedIn(C)' \in SUBSET PassedIn(C) /\ PassedIn(C) \in SUBSET C
  BY DEF PassedIn, NoneEnters
<1>4. Within(Callers, PassedIn(Callers)', dayTotal', DailyCap)
  BY <1>1, <1>2, <1>3, CapTypes, SpentTypes, Shrunk DEF CapsInv
<1>5. ASSUME NEW b \in Buckets, Members(b) # {}
      PROVE  Within(Members(b), PassedIn(Members(b))', spent'[b], CapOf(b))
  <2>1. Within(Members(b), PassedIn(Members(b)), spent[b], CapOf(b))
    BY <1>5 DEF CapsInv
  <2>2. PassedIn(Members(b))' \in SUBSET PassedIn(Members(b)) /\ PassedIn(Members(b)) \in SUBSET Members(b)
    BY <1>3, CapTypes
  <2>3. QED
    BY <1>1, <1>2, <2>1, <2>2, CapTypes, SpentTypes, Shrunk
<1>6. QED
  BY <1>4, <1>5 DEF CapsInv, Within, Members, PassedIn, bucketOf, CapOf

LEMMA PayingStep ==
    ASSUME TypeOK, CapsInv, NEW c \in Callers, Leaves(c), spent' = Charged(c) PROVE CapsInv'
<1>1. spent \in [Buckets -> Nat]
  BY DEF TypeOK
<1>2. ASSUME NEW C \in SUBSET Callers
      PROVE  /\ PassedIn(C) \in SUBSET C
             /\ c \in C => c \in PassedIn(C) /\ PassedIn(C)' = PassedIn(C) \ {c}
             /\ c \notin C => PassedIn(C)' = PassedIn(C)
  BY DEF PassedIn, Leaves
<1>3. Within(Callers, PassedIn(Callers)', dayTotal', DailyCap)
  <2>1. c \in PassedIn(Callers) /\ PassedIn(Callers)' = PassedIn(Callers) \ {c} /\ PassedIn(Callers) \in SUBSET Callers
    BY <1>2
  <2>2. Within(Callers, PassedIn(Callers), dayTotal, DailyCap)
    BY DEF CapsInv
  <2>3. Within(Callers, PassedIn(Callers) \ {c}, dayTotal + 1, DailyCap)
    BY <1>1, <2>1, <2>2, CapTypes, SpentTypes, Paid
  <2>4. QED
    BY <1>1, <2>1, <2>3, ChargedIsOne
<1>4. ASSUME NEW b \in Buckets, Members(b) # {}
      PROVE  Within(Members(b), PassedIn(Members(b))', spent'[b], CapOf(b))
  <2>1. Within(Members(b), PassedIn(Members(b)), spent[b], CapOf(b))
    BY <1>4 DEF CapsInv
  <2>2. PassedIn(Members(b)) \in SUBSET Members(b) /\ Members(b) \in SUBSET Callers
    BY <1>2, CapTypes
  <2>3. CASE bucketOf(c) = b
    <3>1. c \in Members(b)
      BY <2>3 DEF Members
    <3>2. c \in PassedIn(Members(b)) /\ PassedIn(Members(b))' = PassedIn(Members(b)) \ {c}
      BY <1>2, <2>2, <3>1
    <3>3. Within(Members(b), PassedIn(Members(b)) \ {c}, spent[b] + 1, CapOf(b))
      BY <1>1, <2>1, <2>2, <3>2, CapTypes, SpentTypes, Paid
    <3>4. QED
      BY <1>1, <2>3, <3>2, <3>3, ChargedIsOne
  <2>4. CASE bucketOf(c) # b
    <3>1. c \notin Members(b)
      BY <2>4 DEF Members
    <3>2. PassedIn(Members(b))' = PassedIn(Members(b))
      BY <1>2, <2>2, <3>1
    <3>3. spent'[b] = spent[b]
      BY <1>1, <2>4, ChargedIsOne
    <3>4. QED
      BY <2>1, <3>2, <3>3
  <2>5. QED
    BY <2>3, <2>4
<1>5. QED
  BY <1>3, <1>4 DEF CapsInv, Within, Members, PassedIn, bucketOf, CapOf

LEMMA CheckedStep ==
    ASSUME TypeOK, CapsInv, NEW c \in Callers, check(c), Enters(c), UNCHANGED spent PROVE CapsInv'
<1>1. spent \in [Buckets -> Nat]
  BY DEF TypeOK
<1>2. ASSUME NEW C \in SUBSET Callers
      PROVE  /\ PassedIn(C) \in SUBSET C
             /\ c \in C => c \in C \ PassedIn(C) /\ PassedIn(C)' = PassedIn(C) \cup {c}
             /\ c \notin C => PassedIn(C)' = PassedIn(C)
  BY DEF PassedIn, Enters
<1>3. Within(Callers, PassedIn(Callers)', dayTotal', DailyCap)
  <2>1. c \in Callers \ PassedIn(Callers) /\ PassedIn(Callers)' = PassedIn(Callers) \cup {c}
        /\ PassedIn(Callers) \in SUBSET Callers
    BY <1>2
  <2>2. dayTotal + 1 <= DailyCap /\ dayTotal' = dayTotal
    BY DEF check, dayTotal
  <2>3. Within(Callers, PassedIn(Callers) \cup {c}, dayTotal, DailyCap)
    BY <1>1, <2>1, <2>2, CapTypes, SpentTypes, Entered
  <2>4. QED
    BY <2>1, <2>2, <2>3
<1>4. ASSUME NEW b \in Buckets, Members(b) # {}
      PROVE  Within(Members(b), PassedIn(Members(b))', spent'[b], CapOf(b))
  <2>1. Within(Members(b), PassedIn(Members(b)), spent[b], CapOf(b))
    BY <1>4 DEF CapsInv
  <2>2. PassedIn(Members(b)) \in SUBSET Members(b) /\ Members(b) \in SUBSET Callers
    BY <1>2, CapTypes
  <2>3. CASE bucketOf(c) = b
    <3>1. c \in Members(b)
      BY <2>3 DEF Members
    <3>2. c \in Members(b) \ PassedIn(Members(b)) /\ PassedIn(Members(b))' = PassedIn(Members(b)) \cup {c}
      BY <1>2, <2>2, <3>1
    <3>3. spent[b] + 1 <= CapOf(b)
      BY <2>3 DEF check
    <3>4. Within(Members(b), PassedIn(Members(b)) \cup {c}, spent[b], CapOf(b))
      BY <1>1, <2>2, <3>2, <3>3, CapTypes, SpentTypes, Entered
    <3>5. QED
      BY <3>2, <3>4
  <2>4. CASE bucketOf(c) # b
    <3>1. c \notin Members(b)
      BY <2>4 DEF Members
    <3>2. PassedIn(Members(b))' = PassedIn(Members(b))
      BY <1>2, <2>2, <3>1
    <3>3. QED
      BY <2>1, <3>2
  <2>5. QED
    BY <2>3, <2>4
<1>5. QED
  BY <1>3, <1>4 DEF CapsInv, Within, Members, PassedIn, bucketOf, CapOf

\* A caller's step touches its own call, and where it goes decides the kind.
LEMMA OneMoves ==
    ASSUME TypeOK, NEW c \in Callers, NEW r, call' = [call EXCEPT ![c] = r]
    PROVE  /\ Passed(c)' <=> r.at \in {"asking", "noting", "recording"}
           /\ \A d \in Callers \ {c} : Passed(d)' <=> Passed(d)
  BY CallTyped DEF Passed

LEMMA ReturnsLeaves ==
    ASSUME TypeOK, NEW c \in Callers, Returns(c)
    PROVE  ~Passed(c)' /\ \A d \in Callers \ {c} : Passed(d)' <=> Passed(d)
<1>1. Resting.at = "idle"
  BY DEF Resting
<1>2. QED
  BY <1>1, OneMoves DEF Returns

LEMMA GoesMoves ==
    ASSUME TypeOK, NEW c \in Callers, NEW place, Goes(c, place)
    PROVE  /\ Passed(c)' <=> place \in {"asking", "noting", "recording"}
           /\ \A d \in Callers \ {c} : Passed(d)' <=> Passed(d)
<1> DEFINE r == [call[c] EXCEPT !.at = place]
<1>1. call' = [call EXCEPT ![c] = r] /\ r.at = place
  BY CallTyped DEF Goes, Calls
<1> HIDE DEF r
<1>2. QED
  BY <1>1, OneMoves

LEMMA RetriesLeaves ==
    ASSUME TypeOK, NEW c \in Callers, Retries(c)
    PROVE  ~Passed(c)' /\ \A d \in Callers \ {c} : Passed(d)' <=> Passed(d)
<1>1. CASE Returns(c)
  BY <1>1, ReturnsLeaves
<1>2. CASE ~Returns(c)
  <2>1. PICK e : call' = [call EXCEPT ![c] =
               [at |-> IF e = @.entry \/ @.outcome.throttled THEN "sleeping" ELSE "vetting",
                entry |-> e, tried |-> Tried(c), attempt |-> Spends(c), outcome |-> Answered]]
    BY <1>2 DEF Retries
  <2> DEFINE place == IF e = call[c].entry \/ call[c].outcome.throttled THEN "sleeping" ELSE "vetting"
             r == [at |-> place, entry |-> e, tried |-> Tried(c), attempt |-> Spends(c), outcome |-> Answered]
  <2>2. call' = [call EXCEPT ![c] = r]
    BY <2>1, CallTyped
  <2>3. place \in {"sleeping", "vetting"}
    OBVIOUS
  <2> HIDE DEF place
  <2>4. r.at \in {"sleeping", "vetting"}
    BY <2>3
  <2> HIDE DEF r
  <2>5. QED
    BY <2>2, <2>4, OneMoves
<1>3. QED
  BY <1>1, <1>2

LEMMA WorksKeepsCaps ==
    ASSUME TypeOK, CapsInv, NEW c \in Callers, Works(c) PROVE CapsInv'
<1>1. CASE _entry_for(c)
  <2>1. CASE Returns(c)
    BY <1>1, <2>1, ReturnsLeaves, FreeStep DEF _entry_for, NoneEnters
  <2>2. ASSUME NEW e, call' = [call EXCEPT ![c].at = "vetting", ![c].entry = e, ![c].attempt = 0]
        PROVE  NoneEnters
    BY <2>2, CallTyped DEF Calls, Passed, NoneEnters
  <2>3. ASSUME call' = [call EXCEPT ![c].at = "waiting", ![c].attempt = @ + 1]
        PROVE  NoneEnters
    BY <2>3, CallTyped DEF Calls, Passed, NoneEnters
  <2>4. QED
    BY <1>1, <2>1, <2>2, <2>3, FreeStep DEF _entry_for
<1>2. CASE vet(c)
  <2>1. CASE Returns(c)
    BY <1>2, <2>1, ReturnsLeaves, FreeStep DEF vet, NoneEnters
  <2>2. CASE check(c) /\ Goes(c, "asking")
    <3>1. Enters(c)
      BY <1>2, <2>2, GoesMoves DEF vet, Enters, Passed
    <3>2. UNCHANGED spent
      BY <1>2 DEF vet
    <3>3. QED
      BY <2>2, <3>1, <3>2, CheckedStep
  <2>3. QED
    BY <1>2, <2>1, <2>2 DEF vet, acquire
<1>3. CASE Answers(c)
  <2>1. PICK o : call' = [call EXCEPT ![c].at = IF o.ok THEN "recording" ELSE "noting", ![c].outcome = o]
    BY <1>3 DEF Answers
  <2>2. \A d \in Callers \ {c} : Passed(d)' <=> Passed(d)
    BY <2>1, CallTyped DEF Passed
  <2>3. NoneEnters /\ UNCHANGED spent
    BY <1>3, <2>2 DEF Answers, NoneEnters, Passed
  <2>4. QED
    BY <2>3, FreeStep
<1>4. CASE _record_success(c)
  <2>1. Leaves(c)
    BY <1>4, ReturnsLeaves DEF _record_success, Leaves, Passed
  <2>2. QED
    BY <1>4, <2>1, PayingStep DEF _record_success
<1>5. CASE _note_failure(c)
  <2>1. Leaves(c)
    BY <1>5, RetriesLeaves DEF _note_failure, Leaves, Passed
  <2>2. CASE spent' = Charged(c)
    BY <2>1, <2>2, PayingStep
  <2>3. CASE spent' = spent
    BY <2>1, <2>3, FreeStep DEF Leaves, NoneEnters
  <2>4. QED
    BY <1>5, <2>2, <2>3 DEF _note_failure
<1>6. CASE _sleep_before_retry(c)
  BY <1>6, GoesMoves, FreeStep DEF _sleep_before_retry, NoneEnters
<1>7. QED
  BY <1>1, <1>2, <1>3, <1>4, <1>5, <1>6 DEF Works

LEMMA CapsInit == Init => CapsInv
<1> SUFFICES ASSUME Init PROVE CapsInv
  OBVIOUS
<1>1. dayTotal = 0 /\ \A b \in Buckets : spent[b] = 0
  BY DEF Init, dayTotal, Buckets
<1>2. \A C \in SUBSET Callers : PassedIn(C) = {}
  BY DEF Init, Resting, PassedIn, Passed
<1>3. ASSUME NEW C \in SUBSET Callers, C # {}, NEW cap \in Nat
      PROVE  Within(C, {}, 0, cap)
  <2>1. IsFiniteSet(C) /\ Cardinality(C) \in Nat /\ Cardinality(C) # 0 /\ Cardinality({}) = 0
    BY <1>3, CapTypes, FS_Subset, FS_CardinalityType, FS_EmptySet
  <2>2. QED
    BY <2>1 DEF Within
<1>4. Callers # {}
  BY GatewayAssumption DEF GatewayAssumption
<1>5. QED
  BY <1>1, <1>2, <1>3, <1>4, CapTypes DEF CapsInv

LEMMA CapsStep == TypeOK /\ CapsInv /\ [Next]_vars => CapsInv'
<1> SUFFICES ASSUME TypeOK, CapsInv, [Next]_vars PROVE CapsInv'
  OBVIOUS
<1>1. ASSUME NEW c \in Callers, complete(c) PROVE CapsInv'
  BY <1>1, GoesMoves, FreeStep DEF complete, NoneEnters
<1>2. ASSUME NEW c \in Callers, Works(c) PROVE CapsInv'
  BY <1>2, WorksKeepsCaps
<1>3. ASSUME NEW c \in Callers, Fault(c) PROVE CapsInv'
  BY <1>3, ReturnsLeaves, FreeStep DEF Fault, NoneEnters
<1>4. CASE start_of_day
  BY <1>4, FreeStep DEF start_of_day, NoneEnters, Passed
<1>5. CASE UNCHANGED <<call, spent>>
  BY <1>5, FreeStep DEF NoneEnters, Passed
<1>6. CASE (\E e \in Entries : CooldownEnds(e)) \/ BaseSaved \/ healthz \/ UNCHANGED vars
  BY <1>5, <1>6 DEF CooldownEnds, BaseSaved, healthz, vars
<1>7. QED
  BY <1>1, <1>2, <1>3, <1>4, <1>6 DEF Next

\* However many tasks of the process call complete at once, and whichever
\* bucket each pays from: the day's ledger and each bucket's exceed their cap by
\* no more than all those callers but one, answers that are not yet written
\* included (SpendGuard.check before the call, the row after it).
THEOREM CapsOvershotByOthersOnly == Spec => []CapsOvershoot
<1>1. Spec => []RoutingSafe
  BY RefusedKeyIsNotAskedAgain
<1>2. RoutingSafe => TypeOK
  BY DEF RoutingSafe
<1>3. QED
  BY <1>1, <1>2, CapsAreTheProperty, CapsInit, CapsStep, PTL DEF Spec
=============================================================================
