---------------------------- MODULE Deliberation ----------------------------
(***************************************************************************)
(* What is said to one message (SocialCognition.deliberate of              *)
(* social/deliberation.py): what the journal shows when the model is asked,*)
(* the two attempts, what is read out of an answer, and the last look that *)
(* withholds a claim of work nothing backs.                                *)
(*                                                                         *)
(* The steps are the awaits of one task; actions start and end meanwhile.  *)
(* An answer is a sequence of pieces, of which the parser tells apart the  *)
(* kinds below; a text is whether it claims that work is under way and     *)
(* which sub-agents it names.                                              *)
(***************************************************************************)
EXTENDS Integers, FiniteSets, FiniteSetsExt, Sequences, Functions

CONSTANTS Window,            \* social.execution_state_window_min
          DelegationWindow,  \* social.execution_state_delegation_window_h
          MaxDelegations,    \* social.execution_state_max_delegations
          Texts,             \* what a reply may hold: [claims, names] records
          Horizon, ActionBound   \* bounds of the model: ticks, actions journaled

Agents == {"apex", "foundry"}
ReplyAssumption ==
    /\ {Window, DelegationWindow, MaxDelegations, Horizon, ActionBound} \subseteq Nat
    /\ Texts \subseteq [claims : BOOLEAN, names : SUBSET Agents]

VARIABLES now, journal,   \* the rows, oldest first: tool, start, running
          message,        \* empty or a bare link of a stranger, or not
          at, attempt,
          state,          \* _ExecutionState: readable, something_happened, names
          prose, fallback,   \* an answer kept in case there is no object
          answer,         \* the texts of the answer that was used
          decision,       \* texts, decided, commissions
          backed,         \* history: sub-agents whose run backs a claim when it is read
          spoke           \* history: an attempt had words for the person

vars == <<now, journal, message, at, attempt, state, prose, fallback, answer, decision, backed, spoke>>
world == <<now, journal, backed>>
kept == <<prose, fallback, spoke>>

Started == Agents \cup {"status", "shell"}   \* subagent.apex, ..., subagent.status, any other
Plain == [claims |-> FALSE, names |-> {}]
Undecided == [texts |-> {}, decided |-> FALSE, commissions |-> FALSE]
TypeOK ==
    /\ now \in 0 .. Horizon /\ Len(journal) <= ActionBound
    /\ \A i \in DOMAIN journal : journal[i] \in [tool : Started, start : 0 .. Horizon, running : BOOLEAN]
    /\ at \in {"new", "journal", "delegations", "ask", "withhold", "done"} /\ attempt \in 1 .. 2
    /\ state.names \subseteq Agents /\ answer \subseteq Texts
    /\ decision.texts \subseteq answer /\ {decision.decided, decision.commissions, spoke} \subseteq BOOLEAN

Init ==
    /\ now = 0 /\ journal = << >> /\ message \in {"trivial", "plain"} /\ at = "new" /\ attempt = 1
    /\ state = [readable |-> FALSE, something_happened |-> FALSE, names |-> {}]
    /\ prose = FALSE /\ fallback = FALSE /\ answer = {} /\ decision = Undecided
    /\ backed = {} /\ spoke = FALSE

-----------------------------------------------------------------------------
(* The journal, which other tasks write.                                   *)

Start(tool) ==
    /\ Len(journal) < ActionBound
    /\ journal' = Append(journal, [tool |-> tool, start |-> now, running |-> TRUE])
    /\ UNCHANGED <<now, message, at, attempt, state, kept, answer, decision, backed>>
End(i) ==
    /\ journal[i].running /\ journal' = [journal EXCEPT ![i].running = FALSE]
    /\ UNCHANGED <<now, message, at, attempt, state, kept, answer, decision, backed>>
Tick ==
    /\ now < Horizon /\ now' = now + 1
    /\ UNCHANGED <<journal, message, at, attempt, state, kept, answer, decision, backed>>

Rows(since) == {i \in DOMAIN journal : journal[i].start >= since}

-----------------------------------------------------------------------------

\* No model is asked about nothing, nor about a stranger's link.
_t0_rules ==
    /\ at = "new"
    /\ IF message = "trivial"
       THEN at' = "done" /\ decision' = [Undecided EXCEPT !.decided = TRUE]
       ELSE at' = "journal" /\ UNCHANGED decision
    /\ UNCHANGED <<world, message, attempt, state, kept, answer>>

_execution_state ==
    /\ at = "journal"
    /\ \/ at' = "delegations" /\ state' = [state EXCEPT !.readable = TRUE, !.something_happened = (Rows(now - Window) # {})]
       \/ at' = "ask" /\ UNCHANGED state   \* it could not be read: nothing is withheld
    /\ UNCHANGED <<world, message, attempt, kept, answer, decision>>

\* The newest rows of sub-agents, the questions after their status among them.
Newest(rows) == {i \in rows : Cardinality({j \in rows : j > i}) < MaxDelegations}
Delegated(i) == journal[i].tool \in Agents \cup {"status"}
_delegation_state ==
    LET rows == Newest({i \in Rows(now - DelegationWindow) : Delegated(i)})
        current == {i \in rows : journal[i].running \/ journal[i].start >= now - Window}
    IN  /\ at = "delegations" /\ at' = "ask"
        /\ \/ state' = [state EXCEPT !.names = {journal[i].tool : i \in current} \cap Agents]
           \/ UNCHANGED state
        /\ backed' = {journal[i].tool : i \in {j \in DOMAIN journal : journal[j].running \/ journal[j].start >= now - Window}} \cap Agents
        /\ UNCHANGED <<now, journal, message, attempt, kept, answer, decision>>

-----------------------------------------------------------------------------
(* An answer.  decision: an object with an action; reply: one whose words  *)
(* are under another name; noise: any other; torn and shred: one that      *)
(* breaks off, after its action and before anything of it is readable.     *)

Whole == {"decision", "reply", "noise"}
Pieces == Whole \cup {"words", "torn", "shred"}
Answers == UNION {[1 .. n -> Pieces] : n \in 0 .. 2}

\* The last object that decides, the last object, or what is left of a torn one.
_parse_json(ps) ==
    LET objects == {i \in DOMAIN ps : ps[i] \in Whole}
    IN  IF \E i \in objects : ps[i] = "decision" THEN "decision"
        ELSE IF objects # {} THEN ps[Max(objects)]
        ELSE IF "torn" \in Range(ps) THEN "decision" ELSE "nothing"
_formed_a_decision(ps) == _parse_json(ps) = "decision"

\* Everything that is not one object and nothing else is the model's prose.
_prose_body(ps) == ps # << >> /\ ~(Len(ps) = 1 /\ ps[1] \in Whole)
_object_as_the_reply(ps) == _parse_json(ps) = "reply"
Words(ps, cut) == _formed_a_decision(ps) \/ (~cut /\ (_prose_body(ps) \/ _object_as_the_reply(ps)))

Decided(texts, commissions) ==
    /\ at' = "withhold" /\ answer' = texts
    /\ decision' = [texts |-> texts, decided |-> TRUE, commissions |-> commissions]
Failed == at' = "done" /\ decision' = Undecided /\ UNCHANGED answer

\* Variants named mutant_* are mistakes the properties must catch.
mutant_Recovered(has_prose, has_other) == Failed
Recovered(has_prose, has_other) ==   \* nothing is commissioned from words without the object
    IF has_prose \/ has_other THEN \E text \in Texts : Decided({text}, FALSE) ELSE Failed

_ask(ps, cut) ==
    LET has_prose == prose \/ (~cut /\ ~_formed_a_decision(ps) /\ _prose_body(ps))
        has_other == fallback \/ (~cut /\ ~_formed_a_decision(ps) /\ ~_prose_body(ps) /\ _object_as_the_reply(ps))
    IN  /\ at = "ask" /\ prose' = has_prose /\ fallback' = has_other
        /\ spoke' = (spoke \/ Words(ps, cut))
        /\ IF _formed_a_decision(ps) THEN (\E texts \in SUBSET Texts, c \in BOOLEAN : Decided(texts, c)) /\ UNCHANGED attempt
           ELSE IF attempt = 1 THEN attempt' = 2 /\ UNCHANGED <<at, answer, decision>>
           ELSE Recovered(has_prose, has_other) /\ UNCHANGED attempt
        /\ UNCHANGED <<world, message, state>>

\* The gateway raises: at the first attempt the second is not made.
CallFails ==
    /\ at = "ask"
    /\ IF attempt = 1 THEN Failed ELSE Recovered(prose, fallback)
    /\ UNCHANGED <<world, message, attempt, state, kept>>

\* Once one text claims work, every text is held against the journal.
mutant_Unearned(text) == IF text.names # {} THEN text.names \cap state.names = {} ELSE ~state.something_happened
Unearned(text) == IF text.names # {} THEN ~(text.names \subseteq state.names) ELSE ~state.something_happened
_withhold_unearned_progress ==
    LET claimed == \E text \in decision.texts : text.claims
        left == {text \in decision.texts : ~Unearned(text)}
    IN  /\ at = "withhold" /\ at' = "done"
        /\ decision' = IF ~state.readable \/ ~claimed \/ left = decision.texts THEN decision
                       ELSE IF left = {} THEN Undecided
                       ELSE [decision EXCEPT !.texts = left]
        /\ UNCHANGED <<world, message, attempt, state, kept, answer>>

Next ==
    \/ \E tool \in Started : Start(tool)
    \/ \E i \in DOMAIN journal : End(i)
    \/ Tick
    \/ _t0_rules \/ _execution_state \/ _delegation_state
    \/ \E ps \in Answers, cut \in BOOLEAN : _ask(ps, cut)
    \/ CallFails \/ _withhold_unearned_progress
Spec == Init /\ [][Next]_vars

-----------------------------------------------------------------------------

Said == IF at = "done" THEN decision.texts ELSE {}

\* "No reply may assert work that no journaled action backs": a sub-agent that a
\* sent claim names was running or had been started in the window when the
\* journal was read, whatever else was going on and however the answer came.
ClaimsWereBacked ==
    state.readable => \A text \in Said : text.claims => text.names \subseteq backed

\* "The only answer anybody is going to get": no attempt's words are lost to a
\* failure, of the other attempt or of the form.
WordsAreKept == (at = "done" /\ spoke /\ decision = Undecided) => \E text \in answer : text.claims

\* "Any other reply text, kept. A reply can be half claim and half answer, and
\* the answer is still the answer": a text that claims nothing is sent.
AnswerIsKept == at = "done" => \A text \in answer : text = Plain => text \in Said
=============================================================================
