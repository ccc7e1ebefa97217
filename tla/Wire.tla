-------------------------------- MODULE Wire --------------------------------
(***************************************************************************)
(* A sub-agent's tool loop over whichever providers answer                 *)
(* (subagents/bridge.py, gateway/compat.py, gateway/normalizer.py): the    *)
(* client keeps one transcript, each turn of it is put in the form of the  *)
(* family that serves the turn, and the answer is brought back.            *)
(*                                                                         *)
(* Of a form only the calls and the results are kept, with the ids that tie*)
(* them together; `serial` numbers the calls so that the properties can    *)
(* tell which was meant.  How a client keeps its transcript is external.   *)
(***************************************************************************)
EXTENDS Integers, FiniteSets, SequencesExt

CONSTANTS Tools,      \* the tools of the client, in the order it declares them
          Sanitized,  \* sanitize_tool_name, on these names
          MaxTurns, MaxCalls   \* bounds of the model: turns, calls in an answer

VARIABLES client,     \* in-process Foundry, or a client of the HTTP shim, streaming or not
          history,    \* the transcript: messages
          pending,    \* the calls of the last answer, before the tools are run
          turns,
          bare,       \* history: an endpoint has sent a call with no id
          refused     \* history: families whose form could not be built

vars == <<client, history, pending, turns, bare, refused>>

\* Every tool has a sanitized name.
WireAssumption == Tools \in Seq(DOMAIN Sanitized) /\ {MaxTurns, MaxCalls} \subseteq Nat

Families == {"anthropic", "openai", "google", "compat"}
NoId == << >>

Message(role, calls, results) == [role |-> role, calls |-> calls, attachments |-> results]
Call(id, name, serial) == [id |-> id, name |-> name, serial |-> serial]

Init ==
    /\ client \in {"foundry", "chat", "stream"} /\ history = <<Message("user", << >>, << >>)>>
    /\ pending = << >> /\ turns = 0 /\ bare = FALSE /\ refused = {}

-----------------------------------------------------------------------------
(* The transcript in a family's form: what is called and what answers it.  *)

build_name_map == [w \in {Sanitized[name] : name \in Range(Tools)} |->
                     Tools[CHOOSE i \in DOMAIN Tools : Sanitized[Tools[i]] = w
                             /\ \A j \in DOMAIN Tools : Sanitized[Tools[j]] = w => j <= i]]

_collapse_messages(messages) ==
    FoldLeft(LAMBDA out, m :
        IF m.role = "tool" /\ out # << >> /\ Last(out).role = "tool"
        THEN Append(Front(out), Message("tool", << >>, Last(out).attachments \o m.attachments))
        ELSE Append(out, m), << >>, messages)

Asked(m) == [i \in DOMAIN m.calls |-> [kind |-> "call", id |-> m.calls[i].id, name |-> Sanitized[m.calls[i].name], serial |-> m.calls[i].serial]]
Results(m) == [i \in DOMAIN m.attachments |-> [kind |-> "result", id |-> m.attachments[i].id, name |-> "", serial |-> m.attachments[i].serial]]
Items(m) == CASE m.role = "assistant" -> Asked(m) [] m.role = "tool" -> Results(m) [] OTHER -> << >>
Each(messages) == FlattenSeq([i \in DOMAIN messages |-> Items(messages[i])])

messages_to_anthropic(messages) == Each(_collapse_messages(messages))
messages_to_openai_responses(messages) == Each(messages)
messages_to_openai_compat(messages) == Each(messages)
\* Here a result goes by the name of its tool, and no client's result has one.
messages_to_google(messages) == Each(SelectSeq(_collapse_messages(messages), LAMBDA m : m.role # "tool"))
Raises(f, messages) == f = "google" /\ \E m \in Range(messages) : m.role = "tool"

Wire(f, messages) ==
    CASE f = "anthropic" -> messages_to_anthropic(messages)
      [] f = "openai" -> messages_to_openai_responses(messages)
      [] f = "google" -> messages_to_google(messages)
      [] f = "compat" -> messages_to_openai_compat(messages)

-----------------------------------------------------------------------------
(* An answer: the tools it calls, by their wire names, and how each call is*)
(* identified.  Google sends no ids: a call's place among the parts is it. *)

response_from_anthropic(i, serial, text, unnamed) == <<"toolu", serial>>
response_from_openai_responses(i, serial, text, unnamed) == <<"call_id", serial>>
response_from_google(i, serial, text, unnamed) == <<"gcall", IF text THEN i ELSE i - 1>>
response_from_openai_compat(i, serial, text, unnamed) == IF unnamed THEN NoId ELSE <<"id", serial>>
Identified(f, i, serial, text, unnamed) ==
    CASE f = "anthropic" -> response_from_anthropic(i, serial, text, unnamed)
      [] f = "openai" -> response_from_openai_responses(i, serial, text, unnamed)
      [] f = "google" -> response_from_google(i, serial, text, unnamed)
      [] f = "compat" -> response_from_openai_compat(i, serial, text, unnamed)

\* The shim gives an id to a call that has none; Foundry's provider hands it over as it is.
normalized_to_chat_response(id, serial) == IF id = NoId THEN <<"uuid", serial>> ELSE id
\* Variants named mutant_* are mistakes the properties must catch.
mutant_chat_stream_chunks(id, i) == IF id = NoId THEN <<"call", 0>> ELSE id
chat_stream_chunks(id, i) == IF id = NoId THEN <<"call", i - 1>> ELSE id
complete(id) == id
HandedOver(id, i, serial) ==
    CASE client = "chat" -> normalized_to_chat_response(id, serial)
      [] client = "stream" -> chat_stream_chunks(id, i)
      [] client = "foundry" -> complete(id)

Complete(f, wanted, text, unnamed) ==
    /\ pending = << >> /\ turns < MaxTurns /\ ~Raises(f, history)
    /\ unnamed => f = "compat"
    /\ turns' = turns + 1 /\ bare' = (bare \/ (unnamed /\ wanted # << >>))
    /\ pending' = [i \in DOMAIN wanted |->
          LET serial == MaxCalls * turns + i
          IN  Call(HandedOver(Identified(f, i, serial, text, unnamed), i, serial), build_name_map[wanted[i]], serial)]
    /\ UNCHANGED <<client, history, refused>>

\* The form cannot be built: the exception is a failed attempt, and another model is asked.
Refused(f) ==
    /\ pending = << >> /\ turns < MaxTurns /\ Raises(f, history)
    /\ refused' = refused \cup {f}
    /\ UNCHANGED <<client, history, pending, turns, bare>>

-----------------------------------------------------------------------------
(* The client's side (external), and its transcript read back.             *)

\* Foundry notes one call at a time; an absent id is "call_0" on the call and none on the result.
_message_from_raw(call) == Message("assistant", <<[call EXCEPT !.id = IF @ = NoId THEN <<"call", 0>> ELSE @]>>, << >>)
_messages_from(calls) == Message("assistant", calls, << >>)
Answer(call) == Message("tool", << >>, <<[id |-> call.id, serial |-> call.serial]>>)
Noted(calls, together) ==
    IF client # "foundry" THEN <<_messages_from(calls)>> \o [i \in DOMAIN calls |-> Answer(calls[i])]
    ELSE IF together THEN [i \in DOMAIN calls |-> _message_from_raw(calls[i])] \o [i \in DOMAIN calls |-> Answer(calls[i])]
    ELSE FlattenSeq([i \in DOMAIN calls |-> <<_message_from_raw(calls[i]), Answer(calls[i])>>])

RunTools(together) ==
    /\ pending # << >> /\ pending' = << >>
    /\ history' = history \o Noted(pending, together)
    /\ UNCHANGED <<client, turns, bare, refused>>

Next ==
    \/ \E f \in Families, n \in 0 .. MaxCalls, text, unnamed \in BOOLEAN :
          \E wanted \in [1 .. n -> {Sanitized[name] : name \in Range(Tools)}] : Complete(f, wanted, text, unnamed)
    \/ \E f \in Families : Refused(f)
    \/ \E together \in BOOLEAN : RunTools(together)
Spec == Init /\ [][Next]_vars

-----------------------------------------------------------------------------

TypeOK ==
    /\ turns \in 0 .. MaxTurns /\ Len(pending) <= MaxCalls /\ bare \in BOOLEAN /\ refused \subseteq Families
    /\ \A i \in DOMAIN pending : pending[i].name \in Range(Tools)

\* The last call of that id is the one the result is for.
Meets(wire, j) ==
    LET calls == {i \in 1 .. j - 1 : wire[i].kind = "call" /\ wire[i].id = wire[j].id}
    IN  calls # {} /\ wire[Max(calls)].serial = wire[j].serial

\* Whichever families served the turns before, and whichever serves the next,
\* every call in the form it is sent has one result and every result meets its
\* call, for the clients of the shim always and for Foundry in process unless an
\* endpoint left the ids out.
ResultsMeetTheirCalls ==
    (client # "foundry" \/ ~bare) =>
        \A f \in Families \ {"google"} :
            LET wire == Wire(f, history)
                results == {j \in DOMAIN wire : wire[j].kind = "result"}
            IN  /\ \A j \in results : Meets(wire, j)
                /\ {wire[j].serial : j \in results} = {wire[j].serial : j \in DOMAIN wire \ results}

\* "Silently backed by anthropic, openai, google or openai_compat providers,
\* whichever are funded and healthy": every family can serve every turn.
EveryFamilyServes == refused = {}
=============================================================================
