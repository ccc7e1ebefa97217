------------------------------ MODULE Delivery ------------------------------
(***************************************************************************)
(* The way of the agent's words out through a door: CommsHost.send         *)
(* (comms/host.py) and the adapters' send.  The agent speaks from the      *)
(* core; in the deployed arrangement the doors are held open by ethos-     *)
(* comms, a process with adapters of its own, and in the development run   *)
(* by the core itself.  Two tasks may be sending at once.  Of the doors,   *)
(* Discord takes a long text in pieces, Slack refuses with a 200, Teams    *)
(* and Google Chat need a token, and Teams the address its conversation    *)
(* was last heard from.  "plain" are the others.                           *)
(***************************************************************************)
EXTENDS Integers, FiniteSets, Sequences, Functions

CONSTANTS Senders,        \* the tasks that send
          Conversations,
          UrlLimit,       \* SERVICE_CACHE_LIMIT
          Lifetimes,      \* what an issuer may grant a token, in ticks
          Margin, Floor,  \* TOKEN_MARGIN_S, and the least time a token is kept
          None,           \* no token
          MaxClock, MaxSends, MaxPieces, MaxFaults  \* bounds of the model

DeliveryAssumption ==
    /\ Lifetimes \subseteq Nat
    /\ {Margin, Floor} \subseteq Nat \ {0}
    /\ UrlLimit \in Nat \ {0, 1}    \* of one, the oldest half is none
    /\ {MaxClock, MaxSends, MaxPieces, MaxFaults} \subseteq Nat

Doors == {"discord", "slack", "teams", "gchat", "plain"}
WithToken == {"teams", "gchat"}
Processes == {"core", "comms"}

VARIABLES door, together,   \* the door of this behaviour; whether the core listens itself
          clock,
          urls,             \* process |-> conversations with a service URL, oldest first
          arrived, latest,  \* who wrote since the last start, and who wrote last
          token,            \* the core's: when it is no longer used, when it dies, what it was granted
          job, sends,
          heard,            \* send |-> the pieces of it the provider took, in order
          report,           \* send |-> what its caller was told
          faults

vars == <<door, together, clock, urls, arrived, latest, token, job, sends, heard, report, faults>>

Sends == 1 .. MaxSends
Resting == [at |-> "idle"]
Untold == [result |-> "none"]
Listener == IF together THEN "core" ELSE "comms"

TypeOK ==
    /\ door \in Doors /\ together \in BOOLEAN /\ clock \in 0 .. MaxClock
    /\ \A p \in Processes : Range(urls[p]) \subseteq Conversations /\ Len(urls[p]) <= UrlLimit
    /\ arrived \subseteq Conversations /\ latest \in Conversations \cup {"nobody"}
    /\ \A k \in Senders : job[k].at \in {"idle", "fetching", "issued", "posting", "answered"}
    /\ sends \in 0 .. MaxSends /\ faults \in 0 .. MaxFaults
    /\ \A i \in Sends : report[i].result \in {"none", "sent", "failed", "unreached"}

Init ==
    /\ door \in Doors /\ together \in BOOLEAN /\ (together => door = "teams")
    /\ clock = 0 /\ urls = [p \in Processes |-> << >>] /\ arrived = {} /\ latest = "nobody"
    /\ token = None /\ job = [k \in Senders |-> Resting] /\ sends = 0
    /\ heard = [i \in Sends |-> << >>] /\ report = [i \in Sends |-> Untold] /\ faults = 0

-----------------------------------------------------------------------------
(* Teams: where a conversation is reached.  Variants named mutant_* are    *)
(* mistakes the properties must catch; no action uses them.                *)

mutant_remember_service_url(seq, c) ==
    LET all == IF c \in Range(seq) THEN seq ELSE Append(seq, c) IN
    IF Len(all) > UrlLimit THEN SubSeq(all, 1, UrlLimit \div 2) ELSE all

\* The oldest half makes room.  Writing again does not make a conversation newer.
remember_service_url(seq, c) ==
    IF c \in Range(seq) THEN seq
    ELSE Append(IF Len(seq) >= UrlLimit THEN SubSeq(seq, UrlLimit \div 2 + 1, Len(seq)) ELSE seq, c)

\* handle_webhook, in the process that listens: a URL of an allowed host is kept.
handle_webhook(c) ==
    /\ door = "teams"
    /\ urls' = [urls EXCEPT ![Listener] = remember_service_url(@, c)]
    /\ arrived' = arrived \cup {c} /\ latest' = c
    /\ UNCHANGED <<door, together, clock, token, job, sends, heard, report, faults>>

-----------------------------------------------------------------------------
(* The token, and the first post. *)

\* Up to the first await: the token at hand is used while its time lasts.
Ready(j) ==
    IF door \notin WithToken THEN [j EXCEPT !.at = "posting", !.asked = 0]
    ELSE IF token # None /\ clock < token.until THEN [j EXCEPT !.at = "posting", !.asked = 0, !.dies = token.dies]
    ELSE [j EXCEPT !.at = "fetching"]

Tells(k, i, what) == /\ report' = [report EXCEPT ![i] = what]
                     /\ job' = [job EXCEPT ![k] = Resting]
Fails(k) == Tells(k, job[k].id, [result |-> "failed", done |-> job[k].done, of |-> job[k].of])

\* Only Discord splits a text.
_split_message == IF door = "discord" THEN 1 .. MaxPieces ELSE {1}

Speaks(k) == job[k].at = "idle" /\ sends < MaxSends /\ sends' = sends + 1

send(k, c) ==
    /\ Speaks(k) /\ (door = "teams" => c \in Range(urls["core"]))
    /\ \E n \in _split_message :
         job' = [job EXCEPT ![k] = Ready([at |-> "idle", id |-> sends', of |-> n, done |-> 0,
                                          asked |-> clock, dies |-> 0, granted |-> 0, taken |-> FALSE])]
    /\ UNCHANGED <<door, together, clock, urls, arrived, latest, token, heard, report, faults>>

\* No URL is known to the process that sends.
NotReached(k, c) ==
    /\ Speaks(k) /\ door = "teams" /\ c \notin Range(urls["core"])
    /\ Tells(k, sends', [result |-> "unreached",
                    written |-> c \in arrived /\ Cardinality(arrived) <= UrlLimit])
    /\ UNCHANGED <<door, together, clock, urls, arrived, latest, token, heard, faults>>

\* The issuer grants one, counting from now, or refuses.
connector_token(k) ==
    /\ job[k].at = "fetching" /\ UNCHANGED report
    /\ \E life \in Lifetimes :
         job' = [job EXCEPT ![k] = [@ EXCEPT !.at = "issued", !.dies = clock + life, !.granted = life]]
    /\ UNCHANGED <<door, together, clock, urls, arrived, latest, token, sends, heard, faults>>
Denied(k) ==
    /\ job[k].at = "fetching" /\ Fails(k)
    /\ UNCHANGED <<door, together, clock, urls, arrived, latest, token, sends, heard, faults>>

mutant_Until(j) == clock + IF j.granted - Margin > Floor THEN j.granted - Margin ELSE Floor
Until(j) == j.asked + IF j.granted - Margin > Floor THEN j.granted - Margin ELSE Floor

\* It lands: kept from when it was asked for, whatever another task has fetched.
access_token(k) ==
    LET j == job[k] IN
    /\ j.at = "issued"
    /\ token' = [until |-> Until(j), dies |-> j.dies, granted |-> j.granted]
    /\ job' = [job EXCEPT ![k] = [@ EXCEPT !.at = "posting", !.asked = 0, !.granted = 0]]
    /\ UNCHANGED <<door, together, clock, urls, arrived, latest, sends, heard, report, faults>>

-----------------------------------------------------------------------------
(* The post: the provider takes a piece or not, and its answer is read.    *)

Answers(k, taken) ==
    /\ job[k].at = "posting"
    /\ job' = [job EXCEPT ![k] = [@ EXCEPT !.at = "answered", !.taken = taken]]
    /\ UNCHANGED <<door, together, clock, urls, arrived, latest, token, sends, report, faults>>
Accepts(k) ==
    /\ job[k].at = "posting" /\ (door \in WithToken => clock < job[k].dies)
    /\ Answers(k, TRUE) /\ heard' = [heard EXCEPT ![job[k].id] = Append(@, job[k].done + 1)]
Refuses(k) == Answers(k, FALSE) /\ UNCHANGED heard

\* Slack's body is the answer, its status is 200 even of a refusal; elsewhere
\* the status is the answer.
mutant_Succeeded(j) == door = "slack" \/ j.taken
Succeeded(j) == j.taken

mutant_Next_piece(k) == job' = [job EXCEPT ![k] = [@ EXCEPT !.at = "posting"]] /\ UNCHANGED report
Next_piece(k) == job' = [job EXCEPT ![k] = [@ EXCEPT !.at = "posting", !.done = job[k].done + 1]] /\ UNCHANGED report

\* A piece that is refused ends the text, and the rest of it stays unsaid.
Read(k) ==
    LET j == job[k] IN
    /\ j.at = "answered"
    /\ IF ~Succeeded(j) THEN Fails(k)
       ELSE IF j.done + 1 < j.of THEN Next_piece(k)
       ELSE Tells(k, j.id, [result |-> "sent", done |-> j.of, of |-> j.of])
    /\ UNCHANGED <<door, together, clock, urls, arrived, latest, token, sends, heard, faults>>

-----------------------------------------------------------------------------

Tick ==
    /\ door \in WithToken /\ clock < MaxClock /\ clock' = clock + 1
    /\ UNCHANGED <<door, together, urls, arrived, latest, token, job, sends, heard, report, faults>>

\* An answer is lost: what it answered may have happened.
AnswerLost(k) ==
    /\ faults < MaxFaults /\ faults' = faults + 1
    /\ job[k].at \in {"issued", "answered"} /\ Fails(k)
    /\ UNCHANGED <<door, together, clock, urls, arrived, latest, token, sends, heard>>

\* What an adapter knows is in memory.
Restart(p) ==
    /\ (together => p = "core")    \* there is no other
    /\ faults < MaxFaults /\ faults' = faults + 1
    /\ urls' = [urls EXCEPT ![p] = << >>] /\ arrived' = {} /\ latest' = "nobody"
    /\ IF p = "core" THEN token' = None /\ job' = [k \in Senders |-> Resting]
       ELSE UNCHANGED <<token, job>>
    /\ UNCHANGED <<door, together, clock, sends, heard, report>>

Next ==
    \/ \E c \in Conversations : handle_webhook(c)
    \/ \E k \in Senders, c \in Conversations : send(k, c) \/ NotReached(k, c)
    \/ \E k \in Senders : \/ connector_token(k) \/ Denied(k) \/ access_token(k)
                          \/ Accepts(k) \/ Refuses(k) \/ Read(k) \/ AnswerLost(k)
    \/ Tick
    \/ \E p \in Processes : Restart(p)
Spec == Init /\ [][Next]_vars

-----------------------------------------------------------------------------
(* Properties. *)

\* What the caller is told is what the provider did (adapters' send): "sent" is
\* the whole text, and a failure says how much went out, short of it by at
\* most the one piece whose answer was lost.
ReportIsHonest ==
    \A i \in Sends :
        /\ report[i].result = "sent" => Len(heard[i]) = report[i].of
        /\ report[i].result = "failed" => Len(heard[i]) - report[i].done \in 0 .. 1

\* However two texts are sent at once, each is heard from its first piece on,
\* no piece twice and none left out (Discord's loop).
PiecesInOrder == \A i \in Sends : \A n \in 1 .. Len(heard[i]) : heard[i][n] = n

\* A token that was granted long enough is never used in its last moments,
\* however slowly it came and whichever of two fetches landed last.
TokenKeepsItsMargin ==
    token # None /\ token.granted >= Floor + Margin => token.until + Margin <= token.dies

\* Whoever wrote last can be reached by the process that heard it, however
\* many wrote before (remember_service_url).
LastOneIsKnown == latest # "nobody" => latest \in Range(urls[Listener])

\* A reply to whoever has written since the start finds its way, as the
\* documentation of the Teams door promises, as long as all who wrote are remembered.
AnswerFindsItsWay == \A i \in Sends : report[i].result = "unreached" => ~report[i].written
\* It does where one process hears and speaks.
FindsItsWayTogether == together => AnswerFindsItsWay
=============================================================================
