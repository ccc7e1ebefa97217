----------------------------- MODULE Outbound -----------------------------
(***************************************************************************)
(* OutboundPipeline (ethos/social/etiquette.py): what the agent says to    *)
(* one person on one conversation.  Two tasks of the core run it: the life *)
(* loop, which makes one send at a time (a reply, a note about work in     *)
(* progress, an idea of its own), and the digest loop, which flushes the   *)
(* batch of queued texts.  Every await is a step boundary: a database read *)
(* that decides, the channel's sender, and the INSERT of the message row.  *)
(*                                                                         *)
(* The horizon is one repeat window (24 h): delivered texts are remembered *)
(* throughout, and at most one local midnight falls in it.                 *)
(***************************************************************************)
EXTENDS Naturals, Sequences, FiniteSets, Functions

CONSTANTS Texts,      \* normalised texts the agent may say
          NoEntry,    \* the person has no digest entry
          Budget,     \* daily_budget of the person's relation
          BatchFull,  \* texts that make a batch due before its window (4 in the code)
          MaxSends,   \* bound: calls of send
          MaxFaults   \* bound: crashes, cancellations and database errors

VARIABLES quiet,    \* the clock is inside the quiet hours
          turned,   \* the local midnight of the horizon has passed
          sends,    \* calls of send so far
          faults,   \* faults so far
          sent,     \* messages: today's outbound rows with status 'sent'
          last,     \* messages: whose word was delivered last, recently
          said,     \* messages: what recent_words can find, one text per row
          digest,   \* self.digests of the person
          due,      \* that entry's window is up
          job,      \* what each task is doing
          owed,     \* history: texts answered 'queued' whose fate is open
          today,    \* history: deliveries today that the budget let through
          unrowed,  \* history: those among them that left no row
          tonight   \* history: unsolicited deliveries in these quiet hours

clockVars == <<quiet, turned, last>>
rowVars   == <<sent, said>>
histVars  == <<owed, today, unrowed, tonight>>
vars      == <<clockVars, sends, faults, rowVars, digest, due, job, histVars>>

Tasks    == {"life", "flush"}
Weight   == [normal |-> 1, high |-> 2, critical |-> 3]
Urgency  == DOMAIN Weight
\* A reply is delivered whatever its urgency, so one stands for all; 'low' is
\* treated as 'normal' everywhere.
Says     == {<<"reply", "normal">>} \cup ({"note", "idea"} \X Urgency)
Kinds    == {"reply", "note", "idea", "batch"}
Batches  == {s \in UNION {[1 .. n -> Texts] : n \in 1 .. Cardinality(Texts)} : IsInjective(s)}
Entries  == [texts : Batches, urgency : Urgency, promised : BOOLEAN]
Places   == {"idle", "words", "last", "asking", "sending", "recording"}

OutboundAssumption ==
    /\ IsFiniteSet(Texts) /\ Budget \in Nat
    /\ BatchFull \in Nat \ {0}
    /\ MaxSends \in Nat
    /\ MaxFaults \in Nat
    /\ NoEntry \notin Entries

Resting  == [at |-> "idle", texts |-> <<>>, urgency |-> "normal", kind |-> "reply"]

TypeOK ==
    /\ quiet \in BOOLEAN /\ turned \in BOOLEAN /\ due \in BOOLEAN
    /\ sends \in 0 .. MaxSends /\ faults \in 0 .. MaxFaults
    /\ sent \in Nat /\ today \in Nat /\ unrowed \in Nat /\ tonight \in Nat
    /\ last \in {"none", "mine", "theirs"}
    /\ said \subseteq Batches
    /\ digest \in Entries \cup {NoEntry}
    /\ job \in [Tasks -> [at : Places, texts : Batches \cup {<<>>}, urgency : Urgency, kind : Kinds]]
    /\ owed \subseteq Texts

Init ==
    /\ quiet \in BOOLEAN
    /\ turned = FALSE /\ due = FALSE
    /\ sends = 0 /\ faults = 0
    /\ sent = 0 /\ last = "none" /\ said = {}
    /\ digest = NoEntry
    /\ job = [k \in Tasks |-> Resting]
    /\ owed = {}
    /\ today = 0 /\ unrowed = 0 /\ tonight = 0

-----------------------------------------------------------------------------
(* The gates.  Variants named mutant_* are mistakes the properties must    *)
(* catch; no action uses them.                                             *)

mutant_WithinBudget_off_by_one == sent <= Budget
WithinBudget == sent < Budget

mutant_can_contact_high_free(u) ==
    \/ u \in {"high", "critical"}
    \/ ~quiet /\ WithinBudget
can_contact(u) ==
    \/ u = "critical"
    \/ u = "high" /\ ~quiet
    \/ u = "normal" /\ ~quiet /\ WithinBudget

_held_back == last = "mine"

mutant_Exempt_nothing == FALSE
Exempt == digest.promised

Budgeted(j) == j.kind # "reply" /\ j.urgency = "normal"
Intrudes(j) == j.kind # "reply" /\ j.urgency # "critical"

-----------------------------------------------------------------------------
(* The digest. *)

mutant_Appended_overwrites(t, u, promised) ==
    [texts |-> <<t>>, urgency |-> u, promised |-> promised]
Appended(t, u, promised) ==
    IF digest = NoEntry
    THEN [texts |-> <<t>>, urgency |-> u, promised |-> promised]
    ELSE IF t \in Range(digest.texts)
    THEN digest
    ELSE [texts |-> Append(digest.texts, t),
          urgency |-> IF Weight[u] > Weight[digest.urgency] THEN u ELSE digest.urgency,
          promised |-> digest.promised \/ promised]

\* The row it writes has status 'queued', which no gate reads.
_enqueue_digest(j) ==
    /\ digest' = Appended(Head(j.texts), j.urgency, j.kind = "note")
    /\ due' = (digest # NoEntry /\ due)
    /\ owed' = owed \cup {Head(j.texts)}
    /\ UNCHANGED <<today, unrowed, tonight>>

\* What is owed once the flush is done with its batch: a text may have been
\* queued again meanwhile.
Waiting    == IF digest = NoEntry THEN {} ELSE Range(digest.texts)
Settled(k) == IF k = "flush" THEN owed \ (Range(job[k].texts) \ Waiting) ELSE owed

Goes(k, place) == job' = [job EXCEPT ![k].at = place]
Rests(k)       == job' = [job EXCEPT ![k] = Resting]

-----------------------------------------------------------------------------
(* The life loop's send. *)

\* send up to its first await: a reply is delivered, a note and a normal idea
\* look for their words, an urgent idea asks whether it may interrupt.
send(t, kind, u) ==
    /\ job["life"].at = "idle"
    /\ sends < MaxSends
    /\ sends' = sends + 1
    /\ job' = [job EXCEPT !["life"] =
         [texts |-> <<t>>, kind |-> kind, urgency |-> u,
          at |-> CASE kind = "reply" -> "sending"
                   [] kind = "idea" /\ u # "normal" -> "asking"
                   [] OTHER -> "words"]]
    /\ UNCHANGED <<clockVars, faults, rowVars, digest, due, histVars>>

\* recent_words answers: the same words are held, a row and nothing more.
recent_words ==
    /\ job["life"].at = "words"
    /\ IF job["life"].texts \in said
       THEN Rests("life")
       ELSE Goes("life", IF job["life"].kind = "note" THEN "asking" ELSE "last")
    /\ UNCHANGED <<clockVars, sends, faults, rowVars, digest, due, histVars>>

\* _why_not_speak_first's second read: hold, or queue.
_why_not_speak_first ==
    /\ job["life"].at = "last"
    /\ Rests("life")
    /\ IF _held_back
       THEN UNCHANGED <<digest, due, histVars>>
       ELSE _enqueue_digest(job["life"])
    /\ UNCHANGED <<clockVars, sends, faults, rowVars>>

-----------------------------------------------------------------------------
(* The digest loop. *)

Takes ==
    /\ job' = [job EXCEPT !["flush"] = [at |-> "asking", texts |-> digest.texts,
                                         urgency |-> digest.urgency, kind |-> "batch"]]
    /\ digest' = NoEntry
    /\ due' = FALSE

\* A pass over the entry: a promised batch is taken at once, any other one
\* after the read of the last word.
flush_due_digests ==
    /\ job["flush"].at = "idle"
    /\ digest # NoEntry
    /\ due \/ Len(digest.texts) >= BatchFull
    /\ IF Exempt THEN Takes ELSE Goes("flush", "last") /\ UNCHANGED <<digest, due>>
    /\ UNCHANGED <<clockVars, sends, faults, rowVars, histVars>>

\* The read answers.  The texts are those of the entry now, not of the pass's
\* start: what was queued meanwhile goes out too.
LastWordRead ==
    /\ job["flush"].at = "last"
    /\ IF _held_back THEN Rests("flush") /\ UNCHANGED <<digest, due>> ELSE Takes
    /\ UNCHANGED <<clockVars, sends, faults, rowVars, histVars>>

-----------------------------------------------------------------------------
(* What both do once they want to deliver. *)

Admitted(k) ==
    /\ job[k].at = "asking"
    /\ can_contact(job[k].urgency)
    /\ Goes(k, "sending")
    /\ UNCHANGED <<clockVars, sends, faults, rowVars, digest, due, histVars>>

\* Not now: a note is queued, an urgent idea and a batch are suppressed.
NotAdmitted(k) ==
    /\ job[k].at = "asking"
    /\ ~can_contact(job[k].urgency)
    /\ Rests(k)
    /\ IF job[k].kind = "note"
       THEN _enqueue_digest(job[k])
       ELSE /\ owed' = Settled(k)
            /\ UNCHANGED <<digest, due, today, unrowed, tonight>>
    /\ UNCHANGED <<clockVars, sends, faults, rowVars>>

\* _deliver: the sender returns having delivered ...
Delivered(k) ==
    LET j == job[k] IN
    /\ j.at = "sending"
    /\ Goes(k, "recording")
    /\ today' = IF Budgeted(j) THEN today + 1 ELSE today
    /\ tonight' = IF quiet /\ Intrudes(j) THEN tonight + 1 ELSE tonight
    /\ owed' = Settled(k)
    /\ UNCHANGED <<clockVars, sends, faults, rowVars, digest, due, unrowed>>

\* ... or not: the row says 'failed', which no gate counts.
DeliveryFails(k) ==
    /\ job[k].at = "sending"
    /\ Rests(k)
    /\ owed' = Settled(k)
    /\ UNCHANGED <<clockVars, sends, faults, rowVars, digest, due,
                   today, unrowed, tonight>>

_record(k) ==
    /\ job[k].at = "recording"
    /\ Rests(k)
    /\ sent' = sent + 1
    /\ last' = "mine"
    /\ said' = said \cup {job[k].texts}
    /\ UNCHANGED <<quiet, turned, sends, faults, digest, due, histVars>>

-----------------------------------------------------------------------------
(* Faults. *)

Faulty == faults < MaxFaults /\ faults' = faults + 1

Unrowed(ks) == unrowed + Cardinality({k \in ks : job[k].at = "recording" /\ Budgeted(job[k])})

\* The INSERT fails: _record logs it and returns.
RecordFails(k) ==
    /\ Faulty
    /\ job[k].at = "recording"
    /\ Rests(k)
    /\ unrowed' = Unrowed({k})
    /\ UNCHANGED <<clockVars, sends, rowVars, digest, due, owed, today, tonight>>

\* can_contact raises on a read: the loop suppresses it, a send raises it.
AskFails(k) ==
    /\ Faulty
    /\ job[k].at = "asking"
    /\ job[k].urgency = "normal"
    /\ Rests(k)
    /\ owed' = Settled(k)
    /\ UNCHANGED <<clockVars, sends, rowVars, digest, due, today, unrowed, tonight>>

\* The life loop's cycle is cancelled at whatever await it is in.
CycleCut ==
    /\ Faulty
    /\ job["life"].at # "idle"
    /\ Rests("life")
    /\ unrowed' = Unrowed({"life"})
    /\ UNCHANGED <<clockVars, sends, rowVars, digest, due, owed, today, tonight>>

\* The core dies and comes back: rows stay, the digest does not.
Crash ==
    /\ Faulty
    /\ job' = [k \in Tasks |-> Resting]
    /\ digest' = NoEntry
    /\ due' = FALSE
    /\ owed' = {}
    /\ unrowed' = Unrowed(Tasks)
    /\ UNCHANGED <<clockVars, sends, rowVars, today, tonight>>

-----------------------------------------------------------------------------
(* The clock and the person. *)

QuietTurns ==
    /\ quiet' = ~quiet
    /\ tonight' = 0
    /\ UNCHANGED <<turned, last, sends, faults, rowVars, digest, due, job,
                   owed, today, unrowed>>

NewDay ==
    /\ ~turned
    /\ turned' = TRUE
    /\ sent' = 0
    /\ today' = 0
    /\ unrowed' = 0
    /\ UNCHANGED <<quiet, last, sends, faults, said, digest, due, job,
                   owed, tonight>>

\* digest_window_min after the entry was opened.
WindowUp ==
    /\ digest # NoEntry
    /\ due' = TRUE
    /\ UNCHANGED <<clockVars, sends, faults, rowVars, digest, job, histVars>>

PersonWrites ==
    /\ last' = "theirs"
    /\ UNCHANGED <<quiet, turned, sends, faults, rowVars, digest, due, job, histVars>>

\* awaiting_reply_h pass with nothing said: last_spoken finds no row.
AwaitingLapses ==
    /\ last = "mine"
    /\ last' = "none"
    /\ UNCHANGED <<quiet, turned, sends, faults, rowVars, digest, due, job, histVars>>

-----------------------------------------------------------------------------

FlushStep == flush_due_digests \/ LastWordRead
Step(k)   == Admitted(k) \/ NotAdmitted(k) \/ Delivered(k) \/ DeliveryFails(k) \/ _record(k)

Next ==
    \/ \E t \in Texts, say \in Says : send(t, say[1], say[2])
    \/ recent_words \/ _why_not_speak_first
    \/ FlushStep
    \/ \E k \in Tasks : Step(k) \/ RecordFails(k) \/ AskFails(k)
    \/ CycleCut \/ Crash
    \/ QuietTurns \/ NewDay \/ WindowUp \/ PersonWrites \/ AwaitingLapses

\* The digest loop runs every minute and the window's clock runs; nothing is
\* owed by the life loop, the person, the sender's success or the quiet hours.
Spec ==
    /\ Init /\ [][Next]_vars
    /\ WF_vars(FlushStep) /\ WF_vars(Step("flush"))
    /\ WF_vars(WindowUp)

-----------------------------------------------------------------------------

\* The daily budget is asked before the delivery and counted after it, by two
\* tasks.  However they interleave, a day's unsolicited messages exceed the
\* budget by one at most, plus one for every delivery that left no row.
BudgetOvershoot ==
    today + Cardinality({k \in Tasks : job[k].at = "sending" /\ Budgeted(job[k])})
      <= Budget + 1 + unrowed

\* Quiet hours that begin between the question and the delivery let at most one
\* message of each task through.
NightQuota == tonight <= Cardinality(Tasks)

\* Every text that was answered 'queued' is still in the digest or in the batch
\* the flush holds, until it is delivered, refused, failed or lost by a fault.
NothingForgotten ==
    owed = Waiting \cup (IF job["flush"].at \in {"asking", "sending"}
                         THEN Range(job["flush"].texts) ELSE {})

\* A batch that holds a promised update leaves the digest even if the person
\* never answers: the flush does not wait for a reply to the agent's own word.
PromisedLeaves ==
    (digest # NoEntry /\ digest.promised) ~> (digest = NoEntry)
=============================================================================
