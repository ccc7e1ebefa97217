------------------------------ MODULE Inbound ------------------------------
(***************************************************************************)
(* The way of a message from a provider to the agent's queue: the adapters *)
(* of ethos/comms/adapters, the webhook receiver (comms/webhook.py), the   *)
(* handler of the host (comms/host.py) and the row and the event it makes. *)
(* Providers: Telegram is polled and acknowledged by the next poll; push   *)
(* doors (WhatsApp, Slack, LINE, Google Chat) deliver until they are       *)
(* answered, each delivery in a task of its own; Discord says everything   *)
(* once, down a socket; mail stays unseen until it is fetched.             *)
(***************************************************************************)
EXTENDS Naturals, FiniteSets

CONSTANTS Messages,           \* [door, id, n]: id 0 is the empty id, n tells messages apart
          Slots,              \* handler tasks that may run at once
          Limit, Drop,        \* the window of seen ids, and how many it forgets
          MaxWritten, MaxFaults, MaxDelay \* bounds

Kinds == {"telegram", "push", "discord", "email"}
Named == {"telegram", "push", "email"}       \* doors with a window of ids

InboundAssumption ==
    /\ Messages \subseteq [door : Kinds, id : Nat, n : Nat] /\ IsFiniteSet(Messages)
    /\ \A m \in Messages : m.id = 0 => m.door \in {"push", "discord"}
    /\ \A m, o \in Messages : m.door = o.door /\ m.id = o.id /\ m.id # 0 => m = o   \* an id names one message of its door
    /\ Limit \in Nat /\ Drop \in 1 .. Limit
    /\ MaxWritten \in Nat /\ MaxFaults \in Nat /\ MaxDelay \in Nat \ {0}

VARIABLES held,       \* message |-> where it is at its provider
          queue,      \* Telegram updates read and not handled
          seen,       \* door |-> ids in its window
          job,        \* handler tasks: the message, and what it waits for
          rows,       \* message |-> rows recorded for it
          events,     \* message |-> events published for it
          connected,  \* Discord's socket
          delay,      \* and the wait before the next one, in doublings
          forgotten,  \* history: messages whose id has left the window
          hit,        \* history: messages that a fault or a closed socket met
          faults

vars == <<held, queue, seen, job, rows, events, connected, delay, forgotten, hit, faults>>

Of(d) == {m \in Messages : m.door = d}
Ids   == {m.id : m \in Messages}
Jobs  == [at : {"idle"}] \cup [at : {"recording", "publishing"}, msg : Messages]
Free  == [at |-> "idle"]
Busy  == {s \in Slots : job[s].at # "idle"}
On(m) == \E s \in Busy : job[s].msg = m
Some(m, k) == IF k[m] < 2 THEN k[m] + 1 ELSE 2        \* rows and events, counted to 2

TypeOK ==
    /\ held \in [Messages -> {"unsent", "held", "read", "gone"}]
    /\ queue \subseteq Of("telegram")
    /\ seen \in [Named -> SUBSET Ids]
    /\ job \in [Slots -> Jobs]
    /\ rows \in [Messages -> 0 .. 2] /\ events \in [Messages -> 0 .. 2]
    /\ connected \in BOOLEAN /\ delay \in 0 .. MaxDelay
    /\ forgotten \subseteq Messages /\ hit \subseteq Messages
    /\ faults \in 0 .. MaxFaults

Init ==
    /\ held = [m \in Messages |-> "unsent"] /\ queue = {}
    /\ seen = [d \in Named |-> {}]
    /\ job = [s \in Slots |-> Free]
    /\ rows = [m \in Messages |-> 0] /\ events = [m \in Messages |-> 0]
    /\ connected = FALSE /\ delay = 0
    /\ forgotten = {} /\ hit = {} /\ faults = 0

Fails(m) == faults < MaxFaults /\ faults' = faults + 1 /\ hit' = hit \cup {m}
Well     == UNCHANGED <<faults, hit>>

\* Somebody writes.  What Discord says into a closed socket is gone.
Write(m) ==
    /\ held[m] = "unsent" /\ Cardinality({o \in Messages : held[o] # "unsent"}) < MaxWritten
    /\ LET lost == m.door = "discord" /\ ~connected IN
       /\ held' = [held EXCEPT ![m] = IF lost THEN "gone" ELSE "held"]
       /\ hit' = IF lost THEN hit \cup {m} ELSE hit
    /\ UNCHANGED <<queue, seen, job, rows, events, connected, delay, forgotten, faults>>

-----------------------------------------------------------------------------
(* offer_seen.  Past its limit the window forgets: the lowest ids where    *)
(* they are numbers, and otherwise whichever a set yields first.  Variants *)
(* named mutant_* are mistakes the properties must catch.                  *)

Numeric(d) == d \in {"telegram", "email"}
Stale(d, ids) ==
    IF Cardinality(ids) <= Limit THEN {{}}
    ELSE {x \in SUBSET ids : /\ Cardinality(x) = Drop
                             /\ Numeric(d) => \A i \in x, k \in ids \ x : i < k}

mutant_Unnamed_guarded(m) == FALSE
Unnamed(m) == m.door = "push" /\ m.id = 0
New(m) == Unnamed(m) \/ m.id \notin seen[m.door]

mutant_offer_seen_unkept(m) == UNCHANGED <<seen, forgotten>>
offer_seen(m) ==
    IF Unnamed(m) THEN UNCHANGED <<seen, forgotten>>
    ELSE \E stale \in Stale(m.door, seen[m.door] \cup {m.id}) :
           /\ seen' = [seen EXCEPT ![m.door] = (@ \cup {m.id}) \ stale]
           /\ forgotten' = forgotten \cup {o \in Of(m.door) : o.id \in stale}

\* A task takes the message up; Telegram, Discord and mail have one task each.
Takes(s, m) ==
    /\ job[s].at = "idle"
    /\ m.door # "push" => \A t \in Busy : job[t].msg.door # m.door
    /\ job' = [job EXCEPT ![s] = [at |-> "recording", msg |-> m]]

-----------------------------------------------------------------------------
(* Telegram. *)

\* getUpdates hands over what is held, and acknowledges what was read before.
getUpdates ==
    /\ \E m \in Of("telegram") : held[m] \in {"held", "read"}
    /\ held' = [m \in Messages |->
         IF m.door # "telegram" THEN held[m]
         ELSE IF held[m] = "held" THEN "read" ELSE IF held[m] = "read" THEN "gone" ELSE held[m]]
    /\ queue' = queue \cup {m \in Of("telegram") : held[m] = "held"}
    /\ UNCHANGED <<seen, job, rows, events, connected, delay, forgotten, hit, faults>>

handle(s, m) ==
    /\ m \in queue
    /\ queue' = queue \ {m}
    /\ IF New(m) THEN offer_seen(m) /\ Takes(s, m)
       ELSE /\ job[s].at = "idle" /\ \A t \in Busy : job[t].msg.door # "telegram"
            /\ UNCHANGED <<seen, forgotten, job>>
    /\ UNCHANGED <<held, rows, events, connected, delay, hit, faults>>

(* The receiver: a delivery whose id is known is answered at once, and one  *)
(* that is new when it has been handled, whether or not that went well.     *)

\* With a handler still at work the provider may deliver again.
handle_webhook(s, m) ==
    /\ m.door = "push" /\ held[m] = "held"
    /\ IF New(m) THEN offer_seen(m) /\ Takes(s, m) /\ UNCHANGED held
       ELSE /\ held' = [held EXCEPT ![m] = "gone"]
            /\ job[s].at = "idle" /\ UNCHANGED <<seen, forgotten, job>>
    /\ UNCHANGED <<queue, rows, events, connected, delay, hit, faults>>

(* Discord. *)

\* A session never returns, it ends in an exception: the wait only grows.
_run ==
    /\ ~connected
    /\ connected' = TRUE
    /\ UNCHANGED <<held, queue, seen, job, rows, events, delay, forgotten, hit, faults>>
_session ==
    /\ connected
    /\ faults < MaxFaults /\ faults' = faults + 1
    /\ connected' = FALSE
    /\ delay' = IF delay < MaxDelay THEN delay + 1 ELSE delay
    /\ LET unread == {m \in Of("discord") : held[m] = "held"} IN
       /\ held' = [m \in Messages |-> IF m \in unread THEN "gone" ELSE held[m]]
       /\ hit' = hit \cup unread
    /\ UNCHANGED <<queue, seen, job, rows, events, forgotten>>
_dispatch(s, m) ==
    /\ m.door = "discord" /\ held[m] = "held" /\ connected
    /\ held' = [held EXCEPT ![m] = "gone"]
    /\ Takes(s, m)
    /\ UNCHANGED <<queue, seen, rows, events, connected, delay, forgotten, hit, faults>>

(* Mail: the id is marked before the fetch, and the fetch marks it seen.    *)
_poll_once(s, m) ==
    /\ m.door = "email" /\ held[m] = "held" /\ New(m)
    /\ offer_seen(m)
    /\ \/ Takes(s, m) /\ held' = [held EXCEPT ![m] = "gone"] /\ Well
       \/ /\ Fails(m) /\ UNCHANGED <<job, held>>
          /\ job[s].at = "idle" /\ \A t \in Busy : job[t].msg.door # "email"
    /\ UNCHANGED <<queue, rows, events, connected, delay>>

-----------------------------------------------------------------------------
(* The host's handler: a row with an id of its own, then an event.  What    *)
(* fails is logged and the handler is over.                                 *)

Answered(m) == held' = IF m.door = "push" THEN [held EXCEPT ![m] = "gone"] ELSE held
record_inbound(s) ==
    /\ job[s].at = "recording"
    /\ LET m == job[s].msg IN
       \/ /\ rows' = [rows EXCEPT ![m] = Some(m, rows)]
          /\ job' = [job EXCEPT ![s].at = "publishing"]
          /\ Well /\ UNCHANGED held
       \/ /\ Fails(m)
          /\ job' = [job EXCEPT ![s] = Free] /\ Answered(m) /\ UNCHANGED rows
    /\ UNCHANGED <<queue, seen, events, connected, delay, forgotten>>
publish(s) ==
    /\ job[s].at = "publishing"
    /\ LET m == job[s].msg IN
       /\ \/ events' = [events EXCEPT ![m] = Some(m, events)] /\ Well
          \/ Fails(m) /\ UNCHANGED events
       /\ job' = [job EXCEPT ![s] = Free] /\ Answered(m)
    /\ UNCHANGED <<queue, seen, rows, connected, delay, forgotten>>

\* The process ends and comes back: windows, tasks and queue are gone, and
\* Telegram hands over again what was read and not acknowledged.
Restart ==
    /\ faults < MaxFaults /\ faults' = faults + 1
    /\ held' = [m \in Messages |-> IF held[m] = "read" THEN "held" ELSE held[m]]
    /\ hit' = hit \cup queue \cup {job[s].msg : s \in Busy}
    /\ forgotten' = forgotten \cup {m \in Messages : m.door \in Named /\ m.id \in seen[m.door]}
    /\ queue' = {} /\ seen' = [d \in Named |-> {}] /\ job' = [s \in Slots |-> Free]
    /\ connected' = FALSE /\ delay' = 0
    /\ UNCHANGED <<rows, events>>

Works ==
    \/ \E s \in Slots, m \in Messages :
         handle(s, m) \/ handle_webhook(s, m) \/ _dispatch(s, m) \/ _poll_once(s, m)
    \/ \E s \in Slots : record_inbound(s) \/ publish(s)
Next ==
    \/ Works \/ getUpdates \/ _run \/ _session \/ Restart
    \/ \E m \in Messages : Write(m)

\* The loops of polls, of sockets and of handler tasks go on; each is served.
Fairness ==
    /\ WF_vars(getUpdates) /\ WF_vars(_run)
    /\ \A s \in Slots : WF_vars(record_inbound(s) \/ publish(s))
    /\ \A m \in Messages :
         SF_vars(\E s \in Slots : handle(s, m) \/ handle_webhook(s, m) \/ _dispatch(s, m) \/ _poll_once(s, m))
Spec == Init /\ [][Next]_vars /\ Fairness

-----------------------------------------------------------------------------

\* A message is recorded once, although its provider may deliver it again
\* while the first delivery is handled, unless its door has no ids or the
\* window has forgotten its own.  (Recorded twice, it is deliberated twice.)
OnceUnlessForgotten ==
    \A m \in Messages : rows[m] > 1 => m \in forgotten \/ (m.door = "push" /\ m.id = 0)

\* What the provider has handed over for good has a row and an event, unless
\* a fault met it: no other message stands in for it in a window of ids.
LostOnlyByFault ==
    \A m \in Messages :
       held[m] = "gone" /\ m \notin queue /\ ~On(m) => events[m] > 0 \/ m \in hit

\* offer_seen (base.py:19-25) drops "from the front, which for a delivery
\* stream is the order things arrived in": the id it has just been offered is
\* one that it remembers.
JustOfferedIsKnown ==
    [][\A m \in Of("push") : m.id # 0 /\ held[m] = "held" /\ ~On(m) /\ On(m)'
          => m.id \in seen'["push"]]_vars
=============================================================================
