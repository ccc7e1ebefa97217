----------------------------- MODULE EventBus -----------------------------
(***************************************************************************)
(* The event bus (ethos/bus/event_bus.py) as one consumer, the core, sees  *)
(* it: publishers commit rows and their NOTIFY in one transaction, the     *)
(* listener's callback starts a task per notification, each task fetches   *)
(* its row and enqueues it, one loop dispatches.  The fetches of different *)
(* notifications race.  Start-up is that of CoreRuntime.start and wake_up: *)
(* LISTEN first, the handler later, the drain last.                        *)
(*                                                                         *)
(* An event is its id.  Ids are drawn at the INSERT and the transactions   *)
(* commit in any order.                                                    *)
(***************************************************************************)
EXTENDS Naturals, Sequences, FiniteSets, Functions

CONSTANTS Events,      \* ids of the rows that will be inserted
          Window,      \* SEEN_ID_WINDOW
          DrainLimit,  \* rows one drain claims (500 in the code)
          MaxEchoes,   \* bound: notifications delivered again
          MaxFaults    \* bound: crashes, lost connections, failed fetches

BusAssumption ==
    /\ Events \subseteq Nat /\ IsFiniteSet(Events)
    /\ Window \in Nat \ {0}
    /\ DrainLimit \in Nat \ {0}
    /\ MaxEchoes \in Nat /\ MaxFaults \in Nat

VARIABLES committed,   \* rows of the events table
          consumed,    \* those that carry this consumer in consumed_by
          phase,       \* the process
          deaf,        \* its listener connection is gone
          inbox,       \* notifications the connection still has to deliver
          fetching,    \* _fetch_and_enqueue tasks awaiting their row, per event
          seenIds,     \* _seen_ids
          seenOrder,   \* _seen_order
          queue,       \* _queue
          claiming,    \* rows the drain has read and not yet claimed
          handled,     \* history, since the start: events given to the handler
          recorded,    \* history, since the start: ids _seen_add took in
          expected,    \* history, since the start: events committed while a handler listened
          lost,        \* history, since the start: events a fault or the drain took away
          overlapped,  \* history, since the start: events two fetches of which ran at once
          echoes, faults

tableVars == <<committed, consumed>>
seenVars  == <<seenIds, seenOrder, recorded>>
boundVars == <<echoes, faults>>
vars == <<tableVars, phase, deaf, inbox, fetching, seenVars, queue, claiming,
          handled, expected, lost, overlapped, boundVars>>

Phases == {"down", "listening", "wired", "draining", "awake"}
Wired  == phase \in {"wired", "draining", "awake"}

TypeOK ==
    /\ committed \subseteq Events /\ consumed \subseteq committed
    /\ phase \in Phases /\ deaf \in BOOLEAN
    /\ Range(inbox) \cup Range(queue) \cup Range(claiming) \cup Range(handled) \subseteq committed
    /\ fetching \in [Events -> Nat]
    /\ seenIds \subseteq committed
    /\ expected \cup lost \cup overlapped \subseteq committed
    /\ Len(seenOrder) <= Window
    /\ echoes \in 0 .. MaxEchoes /\ faults \in 0 .. MaxFaults

NoTasks == [e \in Events |-> 0]

Init ==
    /\ committed = {} /\ consumed = {}
    /\ phase = "down" /\ deaf = FALSE
    /\ inbox = <<>> /\ queue = <<>> /\ claiming = <<>>
    /\ fetching = NoTasks
    /\ seenIds = {} /\ seenOrder = <<>> /\ recorded = <<>>
    /\ handled = <<>>
    /\ expected = {} /\ lost = {} /\ overlapped = {}
    /\ echoes = 0 /\ faults = 0

-----------------------------------------------------------------------------
(* The seen window.  Variants named mutant_* are mistakes the properties   *)
(* must catch; no action uses them.                                        *)

\* The set and the deque after one id.  The deque's maxlen drops its head by
\* itself; the set's discard is the code's.
mutant_Seen_append_first(e) ==
    IF e \in seenIds THEN <<seenIds, seenOrder>>
    ELSE LET order == Append(IF Len(seenOrder) >= Window THEN Tail(seenOrder) ELSE seenOrder, e)
         IN <<(seenIds \cup {e}) \ (IF Len(seenOrder) >= Window THEN {Head(order)} ELSE {}), order>>
Seen(e) ==
    IF e \in seenIds THEN <<seenIds, seenOrder>>
    ELSE IF Len(seenOrder) >= Window
    THEN <<(seenIds \cup {e}) \ {Head(seenOrder)}, Append(Tail(seenOrder), e)>>
    ELSE <<seenIds \cup {e}, Append(seenOrder, e)>>

_seen_add(e) ==
    /\ seenIds' = Seen(e)[1]
    /\ seenOrder' = Seen(e)[2]
    /\ recorded' = IF e \in seenIds THEN recorded ELSE Append(recorded, e)

Hears == phase # "down" /\ ~deaf

-----------------------------------------------------------------------------
(* Publishers. *)

\* The transaction commits: the row and the NOTIFY become visible together.
publish(e) ==
    /\ e \notin committed
    /\ committed' = committed \cup {e}
    /\ inbox' = IF Hears THEN Append(inbox, e) ELSE inbox
    /\ expected' = IF Hears /\ Wired THEN expected \cup {e} ELSE expected
    /\ UNCHANGED <<consumed, phase, deaf, fetching, seenVars, queue, claiming,
                   handled, lost, overlapped, boundVars>>

\* "a NOTIFY is not a promise of exactly one delivery".
Echo(e) ==
    /\ e \in committed
    /\ Hears
    /\ echoes < MaxEchoes
    /\ echoes' = echoes + 1
    /\ inbox' = Append(inbox, e)
    /\ UNCHANGED <<tableVars, phase, deaf, fetching, seenVars, queue, claiming,
                   handled, expected, lost, overlapped, faults>>

-----------------------------------------------------------------------------
(* The consumer. *)

mutant_Unseen_always(e) == TRUE
Unseen(e) == e \notin seenIds

\* A notification arrives: its task starts, looks at the window, and asks for
\* the row.
_on_notify ==
    /\ inbox # <<>>
    /\ LET e == Head(inbox) IN
       /\ fetching' = IF Unseen(e) THEN [fetching EXCEPT ![e] = @ + 1] ELSE fetching
       /\ overlapped' = IF Unseen(e) /\ fetching[e] > 0 THEN overlapped \cup {e} ELSE overlapped
    /\ inbox' = Tail(inbox)
    /\ UNCHANGED <<tableVars, phase, deaf, seenVars, queue, claiming,
                   handled, expected, lost, boundVars>>

\* The row arrives, whatever the window says by now.
mutant_Enqueued_rechecked(e) == IF e \in seenIds THEN queue ELSE Append(queue, e)
Enqueued(e) == Append(queue, e)

_fetch_and_enqueue(e) ==
    /\ fetching[e] > 0
    /\ fetching' = [fetching EXCEPT ![e] = @ - 1]
    /\ _seen_add(e)
    /\ queue' = Enqueued(e)
    /\ UNCHANGED <<tableVars, phase, deaf, inbox, claiming,
                   handled, expected, lost, overlapped, boundVars>>

\* One event to the handlers; before _wire_bus there are none.
_dispatch ==
    /\ queue # <<>>
    /\ queue' = Tail(queue)
    /\ handled' = IF Wired THEN Append(handled, Head(queue)) ELSE handled
    /\ UNCHANGED <<tableVars, phase, deaf, inbox, fetching, seenVars, claiming,
                   expected, lost, overlapped, boundVars>>

-----------------------------------------------------------------------------
(* Start-up. *)

start ==
    /\ phase = "down"
    /\ phase' = "listening"
    /\ UNCHANGED <<tableVars, deaf, inbox, fetching, seenVars, queue, claiming,
                   handled, expected, lost, overlapped, boundVars>>

_wire_bus ==
    /\ phase = "listening"
    /\ phase' = "wired"
    /\ UNCHANGED <<tableVars, deaf, inbox, fetching, seenVars, queue, claiming,
                   handled, expected, lost, overlapped, boundVars>>

\* The drain's SELECT: the oldest ids this consumer has not consumed, in order.
Unclaimed ==
    LET ids == committed \ consumed IN
    {s \in [1 .. (IF Cardinality(ids) < DrainLimit THEN Cardinality(ids) ELSE DrainLimit) -> ids] :
        /\ \A i, j \in DOMAIN s : i < j => s[i] < s[j]
        /\ \A e \in ids \ Range(s) : \A i \in DOMAIN s : s[i] < e}
drain ==
    /\ phase = "wired"
    /\ phase' = "draining"
    /\ claiming' \in Unclaimed
    /\ UNCHANGED <<tableVars, deaf, inbox, fetching, seenVars, queue,
                   handled, expected, lost, overlapped, boundVars>>

\* A claimed event is only counted by wake_up, and its notification, if it has
\* not started a fetch yet, will find the id seen.
TakenAway(e) == lost \cup (IF e \in Range(inbox) /\ Unseen(e) THEN {e} ELSE {})

Claim ==
    /\ claiming # <<>>
    /\ LET e == Head(claiming) IN
       /\ consumed' = consumed \cup {e}
       /\ _seen_add(e)
       /\ lost' = TakenAway(e)
    /\ claiming' = Tail(claiming)
    /\ UNCHANGED <<committed, phase, deaf, inbox, fetching, queue,
                   handled, expected, overlapped, boundVars>>

Drained ==
    /\ phase = "draining"
    /\ claiming = <<>>
    /\ phase' = "awake"
    /\ UNCHANGED <<tableVars, deaf, inbox, fetching, seenVars, queue, claiming,
                   handled, expected, lost, overlapped, boundVars>>

-----------------------------------------------------------------------------
(* Faults. *)

Faulty == faults < MaxFaults /\ faults' = faults + 1
Pending == Range(inbox) \cup Range(queue) \cup {e \in Events : fetching[e] > 0}

FetchFails(e) ==
    /\ Faulty
    /\ fetching[e] > 0
    /\ fetching' = [fetching EXCEPT ![e] = @ - 1]
    /\ lost' = lost \cup {e}
    /\ UNCHANGED <<tableVars, phase, deaf, inbox, seenVars, queue, claiming,
                   handled, expected, overlapped, echoes>>

\* Nothing opens the listener connection again.
ConnectionLost ==
    /\ Faulty
    /\ Hears
    /\ deaf' = TRUE
    /\ lost' = lost \cup Range(inbox)
    /\ inbox' = <<>>
    /\ UNCHANGED <<tableVars, phase, fetching, seenVars, queue, claiming,
                   handled, expected, overlapped, echoes>>

Crash ==
    /\ Faulty
    /\ phase # "down"
    /\ phase' = "down" /\ deaf' = FALSE
    /\ inbox' = <<>> /\ queue' = <<>> /\ claiming' = <<>>
    /\ fetching' = NoTasks
    /\ seenIds' = {} /\ seenOrder' = <<>> /\ recorded' = <<>>
    /\ handled' = <<>> /\ expected' = {} /\ lost' = {} /\ overlapped' = {}
    /\ UNCHANGED <<tableVars, echoes>>

Next ==
    \/ \E e \in Events : publish(e) \/ Echo(e) \/ _fetch_and_enqueue(e) \/ FetchFails(e)
    \/ _on_notify \/ _dispatch
    \/ start \/ _wire_bus \/ drain \/ Claim \/ Drained
    \/ ConnectionLost \/ Crash

Spec == Init /\ [][Next]_vars

-----------------------------------------------------------------------------

\* The set and the deque of the window agree, and hold exactly the last Window
\* ids taken in: an id leaves when, and only when, Window newer ones came.
WindowKept ==
    /\ seenIds = Range(seenOrder)
    /\ seenOrder = SubSeq(recorded, IF Len(recorded) > Window THEN Len(recorded) - Window + 1 ELSE 1,
                          Len(recorded))

Copies(e) == Cardinality({i \in 1 .. Len(handled) : handled[i] = e})
             + Cardinality({i \in 1 .. Len(queue) : queue[i] = e}) + fetching[e]

\* An event reaches the handler twice only if two fetches of it overlapped, or
\* Window other ids were taken in after it and a late echo found it forgotten.
OneUnlessOverlapped ==
    \A e \in committed \ overlapped :
        Copies(e) > 1 => \E i \in 1 .. Len(recorded) - Window : recorded[i] = e

\* An event committed while the handler listens is on its way to it, until it is
\* handled or a fault or the start-up drain takes it away.
NothingDropped == expected \subseteq Pending \cup Range(handled) \cup lost
=============================================================================
