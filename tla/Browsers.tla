------------------------------ MODULE Browsers ------------------------------
(***************************************************************************)
(* The pool of Chromium sessions (ethos/toolhost/browser.py) under the     *)
(* calls of the tools that share it (toolhost/tools/browser_tools.py):     *)
(* looking one up is one moment, opening and closing one are awaits.       *)
(***************************************************************************)
EXTENDS Naturals, Sequences, SequencesExt, FiniteSets, Functions

CONSTANTS Calls,         \* tool calls; a browser is named after the call that opened it
          SessionIds,
          max_sessions,
          MaxFaults

None == "none"
BrowsersAssumption ==
    /\ max_sessions \in Nat \ {0} /\ MaxFaults \in Nat
    /\ IsFiniteSet(Calls) /\ IsFiniteSet(SessionIds)
    /\ None \notin Calls \cup SessionIds

VARIABLES sessions,   \* id |-> the browser registered under it
          last_used,  \* ids, the least recently used first
          idle,       \* ids unused for idle_ttl_s or more
          live,       \* browsers whose Chromium runs
          call,       \* call |-> how far it has come
          faults,
          overlapped, \* whether two calls were ever at it at once
          leaked      \* browsers launched by a call that then failed

vars == <<sessions, last_used, idle, live, call, faults, overlapped, leaked>>

Fresh == [at |-> "new", id |-> None, of |-> None, stale |-> {}]
Under == {c \in Calls : call[c].at \notin {"new", "over", "failed"}}

TypeOK ==
    /\ DOMAIN sessions \subseteq SessionIds /\ ToSet(last_used) = DOMAIN sessions
    /\ Len(last_used) = Cardinality(DOMAIN sessions)
    /\ idle \subseteq DOMAIN sessions /\ live \subseteq Calls
    /\ call \in [Calls -> [at : {"new", "reaping", "evicting", "discarding", "launching", "opening", "using", "over", "failed"},
                           id : SessionIds \cup {None}, of : Calls \cup {None}, stale : SUBSET SessionIds]]
    /\ faults \in 0 .. MaxFaults /\ overlapped \in BOOLEAN /\ leaked \subseteq Calls

Init ==
    /\ sessions = << >> /\ last_used = << >> /\ idle = {} /\ live = {}
    /\ call = [c \in Calls |-> Fresh] /\ faults = 0 /\ overlapped = FALSE /\ leaked = {}

\* Variants named mutant_* are mistakes the properties must catch.
_touch(id) == Append(RemoveFirst(last_used, id), id)

\* close awaits; stop_playwright comes last, also where the close is cut short.
mutant_discard_keeps(c, id, then) ==
    /\ last_used' = RemoveFirst(last_used, id) /\ idle' = idle \ {id}
    /\ sessions' = Restrict(sessions, DOMAIN sessions \ {id})
    /\ call' = [call EXCEPT ![c] = [then EXCEPT !.at = "discarding"]]
mutant_discard_listed(c, id, then) ==
    /\ idle' = idle \ {id} /\ UNCHANGED <<sessions, last_used>>
    /\ call' = [call EXCEPT ![c] = [then EXCEPT !.at = "discarding",
                                    !.of = IF id \in DOMAIN sessions THEN sessions[id] ELSE None]]
_discard(c, id, then) ==
    /\ last_used' = RemoveFirst(last_used, id) /\ idle' = idle \ {id}
    /\ sessions' = Restrict(sessions, DOMAIN sessions \ {id})
    /\ call' = [call EXCEPT ![c] = [then EXCEPT !.at = "discarding",
                                    !.of = IF id \in DOMAIN sessions THEN sessions[id] ELSE None]]

-----------------------------------------------------------------------------

get_or_create(c, id) ==
    /\ call[c].at = "new"
    /\ overlapped' = (overlapped \/ Under # {})
    /\ IF id \in DOMAIN sessions
       THEN /\ last_used' = _touch(id) /\ idle' = idle \ {id}
            /\ call' = [call EXCEPT ![c] = [Fresh EXCEPT !.at = "using", !.id = id, !.of = sessions[id]]]
       ELSE /\ call' = [call EXCEPT ![c] = [Fresh EXCEPT !.at = "reaping", !.id = id, !.stale = idle]]
            /\ UNCHANGED <<last_used, idle>>
    /\ UNCHANGED <<sessions, live, faults, leaked>>

\* Idleness first: the list is made once, and worked through with awaits.
reap_idle(c) ==
    /\ call[c].at = "reaping"
    /\ IF call[c].stale = {}
       THEN call' = [call EXCEPT ![c].at = "evicting"] /\ UNCHANGED <<sessions, last_used, idle>>
       ELSE \E id \in call[c].stale : _discard(c, id, [call[c] EXCEPT !.stale = @ \ {id}])
    /\ UNCHANGED <<live, faults, overlapped, leaked>>

\* Then the ceiling.
mutant_Full == Cardinality(DOMAIN sessions) > max_sessions
Full == Cardinality(DOMAIN sessions) >= max_sessions
_evict_lru(c) ==
    /\ call[c].at = "evicting" /\ Full /\ last_used # << >>
    /\ _discard(c, Head(last_used), call[c])
    /\ UNCHANGED <<live, faults, overlapped, leaked>>
start(c) ==
    /\ call[c].at = "evicting" /\ (~Full \/ last_used = << >>)
    /\ call' = [call EXCEPT ![c].at = "launching"]
    /\ UNCHANGED <<sessions, last_used, idle, live, faults, overlapped, leaked>>

Closed(c) ==
    /\ call[c].at = "discarding"
    /\ live' = live \ {call[c].of}
    /\ call' = [call EXCEPT ![c].of = None,
                            ![c].at = IF call[c].id = None THEN "over" ELSE IF call[c].stale # {} THEN "reaping" ELSE "evicting"]
    /\ UNCHANGED <<sessions, last_used, idle, faults, overlapped, leaked>>

Launched(c) ==
    /\ call[c].at = "launching" /\ live' = live \cup {c}
    /\ call' = [call EXCEPT ![c].at = "opening"]
    /\ UNCHANGED <<sessions, last_used, idle, faults, overlapped, leaked>>
Opened(c) ==
    /\ call[c].at = "opening"
    /\ sessions' = [i \in DOMAIN sessions \cup {call[c].id} |-> IF i = call[c].id THEN c ELSE sessions[i]]
    /\ last_used' = _touch(call[c].id) /\ idle' = idle \ {call[c].id}
    /\ call' = [call EXCEPT ![c].at = "using", ![c].of = c]
    /\ UNCHANGED <<live, faults, overlapped, leaked>>

\* Every operation asks for the page first, which closing took away.
_require_page(b) == b \in live
Used(c) ==
    /\ call[c].at = "using"
    /\ call' = [call EXCEPT ![c].at = IF _require_page(call[c].of) THEN "over" ELSE "failed"]
    /\ UNCHANGED <<sessions, last_used, idle, live, faults, overlapped, leaked>>
close(c, id) ==
    /\ call[c].at = "new"
    /\ overlapped' = (overlapped \/ Under # {})
    /\ _discard(c, id, Fresh)
    /\ UNCHANGED <<live, faults, leaked>>

\* The launch fails and is cleaned up, or what follows it fails, or the tool's
\* time is over: nobody stops a Chromium that is launched and not registered.
Fails(c) ==
    /\ call[c].at \in {"launching", "opening"} /\ faults < MaxFaults /\ faults' = faults + 1
    /\ leaked' = IF call[c].at = "opening" THEN leaked \cup {c} ELSE leaked
    /\ call' = [call EXCEPT ![c].at = "over"]
    /\ UNCHANGED <<sessions, last_used, idle, live, overlapped>>
TimesOut(c) ==
    /\ call[c].at \in {"discarding", "using"} /\ faults < MaxFaults /\ faults' = faults + 1
    /\ live' = IF call[c].at = "discarding" THEN live \ {call[c].of} ELSE live
    /\ call' = [call EXCEPT ![c].at = "over"]
    /\ UNCHANGED <<sessions, last_used, idle, overlapped, leaked>>
\* Five minutes pass for every browser of the pool.
TimePasses ==
    /\ idle # DOMAIN sessions /\ idle' = DOMAIN sessions
    /\ UNCHANGED <<sessions, last_used, live, call, faults, overlapped, leaked>>

Next ==
    \/ TimePasses
    \/ \E c \in Calls :
         \/ reap_idle(c) \/ _evict_lru(c) \/ start(c) \/ Closed(c) \/ Launched(c) \/ Opened(c) \/ Used(c)
         \/ Fails(c) \/ TimesOut(c)
         \/ \E id \in SessionIds : get_or_create(c, id) \/ close(c, id)
Spec == Init /\ [][Next]_vars

-----------------------------------------------------------------------------

\* Calls that follow one another keep the ceiling, whichever of them fail,
\* but for the browsers a failed opening left behind.
CeilingHolds == overlapped \/ Cardinality(live \ leaked) <= max_sessions

\* No call is handed a browser that was closed: reaping, eviction and closing
\* take a browser out of the pool before it ends.
PageIsThere == overlapped \/ \A c \in Calls : call[c].at # "failed"

\* A registered browser runs, and one that runs is registered, being closed or
\* being opened: only two calls for one name, or a failure, leave a stray.
Closing == {call[c].of : c \in {d \in Calls : call[d].at = "discarding"}} \ {None}
Opening == {c \in Calls : call[c].at = "opening"}
NoStrays == overlapped \/ live = Range(sessions) \cup leaked \cup Closing \cup Opening

\* browser.py:149 "`max_sessions` is a hard ceiling".
HardCeiling == Cardinality(live) <= max_sessions
=============================================================================
