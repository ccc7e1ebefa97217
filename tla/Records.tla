------------------------------- MODULE Records -------------------------------
(***************************************************************************)
(* What is written down, heard, handed over and said: the safety of the    *)
(* parts that keep records or pass words on, checked side by side.  One    *)
(* behaviour is one part's; the others rest in their initial state.        *)
(***************************************************************************)
EXTENDS Integers, FiniteSets, Sequences

CONSTANTS Events, Window, DrainLimit, MaxEchoes,                                \* EventBus
          Writers, Appenders, MaxRows, AuditFaults, AuditLimit,                 \* AuditChain
          Messages, Handlers, SeenLimit, SeenDrop, MaxWritten, MaxDelay,        \* Inbound
          Tools, Sanitized, WireTurns, WireCalls,                               \* Wire
          MaxTurns, NarrateEvery, MaxLines, PersistTurns, Salience, TurnBound,  \* WorkingContext
          FactBound, Callers, Old, Nights, Troubles,                            \* Consolidation
          min_cluster_size, Positions, MaxPoints,                               \* Clustering
          Files, Roots, none, MaxCommands, StatedBound,                         \* Verdict
          StateWindow, DelegationWindow, MaxDelegations, Replies, Horizon, ActionBound,  \* Deliberation
          Calls, SessionIds, max_sessions,                                      \* Browsers
          Starts,                                                               \* Jobs
          Texts, NoEntry, Budget, BatchFull, MaxSends,                          \* Outbound
          Senders, Conversations, UrlLimit, Lifetimes, Margin, Floor, NoToken,  \* Delivery
          MaxClock, Sendings, MaxPieces,
          MaxFaults   \* faults, of the parts that count them

VARIABLE part
Parts == {"bus", "audit", "inbound", "wire", "thread", "night", "groups", "verdict", "reply", "browsers", "jobs", "outbound", "delivery"}

\* Counted by several of the parts, each in behaviours of its own.
VARIABLE faults

VARIABLES committed, consumed, phase, deaf, inbox, fetching, seenIds, seenOrder, dispatched, claiming,
          handled, recorded, expected, lost, overlapped, echoes
Bus == INSTANCE EventBus WITH queue <- dispatched

VARIABLES audit_log, primed, head, task, asked, shared
Audit == INSTANCE AuditChain WITH Slots <- Appenders, MaxFaults <- AuditFaults, Limit <- AuditLimit

VARIABLES sender, queue, seen, job, rows, events, connected, delay, forgotten, hit
Inbound == INSTANCE Inbound WITH held <- sender, Slots <- Handlers, Limit <- SeenLimit, Drop <- SeenDrop

VARIABLES client, history, pending, exchanges, bare, refused
Wire == INSTANCE Wire WITH turns <- exchanges, MaxTurns <- WireTurns, MaxCalls <- WireCalls

VARIABLES kind, turns, narrative, at, hand, focus_roll, memory, saved, dropped
Thread == INSTANCE WorkingContext

VARIABLES facts, call, night, day, due, booked, archived, file, passes, decays, troubles, tangled, rewritten
Night == INSTANCE Consolidation

VARIABLE points
Groups == INSTANCE Clustering

VARIABLES goal, judging, checks, objective, passed, human_pending, blocked, refuted, raised, held
Verdict == INSTANCE Verdict WITH at <- judging

VARIABLES now, journal, message, deliberating, attempt, state, prose, fallback, answer, decision, backed, spoke
Reply == INSTANCE Deliberation WITH at <- deliberating, Window <- StateWindow, Texts <- Replies

VARIABLES sessions, last_used, idle, live, opened, crowded, leaked
Browsers == INSTANCE Browsers WITH call <- opened, overlapped <- crowded

VARIABLES background_jobs, start, ended, crossed
Jobs == INSTANCE Jobs

VARIABLES quiet, turned, sends, sent, last, said, digest, up, saying, owed, today, unrowed, tonight
Outbound == INSTANCE Outbound WITH due <- up, job <- saying

VARIABLES door, together, clock, urls, arrived, latest, token, post, spoken, heard, report
Delivery == INSTANCE Delivery WITH job <- post, sends <- spoken, None <- NoToken, MaxSends <- Sendings

ASSUME RecordsAssumption ==
    /\ Bus!BusAssumption /\ Audit!AuditAssumption /\ Inbound!InboundAssumption /\ Wire!WireAssumption
    /\ Thread!ContextAssumption /\ Night!NightAssumption /\ Groups!ClusteringAssumption
    /\ Verdict!VerdictAssumption /\ Reply!ReplyAssumption
    /\ Browsers!BrowsersAssumption /\ Jobs!JobsAssumption
    /\ Outbound!OutboundAssumption /\ Delivery!DeliveryAssumption

busVars == <<committed, consumed, phase, deaf, inbox, fetching, seenIds, seenOrder, dispatched, claiming,
             handled, recorded, expected, lost, overlapped, echoes>>
auditVars == <<audit_log, primed, head, task, asked, shared>>
inboundVars == <<sender, queue, seen, job, rows, events, connected, delay, forgotten, hit>>
wireVars == <<client, history, pending, exchanges, bare, refused>>
threadVars == <<kind, turns, narrative, at, hand, focus_roll, memory, saved, dropped>>
nightVars == <<facts, call, night, day, due, booked, archived, file, passes, decays, troubles, tangled, rewritten>>
verdictVars == <<goal, judging, checks, objective, passed, human_pending, blocked, refuted, raised, held>>
replyVars == <<now, journal, message, deliberating, attempt, state, prose, fallback, answer, decision, backed, spoke>>
browsersVars == <<sessions, last_used, idle, live, opened, crowded, leaked>>
jobsVars == <<background_jobs, start, ended, crossed>>
outboundVars == <<quiet, turned, sends, sent, last, said, digest, up, saying, owed, today, unrowed, tonight>>
deliveryVars == <<door, together, clock, urls, arrived, latest, token, post, spoken, heard, report>>

handedVars == <<busVars, auditVars, inboundVars, wireVars>>
mindVars == <<threadVars, nightVars, points, verdictVars, replyVars>>
handsVars == <<browsersVars, jobsVars, outboundVars, deliveryVars>>
vars == <<part, faults, handedVars, mindVars, handsVars>>

Init ==
    /\ part \in Parts
    /\ Bus!Init /\ Audit!Init /\ Inbound!Init /\ Wire!Init
    /\ Thread!Init /\ Night!Init /\ Groups!Init /\ Verdict!Init /\ Reply!Init
    /\ Browsers!Init /\ Jobs!Init /\ Outbound!Init /\ Delivery!Init
    /\ part # "wire" => client = "chat"
    /\ part # "verdict" => goal = [code |-> << >>, stated |-> << >>, human |-> FALSE, strict |-> FALSE, verify_code |-> FALSE]
    /\ part # "reply" => message = "plain"
    /\ part # "outbound" => ~quiet
    /\ part # "delivery" => door = "plain" /\ ~together

Handed ==
    \/ part = "bus" /\ Bus!Next /\ UNCHANGED <<auditVars, inboundVars, wireVars>>
    \/ part = "audit" /\ Audit!Next /\ UNCHANGED <<busVars, inboundVars, wireVars>>
    \/ part = "inbound" /\ Inbound!Next /\ UNCHANGED <<busVars, auditVars, wireVars>>
    \/ part = "wire" /\ Wire!Next /\ UNCHANGED <<faults, busVars, auditVars, inboundVars>>
Mind ==
    \/ part = "thread" /\ Thread!Next /\ UNCHANGED <<nightVars, points, verdictVars, replyVars>>
    \/ part = "night" /\ Night!Next /\ UNCHANGED <<threadVars, points, verdictVars, replyVars>>
    \/ part = "groups" /\ Groups!Next /\ UNCHANGED <<threadVars, nightVars, verdictVars, replyVars>>
    \/ part = "verdict" /\ Verdict!Next /\ UNCHANGED <<threadVars, nightVars, points, replyVars>>
    \/ part = "reply" /\ Reply!Next /\ UNCHANGED <<threadVars, nightVars, points, verdictVars>>
Hands ==
    \/ part = "browsers" /\ Browsers!Next /\ UNCHANGED <<jobsVars, outboundVars, deliveryVars>>
    \/ part = "jobs" /\ Jobs!Next /\ UNCHANGED <<faults, browsersVars, outboundVars, deliveryVars>>
    \/ part = "outbound" /\ Outbound!Next /\ UNCHANGED <<browsersVars, jobsVars, deliveryVars>>
    \/ part = "delivery" /\ Delivery!Next /\ UNCHANGED <<browsersVars, jobsVars, outboundVars>>
Next ==
    \/ Handed /\ UNCHANGED <<part, mindVars, handsVars>>
    \/ Mind /\ UNCHANGED <<part, faults, handedVars, handsVars>>
    \/ Hands /\ UNCHANGED <<part, handedVars, mindVars>>
Spec == Init /\ [][Next]_vars

-----------------------------------------------------------------------------
(* What the parts' modules state, each with its own comment there.          *)

\* An event is handled, and once, unless the windows of the bus overlapped.
BusSafe == part = "bus" => Bus!TypeOK /\ Bus!WindowKept /\ Bus!OneUnlessOverlapped /\ Bus!NothingDropped

\* The chain of the audit forks only where two writers shared a head.
ForksOnlyWhenShared == part = "audit" => Audit!TypeOK /\ Audit!ForksOnlyWhenShared

\* A message is taken in once, unless a window forgot it, and lost by a fault only.
InboundSafe == part = "inbound" => Inbound!TypeOK /\ Inbound!OnceUnlessForgotten /\ Inbound!LostOnlyByFault

\* Whoever asks the model, its tools' results answer the calls it made.
ResultsMeetTheirCalls == part = "wire" => Wire!TypeOK /\ Wire!ResultsMeetTheirCalls

\* The thread and the long memory lose no turn, no fact and no episode in the
\* hand-over from one to the next; groups are those of the distances.
MemorySafe ==
    /\ part = "thread" => /\ Thread!TypeOK
                          /\ Thread!TurnsAccountedFor /\ Thread!ThreadInOrder /\ Thread!MessageNotBuried
    /\ part = "night" => /\ Night!TypeOK
                         /\ Night!OneCurrentUnlessTangled /\ Night!DecayedOncePerNight /\ Night!ArchivedIsOnFile
    /\ part = "groups" => Groups!TypeOK /\ Groups!ClustersAreComponents

\* Code that was changed is looked at, and a check that failed is not talked away.
VerdictSafe == part = "verdict" => Verdict!TypeOK /\ Verdict!CodeIsLookedAt /\ Verdict!FailedCheckStands

\* What a reply claims was done, and what it is asked to say is said.
ReplySafe == part = "reply" => Reply!TypeOK /\ Reply!ClaimsWereBacked /\ Reply!WordsAreKept

\* A tool is handed the browser and the job it asked for, and none is left over.
HandsSafe ==
    /\ part = "browsers" => Browsers!TypeOK /\ Browsers!CeilingHolds /\ Browsers!PageIsThere /\ Browsers!NoStrays
    /\ part = "jobs" => Jobs!TypeOK /\ Jobs!IdFindsTheJob

\* Budget and quiet hours are overshot by what the two tasks can and no more,
\* no text that was put off is forgotten, and what a door reports is what its
\* provider did.
OutboundSafe ==
    /\ part = "outbound" => /\ Outbound!TypeOK
                            /\ Outbound!BudgetOvershoot /\ Outbound!NightQuota /\ Outbound!NothingForgotten
    /\ part = "delivery" => /\ Delivery!TypeOK
                            /\ Delivery!ReportIsHonest /\ Delivery!PiecesInOrder
                            /\ Delivery!TokenKeepsItsMargin /\ Delivery!LastOneIsKnown
                            /\ Delivery!FindsItsWayTogether

-----------------------------------------------------------------------------
(* What the documentation promises and the code does not keep.              *)

\* "A reply - which is what this agent actually does - works, because the inbound
\* message repopulates the cache before the deliberation answers it" (the
\* repository's README.md:1027-1028).
AnswerFindsItsWay == part = "delivery" => Delivery!AnswerFindsItsWay

\* "Each family is silently backed by anthropic, openai, google or openai_compat
\* providers, whichever are funded and healthy" (gateway/compat.py:12-16).
EveryFamilyServes == part = "wire" => Wire!EveryFamilyServes
=============================================================================
