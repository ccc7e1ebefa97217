----------------------------- MODULE HostProofs -----------------------------
(***************************************************************************)
(* Proofs about the parts that run beside the loop, for every value of     *)
(* their constants: the timers, delegated work, the terminals, the         *)
(* guardian and the supervisor.  A part's variables move while the         *)
(* behaviour is that part's and rest otherwise, so that an invariant of    *)
(* the whole has the form part = "x" => ..., and a step of the whole is a  *)
(* step of x or leaves its variables alone.                                *)
(***************************************************************************)
EXTENDS Host, FiniteSetTheorems, SequenceTheorems, TLAPS

-----------------------------------------------------------------------------
(* What holds of a timer between its firing and the end of its row, of a    *)
(* cancellation between the table and the row.                              *)

AskedFor(i) == asks[i] \notin {"never", "persisting"}
TimerInv(i) ==
    /\ asks[i] = "never" => i \notin timers \cup rows \cup due /\ hand.id # i
    /\ i \in OneShots =>
         /\ fired[i] <= 1 /\ (fired[i] > 0 => hand.id # i)
         /\ hand.id = i => i \notin timers \cup due /\ AskedFor(i)
         /\ i \in due => AskedFor(i)
         /\ hand.id = i /\ hand.at = "event" => i \notin rows
         /\ fired[i] > 0 => i \notin timers \cup rows \cup due /\ AskedFor(i)
    /\ asks[i] \in {"removing", "cancelled"} => i \notin timers \cup due /\ hand.id # i
    /\ asks[i] = "cancelled" => i \notin rows
TimersInv == Timers!TypeOK /\ \A i \in Timers!Ids \ raced : TimerInv(i)

-----------------------------------------------------------------------------
(* Delegation. *)

BoundInv ==
    /\ IsFiniteSet(active) /\ IsFiniteSet(Delegation!Asking)
    /\ Cardinality(Delegation!Asking) <= Spawners
    /\ Cardinality(active) + Cardinality(Delegation!Asking) <= MaxConcurrent + Spawners - 1
InFlight == {"requested", "working", "again", "closing", "unsent"}
ThreadInv(t) ==
    /\ t \in active => thread[t] \in InFlight
    /\ thread[t] \in {"working", "again", "closing"} => mode = "inprocess"
    /\ thread[t] = "requested" => mode = "process" /\ t \in active /\ handle[t] = "running"
    /\ thread[t] = "closing" => handle[t] \in {"done", "failed"}
RowInv(t) ==
    /\ intention[t] \in {"done", "failed"} => thread[t] = "lost" \/ (thread[t] = "over" /\ intention[t] = handle[t])
    /\ \A w \in Workers :
         /\ serves[w][t] # "idle" => mode = "process"
         /\ serves[w][t] \in {"working", "again"} => thread[t] \in {"requested", "lost"}
         /\ thread[t] = "over" /\ mode = "process" => serves[w][t] = "over"
Lone == mode = "inprocess" \/ Cardinality(Workers) = 1
DelegationInv ==
    /\ Delegation!TypeOK /\ BoundInv
    /\ \A t \in Threads : ThreadInv(t) /\ (Lone => RowInv(t))

-----------------------------------------------------------------------------
(* Terminals. *)

Pool == Opens \cup Execs
OpenedOnce ==
    \A o \in Opens : handed[o] = Terminals!None => o \notin alive /\ o \notin held /\ o \notin Terminals!ToSet(queue)
QueuedOnce ==
    \A x \in Execs : exec[x].at = "new" => x \notin held /\ x \notin Terminals!ToSet(queue)

\* TypeOK, without the operators of other modules; who waits and who has a terminal.
PoolTyped ==
    /\ held \subseteq Pool /\ IsFiniteSet(held) /\ Cardinality(held) <= PoolThreads
    /\ queue \in Seq(Pool) /\ Terminals!IsInjective(queue)
    /\ Terminals!ToSet(queue) \subseteq Pool \ held
SessionsTyped ==
    /\ DOMAIN sessions \subseteq 0 .. Cardinality(Opens) /\ IsFiniteSet(DOMAIN sessions)
    /\ \A n \in DOMAIN sessions : sessions[n] \in alive
    /\ \A m, n \in DOMAIN sessions : sessions[m] = sessions[n] => m = n
    /\ handed \in [Opens -> Opens \cup {Terminals!None}] /\ alive \subseteq Opens /\ closed \in BOOLEAN
ExecTyped ==
    /\ kernel \in 0 .. MaxResets
    /\ exec \in [Execs -> [at : {"new", "waiting", "running", "over"}, kernel : 0 .. MaxResets, told : BOOLEAN]]
Numbered ==
    ~closed => /\ \E n \in 0 .. Cardinality(Opens) : DOMAIN sessions = 0 .. n - 1
               /\ \A o \in Opens : handed[o] \in {Terminals!None, o}
TerminalsInv == PoolTyped /\ SessionsTyped /\ ExecTyped /\ OpenedOnce /\ QueuedOnce /\ Numbered

-----------------------------------------------------------------------------
(* Guardian. *)

Pending == {"looking", "asking", "moving"}
Before == {c \in Callers : job[c].at \in Pending}
EntriesInv ==
    /\ IsFiniteSet(Before) /\ IsFiniteSet(DOMAIN trash)
    /\ Cardinality(DOMAIN trash) + Cardinality(Before) <= calls
Emptied(e) == trash[e].bytes = Guardian!NoBytes
CallOK(j) ==
    /\ j.at \in Pending \cup {"running", "registering"} => j.targets # <<>>
    /\ j.at \in Pending => j.owed \subseteq artifacts \cap Holds[j.targets[1]]
    /\ j.at = "looking" => j.next \in 1 .. Len(j.targets) /\ (j.next > 1 => j.owed = {} \/ j.excused)
    /\ j.at = "moving" => j.owed = {} \/ j.kind = "due_process" \/ j.excused
    /\ IF j.at \in {"naming", "rowing"} THEN j.entry \in DOMAIN trash ELSE j.entry = NoVersion
    /\ j.at = "rowing" => trash[j.entry].manifest \/ Emptied(j.entry)
EntryOK(e) ==
    /\ \A f \in Guardian!Files : trash[e].bytes[f] # NoVersion => f \in Holds[trash[e].path]
    /\ trash[e].owed = {} \/ trash[e].kind = "due_process" \/ trash[e].excused
    /\ Emptied(e) \/ trash[e].row \/ trash[e].manifest \/ trash[e].cut \/ \E c \in Callers : job[c].entry = e
UndoInv ==
    /\ undo.at # "idle" => undo.entry \in DOMAIN trash
    /\ undo.at \in {"unnaming", "unrowing"} => Emptied(undo.entry)
Somewhere(v) ==
    \/ v \in backups \cup beside \cup clobbered
    \/ \E f \in Guardian!Files : at[f] = v
    \/ \E e \in DOMAIN trash, f \in Guardian!Files : trash[e].bytes[f] = v
GuardianInv ==
    /\ Guardian!TypeOK /\ trash \in [DOMAIN trash -> Guardian!Entries]
    /\ EntriesInv /\ UndoInv
    /\ \A c \in Callers : CallOK(job[c])
    /\ \A e \in DOMAIN trash : EntryOK(e)
    /\ \A v \in 1 .. versions : Somewhere(v)

-----------------------------------------------------------------------------
(* Supervisor: a child is up only while its supervisor opens or watches, or *)
(* was given no chance to close it.                                         *)

SupervisorInv ==
    /\ Supervisor!TypeOK
    /\ \A s \in Supers : phase[s] = "closing" => \A c \in Children : ~Supervisor!IsUp(s, c)
    /\ Supervisor!NoneLeftBehind

-----------------------------------------------------------------------------
(* Timers: one lemma for what the tools do, one for what the loop does, one *)
(* for the faults.                                                          *)

LEMMA OneMoreFault ==
    ASSUME faults \in 0 .. MaxFaults, faults < MaxFaults, faults' = faults + 1
    PROVE  faults' \in 0 .. MaxFaults
<1>1. MaxFaults \in Nat
  BY HostAssumption DEF HostAssumption, Timers!TimersAssumption
<1> QED BY <1>1

LEMMA HandParts ==
    ASSUME Timers!TypeOK
    PROVE  \/ hand = Timers!Nothing
           \/ hand.id \in Timers!Ids /\ hand.at \in {"row", "event"} /\ hand = [id |-> hand.id, at |-> hand.at]
  BY DEF Timers!TypeOK, Timers!Nothing

\* Asking for a timer, and taking it back, leaves a fired one fired.
LEMMA AskingKeepsTimers ==
    ASSUME TimersInv, NEW k \in Timers!Ids,
           Timers!schedule(k) \/ Timers!_persist(k) \/ Timers!cancel(k) \/ Timers!_remove(k)
             \/ Timers!Refused(k) \/ Timers!TimeComes(k)
    PROVE  TimersInv'
<1>1. CASE Timers!schedule(k)
  BY <1>1 DEF Timers!schedule, TimersInv, Timers!TypeOK, TimerInv, AskedFor, Timers!Ids, Timers!Asked
<1>2. CASE Timers!_persist(k)
  BY <1>2 DEF Timers!_persist, TimersInv, Timers!TypeOK, TimerInv, AskedFor, Timers!Ids, Timers!Asked
<1>3. CASE Timers!cancel(k)
  <2>1. Timers!TypeOK'
    BY <1>3 DEF Timers!cancel, TimersInv, Timers!TypeOK, Timers!Asked
  <2>2. ASSUME NEW i \in Timers!Ids \ raced' PROVE TimerInv(i)'
    <3>1. i \in Timers!Ids \ raced /\ TimerInv(i) /\ (i = k => i \notin due /\ hand.id # i)
      BY <1>3 DEF Timers!cancel, Timers!Held, TimersInv
    <3>2. asks'[i] = (IF i = k THEN "removing" ELSE asks[i]) /\ timers' = timers \ {k}
      BY <1>3, <3>1 DEF Timers!cancel, TimersInv, Timers!TypeOK
    <3>3. UNCHANGED <<rows, due, hand, fired>> /\ (i = k => asks[i] = "known")
      BY <1>3 DEF Timers!cancel
    <3> QED BY <3>1, <3>2, <3>3 DEF TimerInv, AskedFor
  <2> QED BY <2>1, <2>2 DEF TimersInv
<1>4. CASE Timers!_remove(k)
  BY <1>4 DEF Timers!_remove, TimersInv, Timers!TypeOK, TimerInv, AskedFor, Timers!Ids, Timers!Asked
<1>5. CASE Timers!Refused(k)
  <2>1. faults' \in 0 .. MaxFaults
    BY <1>5, OneMoreFault DEF Timers!Refused, TimersInv, Timers!TypeOK
  <2>2. Timers!TypeOK'
    BY <1>5, <2>1 DEF Timers!Refused, TimersInv, Timers!TypeOK, Timers!Asked
  <2>3. ASSUME NEW i \in Timers!Ids \ raced' PROVE TimerInv(i)'
    BY <1>5, <2>3 DEF Timers!Refused, TimersInv, Timers!TypeOK, TimerInv, AskedFor
  <2> QED BY <2>2, <2>3 DEF TimersInv
<1>6. CASE Timers!TimeComes(k)
  BY <1>6 DEF Timers!TimeComes, TimersInv, Timers!TypeOK, TimerInv, AskedFor, Timers!Ids, Timers!Asked
<1> QED BY <1>1, <1>2, <1>3, <1>4, <1>5, <1>6

\* The loop's list, its work on a timer, and the row before the event.
LEMMA LoopKeepsTimers ==
    ASSUME TimersInv,
           Timers!_loop \/ (\E k \in Timers!Ids : Timers!Takes(k)) \/ Timers!RowWritten \/ Timers!_fire
    PROVE  TimersInv'
<1>0. Timers!TypeOK /\ OneShots \cap Repeating = {} /\ "none" \notin Timers!Ids /\ Timers!Nothing.id = "none"
  BY HostAssumption DEF HostAssumption, Timers!TimersAssumption, TimersInv, Timers!Nothing
<1>1. CASE Timers!_loop
  BY <1>0, <1>1 DEF Timers!_loop, TimersInv, TimerInv, AskedFor, Timers!TypeOK, Timers!Ids, Timers!Nothing
<1>2. ASSUME NEW k \in Timers!Ids, Timers!Takes(k) PROVE TimersInv'
  BY <1>0, <1>2 DEF Timers!Takes, TimersInv, TimerInv, AskedFor, Timers!TypeOK, Timers!Ids, Timers!Nothing
<1>3. CASE Timers!RowWritten
  <2>1. hand.at = "row"
    BY <1>3 DEF Timers!RowWritten
  <2>2. hand.id \in Timers!Ids
    BY <1>0, <2>1, HandParts DEF Timers!Nothing
  <2>3. hand' = [id |-> hand.id, at |-> "event"]
    BY <1>0, <1>3, <2>1, HandParts DEF Timers!Nothing, Timers!RowWritten
  <2>4. rows' = (IF hand.id \in Repeating THEN rows \cup {hand.id} ELSE rows \ {hand.id})
    BY <1>3 DEF Timers!RowWritten, Timers!RowAfter
  <2>5. UNCHANGED <<timers, passed, asks, due, running, fired, faults, raced, lost>>
    BY <1>3 DEF Timers!RowWritten
  <2>6. Timers!TypeOK'
    BY <1>0, <2>2, <2>3, <2>4, <2>5 DEF Timers!TypeOK
  <2>7. ASSUME NEW i \in Timers!Ids \ raced' PROVE TimerInv(i)'
    <3>1. TimerInv(i)
      BY <2>5 DEF TimersInv
    <3>2. hand'.id = hand.id /\ hand'.at = "event"
      BY <2>3
    <3>3. CASE i = hand.id
      BY <1>0, <2>1, <2>3, <2>4, <2>5, <3>1, <3>2, <3>3 DEF TimerInv, AskedFor
    <3>4. CASE i # hand.id
      <4>1. (i \in rows') <=> (i \in rows)
        BY <2>4, <3>4
      <4> QED BY <2>5, <3>1, <3>2, <3>4, <4>1 DEF TimerInv, AskedFor
    <3> QED BY <3>3, <3>4
  <2> QED BY <2>6, <2>7 DEF TimersInv
<1>4. CASE Timers!_fire
  <2>1. hand.at = "event"
    BY <1>4 DEF Timers!_fire
  <2>2. hand.id \in Timers!Ids
    BY <1>0, <2>1, HandParts DEF Timers!Nothing
  <2>3. hand' = Timers!Nothing /\ UNCHANGED <<timers, rows, passed, asks, due, running, faults, raced, lost>>
    BY <1>4 DEF Timers!_fire
  <2>4. fired' = [fired EXCEPT ![hand.id] = IF @ < MaxFires THEN @ + 1 ELSE @]
    BY <1>4 DEF Timers!_fire
  <2>5. fired \in [Timers!Ids -> 0 .. MaxFires] /\ MaxFires \in Nat
    BY <1>0, HostAssumption DEF Timers!TypeOK, HostAssumption, Timers!TimersAssumption
  <2>6. fired' \in [Timers!Ids -> 0 .. MaxFires]
    BY <2>2, <2>4, <2>5
  <2>7. Timers!TypeOK'
    BY <1>0, <2>3, <2>6 DEF Timers!TypeOK
  <2>8. ASSUME NEW i \in Timers!Ids \ raced' PROVE TimerInv(i)'
    <3>1. TimerInv(i) /\ fired[i] \in Nat
      BY <2>3, <2>5 DEF TimersInv
    <3>2. CASE i = hand.id
      BY <1>0, <2>1, <2>2, <2>3, <2>4, <2>5, <3>1, <3>2 DEF TimerInv, AskedFor
    <3>3. CASE i # hand.id
      <4>1. fired'[i] = fired[i]
        BY <2>2, <2>4, <2>5, <3>3
      <4> QED BY <1>0, <2>3, <3>1, <3>3, <4>1 DEF TimerInv, AskedFor
    <3> QED BY <3>2, <3>3
  <2> QED BY <2>7, <2>8 DEF TimersInv
<1> QED BY <1>1, <1>2, <1>3, <1>4

\* A row that cannot be written, and a crash: what is in hand is dropped.
LEMMA FaultsKeepTimers ==
    ASSUME TimersInv, Timers!Raises \/ Timers!load
    PROVE  TimersInv'
<1>0. Timers!TypeOK /\ OneShots \cap Repeating = {} /\ "none" \notin Timers!Ids /\ Timers!Nothing.id = "none"
  BY HostAssumption DEF HostAssumption, Timers!TimersAssumption, TimersInv, Timers!Nothing
<1>1. hand.at \in {"row", "event"} => hand.id \in Timers!Ids
  BY <1>0, HandParts DEF Timers!Nothing
<1>2. faults' \in 0 .. MaxFaults
  BY <1>0, OneMoreFault DEF Timers!Raises, Timers!load, Timers!TypeOK
<1>3. lost' \subseteq Timers!Ids /\ passed' \subseteq Timers!Ids
  BY <1>0, <1>1 DEF Timers!Raises, Timers!load, Timers!Dropped, Timers!TypeOK
<1>4. due' = {} /\ hand' = Timers!Nothing /\ UNCHANGED <<rows, fired, raced>> /\ running' \in BOOLEAN
  BY DEF Timers!Raises, Timers!load
<1>5. CASE Timers!Raises
  <2>1. Timers!TypeOK'
    BY <1>0, <1>2, <1>3, <1>4, <1>5 DEF Timers!Raises, Timers!TypeOK
  <2>2. ASSUME NEW i \in Timers!Ids \ raced' PROVE TimerInv(i)'
    BY <1>0, <1>4, <1>5 DEF Timers!Raises, TimersInv, TimerInv, AskedFor
  <2> QED BY <2>1, <2>2 DEF TimersInv
<1>6. CASE Timers!load
  <2>1. asks' = [i \in Timers!Ids |-> IF asks[i] = "persisting" THEN "refused"
                                      ELSE IF asks[i] = "removing" THEN "not cancelled" ELSE asks[i]]
    BY <1>6 DEF Timers!load
  <2>2. asks' \in [Timers!Ids -> Timers!Asked]
    BY <1>0, <2>1 DEF Timers!TypeOK, Timers!Asked
  <2>3. Timers!TypeOK'
    BY <1>0, <1>2, <1>3, <1>4, <1>6, <2>2 DEF Timers!load, Timers!TypeOK
  <2>4. ASSUME NEW i \in Timers!Ids \ raced' PROVE TimerInv(i)'
    BY <1>0, <1>4, <1>6, <2>1 DEF Timers!load, TimersInv, TimerInv, AskedFor
  <2> QED BY <2>3, <2>4 DEF TimersInv
<1> QED BY <1>5, <1>6

LEMMA TimersInit == ASSUME Timers!Init PROVE TimersInv
  BY HostAssumption DEF HostAssumption, Timers!TimersAssumption, TimersInv, TimerInv, AskedFor, Timers!TypeOK,
     Timers!Ids, Timers!Asked, Timers!Nothing, Timers!Init

LEMMA TimersStep == ASSUME TimersInv, Timers!Next PROVE TimersInv'
  BY AskingKeepsTimers, LoopKeepsTimers, FaultsKeepTimers DEF Timers!Next

\* A timer fires once, and one that was cancelled does not come back
\* (ethos/core/scheduler.py): nothing is in the table, in the rows or in the
\* loop's hand to fire it again, unless it was asked about while the loop had it.
TimersPart == part = "timers" => TimersInv
THEOREM TimersFireOnce == Spec => []TimersSafe
<1>1. Init => TimersPart
  BY TimersInit DEF Init, TimersPart
<1>2. TimersPart /\ [Next]_vars => TimersPart'
  <2> SUFFICES ASSUME TimersPart, [Next]_vars, part' = "timers" PROVE TimersInv'
    BY DEF TimersPart
  <2>1. CASE part = "timers" /\ Timers!Next
    BY <2>1, TimersStep DEF TimersPart
  <2>2. CASE UNCHANGED vars
    BY <2>2 DEF vars, timersVars, TimersPart, TimersInv, Timers!TypeOK, TimerInv, AskedFor
  <2> QED BY <2>1, <2>2 DEF Next
<1>3. TimersPart => TimersSafe
  BY DEF TimersPart, TimersInv, TimerInv, TimersSafe, Timers!FiredOnce, Timers!CancelledIsGone, Timers!Ids
<1> QED BY <1>1, <1>2, <1>3, PTL DEF Spec

-----------------------------------------------------------------------------
(* Delegation. *)

\* What a part calls finite, and counts, is what this module does.
LEMMA DelegationCounts ==
    ASSUME NEW S
    PROVE  (Delegation!IsFiniteSet(S) <=> IsFiniteSet(S)) /\ Delegation!Cardinality(S) = Cardinality(S)
  BY DEF Delegation!IsFiniteSet, Delegation!Cardinality, IsFiniteSet, Cardinality

LEMMA DelegationConstants ==
    /\ IsFiniteSet(Workers) /\ MaxConcurrent \in Nat /\ MaxConcurrent > 0 /\ Retention \in Nat
    /\ Spawners \in Nat /\ Spawners > 0 /\ MaxFaults \in Nat
    /\ Modes \subseteq {"inprocess", "process"}
  BY HostAssumption, DelegationCounts DEF HostAssumption, Delegation!DelegationAssumption

\* The archive holds threads, and no more of them than it retains.
LEMMA ArchiveBounded ==
    ASSUME finished \in Seq(Threads), NEW t \in Threads
    PROVE  /\ Delegation!Kept(Append(finished, t)) \in Seq(Threads)
           /\ Len(Delegation!Kept(Append(finished, t))) <= Retention
<1> DEFINE s == Append(finished, t)
<1>1. s \in Seq(Threads) /\ Len(s) \in Nat /\ Retention \in Nat
  BY AppendProperties, DelegationConstants
<1> HIDE DEF s
<1>2. CASE Len(s) > Retention
  <2> DEFINE m == Len(s) - Retention + 1
  <2>1. m \in 1 .. Len(s) + 1 /\ Len(s) \in m - 1 .. Len(s)
    BY <1>1, <1>2
  <2>2. SubSeq(s, m, Len(s)) \in Seq(Threads)
    BY <1>1, <2>1, SubSeqProperties
  <2>3. Len(SubSeq(s, m, Len(s))) <= Retention
    BY <1>1, <1>2, <2>1, SubSeqProperties
  <2> QED BY <1>2, <2>2, <2>3 DEF Delegation!Kept, s
<1>3. CASE ~(Len(s) > Retention)
  BY <1>1, <1>3 DEF Delegation!Kept, s
<1> QED BY <1>2, <1>3

\* What does not start a thread moves nobody under the bound but out of it.
LEMMA BoundShrinks ==
    ASSUME BoundInv, active' \subseteq active, Delegation!Asking' \subseteq Delegation!Asking
    PROVE  BoundInv'
<1>1. /\ IsFiniteSet(active') /\ Cardinality(active') <= Cardinality(active)
      /\ IsFiniteSet(Delegation!Asking') /\ Cardinality(Delegation!Asking') <= Cardinality(Delegation!Asking)
  BY FS_Subset DEF BoundInv
<1>2. /\ Cardinality(active') \in Nat /\ Cardinality(active) \in Nat
      /\ Cardinality(Delegation!Asking') \in Nat /\ Cardinality(Delegation!Asking) \in Nat
  BY <1>1, FS_CardinalityType DEF BoundInv
<1> QED BY <1>1, <1>2, DelegationConstants DEF BoundInv

\* spawn_spec: the bound is looked at, and one more asks.
LEMMA SpawnBounded ==
    ASSUME Delegation!TypeOK, BoundInv, NEW t \in Threads, Delegation!spawn_spec(t)
    PROVE  BoundInv'
<1>1. active' = active
  BY DEF Delegation!spawn_spec
<1>2. CASE ~Delegation!Room
  <2>1. Delegation!Asking' \subseteq Delegation!Asking
    BY <1>2 DEF Delegation!spawn_spec, Delegation!Asking, Delegation!TypeOK
  <2> QED BY <1>1, <2>1, BoundShrinks
<1>3. CASE Delegation!Room
  <2>1. Delegation!Asking' = Delegation!Asking \cup {t} /\ t \notin Delegation!Asking
    BY <1>3 DEF Delegation!spawn_spec, Delegation!Asking, Delegation!TypeOK
  <2>2. Cardinality(active) < MaxConcurrent /\ Cardinality(Delegation!Asking) < Spawners
    BY <1>3, DelegationCounts DEF Delegation!Room, Delegation!spawn_spec
  <2>3. /\ IsFiniteSet(Delegation!Asking')
        /\ Cardinality(Delegation!Asking') = Cardinality(Delegation!Asking) + 1
    <3>1. IsFiniteSet(Delegation!Asking)
      BY DEF BoundInv
    <3> QED BY <2>1, <3>1, FS_AddElement
  <2>4. Cardinality(active) \in Nat /\ Cardinality(Delegation!Asking) \in Nat
    BY FS_CardinalityType DEF BoundInv
  <2> QED BY <1>1, <2>2, <2>3, <2>4, DelegationConstants DEF BoundInv
<1> QED BY <1>2, <1>3

\* register: who asked is answered, and has a place or none.
LEMMA RegisterBounded ==
    ASSUME Delegation!TypeOK, BoundInv, NEW t \in Threads, Delegation!register(t)
    PROVE  BoundInv'
<1>1. t \in Delegation!Asking /\ Delegation!Asking' = Delegation!Asking \ {t}
  <2>1. thread[t] = "asking" /\ thread \in [Threads -> Delegation!Stations]
    BY DEF Delegation!register, Delegation!TypeOK
  <2>2. PICK p \in {"refused", "requested", "working", "unsent"} : thread' = [thread EXCEPT ![t] = p]
    BY DEF Delegation!register
  <2> QED BY <2>1, <2>2 DEF Delegation!Asking
<1>2. active' = active \/ active' = active \cup {t}
  BY DEF Delegation!register
<1>3. /\ IsFiniteSet(Delegation!Asking')
      /\ Cardinality(Delegation!Asking') = Cardinality(Delegation!Asking) - 1
  <2>1. IsFiniteSet(Delegation!Asking)
    BY DEF BoundInv
  <2> QED BY <1>1, <2>1, FS_RemoveElement
<1>4. IsFiniteSet(active') /\ Cardinality(active') <= Cardinality(active) + 1
  <2>1. Cardinality(active) \in Nat
    BY FS_CardinalityType DEF BoundInv
  <2>2. IsFiniteSet(active)
    BY DEF BoundInv
  <2>3. /\ IsFiniteSet(active \cup {t})
        /\ Cardinality(active \cup {t}) = IF t \in active THEN Cardinality(active) ELSE Cardinality(active) + 1
    BY <2>2, FS_AddElement
  <2>4. Cardinality(active \cup {t}) <= Cardinality(active) + 1
    BY <2>1, <2>3
  <2>5. CASE active' = active
    BY <2>1, <2>2, <2>5
  <2>6. CASE active' = active \cup {t}
    BY <2>3, <2>4, <2>6
  <2> QED BY <1>2, <2>5, <2>6
<1>5. /\ Cardinality(active) \in Nat /\ Cardinality(active') \in Nat
      /\ Cardinality(Delegation!Asking) \in Nat /\ Cardinality(Delegation!Asking') \in Nat
  <2>1. IsFiniteSet(active) /\ IsFiniteSet(Delegation!Asking)
    BY DEF BoundInv
  <2> QED BY <1>3, <1>4, <2>1, FS_CardinalityType
<1> QED BY <1>3, <1>4, <1>5, DelegationConstants DEF BoundInv

LEMMA FailsOnce ==
    ASSUME faults \in 0 .. MaxFaults, Delegation!Fails PROVE faults' \in 0 .. MaxFaults
  BY OneMoreFault DEF Delegation!Fails

LEMMA DelegationInit == ASSUME Delegation!Init PROVE DelegationInv
<1>1. Delegation!TypeOK
  <2>1. << >> \in Seq(Threads) /\ Len(<< >>) = 0
    BY EmptySeq
  <2> QED BY <2>1, DelegationConstants DEF Delegation!Init, Delegation!TypeOK, Delegation!Stations, Delegation!Places
<1>2. BoundInv
  <2>1. active = {} /\ Delegation!Asking = {}
    BY DEF Delegation!Init, Delegation!Asking
  <2> QED BY <2>1, FS_EmptySet, DelegationConstants DEF BoundInv
<1>3. ASSUME NEW t \in Threads PROVE ThreadInv(t) /\ RowInv(t)
  BY DEF Delegation!Init, ThreadInv, RowInv
<1> QED BY <1>1, <1>2, <1>3 DEF DelegationInv

-----------------------------------------------------------------------------
(* Spawning: nothing has been worked on yet. *)

LEMMA SpawnKeepsDelegation ==
    ASSUME DelegationInv, NEW t \in Threads, Delegation!spawn_spec(t)
    PROVE  DelegationInv'
<1>0. Delegation!TypeOK
  BY DEF DelegationInv
<1>1. PICK p \in {"asking", "refused"} : thread' = [thread EXCEPT ![t] = p]
  BY DEF Delegation!spawn_spec
<1>2. UNCHANGED <<mode, active, finished, handle, intention, came, serves, waits, faults>> /\ thread[t] = "none"
  BY DEF Delegation!spawn_spec
<1>3. Delegation!TypeOK'
  BY <1>0, <1>1, <1>2 DEF Delegation!TypeOK, Delegation!Stations
<1>4. BoundInv'
  BY <1>0, SpawnBounded DEF DelegationInv
<1>5. ASSUME NEW u \in Threads PROVE ThreadInv(u)' /\ (Lone' => RowInv(u)')
  <2>1. thread'[u] = IF u = t THEN p ELSE thread[u]
    BY <1>0, <1>1 DEF Delegation!TypeOK
  <2>2. ThreadInv(u) /\ (Lone => RowInv(u)) /\ (Lone' => Lone)
    BY <1>2 DEF DelegationInv, Lone
  <2>3. ThreadInv(u)'
    BY <1>2, <2>1, <2>2 DEF ThreadInv, InFlight
  <2>4. Lone' => RowInv(u)'
    BY <1>2, <2>1, <2>2 DEF RowInv
  <2> QED BY <2>3, <2>4
<1> QED BY <1>3, <1>4, <1>5 DEF DelegationInv

LEMMA RegisterKeepsDelegation ==
    ASSUME DelegationInv, NEW t \in Threads, Delegation!register(t)
    PROVE  DelegationInv'
<1>0. Delegation!TypeOK /\ thread[t] = "asking" /\ mode \in {"inprocess", "process"}
  BY DelegationConstants DEF DelegationInv, Delegation!register, Delegation!TypeOK
<1>1. faults' \in 0 .. MaxFaults
  BY <1>0, FailsOnce DEF Delegation!register, Delegation!Well, Delegation!TypeOK
<1>2. Delegation!TypeOK'
  BY <1>0, <1>1 DEF Delegation!register, Delegation!TypeOK, Delegation!Stations
<1>3. BoundInv'
  BY <1>0, RegisterBounded DEF DelegationInv
<1>4. ASSUME NEW u \in Threads PROVE ThreadInv(u)' /\ (Lone' => RowInv(u)')
  <2>0. ThreadInv(u) /\ (Lone => RowInv(u)) /\ (Lone' => Lone) /\ UNCHANGED <<mode, serves>>
    BY DEF DelegationInv, Lone, Delegation!register
  <2>1. CASE u # t
    <3>1. /\ thread'[u] = thread[u] /\ handle'[u] = handle[u] /\ intention'[u] = intention[u]
          /\ u \in active' <=> u \in active
      BY <1>0, <2>1 DEF Delegation!register, Delegation!TypeOK
    <3> QED BY <2>0, <3>1 DEF ThreadInv, RowInv, InFlight
  <2>2. CASE u = t
    <3>1. intention[t] \notin {"done", "failed"} \/ ~Lone
      BY <1>0, <2>0, <2>2 DEF RowInv
    <3>2. \/ thread'[t] = "refused" /\ UNCHANGED <<active, handle, intention>>
          \/ /\ thread'[t] \in {"requested", "working", "unsent"} /\ active' = active \cup {t} /\ handle'[t] = "running"
             /\ intention'[t] \in {"none", "proposed"}
             /\ (thread'[t] = "requested" => mode = "process") /\ (thread'[t] = "working" => mode = "inprocess")
      BY <1>0 DEF Delegation!register, Delegation!TypeOK
    <3>3. t \notin active
      BY <1>0, <2>0, <2>2 DEF ThreadInv, InFlight
    <3>4. ThreadInv(t)'
      BY <2>0, <3>2, <3>3 DEF ThreadInv, InFlight
    <3>5. Lone' => RowInv(t)'
      BY <1>0, <2>0, <2>2, <3>1, <3>2 DEF RowInv
    <3> QED BY <2>2, <3>4, <3>5
  <2> QED BY <2>1, <2>2
<1> QED BY <1>2, <1>3, <1>4 DEF DelegationInv

-----------------------------------------------------------------------------
(* In process: the thread's own steps. *)

LEMMA EndsAreKept ==
    ASSUME came \in [Threads -> SUBSET Delegation!Ends], NEW t \in Threads, NEW e \in Delegation!Ends, Delegation!Ended(t, e)
    PROVE  came' \in [Threads -> SUBSET Delegation!Ends]
  BY DEF Delegation!Ended

LEMMA InProcessKeepsDelegation ==
    ASSUME DelegationInv, NEW t \in Threads,
           Delegation!_run_inprocess(t) \/ Delegation!run_thread(t)
    PROVE  DelegationInv'
<1>0. Delegation!TypeOK /\ thread[t] \in {"working", "again"} /\ UNCHANGED <<mode, active, finished, intention, serves, faults>>
  BY DEF DelegationInv, Delegation!_run_inprocess, Delegation!run_thread
<1>1. PICK p \in {"again", "closing"} : /\ thread' = [thread EXCEPT ![t] = p]
                                        /\ p = "again" => handle' = handle /\ waits' = waits
                                        /\ p = "closing" => \E h \in {"done", "failed"} : handle' = [handle EXCEPT ![t] = h]
  BY DEF Delegation!_run_inprocess, Delegation!run_thread, Delegation!Verdict
<1>2. came' \in [Threads -> SUBSET Delegation!Ends] /\ waits' \in [Threads -> {"no", "waiting", "answered", "gave up"}]
  <2>1. \E e \in Delegation!Ends : Delegation!Ended(t, e)
    BY DEF Delegation!_run_inprocess, Delegation!run_thread, Delegation!Outcomes, Delegation!Ends
  <2>2. waits' = waits \/ waits' = [waits EXCEPT ![t] = IF @ = "waiting" THEN "answered" ELSE @]
    BY DEF Delegation!_run_inprocess, Delegation!run_thread
  <2> QED BY <1>0, <2>1, <2>2, EndsAreKept DEF Delegation!TypeOK
<1>3. Delegation!TypeOK'
  <2>1. thread' \in [Threads -> Delegation!Stations]
    BY <1>0, <1>1 DEF Delegation!TypeOK, Delegation!Stations
  <2>2. handle' \in [Threads -> {"none", "running", "done", "failed"}]
    BY <1>0, <1>1 DEF Delegation!TypeOK
  <2> QED BY <1>0, <1>2, <2>1, <2>2 DEF Delegation!TypeOK
<1>4. BoundInv'
  <2>1. Delegation!Asking' \subseteq Delegation!Asking
    BY <1>0, <1>1 DEF Delegation!Asking, Delegation!TypeOK
  <2> QED BY <1>0, <2>1, BoundShrinks DEF DelegationInv
<1>5. ASSUME NEW u \in Threads PROVE ThreadInv(u)' /\ (Lone' => RowInv(u)')
  <2>0. ThreadInv(u) /\ (Lone => RowInv(u)) /\ (Lone' => Lone)
    BY <1>0 DEF DelegationInv, Lone
  <2>1. CASE u # t
    <3>1. thread'[u] = thread[u] /\ handle'[u] = handle[u]
      BY <1>0, <1>1, <2>1 DEF Delegation!TypeOK
    <3> QED BY <1>0, <2>0, <3>1 DEF ThreadInv, RowInv
  <2>2. CASE u = t
    <3>1. thread'[t] \in {"again", "closing"} /\ (thread'[t] = "closing" => handle'[t] \in {"done", "failed"})
      BY <1>0, <1>1 DEF Delegation!TypeOK
    <3> QED BY <1>0, <2>0, <2>2, <3>1 DEF ThreadInv, RowInv, InFlight
  <2> QED BY <2>1, <2>2
<1> QED BY <1>3, <1>4, <1>5 DEF DelegationInv

LEMMA RunKeepsDelegation ==
    ASSUME DelegationInv, NEW t \in Threads, Delegation!_run(t)
    PROVE  DelegationInv'
<1>0. Delegation!TypeOK /\ thread[t] = "closing" /\ UNCHANGED <<mode, handle, came, serves, waits>>
  BY DEF DelegationInv, Delegation!_run
<1>1. thread' = [thread EXCEPT ![t] = "over"] /\ active' = active \ {t}
  BY DEF Delegation!_run, Delegation!_retire
<1>2. finished' \in Seq(Threads) /\ Len(finished') <= Retention
  BY <1>0, ArchiveBounded DEF Delegation!_run, Delegation!_retire, Delegation!TypeOK
<1>3. faults' \in 0 .. MaxFaults
  BY <1>0, FailsOnce DEF Delegation!_run, Delegation!Well, Delegation!TypeOK
<1>4. handle[t] \in {"done", "failed"} /\ mode = "inprocess"
  BY <1>0 DEF DelegationInv, ThreadInv
<1>5. \/ intention' = intention
      \/ intention' = [intention EXCEPT ![t] = IF @ = "none" THEN @ ELSE handle[t]]
  BY DEF Delegation!_run, Delegation!Closing
<1>6. Delegation!TypeOK'
  BY <1>0, <1>1, <1>2, <1>3, <1>4, <1>5 DEF Delegation!TypeOK, Delegation!Stations
<1>7. BoundInv'
  <2>1. Delegation!Asking' \subseteq Delegation!Asking /\ active' \subseteq active
    BY <1>0, <1>1 DEF Delegation!Asking, Delegation!TypeOK
  <2> QED BY <2>1, BoundShrinks DEF DelegationInv
<1>8. ASSUME NEW u \in Threads PROVE ThreadInv(u)' /\ RowInv(u)'
  <2>0. ThreadInv(u) /\ RowInv(u)
    BY <1>4 DEF DelegationInv, Lone
  <2>1. CASE u # t
    <3>1. thread'[u] = thread[u] /\ intention'[u] = intention[u] /\ (u \in active' <=> u \in active)
      BY <1>0, <1>1, <1>5, <2>1 DEF Delegation!TypeOK
    <3> QED BY <1>0, <2>0, <3>1 DEF ThreadInv, RowInv
  <2>2. CASE u = t
    <3>1. thread'[t] = "over" /\ t \notin active' /\ intention'[t] \in {intention[t], "none", handle[t]}
      BY <1>0, <1>1, <1>5 DEF Delegation!TypeOK
    <3>2. intention[t] \notin {"done", "failed"}
      BY <1>0, <2>0, <2>2 DEF RowInv
    <3> QED BY <1>0, <1>4, <2>0, <2>2, <3>1, <3>2 DEF ThreadInv, RowInv
  <2> QED BY <2>1, <2>2
<1> QED BY <1>6, <1>7, <1>8 DEF DelegationInv

-----------------------------------------------------------------------------
(* The worker's process. *)

\* With one worker, what holds of it holds of every worker.
LEMMA LoneWorker ==
    ASSUME Lone, mode = "process", NEW w \in Workers, NEW v \in Workers
    PROVE  v = w
<1>1. Cardinality(Workers) = 1 /\ IsFiniteSet(Workers)
  BY DelegationConstants DEF Lone
<1>2. PICK x : Workers = {x}
  BY <1>1, FS_Singleton
<1> QED BY <1>2

LEMMA WorkerKeepsDelegation ==
    ASSUME DelegationInv, NEW w \in Workers, NEW t \in Threads,
           Delegation!worker(w, t) \/ Delegation!_run_subagent(w, t)
    PROVE  DelegationInv'
<1>0. Delegation!TypeOK /\ UNCHANGED <<mode, thread, active, finished, handle, intention, waits, faults>>
  BY DEF DelegationInv, Delegation!worker, Delegation!_run_subagent
<1>1. PICK p \in {"working", "again"} : serves' = [serves EXCEPT ![w][t] = p]
  BY DEF Delegation!worker, Delegation!_run_subagent, Delegation!Place
<1>2. came' \in [Threads -> SUBSET Delegation!Ends]
  <2>1. came' = came \/ Delegation!Ended(t, "raised")
    BY DEF Delegation!worker, Delegation!_run_subagent
  <2> QED BY <1>0, <2>1, EndsAreKept DEF Delegation!TypeOK, Delegation!Ends
<1>3. \A v \in Workers, u \in Threads : serves'[v][u] = IF v = w /\ u = t THEN p ELSE serves[v][u]
  BY <1>0, <1>1 DEF Delegation!TypeOK
<1>4. Delegation!TypeOK'
  BY <1>0, <1>1, <1>2 DEF Delegation!TypeOK, Delegation!Places
<1>5. BoundInv'
  BY <1>0, BoundShrinks DEF DelegationInv, Delegation!Asking
<1>6. ASSUME NEW u \in Threads PROVE ThreadInv(u)' /\ (Lone' => RowInv(u)')
  <2>0. ThreadInv(u)' /\ (Lone' => Lone) /\ (Lone => RowInv(u))
    BY <1>0 DEF DelegationInv, Lone, ThreadInv
  <2>1. ASSUME Lone PROVE RowInv(u)'
    <3>1. serves[w][t] # "over" /\ mode = "process"
      BY <2>1 DEF DelegationInv, RowInv, Delegation!worker, Delegation!_run_subagent
    <3>2. u = t => thread[t] \in {"requested", "lost"}
      BY <2>0, <2>1, <3>1 DEF RowInv, Delegation!worker, Delegation!_run_subagent
    <3> QED BY <1>0, <1>3, <2>0, <2>1, <3>1, <3>2 DEF RowInv
  <2> QED BY <2>0, <2>1
<1> QED BY <1>4, <1>5, <1>6 DEF DelegationInv

LEMMA ResultKeepsDelegation ==
    ASSUME DelegationInv, NEW w \in Workers, NEW t \in Threads, Delegation!_on_process_result(w, t)
    PROVE  DelegationInv'
<1>0. Delegation!TypeOK /\ UNCHANGED <<mode, faults>> /\ serves[w][t] \in {"working", "again"}
  BY DEF DelegationInv, Delegation!_on_process_result
<1>1. PICK e \in Delegation!Outcomes(t) :
         /\ Delegation!Ended(t, e)
         /\ intention' = [intention EXCEPT ![t] = IF @ = "none" THEN @ ELSE Delegation!Verdict(e)]
         /\ IF Delegation!Heard(t)
            THEN /\ handle' = [handle EXCEPT ![t] = Delegation!Verdict(e)] /\ Delegation!_retire(t)
                 /\ thread' = [thread EXCEPT ![t] = "over"]
                 /\ waits' = [waits EXCEPT ![t] = IF @ = "waiting" THEN "answered" ELSE @]
            ELSE UNCHANGED <<handle, active, finished, thread, waits>>
  BY DEF Delegation!_on_process_result
<1> DEFINE v == Delegation!Verdict(e)
<1>2. v \in {"done", "failed"} /\ e \in Delegation!Ends
  BY DEF Delegation!Verdict, Delegation!Outcomes, Delegation!Ends
<1> HIDE DEF v
<1>3. serves' = [serves EXCEPT ![w][t] = "over"]
  BY DEF Delegation!_on_process_result, Delegation!Place
<1>4. finished' \in Seq(Threads) /\ Len(finished') <= Retention /\ active' \subseteq active
  BY <1>0, <1>1, ArchiveBounded DEF Delegation!_retire, Delegation!TypeOK
<1>5. Delegation!TypeOK'
  <2>1. came' \in [Threads -> SUBSET Delegation!Ends]
    BY <1>0, <1>1, <1>2, EndsAreKept DEF Delegation!TypeOK
  <2>2. handle' = handle \/ handle' = [handle EXCEPT ![t] = v]
    BY <1>1 DEF v
  <2>3. intention' = [intention EXCEPT ![t] = IF @ = "none" THEN @ ELSE v]
    BY <1>1 DEF v
  <2>4. thread' = thread \/ thread' = [thread EXCEPT ![t] = "over"]
    BY <1>1
  <2>5. waits' = waits \/ waits' = [waits EXCEPT ![t] = IF @ = "waiting" THEN "answered" ELSE @]
    BY <1>1
  <2>6. handle' \in [Threads -> {"none", "running", "done", "failed"}]
    BY <1>0, <1>2, <2>2 DEF Delegation!TypeOK
  <2>7. intention' \in [Threads -> {"none", "proposed", "done", "failed"}]
    BY <1>0, <1>2, <2>3 DEF Delegation!TypeOK
  <2>8. thread' \in [Threads -> Delegation!Stations]
    BY <1>0, <2>4 DEF Delegation!TypeOK, Delegation!Stations
  <2>9. waits' \in [Threads -> {"no", "waiting", "answered", "gave up"}]
    BY <1>0, <2>5 DEF Delegation!TypeOK
  <2>10. serves' \in [Workers -> [Threads -> Delegation!Places \cup {"over"}]]
    BY <1>0, <1>3 DEF Delegation!TypeOK
  <2> QED BY <1>0, <1>4, <2>1, <2>6, <2>7, <2>8, <2>9, <2>10 DEF Delegation!TypeOK
<1>6. BoundInv'
  <2>1. Delegation!Asking' \subseteq Delegation!Asking
    BY <1>0, <1>1 DEF Delegation!Asking, Delegation!TypeOK
  <2> QED BY <1>4, <2>1, BoundShrinks DEF DelegationInv
<1>7. ASSUME NEW u \in Threads PROVE ThreadInv(u)' /\ (Lone' => RowInv(u)')
  <2>0. ThreadInv(u) /\ (Lone' => Lone) /\ (Lone => RowInv(u))
    BY <1>0 DEF DelegationInv, Lone
  <2>1. CASE u # t
    <3>1. /\ thread'[u] = thread[u] /\ handle'[u] = handle[u] /\ intention'[u] = intention[u]
          /\ u \in active' <=> u \in active
          /\ \A x \in Workers : serves'[x][u] = serves[x][u]
      BY <1>0, <1>1, <1>3, <2>1 DEF Delegation!TypeOK, Delegation!_retire
    <3> QED BY <1>0, <2>0, <3>1 DEF ThreadInv, RowInv
  <2>2. CASE u = t /\ Delegation!Heard(t)
    <3>1. thread'[t] = "over" /\ t \notin active' /\ handle'[t] = v /\ intention'[t] \in {"none", v} /\ serves'[w][t] = "over"
      BY <1>0, <1>1, <1>3, <2>2 DEF Delegation!TypeOK, Delegation!_retire, v
    <3>2. ThreadInv(t)'
      BY <3>1 DEF ThreadInv
    <3>3. ASSUME Lone PROVE RowInv(t)'
      <4>1. mode = "process" /\ \A x \in Workers : x = w
        BY <1>0, <2>0, <2>2, <3>3, LoneWorker DEF RowInv
      <4> QED BY <1>0, <1>2, <3>1, <4>1 DEF RowInv
    <3> QED BY <2>0, <2>2, <3>2, <3>3
  <2>3. CASE u = t /\ ~Delegation!Heard(t)
    <3>1. UNCHANGED <<handle, active, thread>> /\ serves'[w][t] = "over"
      BY <1>0, <1>1, <1>3, <2>3 DEF Delegation!TypeOK
    <3>2. ThreadInv(t)'
      BY <1>0, <2>0, <2>3, <3>1 DEF ThreadInv
    <3>3. ASSUME Lone PROVE RowInv(t)'
      <4>1. mode = "process" /\ \A x \in Workers : x = w
        BY <1>0, <2>0, <2>3, <3>3, LoneWorker DEF RowInv
      <4>2. thread[t] = "lost"
        BY <1>0, <2>0, <2>3, <3>3 DEF RowInv, ThreadInv, Delegation!Heard
      <4> QED BY <1>0, <3>1, <4>1, <4>2 DEF RowInv
    <3> QED BY <2>0, <2>3, <3>2, <3>3
  <2> QED BY <2>1, <2>2, <2>3
<1> QED BY <1>5, <1>6, <1>7 DEF DelegationInv

-----------------------------------------------------------------------------
(* Waits that are over, workers that die, and a core that starts again. *)

LEMMA WaitKeepsDelegation ==
    ASSUME DelegationInv, NEW t \in Threads, Delegation!wait(t)
    PROVE  DelegationInv'
<1>1. Delegation!TypeOK'
  BY DEF DelegationInv, Delegation!TypeOK, Delegation!wait
<1> QED BY <1>1 DEF DelegationInv, Delegation!wait, BoundInv, Delegation!Asking, ThreadInv, RowInv, Lone

LEMMA DeathKeepsDelegation ==
    ASSUME DelegationInv, NEW w \in Workers, Delegation!WorkerDies(w)
    PROVE  DelegationInv'
<1>0. Delegation!TypeOK /\ UNCHANGED <<mode, thread, active, finished, handle, intention, came, waits>> /\ mode = "process"
  BY DEF DelegationInv, Delegation!WorkerDies
<1>1. faults' \in 0 .. MaxFaults
  BY <1>0, FailsOnce DEF Delegation!WorkerDies, Delegation!TypeOK
<1>2. \A v \in Workers, u \in Threads :
         serves'[v][u] = IF v # w THEN serves[v][u] ELSE IF serves[v][u] = "idle" THEN "idle" ELSE "over"
  BY <1>0 DEF Delegation!WorkerDies, Delegation!TypeOK
<1>3. Delegation!TypeOK'
  <2>1. serves' \in [Workers -> [Threads -> Delegation!Places \cup {"over"}]]
    BY <1>0 DEF Delegation!WorkerDies, Delegation!TypeOK, Delegation!Places
  <2> QED BY <1>0, <1>1, <2>1 DEF Delegation!TypeOK
<1>4. BoundInv'
  BY <1>0, BoundShrinks DEF DelegationInv, Delegation!Asking
<1>5. ASSUME NEW u \in Threads PROVE ThreadInv(u)' /\ (Lone' => RowInv(u)')
  BY <1>0, <1>2 DEF DelegationInv, ThreadInv, RowInv, Lone
<1> QED BY <1>3, <1>4, <1>5 DEF DelegationInv

LEMMA RestartKeepsDelegation ==
    ASSUME DelegationInv, Delegation!Restart
    PROVE  DelegationInv'
<1>0. Delegation!TypeOK /\ UNCHANGED <<mode, handle, intention, came, serves>> /\ active' = {} /\ finished' = << >>
  BY DEF DelegationInv, Delegation!Restart
<1>1. faults' \in 0 .. MaxFaults
  BY <1>0, FailsOnce DEF Delegation!Restart, Delegation!TypeOK
<1>2. thread' = [t \in Threads |-> IF thread[t] \in {"none", "refused", "unsent", "over"} THEN thread[t] ELSE "lost"]
  BY DEF Delegation!Restart
<1>3. Delegation!TypeOK'
  <2>1. finished' \in Seq(Threads) /\ Len(finished') <= Retention
    BY <1>0, EmptySeq, DelegationConstants
  <2>2. thread' \in [Threads -> Delegation!Stations]
    BY <1>0, <1>2 DEF Delegation!TypeOK, Delegation!Stations
  <2>3. waits' \in [Threads -> {"no", "waiting", "answered", "gave up"}]
    BY <1>0 DEF Delegation!TypeOK, Delegation!Restart
  <2> QED BY <1>0, <1>1, <2>1, <2>2, <2>3 DEF Delegation!TypeOK
<1>4. BoundInv'
  <2>1. Delegation!Asking' \subseteq Delegation!Asking
    BY <1>2 DEF Delegation!Asking
  <2> QED BY <1>0, <2>1, BoundShrinks DEF DelegationInv
<1>5. ASSUME NEW u \in Threads PROVE ThreadInv(u)' /\ (Lone' => RowInv(u)')
  <2>1. ThreadInv(u) /\ (Lone' => RowInv(u))
    BY <1>0 DEF DelegationInv, Lone
  <2>2. \/ thread'[u] = thread[u] /\ thread[u] \in {"none", "refused", "unsent", "over"}
        \/ thread'[u] = "lost" /\ thread[u] # "over"
    BY <1>2
  <2> QED BY <1>0, <2>1, <2>2 DEF ThreadInv, RowInv
<1> QED BY <1>3, <1>4, <1>5 DEF DelegationInv

LEMMA DelegationStep == ASSUME DelegationInv, Delegation!Next PROVE DelegationInv'
  BY SpawnKeepsDelegation, RegisterKeepsDelegation, InProcessKeepsDelegation, RunKeepsDelegation,
     WaitKeepsDelegation, WorkerKeepsDelegation, ResultKeepsDelegation, DeathKeepsDelegation, RestartKeepsDelegation
  DEF Delegation!Next

\* Callers that pass the check together overshoot the bound on delegates by one
\* less than their number, and the row of a thread tells what its handle tells
\* (ethos/threads/manager.py, threads/worker.py).
DelegationPart == part = "delegation" => DelegationInv
THEOREM DelegatesNearTheirBound == Spec => []DelegationSafe
<1>1. Init => DelegationPart
  BY DelegationInit DEF Init, DelegationPart
<1>2. DelegationPart /\ [Next]_vars => DelegationPart'
  <2> SUFFICES ASSUME DelegationPart, [Next]_vars, part' = "delegation" PROVE DelegationInv'
    BY DEF DelegationPart
  <2>1. CASE part = "delegation" /\ Delegation!Next
    BY <2>1, DelegationStep DEF DelegationPart
  <2>2. CASE UNCHANGED vars
    <3>0. DelegationInv /\ UNCHANGED delegationVars /\ UNCHANGED faults
      BY <2>2 DEF vars, DelegationPart
    <3>1. Delegation!TypeOK'
      BY <3>0 DEF delegationVars, DelegationInv, Delegation!TypeOK
    <3>2. BoundInv'
      BY <3>0 DEF delegationVars, DelegationInv, BoundInv, Delegation!Asking
    <3>3. ASSUME NEW t \in Threads PROVE (ThreadInv(t) /\ (Lone => RowInv(t)))'
      <4>1. ThreadInv(t) /\ (Lone => RowInv(t))
        BY <3>0 DEF DelegationInv
      <4> QED BY <3>0, <4>1 DEF delegationVars, ThreadInv, RowInv, Lone
    <3> QED BY <3>1, <3>2, <3>3 DEF DelegationInv
  <2> QED BY <2>1, <2>2 DEF Next
<1>3. DelegationPart => DelegationSafe
  <2> SUFFICES ASSUME DelegationInv PROVE Delegation!TypeOK /\ Delegation!BoundOvershoot /\ Delegation!RowFollowsHandle
    BY DEF DelegationPart, DelegationSafe
  <2>1. Delegation!BoundOvershoot
    <3>1. Cardinality(active) \in Nat /\ Cardinality(Delegation!Asking) \in Nat
      BY FS_CardinalityType DEF DelegationInv, BoundInv
    <3> QED BY <3>1, DelegationCounts, DelegationConstants DEF DelegationInv, BoundInv, Delegation!BoundOvershoot
  <2>2. Delegation!RowFollowsHandle
    BY DelegationCounts DEF DelegationInv, RowInv, Lone, Delegation!RowFollowsHandle
  <2> QED BY <2>1, <2>2 DEF DelegationInv
<1> QED BY <1>1, <1>2, <1>3, PTL DEF Spec

-----------------------------------------------------------------------------
(* Terminals.  First the pool's queue, in which nobody stands twice.        *)

\* The three operators of the modules Workbench extends, as the proofs use them.
LEMMA QueueOperators ==
    /\ \A q : Terminals!ToSet(q) = {q[i] : i \in DOMAIN q}
    /\ \A f : Terminals!IsInjective(f) <=> \A a, b \in DOMAIN f : f[a] = f[b] => a = b
    /\ \A f : Terminals!Range(f) = {f[x] : x \in DOMAIN f}
    /\ \A f, S : Terminals!Restrict(f, S) = [x \in S |-> f[x]]
  BY DEF Terminals!ToSet, Terminals!IsInjective, Terminals!Range, Terminals!Restrict

\* Taking somebody out of the queue leaves the others in it, once each.
LEMMA TakenOut ==
    ASSUME NEW S, NEW q \in Seq(S), Terminals!IsInjective(q), NEW e
    PROVE  /\ Terminals!RemoveFirst(q, e) \in Seq(S)
           /\ Terminals!IsInjective(Terminals!RemoveFirst(q, e))
           /\ Terminals!ToSet(Terminals!RemoveFirst(q, e)) = Terminals!ToSet(q) \ {e}
<1>1. CASE ~\E i \in 1 .. Len(q) : q[i] = e
  BY <1>1, QueueOperators DEF Terminals!RemoveFirst
<1>2. CASE \E i \in 1 .. Len(q) : q[i] = e
  <2>1. PICK k \in 1 .. Len(q) : q[k] = e
    BY <1>2
  <2>2. {i \in 1 .. Len(q) : q[i] = e} = {k}
    BY <2>1, QueueOperators
  <2>3. Terminals!SelectInSeq(q, LAMBDA v : v = e) = k
    BY <2>1, <2>2 DEF Terminals!SelectInSeq, Terminals!Min
  <2>4. Terminals!RemoveFirst(q, e) = SubSeq(q, 1, k - 1) \o SubSeq(q, k + 1, Len(q))
    BY <1>2, <2>3 DEF Terminals!RemoveFirst, Terminals!RemoveAt
  <2> DEFINE l == SubSeq(q, 1, k - 1)
             r == SubSeq(q, k + 1, Len(q))
             n == Len(q) - 1
  <2>5. Len(q) \in Nat /\ \A i \in 1 .. Len(q) : q[i] \in S
    OBVIOUS
  <2>6. l \in Seq(S) /\ Len(l) = k - 1 /\ \A i \in 1 .. k - 1 : l[i] = q[i]
    BY <2>1, <2>5, SubSeqProperties
  <2>7. r \in Seq(S) /\ Len(r) = Len(q) - k /\ \A i \in 1 .. Len(q) - k : r[i] = q[i + k]
    <3>1. k + 1 \in Int /\ Len(q) \in Int /\ \A i \in k + 1 .. Len(q) : q[i] \in S
      BY <2>1, <2>5
    <3>2. \A i \in 1 .. Len(q) - (k + 1) + 1 : r[i] = q[k + 1 + i - 1]
      BY <3>1, SubSeqProperties
    <3>3. r \in Seq(S) /\ Len(r) = IF k + 1 <= Len(q) THEN Len(q) - (k + 1) + 1 ELSE 0
      BY <3>1, SubSeqProperties
    <3> QED BY <2>1, <2>5, <3>2, <3>3
  <2> DEFINE w == l \o r
  <2> HIDE DEF l, r
  <2>8. w \in Seq(S) /\ Len(w) = n /\ \A i \in 1 .. n : w[i] = IF i < k THEN q[i] ELSE q[i + 1]
    <3>1. w \in Seq(S) /\ Len(w) = Len(l) + Len(r)
      BY <2>6, <2>7, ConcatProperties
    <3>2. \A i \in 1 .. Len(l) + Len(r) : w[i] = IF i <= Len(l) THEN l[i] ELSE r[i - Len(l)]
      BY <2>6, <2>7, ConcatProperties
    <3>3. Len(w) = n
      BY <2>1, <2>5, <2>6, <2>7, <3>1
    <3>4. ASSUME NEW i \in 1 .. n PROVE w[i] = IF i < k THEN q[i] ELSE q[i + 1]
      <4>1. CASE i < k
        BY <2>1, <2>5, <2>6, <2>7, <3>2, <4>1
      <4>2. CASE ~(i < k)
        <5>1. w[i] = r[i - (k - 1)] /\ i - (k - 1) \in 1 .. Len(q) - k
          BY <2>1, <2>5, <2>6, <2>7, <3>2, <4>2
        <5>2. r[i - (k - 1)] = q[(i - (k - 1)) + k]
          BY <2>7, <5>1
        <5> QED BY <2>1, <4>2, <5>1, <5>2
      <4> QED BY <4>1, <4>2
    <3> QED BY <3>1, <3>3, <3>4
  <2> HIDE DEF w
  <2>9. DOMAIN w = 1 .. n /\ DOMAIN q = 1 .. Len(q)
    BY <2>8
  <2>10. Terminals!IsInjective(w)
    BY <2>1, <2>5, <2>8, <2>9, QueueOperators
  <2>11. Terminals!ToSet(w) = Terminals!ToSet(q) \ {e}
    <3>1. ASSUME NEW i \in 1 .. n PROVE w[i] \in Terminals!ToSet(q) \ {e}
      <4>1. \E j \in 1 .. Len(q) : j # k /\ w[i] = q[j]
        BY <2>1, <2>5, <2>8
      <4> QED BY <2>1, <2>9, <4>1, QueueOperators
    <3>2. ASSUME NEW j \in 1 .. Len(q), q[j] # e PROVE \E i \in 1 .. n : w[i] = q[j]
      <4>1. CASE j < k
        BY <2>1, <2>5, <2>8, <4>1
      <4>2. CASE j > k
        <5>1. j - 1 \in 1 .. n /\ ~(j - 1 < k) /\ (j - 1) + 1 = j
          BY <2>1, <2>5, <4>2
        <5> QED BY <2>8, <5>1
      <4> QED BY <2>1, <3>2, <4>1, <4>2
    <3> QED BY <2>9, <3>1, <3>2, QueueOperators
  <2> QED BY <2>4, <2>8, <2>10, <2>11 DEF w, l, r
<1> QED BY <1>1, <1>2

\* Joining the queue for the first time, and leaving it at its head.
LEMMA Joined ==
    ASSUME NEW S, NEW q \in Seq(S), Terminals!IsInjective(q), NEW e \in S, e \notin Terminals!ToSet(q)
    PROVE  /\ Append(q, e) \in Seq(S)
           /\ Terminals!IsInjective(Append(q, e))
           /\ Terminals!ToSet(Append(q, e)) = Terminals!ToSet(q) \cup {e}
<1> DEFINE w == Append(q, e)
<1>1. /\ w \in Seq(S) /\ Len(w) = Len(q) + 1 /\ Len(q) \in Nat
      /\ \A i \in 1 .. Len(q) : w[i] = q[i]
      /\ w[Len(q) + 1] = e
  BY AppendProperties
<1> HIDE DEF w
<1>2. DOMAIN w = 1 .. Len(q) + 1 /\ DOMAIN q = 1 .. Len(q)
  BY <1>1
<1>3. \A i \in 1 .. Len(q) : q[i] # e
  BY <1>2, QueueOperators
<1>4. Terminals!IsInjective(w)
  BY <1>1, <1>2, <1>3, QueueOperators
<1>5. Terminals!ToSet(w) = Terminals!ToSet(q) \cup {e}
  BY <1>1, <1>2, QueueOperators
<1> QED BY <1>1, <1>4, <1>5 DEF w

LEMMA Served ==
    ASSUME NEW S, NEW q \in Seq(S), Terminals!IsInjective(q), q # << >>
    PROVE  /\ Tail(q) \in Seq(S) /\ Head(q) \in S
           /\ Terminals!IsInjective(Tail(q))
           /\ Terminals!ToSet(q) = Terminals!ToSet(Tail(q)) \cup {Head(q)}
           /\ Head(q) \notin Terminals!ToSet(Tail(q))
<1> DEFINE w == Tail(q)
<1>1. /\ w \in Seq(S) /\ Head(q) \in S /\ Len(w) = Len(q) - 1 /\ Len(q) \in Nat /\ Len(w) \in Nat
      /\ \A i \in 1 .. Len(w) : w[i] = q[i + 1]
  BY HeadTailProperties
<1>2. Head(q) = q[1]
  OBVIOUS
<1> HIDE DEF w
<1>3. DOMAIN w = 1 .. Len(w) /\ DOMAIN q = 1 .. Len(w) + 1
  BY <1>1
<1>4. Terminals!IsInjective(w)
  <2>1. \A a, b \in 1 .. Len(w) + 1 : q[a] = q[b] => a = b
    BY <1>3, QueueOperators
  <2>2. ASSUME NEW a \in 1 .. Len(w), NEW b \in 1 .. Len(w), w[a] = w[b] PROVE a = b
    <3>1. a + 1 \in 1 .. Len(w) + 1 /\ b + 1 \in 1 .. Len(w) + 1 /\ q[a + 1] = q[b + 1]
      BY <1>1, <2>2
    <3>2. a + 1 = b + 1
      BY <2>1, <3>1
    <3> QED BY <3>2
  <2> QED BY <1>3, <2>2, QueueOperators
<1>5. ASSUME NEW j \in 1 .. Len(w) + 1, j # 1 PROVE \E i \in 1 .. Len(w) : w[i] = q[j]
  <2>1. j - 1 \in 1 .. Len(w) /\ (j - 1) + 1 = j
    BY <1>1, <1>5
  <2> QED BY <1>1, <2>1
<1>6. ASSUME NEW i \in 1 .. Len(w) PROVE i + 1 \in 1 .. Len(w) + 1 /\ i + 1 # 1 /\ w[i] = q[i + 1]
  BY <1>1
<1>7. 1 \in 1 .. Len(w) + 1
  BY <1>1
<1>8. \A a, b \in 1 .. Len(w) + 1 : q[a] = q[b] => a = b
  BY <1>3, QueueOperators
<1>9. Terminals!ToSet(q) = Terminals!ToSet(w) \cup {q[1]}
  <2>1. Terminals!ToSet(q) = {q[i] : i \in 1 .. Len(w) + 1} /\ Terminals!ToSet(w) = {w[i] : i \in 1 .. Len(w)}
    BY <1>3, QueueOperators
  <2>2. ASSUME NEW j \in 1 .. Len(w) + 1 PROVE q[j] \in {w[i] : i \in 1 .. Len(w)} \cup {q[1]}
    <3>1. CASE j = 1
      BY <3>1
    <3>2. CASE j # 1
      BY <1>5, <3>2
    <3> QED BY <3>1, <3>2
  <2>3. ASSUME NEW i \in 1 .. Len(w) PROVE w[i] \in {q[j] : j \in 1 .. Len(w) + 1}
    BY <1>6
  <2>4. q[1] \in {q[j] : j \in 1 .. Len(w) + 1}
    BY <1>7
  <2> QED BY <2>1, <2>2, <2>3, <2>4
<1>10. q[1] \notin Terminals!ToSet(w)
  <2>1. Terminals!ToSet(w) = {w[i] : i \in 1 .. Len(w)}
    BY <1>3, QueueOperators
  <2> QED BY <1>6, <1>7, <1>8, <2>1
<1> QED BY <1>1, <1>2, <1>4, <1>9, <1>10 DEF w

-----------------------------------------------------------------------------
(* The pool's threads. *)

LEMMA TerminalsCounts ==
    ASSUME NEW S
    PROVE  (Terminals!IsFiniteSet(S) <=> IsFiniteSet(S)) /\ Terminals!Cardinality(S) = Cardinality(S)
  BY DEF Terminals!IsFiniteSet, Terminals!Cardinality, IsFiniteSet, Cardinality

LEMMA TerminalsConstants ==
    /\ IsFiniteSet(Opens) /\ Terminals!None \notin Opens /\ Opens \cap Execs = {}
    /\ PoolThreads \in Nat /\ PoolThreads > 0 /\ MaxResets \in Nat
  BY HostAssumption, TerminalsCounts DEF HostAssumption, Terminals!WorkbenchAssumption

LEMMA TerminalsTyped == ASSUME TerminalsInv PROVE Terminals!TypeOK
<1>1. Terminals!Range(sessions) \subseteq alive
  BY QueueOperators DEF TerminalsInv, SessionsTyped
<1>2. held \subseteq Pool /\ Terminals!Cardinality(held) <= PoolThreads
  BY TerminalsCounts DEF TerminalsInv, PoolTyped
<1>3. DOMAIN sessions \subseteq 0 .. Terminals!Cardinality(Opens)
  BY TerminalsCounts DEF TerminalsInv, SessionsTyped
<1>4. Terminals!IsInjective(queue) /\ Terminals!ToSet(queue) \subseteq Pool \ held
  BY DEF TerminalsInv, PoolTyped
<1>5. handed \in [Opens -> Opens \cup {Terminals!None}] /\ alive \subseteq Opens /\ closed \in BOOLEAN
  BY DEF TerminalsInv, SessionsTyped
<1> QED BY <1>1, <1>2, <1>3, <1>4, <1>5 DEF TerminalsInv, ExecTyped, Terminals!TypeOK, Pool

LEMMA TerminalsInit == ASSUME Terminals!Init PROVE TerminalsInv
<1>1. DOMAIN sessions = {} /\ DOMAIN queue = {} /\ queue \in Seq(Pool)
  BY EmptySeq DEF Terminals!Init
<1>2. Cardinality(Opens) \in Nat
  BY TerminalsConstants, FS_CardinalityType
<1>3. PoolTyped
  BY <1>1, FS_EmptySet, QueueOperators, TerminalsConstants DEF Terminals!Init, PoolTyped
<1>4. SessionsTyped
  <2>1. DOMAIN sessions \subseteq 0 .. Cardinality(Opens) /\ IsFiniteSet(DOMAIN sessions)
    BY <1>1, FS_EmptySet
  <2> QED BY <1>1, <2>1 DEF Terminals!Init, SessionsTyped
<1>5. ExecTyped
  BY TerminalsConstants DEF Terminals!Init, ExecTyped
<1>6. OpenedOnce /\ QueuedOnce
  BY <1>1, QueueOperators DEF Terminals!Init, OpenedOnce, QueuedOnce
<1>7. Numbered
  <2>1. DOMAIN sessions = 0 .. 0 - 1 /\ 0 \in 0 .. Cardinality(Opens)
    BY <1>1, <1>2
  <2> QED BY <2>1 DEF Terminals!Init, Numbered
<1> QED BY <1>3, <1>4, <1>5, <1>6, <1>7 DEF TerminalsInv

-----------------------------------------------------------------------------
(* The pool serves; readers leave it. *)

LEMMA PoolKeepsTerminals ==
    ASSUME TerminalsInv, Terminals!run_in_executor PROVE TerminalsInv'
<1>1. /\ queue # << >> /\ Cardinality(held) < PoolThreads
      /\ held' = held \cup {Head(queue)} /\ queue' = Tail(queue)
      /\ UNCHANGED <<sessions, handed, alive, closed, kernel, exec>>
  BY TerminalsCounts DEF Terminals!run_in_executor, Terminals!terminals, Terminals!kernels
<1>2. /\ queue' \in Seq(Pool) /\ Head(queue) \in Pool /\ Terminals!IsInjective(queue')
      /\ Terminals!ToSet(queue) = Terminals!ToSet(queue') \cup {Head(queue)}
      /\ Head(queue) \notin Terminals!ToSet(queue')
  BY <1>1, Served DEF TerminalsInv, PoolTyped
<1>3. IsFiniteSet(held') /\ Cardinality(held') <= PoolThreads
  <2>1. IsFiniteSet(held) /\ Cardinality(held) \in Nat
    BY FS_CardinalityType DEF TerminalsInv, PoolTyped
  <2>2. IsFiniteSet(held') /\ Cardinality(held') \in {Cardinality(held), Cardinality(held) + 1}
    BY <1>1, <2>1, FS_AddElement
  <2> QED BY <1>1, <2>1, <2>2, TerminalsConstants
<1>4. PoolTyped'
  BY <1>1, <1>2, <1>3 DEF TerminalsInv, PoolTyped
<1>5. OpenedOnce' /\ QueuedOnce'
  BY <1>1, <1>2 DEF TerminalsInv, OpenedOnce, QueuedOnce
<1> QED BY <1>1, <1>4, <1>5 DEF TerminalsInv, SessionsTyped, ExecTyped, Numbered

\* A thread that comes free, whoever had it.
LEMMA ThreadFreed ==
    ASSUME PoolTyped, NEW u, held' = held \ {u}, queue' = queue PROVE PoolTyped'
<1>1. IsFiniteSet(held') /\ Cardinality(held') <= Cardinality(held)
  BY FS_Subset DEF PoolTyped
<1>2. Cardinality(held') \in Nat /\ Cardinality(held) \in Nat
  BY <1>1, FS_CardinalityType DEF PoolTyped
<1> QED BY <1>1, <1>2, TerminalsConstants DEF PoolTyped

LEMMA ReaderKeepsTerminals ==
    ASSUME TerminalsInv, NEW o \in Opens, Terminals!_drain_sync(o) \/ Terminals!ShellExits(o)
    PROVE  TerminalsInv'
<1>1. held' = held \ {o} /\ UNCHANGED <<queue, sessions, handed, alive, closed, kernel, exec>>
  BY DEF Terminals!_drain_sync, Terminals!ShellExits, Terminals!terminals, Terminals!kernels
<1>2. PoolTyped'
  BY <1>1, ThreadFreed DEF TerminalsInv
<1> QED BY <1>1, <1>2 DEF TerminalsInv, SessionsTyped, ExecTyped, OpenedOnce, QueuedOnce, Numbered

-----------------------------------------------------------------------------
(* Opening and closing. *)

\* There is a number left for an opening that has no terminal yet.
LEMMA RoomForOne ==
    ASSUME SessionsTyped, NEW o \in Opens, o \notin alive
    PROVE  Cardinality(DOMAIN sessions) \in Nat /\ Cardinality(DOMAIN sessions) + 1 <= Cardinality(Opens)
<1> DEFINE D == DOMAIN sessions
           T == Opens \ {o}
           g == [n \in D |-> sessions[n]]
<1>1. IsFiniteSet(D) /\ IsFiniteSet(Opens) /\ IsFiniteSet(T) /\ Cardinality(T) = Cardinality(Opens) - 1
  BY TerminalsConstants, FS_RemoveElement DEF SessionsTyped
<1>2. Cardinality(D) \in Nat /\ Cardinality(T) \in Nat /\ Cardinality(Opens) \in Nat
  BY <1>1, FS_CardinalityType
<1>3. g \in [D -> T] /\ \A m, n \in D : g[m] = g[n] => m = n
  BY DEF SessionsTyped
<1> HIDE DEF D, T, g
<1>4. ~(Cardinality(T) < Cardinality(D))
  <2> SUFFICES ASSUME Cardinality(T) < Cardinality(D) PROVE FALSE
    OBVIOUS
  <2>1. \E m, n \in D : m # n /\ g[m] = g[n]
    BY <1>1, <1>3, FS_PigeonHole
  <2> QED BY <1>3, <2>1
<1> USE DEF D
<1> QED BY <1>1, <1>2, <1>4

\* As long as none was closed, the next number is free.
LEMMA NextNumberFree ==
    ASSUME TerminalsInv, ~closed
    PROVE  /\ Cardinality(DOMAIN sessions) \in Nat /\ Cardinality(DOMAIN sessions) \notin DOMAIN sessions
           /\ DOMAIN sessions = 0 .. Cardinality(DOMAIN sessions) - 1
<1>1. PICK n \in Nat : DOMAIN sessions = 0 .. n - 1
  <2>1. Cardinality(Opens) \in Nat
    BY TerminalsConstants, FS_CardinalityType
  <2> QED BY <2>1 DEF TerminalsInv, Numbered
<1>2. Cardinality(0 .. n - 1) = n
  <2>1. 0 \in Int /\ n - 1 \in Int
    OBVIOUS
  <2>2. Cardinality(0 .. n - 1) = IF 0 > n - 1 THEN 0 ELSE n - 1 - 0 + 1
    BY <2>1, FS_Interval
  <2> QED BY <2>2
<1> QED BY <1>1, <1>2

LEMMA OpenKeepsTerminals ==
    ASSUME TerminalsInv, NEW o \in Opens, Terminals!open_session(o)
    PROVE  TerminalsInv'
<1> DEFINE N == Cardinality(DOMAIN sessions)
<1>0. /\ handed[o] = Terminals!None /\ UNCHANGED <<closed, kernel, exec, held>>
      /\ o \notin alive /\ o \notin held /\ o \notin Terminals!ToSet(queue) /\ o \in Pool /\ o \notin Execs
  BY TerminalsConstants DEF TerminalsInv, OpenedOnce, Terminals!open_session, Terminals!kernels, Pool
<1>1. N \in Nat /\ N + 1 <= Cardinality(Opens) /\ Cardinality(Opens) \in Nat
  BY <1>0, RoomForOne, TerminalsConstants, FS_CardinalityType DEF TerminalsInv
<1>2. CASE N \in DOMAIN sessions
  <2>1. handed' = [handed EXCEPT ![o] = sessions[N]] /\ UNCHANGED <<sessions, alive, queue>>
    BY <1>2, TerminalsCounts DEF Terminals!open_session, Terminals!Number
  <2>2. sessions[N] \in Opens /\ closed
    BY <1>2, NextNumberFree DEF TerminalsInv, SessionsTyped
  <2>3. SessionsTyped'
    BY <1>0, <2>1, <2>2 DEF TerminalsInv, SessionsTyped
  <2>4. OpenedOnce'
    BY <1>0, <2>1, <2>2, TerminalsConstants DEF TerminalsInv, OpenedOnce, SessionsTyped
  <2> QED BY <1>0, <2>1, <2>2, <2>3, <2>4 DEF TerminalsInv, PoolTyped, ExecTyped, QueuedOnce, Numbered
<1>3. CASE N \notin DOMAIN sessions
  <2>1. /\ handed' = [handed EXCEPT ![o] = o] /\ alive' = alive \cup {o} /\ queue' = Append(queue, o)
        /\ sessions' = [n \in DOMAIN sessions \cup {N} |-> IF n = N THEN o ELSE sessions[n]]
    BY <1>3, TerminalsCounts DEF Terminals!open_session, Terminals!Number
  <2>2. /\ queue' \in Seq(Pool) /\ Terminals!IsInjective(queue')
        /\ Terminals!ToSet(queue') = Terminals!ToSet(queue) \cup {o}
    BY <1>0, <2>1, Joined DEF TerminalsInv, PoolTyped
  <2>3. PoolTyped'
    BY <1>0, <2>2 DEF TerminalsInv, PoolTyped
  <2>4. SessionsTyped'
    <3>1. DOMAIN sessions' = DOMAIN sessions \cup {N} /\ IsFiniteSet(DOMAIN sessions')
      BY <2>1, FS_AddElement DEF TerminalsInv, SessionsTyped
    <3>2. DOMAIN sessions' \subseteq 0 .. Cardinality(Opens)
      BY <1>1, <3>1 DEF TerminalsInv, SessionsTyped
    <3>3. \A n \in DOMAIN sessions' : sessions'[n] \in alive'
      BY <2>1, <3>1 DEF TerminalsInv, SessionsTyped
    <3>4. \A m, n \in DOMAIN sessions' : sessions'[m] = sessions'[n] => m = n
      BY <1>0, <2>1, <3>1 DEF TerminalsInv, SessionsTyped
    <3> QED BY <1>0, <2>1, <3>1, <3>2, <3>3, <3>4 DEF TerminalsInv, SessionsTyped
  <2>5. OpenedOnce'
    BY <1>0, <2>1, <2>2, TerminalsConstants DEF TerminalsInv, OpenedOnce, SessionsTyped
  <2>6. QueuedOnce'
    BY <1>0, <2>2 DEF TerminalsInv, QueuedOnce
  <2>7. Numbered'
    <3> SUFFICES ASSUME ~closed PROVE /\ \E n \in 0 .. Cardinality(Opens) : DOMAIN sessions' = 0 .. n - 1
                                      /\ \A p \in Opens : handed'[p] \in {Terminals!None, p}
      BY <1>0 DEF Numbered
    <3>1. DOMAIN sessions = 0 .. N - 1
      BY NextNumberFree
    <3>2. DOMAIN sessions' = 0 .. (N + 1) - 1 /\ N + 1 \in 0 .. Cardinality(Opens)
      BY <1>1, <2>1, <3>1
    <3>3. \A p \in Opens : handed'[p] \in {Terminals!None, p}
      BY <2>1 DEF TerminalsInv, Numbered, SessionsTyped
    <3> QED BY <3>2, <3>3
  <2> QED BY <1>0, <2>3, <2>4, <2>5, <2>6, <2>7 DEF TerminalsInv, ExecTyped
<1> QED BY <1>2, <1>3

LEMMA CloseKeepsTerminals ==
    ASSUME TerminalsInv, NEW n \in DOMAIN sessions, Terminals!close_session(n)
    PROVE  TerminalsInv'
<1>1. /\ sessions' = [m \in DOMAIN sessions \ {n} |-> sessions[m]]
      /\ alive' = alive \ {sessions[n]} /\ closed' = TRUE
      /\ queue' = Terminals!RemoveFirst(queue, sessions[n])
      /\ UNCHANGED <<handed, kernel, exec, held>>
  BY QueueOperators DEF Terminals!close_session, Terminals!kernels
<1>2. /\ queue' \in Seq(Pool) /\ Terminals!IsInjective(queue')
      /\ Terminals!ToSet(queue') = Terminals!ToSet(queue) \ {sessions[n]}
  BY <1>1, TakenOut DEF TerminalsInv, PoolTyped
<1>3. PoolTyped'
  BY <1>1, <1>2 DEF TerminalsInv, PoolTyped
<1>4. SessionsTyped'
  <2>1. DOMAIN sessions' = DOMAIN sessions \ {n} /\ IsFiniteSet(DOMAIN sessions')
    BY <1>1, FS_RemoveElement DEF TerminalsInv, SessionsTyped
  <2> QED BY <1>1, <2>1 DEF TerminalsInv, SessionsTyped
<1>5. OpenedOnce' /\ QueuedOnce'
  BY <1>1, <1>2 DEF TerminalsInv, OpenedOnce, QueuedOnce
<1> QED BY <1>1, <1>3, <1>4, <1>5 DEF TerminalsInv, ExecTyped, Numbered

-----------------------------------------------------------------------------
(* Kernels. *)

LEMMA CodeKeepsTerminals ==
    ASSUME TerminalsInv, NEW x \in Execs,
           Terminals!get_or_create(x) \/ Terminals!Locks(x) \/ Terminals!Ends(x) \/ Terminals!TimesOut(x)
    PROVE  TerminalsInv'
<1>0. /\ PoolTyped /\ SessionsTyped /\ ExecTyped /\ OpenedOnce /\ QueuedOnce /\ Numbered
      /\ UNCHANGED <<sessions, handed, alive, closed, kernel>> /\ x \in Pool /\ x \notin Opens
  BY TerminalsConstants
  DEF TerminalsInv, Terminals!get_or_create, Terminals!Locks, Terminals!Ends, Terminals!TimesOut, Terminals!terminals, Pool
<1>1. ASSUME PoolTyped', ExecTyped', QueuedOnce',
             \A o \in Opens : (o \in held' => o \in held) /\ (o \in Terminals!ToSet(queue') => o \in Terminals!ToSet(queue))
      PROVE  TerminalsInv'
  <2>1. OpenedOnce'
    BY <1>0, <1>1 DEF OpenedOnce
  <2> QED BY <1>0, <1>1, <2>1 DEF TerminalsInv, SessionsTyped, Numbered
<1>2. CASE Terminals!get_or_create(x)
  <2>1. /\ exec' = [exec EXCEPT ![x].at = "waiting", ![x].kernel = kernel] /\ queue' = Append(queue, x)
        /\ held' = held /\ x \notin held /\ x \notin Terminals!ToSet(queue)
    BY <1>0, <1>2 DEF Terminals!get_or_create, QueuedOnce
  <2>2. /\ queue' \in Seq(Pool) /\ Terminals!IsInjective(queue')
        /\ Terminals!ToSet(queue') = Terminals!ToSet(queue) \cup {x}
    BY <1>0, <2>1, Joined DEF PoolTyped
  <2>3. PoolTyped'
    BY <1>0, <2>1, <2>2 DEF PoolTyped
  <2>4. ExecTyped'
    BY <1>0, <2>1 DEF ExecTyped
  <2>5. QueuedOnce'
    BY <1>0, <2>1, <2>2 DEF QueuedOnce, ExecTyped
  <2> QED BY <1>0, <1>1, <2>1, <2>2, <2>3, <2>4, <2>5
<1>3. CASE Terminals!Locks(x)
  <2>1. exec' = [exec EXCEPT ![x].at = "running"] /\ UNCHANGED <<held, queue>> /\ exec[x].at = "waiting"
    BY <1>3 DEF Terminals!Locks
  <2>2. PoolTyped' /\ ExecTyped'
    BY <1>0, <2>1 DEF PoolTyped, ExecTyped
  <2>3. QueuedOnce'
    BY <1>0, <2>1 DEF QueuedOnce, ExecTyped
  <2> QED BY <1>1, <2>1, <2>2, <2>3
<1>4. CASE Terminals!Ends(x)
  <2>1. exec' = [exec EXCEPT ![x].at = "over", ![x].told = TRUE] /\ queue' = queue /\ held' = held \ {x}
    BY <1>4 DEF Terminals!Ends
  <2>2. PoolTyped'
    BY <1>0, <2>1, ThreadFreed
  <2>3. ExecTyped'
    BY <1>0, <2>1 DEF ExecTyped
  <2>4. QueuedOnce'
    BY <1>0, <2>1 DEF QueuedOnce, ExecTyped
  <2> QED BY <1>1, <2>1, <2>2, <2>3, <2>4
<1>5. CASE Terminals!TimesOut(x)
  <2>1. /\ exec' = [exec EXCEPT ![x].told = TRUE, ![x].at = IF x \in Terminals!ToSet(queue) THEN "over" ELSE @]
        /\ queue' = Terminals!RemoveFirst(queue, x) /\ held' = held /\ exec[x].at # "new"
    BY <1>5 DEF Terminals!TimesOut
  <2>2. /\ queue' \in Seq(Pool) /\ Terminals!IsInjective(queue')
        /\ Terminals!ToSet(queue') = Terminals!ToSet(queue) \ {x}
    BY <1>0, <2>1, TakenOut DEF PoolTyped
  <2>3. PoolTyped'
    BY <1>0, <2>1, <2>2 DEF PoolTyped
  <2>4. ExecTyped'
    BY <1>0, <2>1 DEF ExecTyped
  <2>5. \A y \in Execs : exec'[y].at = "new" => exec[y].at = "new"
    BY <1>0, <2>1 DEF ExecTyped
  <2>6. QueuedOnce'
    BY <1>0, <2>1, <2>2, <2>5 DEF QueuedOnce
  <2> QED BY <1>1, <2>1, <2>2, <2>3, <2>4, <2>6
<1> QED BY <1>2, <1>3, <1>4, <1>5

LEMMA ResetKeepsTerminals == ASSUME TerminalsInv, Terminals!reset PROVE TerminalsInv'
<1>1. UNCHANGED <<sessions, handed, alive, closed, exec, held, queue>> /\ kernel' \in 0 .. MaxResets
  BY TerminalsConstants DEF TerminalsInv, ExecTyped, Terminals!reset, Terminals!terminals
<1> QED BY <1>1 DEF TerminalsInv, PoolTyped, SessionsTyped, ExecTyped, OpenedOnce, QueuedOnce, Numbered

LEMMA TerminalsStep == ASSUME TerminalsInv, Terminals!Next PROVE TerminalsInv'
  BY PoolKeepsTerminals, ResetKeepsTerminals, OpenKeepsTerminals, ReaderKeepsTerminals, CloseKeepsTerminals,
     CodeKeepsTerminals
  DEF Terminals!Next

\* Two that open a terminal without a name are given one each, as long as none
\* was closed, and the pool holds no more threads than it has
\* (ethos/toolhost/pty_session.py, kernels.py).
TerminalsPart == part = "terminals" => TerminalsInv
THEOREM OpeningsHaveTheirOwn == Spec => []TerminalsSafe
<1>1. Init => TerminalsPart
  BY TerminalsInit DEF Init, TerminalsPart
<1>2. TerminalsPart /\ [Next]_vars => TerminalsPart'
  <2> SUFFICES ASSUME TerminalsPart, [Next]_vars, part' = "terminals" PROVE TerminalsInv'
    BY DEF TerminalsPart
  <2>1. CASE part = "terminals" /\ Terminals!Next
    BY <2>1, TerminalsStep DEF TerminalsPart
  <2>2. CASE UNCHANGED vars
    BY <2>2 DEF vars, terminalsVars, TerminalsPart, TerminalsInv, PoolTyped, SessionsTyped, ExecTyped, OpenedOnce,
       QueuedOnce, Numbered
  <2> QED BY <2>1, <2>2 DEF Next
<1>3. TerminalsPart => TerminalsSafe
  <2> SUFFICES ASSUME TerminalsInv PROVE Terminals!TypeOK /\ Terminals!OneTerminalEach
    BY DEF TerminalsPart, TerminalsSafe
  <2> QED BY TerminalsTyped, TerminalsConstants DEF TerminalsInv, Numbered, Terminals!OneTerminalEach
<1> QED BY <1>1, <1>2, <1>3, PTL DEF Spec

-----------------------------------------------------------------------------
(* The guardian: its constants, its beginning, and its counts.              *)

LEMMA GuardianConstants ==
    /\ Holds \in [Paths -> SUBSET Paths] /\ (\A p \in Paths : p \in Holds[p])
    /\ Commands \subseteq Seq(Paths) /\ <<>> \notin Commands
    /\ NoVersion \notin Nat /\ NoVersion \notin Paths /\ Guardian!Files # {} /\ Guardian!Files \subseteq Paths
    /\ MaxVersions \in Nat /\ MaxVersions > 0 /\ MaxCalls \in Nat /\ MaxFaults \in Nat
  BY HostAssumption DEF HostAssumption, Guardian!GuardianAssumption, Guardian!Files

LEMMA RestingIsJob == Guardian!Resting \in Guardian!Jobs /\ Guardian!Resting.at = "idle" /\ Guardian!Resting.entry = NoVersion
  BY EmptySeq DEF Guardian!Resting, Guardian!Jobs, Guardian!Tools, Guardian!Kinds

LEMMA GuardianInit == ASSUME Guardian!Init PROVE GuardianInv
<1>1. DOMAIN trash = {} /\ Before = {} /\ trash \in [DOMAIN trash -> Guardian!Entries]
  BY RestingIsJob DEF Guardian!Init, Before, Pending
<1>2. Guardian!TypeOK
  <2>1. at \in Guardian!Bytes
    BY GuardianConstants DEF Guardian!Init, Guardian!Bytes, Guardian!Versions
  <2>2. job \in [Callers -> Guardian!Jobs]
    BY RestingIsJob DEF Guardian!Init
  <2>3. undo \in [at : {"idle", "getting", "restoring", "unnaming", "unrowing"}, entry : Guardian!Ids \cup {NoVersion}]
    BY DEF Guardian!Init, Guardian!Idle
  <2> QED BY <1>1, <2>1, <2>2, <2>3, GuardianConstants DEF Guardian!Init, Guardian!TypeOK
<1>3. EntriesInv
  BY <1>1, FS_EmptySet DEF EntriesInv, Guardian!Init
<1>4. UndoInv
  BY DEF UndoInv, Guardian!Init, Guardian!Idle
<1>5. \A c \in Callers : CallOK(job[c])
  BY RestingIsJob DEF CallOK, Pending, Guardian!Init
<1>6. \A v \in 1 .. versions : Somewhere(v)
  <2>1. 1 .. versions = {1}
    BY DEF Guardian!Init
  <2>2. \E f \in Guardian!Files : at[f] = 1
    BY GuardianConstants DEF Guardian!Init
  <2> QED BY <2>1, <2>2 DEF Somewhere
<1> QED BY <1>1, <1>2, <1>3, <1>4, <1>5, <1>6 DEF GuardianInv

\* No more entries are made, and come to be made, than calls were begun.
LEMMA CountsKept ==
    ASSUME EntriesInv, calls \in Nat, calls' = calls, DOMAIN trash' = DOMAIN trash, Before' \subseteq Before
    PROVE  EntriesInv'
<1>1. IsFiniteSet(Before') /\ Cardinality(Before') <= Cardinality(Before) /\ IsFiniteSet(DOMAIN trash')
  BY FS_Subset DEF EntriesInv
<1>2. Cardinality(Before) \in Nat /\ Cardinality(Before') \in Nat /\ Cardinality(DOMAIN trash) \in Nat
  BY <1>1, FS_CardinalityType DEF EntriesInv
<1> QED BY <1>1, <1>2 DEF EntriesInv

LEMMA OneMoreCall ==
    ASSUME EntriesInv, calls \in Nat, calls' = calls + 1, DOMAIN trash' = DOMAIN trash,
           NEW c, Before' \subseteq Before \cup {c}
    PROVE  EntriesInv'
<1>1. IsFiniteSet(Before \cup {c}) /\ Cardinality(Before \cup {c}) <= Cardinality(Before) + 1
  <2>1. IsFiniteSet(Before) /\ Cardinality(Before) \in Nat
    BY FS_CardinalityType DEF EntriesInv
  <2> QED BY <2>1, FS_AddElement
<1>2. IsFiniteSet(Before') /\ Cardinality(Before') <= Cardinality(Before \cup {c})
  BY <1>1, FS_Subset
<1>3. /\ Cardinality(Before) \in Nat /\ Cardinality(Before') \in Nat /\ Cardinality(DOMAIN trash) \in Nat
      /\ Cardinality(Before \cup {c}) \in Nat
  BY <1>1, <1>2, FS_CardinalityType DEF EntriesInv
<1> QED BY <1>1, <1>2, <1>3 DEF EntriesInv

\* So there is an identity left for the entry of a call that is to make one.
LEMMA IdLeft ==
    ASSUME GuardianInv, NEW c \in Callers, job[c].at = "moving"
    PROVE  Guardian!NewId \in Guardian!Ids /\ Guardian!NewId \notin DOMAIN trash
<1>1. c \in Before /\ IsFiniteSet(Before) /\ IsFiniteSet(DOMAIN trash) /\ calls \in Nat /\ calls <= MaxCalls
  BY GuardianConstants DEF GuardianInv, EntriesInv, Before, Pending, Guardian!TypeOK
<1>2. Cardinality(Before) \in Nat /\ Cardinality(Before) # 0 /\ Cardinality(DOMAIN trash) \in Nat
  BY <1>1, FS_CardinalityType, FS_EmptySet
<1>3. Cardinality(DOMAIN trash) < MaxCalls
  BY <1>1, <1>2, GuardianConstants DEF GuardianInv, EntriesInv
<1>4. Cardinality(Guardian!Ids) = MaxCalls
  <2>1. 1 \in Int /\ MaxCalls \in Int /\ MaxCalls \in Nat
    BY GuardianConstants
  <2>2. Cardinality(1 .. MaxCalls) = IF 1 > MaxCalls THEN 0 ELSE MaxCalls - 1 + 1
    BY <2>1, FS_Interval
  <2> QED BY <2>1, <2>2 DEF Guardian!Ids
<1>5. ~(Guardian!Ids \subseteq DOMAIN trash)
  <2> SUFFICES ASSUME Guardian!Ids \subseteq DOMAIN trash PROVE FALSE
    OBVIOUS
  <2>1. Cardinality(Guardian!Ids) <= Cardinality(DOMAIN trash)
    BY <1>1, FS_Subset
  <2> QED BY <1>2, <1>3, <1>4, <2>1, GuardianConstants
<1>6. \E e \in Guardian!Ids : e \notin DOMAIN trash
  BY <1>5
<1> QED BY <1>6 DEF Guardian!NewId

\* A call that goes on without touching the trash.
LEMMA CallGoesOn ==
    ASSUME GuardianInv, NEW c \in Callers, NEW r \in Guardian!Jobs,
           job' = [job EXCEPT ![c] = r], job[c].entry = NoVersion, CallOK(r)',
           UNCHANGED <<trash, undo>>, artifacts \subseteq artifacts',
           Guardian!TypeOK', EntriesInv', \A v \in 1 .. versions' : Somewhere(v)'
    PROVE  GuardianInv'
<1>1. \A d \in Callers : job'[d] = IF d = c THEN r ELSE job[d]
  BY DEF GuardianInv, Guardian!TypeOK
<1>2. UndoInv'
  BY DEF GuardianInv, UndoInv, Emptied
<1>3. ASSUME NEW d \in Callers PROVE CallOK(job[d])'
  <2>1. CASE d = c
    BY <1>1, <2>1
  <2>2. CASE d # c
    <3>1. CallOK(job[d])
      BY DEF GuardianInv
    <3>2. job'[d] = job[d]
      BY <1>1, <2>2
    <3> QED BY <3>1, <3>2 DEF CallOK, Emptied
  <2> QED BY <2>1, <2>2
<1>4. ASSUME NEW e \in DOMAIN trash' PROVE EntryOK(e)'
  <2>1. EntryOK(e) /\ e # NoVersion
    BY GuardianConstants DEF GuardianInv, Guardian!TypeOK, Guardian!Ids
  <2>2. \A d \in Callers : job[d].entry = e => job'[d].entry = e
    BY <1>1, <2>1
  <2> QED BY <2>1, <2>2 DEF EntryOK, Emptied
<1> QED BY <1>2, <1>3, <1>4 DEF GuardianInv

LEMMA PendingShrinks ==
    ASSUME GuardianInv, NEW c \in Callers, NEW r, job' = [job EXCEPT ![c] = r],
           r.at \in Pending => job[c].at \in Pending, calls' = calls, DOMAIN trash' = DOMAIN trash
    PROVE  EntriesInv'
<1>1. Before' \subseteq Before
  BY DEF Before, GuardianInv, Guardian!TypeOK
<1>2. calls \in Nat
  BY GuardianConstants DEF GuardianInv, Guardian!TypeOK
<1> QED BY <1>1, <1>2, CountsKept DEF GuardianInv

LEMMA GuardianFails ==
    ASSUME faults \in 0 .. MaxFaults, Guardian!Fails PROVE faults' \in 0 .. MaxFaults
  BY OneMoreFault DEF Guardian!Fails

\* What is registered is never forgotten.
LEMMA Registered ==
    ASSUME artifacts \subseteq Paths, NEW p \in Paths, Guardian!auto_register_write(p)
    PROVE  artifacts \subseteq artifacts' /\ artifacts' \subseteq Paths
  BY DEF Guardian!auto_register_write

-----------------------------------------------------------------------------
(* Review: what a call owes its commissions it has shown or had excused     *)
(* before it moves anything.                                                *)

LEMMA CalledIs ==
    ASSUME NEW c, NEW tool \in Guardian!Tools, NEW ts \in Seq(Paths), NEW for \in BOOLEAN, artifacts \subseteq Paths
    PROVE  LET called == Guardian!Called(c, tool, ts, for)
           IN  /\ called \in Guardian!Jobs
               /\ called.targets = ts /\ called.next = 1 /\ called.entry = NoVersion
               /\ called.owed = artifacts \cap Holds[ts[1]]
<1>. PICK owes : owes = artifacts \cap Holds[ts[1]]
  OBVIOUS
<1>. PICK rest : rest = Guardian!Resting
  OBVIOUS
<1>. PICK called : called = Guardian!Called(c, tool, ts, for)
  OBVIOUS
<1>1. rest \in Guardian!Jobs /\ rest.entry = NoVersion
  BY RestingIsJob
<1>2. rest.next = 1
  BY DEF Guardian!Resting
<1>3. owes \in SUBSET Paths
  OBVIOUS
<1>4. called = [rest EXCEPT !.tool = tool, !.targets = ts, !.for = for, !.owed = owes]
  BY DEF Guardian!Called
<1>5. called \in Guardian!Jobs
  BY <1>1, <1>3, <1>4 DEF Guardian!Jobs
<1>6. called.targets = ts /\ called.owed = owes
  BY <1>1, <1>4 DEF Guardian!Jobs
<1>7. called.next = rest.next /\ called.entry = rest.entry
  BY <1>1, <1>4 DEF Guardian!Jobs
<1> QED BY <1>1, <1>2, <1>5, <1>6, <1>7

LEMMA ReviewKeepsGuardian ==
    ASSUME GuardianInv, NEW c \in Callers, NEW tool \in Guardian!Tools, NEW ts \in Seq(Paths), ts # <<>>,
           NEW for \in BOOLEAN, Guardian!review(c, tool, ts, for)
    PROVE  GuardianInv'
<1> DEFINE called == Guardian!Called(c, tool, ts, for)
           destroys == Guardian!is_destructive(tool)
<1>0. /\ Guardian!TypeOK /\ job[c].at = "idle" /\ job[c].entry = NoVersion
      /\ calls < MaxCalls /\ calls' = calls + 1 /\ calls \in Nat
      /\ UNCHANGED <<at, versions, backups, beside, trash, undo, clobbered>>
  BY GuardianConstants DEF GuardianInv, CallOK, Guardian!review, Guardian!TypeOK
<1>1. Len(ts) \in Nat /\ Len(ts) >= 1 /\ (\A i \in 1 .. Len(ts) : ts[i] \in Paths) /\ ts[1] \in Paths /\ ts[Len(ts)] \in Paths
  BY EmptySeq
<1>2. PICK place \in {"looking", "running"} : job' = [job EXCEPT ![c] = [called EXCEPT !.at = place]]
  BY DEF Guardian!review
<1>. PICK r : r = [called EXCEPT !.at = place]
  OBVIOUS
<1>3. /\ r \in Guardian!Jobs /\ r.at = place /\ r.targets = ts /\ r.next = 1 /\ r.entry = NoVersion
      /\ r.owed = artifacts \cap Holds[ts[1]]
  <2>1. artifacts \subseteq Paths
    BY <1>0 DEF Guardian!TypeOK
  <2>2. /\ called \in Guardian!Jobs
        /\ called.targets = ts /\ called.next = 1 /\ called.entry = NoVersion
        /\ called.owed = artifacts \cap Holds[ts[1]]
    BY <2>1, CalledIs
  <2> HIDE DEF called
  <2>3. r \in Guardian!Jobs /\ r.at = place
    BY <2>2 DEF Guardian!Jobs
  <2>4. r.targets = called.targets /\ r.next = called.next /\ r.entry = called.entry /\ r.owed = called.owed
    BY <2>2 DEF Guardian!Jobs
  <2> QED BY <2>2, <2>3, <2>4
<1>4. faults' \in 0 .. MaxFaults
  BY <1>0, GuardianFails DEF Guardian!review, Guardian!TypeOK
<1>5. artifacts \subseteq artifacts' /\ artifacts' \subseteq Paths
  BY <1>0, <1>1, Registered DEF Guardian!review, Guardian!TypeOK
<1>6. job' = [job EXCEPT ![c] = r]
  BY <1>2
<1>7. Guardian!TypeOK'
  BY <1>0, <1>3, <1>4, <1>5, <1>6, GuardianConstants DEF Guardian!TypeOK
<1>8. EntriesInv'
  <2>1. Before' \subseteq Before \cup {c}
    BY <1>0, <1>6 DEF Before, Guardian!TypeOK
  <2> QED BY <1>0, <2>1, OneMoreCall DEF GuardianInv
<1>9. CallOK(r)'
  BY <1>1, <1>3, <1>5 DEF CallOK, Pending
<1>10. \A v \in 1 .. versions' : Somewhere(v)'
  BY <1>0 DEF GuardianInv, Somewhere
<1> QED BY <1>0, <1>3, <1>5, <1>6, <1>7, <1>8, <1>9, <1>10, CallGoesOn

LEMMA LookingKeepsGuardian ==
    ASSUME GuardianInv, NEW c \in Callers,
           Guardian!_review_destructive(c) \/ Guardian!check_consistency(c)
    PROVE  GuardianInv'
<1>0. /\ Guardian!TypeOK /\ job[c] \in Guardian!Jobs /\ CallOK(job[c]) /\ job[c].at \in {"looking", "asking"}
      /\ UNCHANGED <<at, versions, backups, beside, artifacts, trash, calls, undo, clobbered>>
  BY DEF GuardianInv, Guardian!TypeOK, Guardian!_review_destructive, Guardian!check_consistency
<1>1. faults' \in 0 .. MaxFaults
  BY <1>0, GuardianFails DEF Guardian!_review_destructive, Guardian!check_consistency, Guardian!TypeOK
<1>2. ASSUME NEW r \in Guardian!Jobs, job' = [job EXCEPT ![c] = r], CallOK(r) PROVE GuardianInv'
  <2>1. Guardian!TypeOK'
    BY <1>0, <1>1, <1>2 DEF Guardian!TypeOK
  <2>2. EntriesInv'
    BY <1>0, <1>2, PendingShrinks DEF Pending
  <2>3. CallOK(r)'
    BY <1>0, <1>2 DEF CallOK, Emptied
  <2>4. \A v \in 1 .. versions' : Somewhere(v)'
    BY <1>0 DEF GuardianInv, Somewhere
  <2>5. job[c].entry = NoVersion
    BY <1>0 DEF CallOK
  <2> QED BY <1>0, <1>2, <2>1, <2>2, <2>3, <2>4, <2>5, CallGoesOn
<1>3. CASE Guardian!check_consistency(c)
  <2>1. CASE job' = [job EXCEPT ![c].at = "moving", ![c].kind = "due_process"]
    <3> DEFINE r == [job[c] EXCEPT !.at = "moving", !.kind = "due_process"]
    <3>1. r \in Guardian!Jobs /\ job' = [job EXCEPT ![c] = r]
      BY <1>0, <2>1 DEF Guardian!Jobs, Guardian!Kinds
    <3>2. CallOK(r)
      BY <1>0, <1>3 DEF CallOK, Pending, Guardian!Jobs, Guardian!check_consistency
    <3> QED BY <1>2, <3>1, <3>2
  <2>2. CASE Guardian!Ends(c)
    <3>1. CallOK(Guardian!Resting)
      BY RestingIsJob DEF CallOK, Pending
    <3> QED BY <1>2, <2>2, <3>1, RestingIsJob DEF Guardian!Ends
  <2> QED BY <1>3, <2>1, <2>2 DEF Guardian!check_consistency
<1>4. CASE Guardian!_review_destructive(c)
  <2> DEFINE j == job[c]
             past == IF ~(j.next = Len(j.targets)) THEN [j EXCEPT !.next = @ + 1]
                     ELSE [j EXCEPT !.at = IF Guardian!Deletes(j.tool) THEN "moving" ELSE "running"]
  <2>0. /\ j.at = "looking" /\ j.next \in 1 .. Len(j.targets) /\ Len(j.targets) \in Nat /\ j.entry = NoVersion
        /\ j.targets # <<>> /\ j.owed \subseteq artifacts \cap Holds[j.targets[1]]
    BY <1>0, <1>4 DEF CallOK, Pending, Guardian!_review_destructive, Guardian!Jobs
  <2>1. past \in Guardian!Jobs /\ [past EXCEPT !.excused = TRUE] \in Guardian!Jobs
    <3>1. CASE ~(j.next = Len(j.targets))
      <4>1. past = [j EXCEPT !.next = j.next + 1] /\ j.next + 1 \in Nat
        BY <2>0, <3>1
      <4> QED BY <1>0, <4>1 DEF Guardian!Jobs
    <3>2. CASE j.next = Len(j.targets)
      <4>1. PICK place \in {"moving", "running"} : past = [j EXCEPT !.at = place]
        BY <3>2
      <4> QED BY <1>0, <4>1 DEF Guardian!Jobs
    <3> QED BY <3>1, <3>2
  <2>2. CASE Guardian!is_protected(j.targets[j.next]) /\ job' = [job EXCEPT ![c] = [j EXCEPT !.at = "asking", !.protected = TRUE]]
    <3> DEFINE r == [j EXCEPT !.at = "asking", !.protected = TRUE]
    <3>1. r \in Guardian!Jobs
      BY <1>0 DEF Guardian!Jobs
    <3>2. CallOK(r)
      BY <1>0, <2>0 DEF CallOK, Pending, Guardian!Jobs
    <3> QED BY <1>2, <2>2, <3>1, <3>2
  <2>3. CASE ~Guardian!is_protected(j.targets[j.next]) /\ job' = [job EXCEPT ![c] = past]
    <3>1. j.owed = {} \/ j.excused
      <4>1. CASE j.next > 1
        BY <1>0, <2>0, <4>1 DEF CallOK
      <4>2. CASE j.next = 1
        BY <2>0, <2>3, <4>2 DEF Guardian!is_protected
      <4> QED BY <2>0, <4>1, <4>2
    <3>2. CallOK(past)
      <4>1. CASE ~(j.next = Len(j.targets))
        BY <1>0, <2>0, <3>1, <4>1 DEF CallOK, Pending, Guardian!Jobs
      <4>2. CASE j.next = Len(j.targets)
        BY <1>0, <2>0, <3>1, <4>2 DEF CallOK, Pending, Guardian!Jobs
      <4> QED BY <4>1, <4>2
    <3> QED BY <1>2, <2>1, <2>3, <3>2
  <2>4. CASE job' = [job EXCEPT ![c] = [past EXCEPT !.excused = TRUE]]
    <3> DEFINE r == [past EXCEPT !.excused = TRUE]
    <3>1. CallOK(r)
      <4>1. CASE ~(j.next = Len(j.targets))
        BY <1>0, <2>0, <4>1 DEF CallOK, Pending, Guardian!Jobs
      <4>2. CASE j.next = Len(j.targets)
        BY <1>0, <2>0, <4>2 DEF CallOK, Pending, Guardian!Jobs
      <4> QED BY <4>1, <4>2
    <3> QED BY <1>2, <2>1, <2>4, <3>1
  <2> QED BY <1>4, <2>2, <2>3, <2>4 DEF Guardian!_review_destructive
<1> QED BY <1>3, <1>4

-----------------------------------------------------------------------------
(* The trash: an entry is made with the bytes it holds, and until it can be *)
(* named it is in the hands of the call that made it.                       *)

\* A call that marks its entry, or leaves it marked.
Marks(c, r) ==
    /\ trash' \in [DOMAIN trash -> Guardian!Entries]
    /\ \A e \in DOMAIN trash :
         /\ trash'[e].path = trash[e].path /\ trash'[e].bytes = trash[e].bytes /\ trash'[e].owed = trash[e].owed
         /\ trash'[e].kind = trash[e].kind /\ trash'[e].excused = trash[e].excused
         /\ trash[e].row => trash'[e].row
         /\ trash[e].manifest => trash'[e].manifest
         /\ trash[e].cut => trash'[e].cut
         /\ job[c].entry = e /\ r.entry # e => Emptied(e) \/ trash'[e].row \/ trash'[e].manifest \/ trash'[e].cut
LEMMA EntryMarked ==
    ASSUME GuardianInv, NEW c \in Callers, NEW r \in Guardian!Jobs, job' = [job EXCEPT ![c] = r], CallOK(r)',
           UNCHANGED <<at, versions, backups, beside, artifacts, calls, undo, clobbered>>,
           faults' \in 0 .. MaxFaults, r.at \in Pending => job[c].at \in Pending, Marks(c, r)
    PROVE  GuardianInv'
<1> USE DEF Marks
<1>0. DOMAIN trash' = DOMAIN trash
  OBVIOUS
<1>1. \A d \in Callers : job'[d] = IF d = c THEN r ELSE job[d]
  BY DEF GuardianInv, Guardian!TypeOK
<1>2. Guardian!TypeOK'
  BY <1>0 DEF GuardianInv, Guardian!TypeOK
<1>3. EntriesInv'
  BY <1>0, PendingShrinks
<1>4. UndoInv'
  BY <1>0 DEF GuardianInv, UndoInv, Emptied
<1>5. ASSUME NEW d \in Callers PROVE CallOK(job[d])'
  <2>1. CASE d = c
    BY <1>1, <2>1
  <2>2. CASE d # c
    <3>1. CallOK(job[d])
      BY DEF GuardianInv
    <3>2. job'[d] = job[d]
      BY <1>1, <2>2
    <3> QED BY <1>0, <3>1, <3>2 DEF CallOK, Emptied
  <2> QED BY <2>1, <2>2
<1>6. ASSUME NEW e \in DOMAIN trash' PROVE EntryOK(e)'
  <2>1. EntryOK(e)
    BY <1>0 DEF GuardianInv
  <2>2. \A d \in Callers : job[d].entry = e /\ d # c => job'[d].entry = e
    BY <1>1
  <2>3. r.entry = e => \E d \in Callers : job'[d].entry = e
    BY <1>1
  <2>4. Emptied(e)' <=> Emptied(e)
    BY <1>0 DEF Emptied
  <2>5. Emptied(e)' \/ trash'[e].row \/ trash'[e].manifest \/ trash'[e].cut \/ \E d \in Callers : job'[d].entry = e
    BY <1>0, <2>1, <2>2, <2>3, <2>4 DEF EntryOK
  <2> QED BY <1>0, <2>1, <2>5 DEF EntryOK
<1>7. \A v \in 1 .. versions' : Somewhere(v)'
  BY <1>0 DEF GuardianInv, Somewhere
<1> QED BY <1>0, <1>2, <1>3, <1>4, <1>5, <1>6, <1>7 DEF GuardianInv

LEMMA NamingKeepsGuardian ==
    ASSUME GuardianInv, NEW c \in Callers, Guardian!writes_manifest(c)
    PROVE  GuardianInv'
<1>0. /\ job[c] \in Guardian!Jobs /\ CallOK(job[c]) /\ job[c].at = "naming"
      /\ job[c].entry \in DOMAIN trash /\ trash[job[c].entry] \in Guardian!Entries
      /\ UNCHANGED <<at, versions, backups, beside, artifacts, calls, undo, clobbered, faults>>
  BY DEF GuardianInv, Guardian!TypeOK, Guardian!writes_manifest, CallOK
<1>. PICK x : x = job[c].entry
  OBVIOUS
<1>1. trash' = [trash EXCEPT ![x].manifest = TRUE]
  BY DEF Guardian!writes_manifest, Guardian!Manifested
<1>. PICK r : r = [job[c] EXCEPT !.at = "rowing"]
  OBVIOUS
<1>2. r \in Guardian!Jobs /\ r.at = "rowing" /\ r.entry = x /\ job' = [job EXCEPT ![c] = r]
  BY <1>0 DEF Guardian!Jobs, Guardian!writes_manifest, Guardian!Goes
<1>3. trash' = [trash EXCEPT ![x] = [trash[x] EXCEPT !.manifest = TRUE]] /\ x \in DOMAIN trash
  BY <1>0, <1>1
<1>4. [trash[x] EXCEPT !.manifest = TRUE] \in Guardian!Entries
  BY <1>0 DEF Guardian!Entries
<1>5. trash' \in [DOMAIN trash -> Guardian!Entries]
  BY <1>3, <1>4 DEF GuardianInv
<1>6. \A e \in DOMAIN trash : trash'[e] = IF e = x THEN [trash[x] EXCEPT !.manifest = TRUE] ELSE trash[e]
  BY <1>3 DEF GuardianInv
<1>7. /\ trash'[x].manifest
      /\ \A e \in DOMAIN trash :
           /\ trash'[e].path = trash[e].path /\ trash'[e].bytes = trash[e].bytes /\ trash'[e].owed = trash[e].owed
           /\ trash'[e].kind = trash[e].kind /\ trash'[e].excused = trash[e].excused
           /\ trash[e].row => trash'[e].row
           /\ trash[e].manifest => trash'[e].manifest
           /\ trash[e].cut => trash'[e].cut
  <2>1. trash[x] \in Guardian!Entries
    BY <1>0
  <2> QED BY <1>3, <1>6, <2>1 DEF Guardian!Entries
<1>8. CallOK(r)'
  BY <1>2, <1>3, <1>7 DEF CallOK, Pending
<1>9. faults' \in 0 .. MaxFaults /\ r.at \notin Pending
  BY <1>0, <1>2 DEF GuardianInv, Guardian!TypeOK, Pending
<1>10. \A e \in DOMAIN trash :
         /\ trash'[e].path = trash[e].path /\ trash'[e].bytes = trash[e].bytes /\ trash'[e].owed = trash[e].owed
         /\ trash'[e].kind = trash[e].kind /\ trash'[e].excused = trash[e].excused
         /\ trash[e].row => trash'[e].row
         /\ trash[e].manifest => trash'[e].manifest
         /\ trash[e].cut => trash'[e].cut
         /\ job[c].entry = e /\ r.entry # e => Emptied(e) \/ trash'[e].row \/ trash'[e].manifest \/ trash'[e].cut
  BY <1>2, <1>7
<1>11. r.at \in Pending => job[c].at \in Pending
  BY <1>9
<1>12. UNCHANGED <<at, versions, backups, beside, artifacts, calls, undo, clobbered>>
  BY <1>0
<1>13. faults' \in 0 .. MaxFaults /\ r \in Guardian!Jobs /\ job' = [job EXCEPT ![c] = r]
  BY <1>2, <1>9
<1>14. DOMAIN trash' = DOMAIN trash
  BY <1>5
<1>15. Marks(c, r)
  BY <1>5, <1>10 DEF Marks
<1> QED BY <1>8, <1>11, <1>12, <1>13, <1>15, EntryMarked

\* A call whose entry is in the table of entries ends: its row is written or
\* not, or it is cut.
LEMMA EndKeepsGuardian ==
    ASSUME GuardianInv, NEW c \in Callers, Guardian!upsert_env(c) \/ Guardian!CallCut(c)
    PROVE  GuardianInv'
<1>0. /\ job[c] \in Guardian!Jobs /\ CallOK(job[c]) /\ job' = [job EXCEPT ![c] = Guardian!Resting]
      /\ UNCHANGED <<at, versions, backups, beside, artifacts, calls, undo, clobbered>>
  BY DEF GuardianInv, Guardian!TypeOK, Guardian!upsert_env, Guardian!CallCut, Guardian!Ends
<1>1. faults' \in 0 .. MaxFaults
  BY GuardianFails DEF GuardianInv, Guardian!TypeOK, Guardian!upsert_env, Guardian!CallCut
<1>2. CallOK(Guardian!Resting)' /\ Guardian!Resting.at \notin Pending
  BY RestingIsJob DEF CallOK, Pending, Guardian!Resting
<1>. PICK x : x = job[c].entry
  OBVIOUS
<1>3. CASE trash' = trash /\ (x \in DOMAIN trash => Emptied(x) \/ trash[x].manifest)
  <2>1. Marks(c, Guardian!Resting)
    BY <1>0, <1>3 DEF GuardianInv, Marks
  <2> QED BY <1>0, <1>1, <1>2, <2>1, RestingIsJob, EntryMarked
<1>4. ASSUME NEW entry \in Guardian!Entries, x \in DOMAIN trash, trash' = [trash EXCEPT ![x] = entry],
             entry \in {[trash[x] EXCEPT !.row = TRUE], [trash[x] EXCEPT !.cut = TRUE]}
      PROVE  GuardianInv'
  <2>1. trash[x] \in Guardian!Entries
    BY <1>4 DEF GuardianInv
  <2>2. \A e \in DOMAIN trash : trash'[e] = IF e = x THEN entry ELSE trash[e]
    BY <1>4 DEF GuardianInv
  <2>3. trash' \in [DOMAIN trash -> Guardian!Entries]
    BY <1>4 DEF GuardianInv
  <2>4. /\ entry.path = trash[x].path /\ entry.bytes = trash[x].bytes /\ entry.owed = trash[x].owed
        /\ entry.kind = trash[x].kind /\ entry.excused = trash[x].excused
        /\ trash[x].row => entry.row
        /\ trash[x].manifest => entry.manifest
        /\ trash[x].cut => entry.cut
        /\ entry.row \/ entry.cut
    BY <1>4, <2>1 DEF Guardian!Entries
  <2>5. \A e \in DOMAIN trash :
             /\ trash'[e].path = trash[e].path /\ trash'[e].bytes = trash[e].bytes /\ trash'[e].owed = trash[e].owed
             /\ trash'[e].kind = trash[e].kind /\ trash'[e].excused = trash[e].excused
             /\ trash[e].row => trash'[e].row
             /\ trash[e].manifest => trash'[e].manifest
             /\ trash[e].cut => trash'[e].cut
             /\ e = x => trash'[e].row \/ trash'[e].cut
    BY <2>2, <2>4
  <2>6. \A e \in DOMAIN trash :
             /\ trash'[e].path = trash[e].path /\ trash'[e].bytes = trash[e].bytes /\ trash'[e].owed = trash[e].owed
             /\ trash'[e].kind = trash[e].kind /\ trash'[e].excused = trash[e].excused
             /\ trash[e].row => trash'[e].row
             /\ trash[e].manifest => trash'[e].manifest
             /\ trash[e].cut => trash'[e].cut
             /\ job[c].entry = e /\ Guardian!Resting.entry # e =>
                  Emptied(e) \/ trash'[e].row \/ trash'[e].manifest \/ trash'[e].cut
    BY <2>5
  <2>7. Guardian!Resting.at \in Pending => job[c].at \in Pending
    BY <1>2
  <2>8. Guardian!Resting \in Guardian!Jobs /\ job' = [job EXCEPT ![c] = Guardian!Resting] /\ CallOK(Guardian!Resting)'
    BY <1>0, <1>2, RestingIsJob
  <2>9. UNCHANGED <<at, versions, backups, beside, artifacts, calls, undo, clobbered>>
    BY <1>0
  <2>10. Marks(c, Guardian!Resting)
    BY <2>3, <2>6 DEF Marks
  <2> QED BY <1>1, <2>7, <2>8, <2>9, <2>10, EntryMarked
<1>5. CASE Guardian!upsert_env(c)
  <2>1. x \in DOMAIN trash /\ (Emptied(x) \/ trash[x].manifest) /\ trash[x] \in Guardian!Entries
    BY <1>0, <1>5 DEF CallOK, Guardian!upsert_env, GuardianInv
  <2>2. CASE trash' = [trash EXCEPT ![x].row = TRUE]
    <3>1. [trash[x] EXCEPT !.row = TRUE] \in Guardian!Entries /\ trash' = [trash EXCEPT ![x] = [trash[x] EXCEPT !.row = TRUE]]
      BY <2>1, <2>2 DEF Guardian!Entries
    <3> QED BY <1>4, <2>1, <3>1
  <2> QED BY <1>3, <1>5, <2>1, <2>2 DEF Guardian!upsert_env
<1>6. CASE Guardian!CallCut(c)
  <2>1. CASE x = NoVersion
    <3>1. trash' = trash /\ x \notin DOMAIN trash
      BY <1>6, <2>1, GuardianConstants DEF Guardian!CallCut, GuardianInv, Guardian!TypeOK, Guardian!Ids
    <3> QED BY <1>3, <3>1
  <2>2. CASE x # NoVersion
    <3>1. x \in DOMAIN trash /\ trash[x] \in Guardian!Entries /\ trash' = [trash EXCEPT ![x].cut = TRUE]
      BY <1>0, <1>6, <2>2 DEF CallOK, Guardian!CallCut, GuardianInv
    <3>2. [trash[x] EXCEPT !.cut = TRUE] \in Guardian!Entries /\ trash' = [trash EXCEPT ![x] = [trash[x] EXCEPT !.cut = TRUE]]
      BY <3>1 DEF Guardian!Entries
    <3> QED BY <1>4, <3>1, <3>2
  <2> QED BY <2>1, <2>2
<1> QED BY <1>5, <1>6

\* The move: what was at the first target is in a new entry, and the call that
\* made it holds it.
LEMMA MoveKeepsGuardian ==
    ASSUME GuardianInv, NEW c \in Callers, Guardian!move(c)
    PROVE  GuardianInv'
<1>0. /\ Guardian!TypeOK /\ job[c] \in Guardian!Jobs /\ CallOK(job[c]) /\ job[c].at = "moving" /\ job[c].entry = NoVersion
      /\ UNCHANGED <<versions, backups, beside, artifacts, calls, undo, clobbered, faults>>
  BY DEF GuardianInv, Guardian!TypeOK, Guardian!move, CallOK
<1>. PICK p : p = job[c].targets[1]
  OBVIOUS
<1>1. p \in Paths
  <2>1. job[c].targets \in Seq(Paths) /\ job[c].targets # <<>>
    BY <1>0 DEF CallOK, Pending, Guardian!Jobs
  <2> QED BY <2>1
<1>2. CASE ~Guardian!Exists(p)
  <2>1. job' = [job EXCEPT ![c] = Guardian!Resting] /\ UNCHANGED <<at, trash>>
    BY <1>2 DEF Guardian!move, Guardian!Ends
  <2>2. Guardian!TypeOK'
    BY <1>0, <2>1, RestingIsJob DEF Guardian!TypeOK
  <2>3. EntriesInv'
    BY <1>0, <2>1, PendingShrinks DEF Pending
  <2>4. CallOK(Guardian!Resting)'
    BY RestingIsJob DEF CallOK, Pending, Guardian!Resting
  <2>5. \A v \in 1 .. versions' : Somewhere(v)'
    BY <1>0, <2>1 DEF GuardianInv, Somewhere
  <2> QED BY <1>0, <2>1, <2>2, <2>3, <2>4, <2>5, RestingIsJob, CallGoesOn
<1>3. CASE Guardian!Exists(p)
  <2> DEFINE moved == [f \in Guardian!Files |-> IF f \in Holds[p] THEN at[f] ELSE NoVersion]
  <2>. PICK n : n = Guardian!NewId
    OBVIOUS
  <2>. PICK new : new = [path |-> p, kind |-> job[c].kind, manifest |-> FALSE, row |-> FALSE, cut |-> FALSE,
                          owed |-> job[c].owed, excused |-> job[c].excused, bytes |-> moved]
    OBVIOUS
  <2>1. /\ trash' = [e \in DOMAIN trash \cup {n} |-> IF e \in DOMAIN trash THEN trash[e] ELSE new]
        /\ at' = [f \in Guardian!Files |-> IF f \in Holds[p] THEN NoVersion ELSE at[f]]
        /\ job' = [job EXCEPT ![c].at = "naming", ![c].entry = n]
    BY <1>3 DEF Guardian!move
  <2>2. n \in Guardian!Ids /\ n \notin DOMAIN trash /\ n # NoVersion
    BY <1>0, IdLeft, GuardianConstants DEF Guardian!Ids
  <2>3. moved \in Guardian!Bytes /\ at' \in Guardian!Bytes
    BY <1>0, <2>1 DEF Guardian!Bytes, Guardian!TypeOK
  <2>4. new \in Guardian!Entries
    BY <1>0, <1>1, <2>3 DEF Guardian!Entries, Guardian!Jobs
  <2>5. trash' \in [DOMAIN trash' -> Guardian!Entries] /\ DOMAIN trash' = DOMAIN trash \cup {n}
    BY <2>1, <2>4 DEF GuardianInv
  <2>6. trash'[n] = new /\ \A e \in DOMAIN trash : trash'[e] = trash[e]
    BY <2>1, <2>2
  <2>. PICK r : r = [job[c] EXCEPT !.at = "naming", !.entry = n]
    OBVIOUS
  <2>7. /\ r \in Guardian!Jobs /\ r.at = "naming" /\ r.entry = n /\ job' = [job EXCEPT ![c] = r]
        /\ \A d \in Callers : job'[d] = IF d = c THEN r ELSE job[d]
    BY <1>0, <2>1, <2>2 DEF Guardian!Jobs, Guardian!TypeOK
  <2>8. Guardian!TypeOK'
    <3>1. job' \in [Callers -> Guardian!Jobs]
      BY <1>0, <2>7 DEF Guardian!TypeOK
    <3>2. DOMAIN trash' \subseteq Guardian!Ids /\ \A e \in DOMAIN trash' : trash'[e] \in Guardian!Entries
      BY <1>0, <2>2, <2>5 DEF Guardian!TypeOK
    <3> QED BY <1>0, <2>3, <3>1, <3>2 DEF Guardian!TypeOK
  <2>9. EntriesInv'
    <3>1. Before' = Before \ {c} /\ c \in Before
      BY <1>0, <2>7 DEF Before, Pending
    <3>2. /\ IsFiniteSet(Before') /\ Cardinality(Before') = Cardinality(Before) - 1
          /\ IsFiniteSet(DOMAIN trash') /\ Cardinality(DOMAIN trash') = Cardinality(DOMAIN trash) + 1
      <4>1. IsFiniteSet(Before) /\ IsFiniteSet(DOMAIN trash)
        BY DEF GuardianInv, EntriesInv
      <4> QED BY <2>2, <2>5, <3>1, <4>1, FS_AddElement, FS_RemoveElement
    <3>3. Cardinality(Before) \in Nat /\ Cardinality(DOMAIN trash) \in Nat
      BY FS_CardinalityType DEF GuardianInv, EntriesInv
    <3> QED BY <1>0, <3>2, <3>3 DEF GuardianInv, EntriesInv
  <2>10. UndoInv'
    BY <1>0, <2>5, <2>6 DEF GuardianInv, UndoInv, Emptied
  <2>11. ASSUME NEW d \in Callers PROVE CallOK(job[d])'
    <3>1. CASE d = c
      BY <2>5, <2>7, <3>1 DEF CallOK, Pending
    <3>2. CASE d # c
      <4>1. CallOK(job[d]) /\ job'[d] = job[d]
        BY <2>7, <3>2 DEF GuardianInv
      <4> QED BY <1>0, <2>5, <2>6, <4>1 DEF CallOK, Emptied
    <3> QED BY <3>1, <3>2
  <2>12. EntryOK(n)'
    <3>1. job'[c].entry = n
      BY <2>7
    <3>2. job[c].owed = {} \/ job[c].kind = "due_process" \/ job[c].excused
      BY <1>0 DEF CallOK
    <3>3. /\ trash'[n].path = p /\ trash'[n].owed = job[c].owed /\ trash'[n].kind = job[c].kind
          /\ trash'[n].excused = job[c].excused /\ trash'[n].bytes = moved
      BY <2>6
    <3>4. \A f \in Guardian!Files : trash'[n].bytes[f] # NoVersion => f \in Holds[trash'[n].path]
      BY <3>3
    <3> QED BY <3>1, <3>2, <3>3, <3>4 DEF EntryOK
  <2>13. ASSUME NEW e \in DOMAIN trash PROVE EntryOK(e)'
    <3>1. EntryOK(e) /\ e # NoVersion /\ trash'[e] = trash[e]
      BY <1>0, <2>6, GuardianConstants DEF GuardianInv, Guardian!TypeOK, Guardian!Ids
    <3>2. \A d \in Callers : job[d].entry = e => job'[d].entry = e
      BY <1>0, <2>7, <3>1
    <3> QED BY <3>1, <3>2 DEF EntryOK, Emptied
  <2>14. ASSUME NEW v \in 1 .. versions' PROVE Somewhere(v)'
    <3>1. Somewhere(v)
      BY <1>0 DEF GuardianInv
    <3>2. CASE v \in backups \cup beside \cup clobbered
      BY <1>0, <3>2 DEF Somewhere
    <3>3. ASSUME NEW f \in Guardian!Files, at[f] = v PROVE Somewhere(v)'
      <4>1. CASE f \in Holds[p]
        <5>1. trash'[n].bytes[f] = v /\ n \in DOMAIN trash'
          BY <2>5, <2>6, <3>3, <4>1
        <5> QED BY <5>1 DEF Somewhere
      <4>2. CASE f \notin Holds[p]
        BY <2>1, <3>3, <4>2 DEF Somewhere
      <4> QED BY <4>1, <4>2
    <3>4. ASSUME NEW e \in DOMAIN trash, NEW f \in Guardian!Files, trash[e].bytes[f] = v PROVE Somewhere(v)'
      BY <2>5, <2>6, <3>4 DEF Somewhere
    <3> QED BY <3>1, <3>2, <3>3, <3>4 DEF Somewhere
  <2> QED BY <2>5, <2>8, <2>9, <2>10, <2>11, <2>12, <2>13, <2>14 DEF GuardianInv
<1> QED BY <1>2, <1>3

-----------------------------------------------------------------------------
(* The file tools: what they lay bytes over is kept first, or was moved onto. *)

LEMMA ToolKeepsGuardian ==
    ASSUME GuardianInv, NEW c \in Callers, job[c].at \in {"running", "registering"},
           Guardian!Ends(c) \/ Guardian!Goes(c, "registering"),
           UNCHANGED <<trash, undo, calls>>, artifacts \subseteq artifacts', artifacts' \subseteq Paths,
           at' \in Guardian!Bytes, versions' \in 0 .. MaxVersions, faults' \in 0 .. MaxFaults,
           backups' \subseteq Guardian!Versions, beside' \subseteq Guardian!Versions, clobbered' \subseteq Guardian!Versions,
           \A v \in 1 .. versions' : Somewhere(v)'
    PROVE  GuardianInv'
<1>0. Guardian!TypeOK /\ job[c] \in Guardian!Jobs /\ CallOK(job[c]) /\ job[c].entry = NoVersion
  BY DEF GuardianInv, Guardian!TypeOK, CallOK
<1>1. PICK r \in Guardian!Jobs : /\ r.at \in {"idle", "registering"} /\ r.entry = NoVersion /\ job' = [job EXCEPT ![c] = r]
                                 /\ (r.at # "idle" => r.targets = job[c].targets)
  <2>1. CASE Guardian!Ends(c)
    BY <2>1, RestingIsJob DEF Guardian!Ends
  <2>2. CASE Guardian!Goes(c, "registering")
    <3>1. [job[c] EXCEPT !.at = "registering"] \in Guardian!Jobs
      BY <1>0 DEF Guardian!Jobs
    <3>2. job' = [job EXCEPT ![c] = [job[c] EXCEPT !.at = "registering"]]
      BY <1>0, <2>2 DEF Guardian!Goes, Guardian!TypeOK
    <3>3. /\ [job[c] EXCEPT !.at = "registering"].at = "registering" /\ [job[c] EXCEPT !.at = "registering"].entry = NoVersion
          /\ [job[c] EXCEPT !.at = "registering"].targets = job[c].targets
      BY <1>0 DEF Guardian!Jobs
    <3> QED BY <3>1, <3>2, <3>3
  <2> QED BY <2>1, <2>2
<1>2. CallOK(r)'
  BY <1>0, <1>1 DEF CallOK, Pending
<1>3. Guardian!TypeOK'
  BY <1>0, <1>1 DEF Guardian!TypeOK
<1>4. EntriesInv'
  BY <1>1, PendingShrinks DEF Pending
<1> QED BY <1>0, <1>1, <1>2, <1>3, <1>4, CallGoesOn

\* A version written over a file whose bytes went to the backups first.
LEMMA WrittenKept ==
    ASSUME GuardianInv, NEW f \in Guardian!Files, versions < MaxVersions,
           Guardian!Written(f), backups' = Guardian!_preimage_backup(f), UNCHANGED <<beside, clobbered, trash>>
    PROVE  /\ at' \in Guardian!Bytes /\ versions' \in 0 .. MaxVersions /\ backups' \subseteq Guardian!Versions
           /\ \A v \in 1 .. versions' : Somewhere(v)'
<1>0. Guardian!TypeOK /\ at \in Guardian!Bytes /\ versions \in Nat /\ versions' = versions + 1 /\ MaxVersions \in Nat
  BY GuardianConstants DEF GuardianInv, Guardian!TypeOK, Guardian!Written, Guardian!New
<1>1. at' = [at EXCEPT ![f] = versions + 1] /\ versions + 1 \in Guardian!Versions
  BY <1>0, GuardianConstants DEF Guardian!Written, Guardian!New, Guardian!Versions
<1>2. backups' = backups \cup ({at[f]} \ {NoVersion}) /\ (at[f] = NoVersion \/ at[f] \in Guardian!Versions)
  BY <1>0 DEF Guardian!_preimage_backup, Guardian!Bytes
<1>3. ASSUME NEW v \in 1 .. versions' PROVE Somewhere(v)'
  <2>1. CASE v = versions + 1
    <3>1. at'[f] = v
      BY <1>0, <1>1, <2>1 DEF Guardian!Bytes
    <3> QED BY <3>1 DEF Somewhere
  <2>2. CASE v # versions + 1
    <3>1. v \in 1 .. versions /\ Somewhere(v) /\ v # NoVersion
      BY <1>0, <2>2, GuardianConstants DEF GuardianInv
    <3>2. \A g \in Guardian!Files : g # f => at'[g] = at[g]
      BY <1>0, <1>1 DEF Guardian!Bytes
    <3> QED BY <1>2, <3>1, <3>2 DEF Somewhere
  <2> QED BY <2>1, <2>2
<1> QED BY <1>0, <1>1, <1>2, <1>3 DEF Guardian!TypeOK, Guardian!Bytes

LEMMA FilesKeepGuardian ==
    ASSUME GuardianInv, NEW c \in Callers,
           \/ Guardian!fs_write(c) \/ Guardian!fs_edit(c) \/ Guardian!fs_move(c) \/ Guardian!chmod(c)
           \/ Guardian!_auto_register_commission(c)
    PROVE  GuardianInv'
<1>0. /\ job[c] \in Guardian!Jobs /\ job[c].at \in {"running", "registering"} /\ UNCHANGED <<trash, undo, calls, beside>>
      /\ at \in Guardian!Bytes /\ versions \in 0 .. MaxVersions /\ faults \in 0 .. MaxFaults /\ artifacts \subseteq Paths
      /\ backups \subseteq Guardian!Versions /\ beside \subseteq Guardian!Versions /\ clobbered \subseteq Guardian!Versions
  BY DEF GuardianInv, Guardian!TypeOK, Guardian!fs_write, Guardian!fs_edit, Guardian!fs_move, Guardian!chmod,
     Guardian!_auto_register_commission
<1>1. Guardian!Reports(c) => Guardian!Ends(c) \/ Guardian!Goes(c, "registering")
  BY DEF Guardian!Reports
<1>. PICK f : f = job[c].targets[1]
  OBVIOUS
<1>2. \A v \in 1 .. versions : Somewhere(v)
  BY DEF GuardianInv
\* A tool that wrote f, and one that wrote nothing, whatever it backed up.
<1>3. ASSUME f \in Guardian!Files, versions < MaxVersions, Guardian!Written(f), backups' = Guardian!_preimage_backup(f),
             UNCHANGED <<clobbered, artifacts, faults>>, Guardian!Reports(c)
      PROVE  GuardianInv'
  <2>1. /\ at' \in Guardian!Bytes /\ versions' \in 0 .. MaxVersions /\ backups' \subseteq Guardian!Versions
        /\ \A v \in 1 .. versions' : Somewhere(v)'
    BY <1>0, <1>3, WrittenKept
  <2> QED BY <1>0, <1>1, <1>3, <2>1, ToolKeepsGuardian
<1>4. ASSUME UNCHANGED <<at, versions, clobbered>>, backups \subseteq backups', backups' \subseteq Guardian!Versions,
             artifacts \subseteq artifacts', artifacts' \subseteq Paths, faults' \in 0 .. MaxFaults, Guardian!Ends(c)
      PROVE  GuardianInv'
  <2>1. \A v \in 1 .. versions' : Somewhere(v)'
    BY <1>0, <1>2, <1>4 DEF Somewhere
  <2> QED BY <1>0, <1>4, <2>1, ToolKeepsGuardian
<1>5. CASE Guardian!fs_write(c)
  BY <1>0, <1>3, <1>4, <1>5 DEF Guardian!fs_write
<1>6. CASE Guardian!fs_edit(c)
  <2>1. CASE f \notin Guardian!Files \/ ~Guardian!Exists(f)
    BY <1>0, <1>4, <1>6, <2>1 DEF Guardian!fs_edit
  <2>2. CASE ~(f \notin Guardian!Files \/ ~Guardian!Exists(f))
    <3>1. backups' = Guardian!_preimage_backup(f) /\ UNCHANGED <<clobbered, artifacts, faults>>
      BY <1>6, <2>2 DEF Guardian!fs_edit
    <3>2. backups \subseteq backups' /\ backups' \subseteq Guardian!Versions
      BY <1>0, <2>2, <3>1 DEF Guardian!_preimage_backup, Guardian!Bytes
    <3>3. \/ versions < MaxVersions /\ Guardian!Written(f) /\ Guardian!Reports(c)
          \/ Guardian!Ends(c) /\ UNCHANGED <<at, versions>>
      BY <1>6, <2>2 DEF Guardian!fs_edit
    <3> QED BY <1>0, <1>3, <1>4, <2>2, <3>1, <3>2, <3>3
  <2> QED BY <2>1, <2>2
<1>7. CASE Guardian!fs_move(c)
  <2>. PICK g : g = job[c].targets[2]
    OBVIOUS
  <2>1. CASE ~({f, g} \subseteq Guardian!Files /\ f # g /\ Guardian!Exists(f))
    BY <1>0, <1>4, <1>7, <2>1 DEF Guardian!fs_move
  <2>2. CASE {f, g} \subseteq Guardian!Files /\ f # g /\ Guardian!Exists(f)
    <3>1. /\ at' = [at EXCEPT ![g] = at[f], ![f] = NoVersion] /\ clobbered' = clobbered \cup ({at[g]} \ {NoVersion})
          /\ Guardian!Reports(c) /\ UNCHANGED <<versions, backups, artifacts, faults>>
      BY <1>7, <2>2 DEF Guardian!fs_move
    <3>2. at' \in Guardian!Bytes /\ clobbered' \subseteq Guardian!Versions
      BY <1>0, <2>2, <3>1 DEF Guardian!Bytes
    <3>3. \A h \in Guardian!Files : h \notin {f, g} => at'[h] = at[h]
      BY <1>0, <3>1 DEF Guardian!Bytes
    <3>4. at'[g] = at[f]
      BY <1>0, <2>2, <3>1 DEF Guardian!Bytes
    <3>5. ASSUME NEW v \in 1 .. versions' PROVE Somewhere(v)'
      <4>1. Somewhere(v) /\ v # NoVersion
        BY <1>2, <3>1, GuardianConstants
      <4>2. CASE v \in backups \cup beside \cup clobbered
        BY <1>0, <3>1, <4>2 DEF Somewhere
      <4>3. CASE \E e \in DOMAIN trash, h \in Guardian!Files : trash[e].bytes[h] = v
        BY <1>0, <4>3 DEF Somewhere
      <4>4. ASSUME NEW h \in Guardian!Files, at[h] = v PROVE Somewhere(v)'
        <5>1. CASE h \notin {f, g}
          BY <3>3, <4>4, <5>1 DEF Somewhere
        <5>2. CASE h = f
          BY <2>2, <3>4, <4>4, <5>2 DEF Somewhere
        <5>3. CASE h = g
          BY <3>1, <4>1, <4>4, <5>3 DEF Somewhere
        <5> QED BY <5>1, <5>2, <5>3
      <4> QED BY <4>1, <4>2, <4>3, <4>4 DEF Somewhere
    <3> QED BY <1>0, <1>1, <3>1, <3>2, <3>5, ToolKeepsGuardian
  <2> QED BY <2>1, <2>2
<1>8. CASE Guardian!chmod(c)
  BY <1>0, <1>4, <1>8 DEF Guardian!chmod
<1>9. CASE Guardian!_auto_register_commission(c)
  <2>. PICK p : p = job[c].targets[Len(job[c].targets)]
    OBVIOUS
  <2>1. p \in Paths
    <3>1. job[c].targets \in Seq(Paths) /\ job[c].targets # <<>>
      BY <1>0 DEF GuardianInv, CallOK, Guardian!Jobs
    <3>2. Len(job[c].targets) \in 1 .. Len(job[c].targets)
      BY <3>1, EmptySeq
    <3> QED BY <3>1, <3>2
  <2>2. faults' \in 0 .. MaxFaults
    BY <1>0, <1>9, GuardianFails DEF Guardian!_auto_register_commission
  <2>3. artifacts \subseteq artifacts' /\ artifacts' \subseteq Paths
    BY <1>0, <1>9, <2>1, Registered DEF Guardian!_auto_register_commission
  <2> QED BY <1>0, <1>4, <1>9, <2>2, <2>3 DEF Guardian!_auto_register_commission
<1> QED BY <1>5, <1>6, <1>7, <1>8, <1>9

-----------------------------------------------------------------------------
(* The undo: bytes leave their entry only for a path, or for a name of      *)
(* their own, and an entry loses its names only when it is empty.           *)

\* An undo that leaves the trash as it is.
LEMMA UndoGoesOn ==
    ASSUME GuardianInv, UNCHANGED <<at, versions, backups, beside, artifacts, trash, job, calls, clobbered>>,
           faults' \in 0 .. MaxFaults,
           undo' = Guardian!Idle \/ (undo'.at \in {"getting", "restoring"} /\ undo'.entry \in DOMAIN trash
                                     /\ undo' = [at |-> undo'.at, entry |-> undo'.entry])
    PROVE  GuardianInv'
<1>1. Guardian!TypeOK'
  <2>1. DOMAIN trash \subseteq Guardian!Ids
    BY DEF GuardianInv, Guardian!TypeOK
  <2>2. undo' \in [at : {"idle", "getting", "restoring", "unnaming", "unrowing"}, entry : Guardian!Ids \cup {NoVersion}]
    BY <2>1 DEF Guardian!Idle
  <2> QED BY <2>2 DEF GuardianInv, Guardian!TypeOK
<1>2. UndoInv'
  BY DEF UndoInv, Guardian!Idle
<1>3. EntriesInv' /\ trash' \in [DOMAIN trash' -> Guardian!Entries]
  BY DEF GuardianInv, EntriesInv, Before
<1>4. \A c \in Callers : CallOK(job[c])'
  BY DEF GuardianInv, CallOK, Emptied
<1>5. \A e \in DOMAIN trash' : EntryOK(e)'
  BY DEF GuardianInv, EntryOK, Emptied
<1>6. \A v \in 1 .. versions' : Somewhere(v)'
  BY DEF GuardianInv, Somewhere
<1> QED BY <1>1, <1>2, <1>3, <1>4, <1>5, <1>6 DEF GuardianInv

\* An undo that leaves an entry empty, whatever it is still named by.
LEMMA EntryUndone ==
    ASSUME GuardianInv, NEW x \in DOMAIN trash, NEW entry \in Guardian!Entries, trash' = [trash EXCEPT ![x] = entry],
           entry.path = trash[x].path, entry.owed = trash[x].owed, entry.kind = trash[x].kind,
           entry.excused = trash[x].excused, entry.bytes = Guardian!NoBytes,
           UNCHANGED <<versions, backups, artifacts, job, calls, clobbered>>,
           at' \in Guardian!Bytes, beside' \subseteq Guardian!Versions, faults' \in 0 .. MaxFaults,
           NEW place \in {"idle", "unnaming", "unrowing"}, NEW id \in {NoVersion, x},
           undo' = [at |-> place, entry |-> id], place # "idle" => id = x,
           \A v \in 1 .. versions : Somewhere(v)'
    PROVE  GuardianInv'
<1>1. trash' \in [DOMAIN trash -> Guardian!Entries] /\ DOMAIN trash' = DOMAIN trash
  BY DEF GuardianInv
<1>2. trash'[x] = entry /\ Emptied(x)' /\ \A e \in DOMAIN trash : e # x => trash'[e] = trash[e]
  <2>1. trash'[x] = entry /\ \A e \in DOMAIN trash : e # x => trash'[e] = trash[e]
    BY DEF GuardianInv
  <2> QED BY <2>1 DEF Emptied
<1>3. Guardian!TypeOK'
  <2>1. undo' \in [at : {"idle", "getting", "restoring", "unnaming", "unrowing"}, entry : Guardian!Ids \cup {NoVersion}]
    BY DEF GuardianInv, Guardian!TypeOK
  <2> QED BY <1>1, <2>1 DEF GuardianInv, Guardian!TypeOK
<1>4. EntriesInv'
  BY <1>1 DEF GuardianInv, EntriesInv, Before
<1>5. UndoInv'
  BY <1>1, <1>2 DEF UndoInv
<1>6. ASSUME NEW c \in Callers PROVE CallOK(job[c])'
  <2>1. CallOK(job[c]) /\ job'[c] = job[c]
    BY DEF GuardianInv
  <2>2. job[c].at = "rowing" => trash'[job[c].entry].manifest \/ Emptied(job[c].entry)'
    <3>1. CASE job[c].entry = x
      BY <1>2, <3>1
    <3>2. CASE job[c].entry # x
      BY <1>2, <2>1, <3>2 DEF CallOK, Emptied
    <3> QED BY <3>1, <3>2
  <2> QED BY <1>1, <2>1, <2>2 DEF CallOK
<1>7. ASSUME NEW e \in DOMAIN trash PROVE EntryOK(e)'
  <2>1. EntryOK(e)
    BY DEF GuardianInv
  <2>2. CASE e = x
    <3>1. \A f \in Guardian!Files : trash'[e].bytes[f] = NoVersion
      BY <1>2, <2>2 DEF Guardian!NoBytes
    <3> QED BY <1>2, <2>1, <2>2, <3>1 DEF EntryOK
  <2>3. CASE e # x
    BY <1>2, <2>1, <2>3 DEF EntryOK, Emptied
  <2> QED BY <2>2, <2>3
<1> QED BY <1>1, <1>3, <1>4, <1>5, <1>6, <1>7 DEF GuardianInv

LEMMA RestoreKeepsGuardian ==
    ASSUME GuardianInv, Guardian!restore
    PROVE  GuardianInv'
<1>. PICK x : x = undo.entry
  OBVIOUS
<1>. PICK b : b = trash[x].bytes
  OBVIOUS
<1>0. /\ x \in DOMAIN trash /\ trash[x] \in Guardian!Entries /\ b \in Guardian!Bytes /\ EntryOK(x)
      /\ at \in Guardian!Bytes /\ beside \subseteq Guardian!Versions /\ faults \in 0 .. MaxFaults
      /\ UNCHANGED <<versions, backups, artifacts, job, calls, clobbered, faults>>
  <2>1. x \in DOMAIN trash
    BY DEF GuardianInv, UndoInv, Guardian!restore
  <2> QED BY <2>1 DEF GuardianInv, Guardian!TypeOK, Guardian!restore, Guardian!Entries
<1>1. CASE Guardian!Gone(x)
  BY <1>0, <1>1, UndoGoesOn DEF Guardian!restore
<1>2. CASE ~Guardian!Gone(x)
  <2>. PICK entry : entry = [trash[x] EXCEPT !.bytes = Guardian!NoBytes]
    OBVIOUS
  <2>1. /\ entry \in Guardian!Entries /\ entry.path = trash[x].path /\ entry.owed = trash[x].owed
        /\ entry.kind = trash[x].kind /\ entry.excused = trash[x].excused /\ entry.bytes = Guardian!NoBytes
    <3>1. Guardian!NoBytes \in Guardian!Bytes
      BY DEF Guardian!NoBytes, Guardian!Bytes
    <3> QED BY <1>0, <3>1 DEF Guardian!Entries
  <2>2. trash' = [trash EXCEPT ![x] = entry] /\ undo' = [at |-> "unnaming", entry |-> x]
    <3>1. trash' = [trash EXCEPT ![x].bytes = Guardian!NoBytes] /\ undo' = [at |-> "unnaming", entry |-> x]
      BY <1>2 DEF Guardian!restore, Guardian!Gets
    <3> QED BY <3>1
  \* Its bytes are where they were put, the other entries' where they were.
  <2>3. ASSUME at' \in Guardian!Bytes, beside' \subseteq Guardian!Versions, beside \subseteq beside',
               \A f \in Guardian!Files : at[f] # NoVersion => at'[f] = at[f],
               \A f \in Guardian!Files : b[f] # NoVersion => at'[f] = b[f] \/ b[f] \in beside'
        PROVE  GuardianInv'
    <3>1. ASSUME NEW v \in 1 .. versions PROVE Somewhere(v)'
      <4>1. Somewhere(v) /\ v # NoVersion
        BY GuardianConstants DEF GuardianInv
      <4>2. CASE v \in backups \cup beside \cup clobbered \/ \E f \in Guardian!Files : at[f] = v
        BY <1>0, <2>3, <4>1, <4>2 DEF Somewhere
      <4>3. ASSUME NEW e \in DOMAIN trash, NEW f \in Guardian!Files, trash[e].bytes[f] = v PROVE Somewhere(v)'
        <5>1. CASE e = x
          BY <2>3, <4>1, <4>3, <5>1 DEF Somewhere
        <5>2. CASE e # x
          <6>1. trash'[e] = trash[e] /\ e \in DOMAIN trash'
            BY <2>2, <5>2 DEF GuardianInv
          <6> QED BY <4>3, <6>1 DEF Somewhere
        <5> QED BY <5>1, <5>2
      <4> QED BY <4>1, <4>2, <4>3 DEF Somewhere
    <3> QED BY <1>0, <2>1, <2>2, <2>3, <3>1, EntryUndone
  <2>4. CASE Guardian!Exists(trash[x].path)
    <3>1. beside' = beside \cup ({b[f] : f \in Guardian!Files} \ {NoVersion}) /\ UNCHANGED at
      BY <1>2, <2>4 DEF Guardian!restore
    <3>2. beside' \subseteq Guardian!Versions
      BY <1>0, <3>1 DEF Guardian!Bytes
    <3> QED BY <1>0, <2>3, <3>1, <3>2
  <2>5. CASE ~Guardian!Exists(trash[x].path)
    <3>1. at' = [f \in Guardian!Files |-> IF b[f] # NoVersion THEN b[f] ELSE at[f]] /\ UNCHANGED beside
      BY <1>2, <2>5 DEF Guardian!restore
    <3>2. at' \in Guardian!Bytes
      BY <1>0, <3>1 DEF Guardian!Bytes
    <3>3. \A f \in Guardian!Files : b[f] # NoVersion => at[f] = NoVersion
      BY <1>0, <2>5 DEF EntryOK, Guardian!Exists
    <3> QED BY <1>0, <2>3, <3>1, <3>2, <3>3
  <2> QED BY <2>4, <2>5
<1> QED BY <1>1, <1>2

LEMMA UnnamingKeepsGuardian ==
    ASSUME GuardianInv, Guardian!removes_manifest \/ Guardian!delete_env
    PROVE  GuardianInv'
<1>. PICK x : x = undo.entry
  OBVIOUS
<1>0. /\ x \in DOMAIN trash /\ trash[x] \in Guardian!Entries /\ trash[x].bytes = Guardian!NoBytes
      /\ at \in Guardian!Bytes /\ beside \subseteq Guardian!Versions /\ faults \in 0 .. MaxFaults
      /\ UNCHANGED <<at, beside, versions, backups, artifacts, job, calls, clobbered>>
  <2>1. undo.at \in {"unnaming", "unrowing"}
    BY DEF Guardian!removes_manifest, Guardian!delete_env
  <2>2. x \in DOMAIN trash /\ trash[x].bytes = Guardian!NoBytes
    BY <2>1 DEF GuardianInv, UndoInv, Emptied
  <2> QED BY <2>2 DEF GuardianInv, Guardian!TypeOK, Guardian!removes_manifest, Guardian!delete_env
<1>1. faults' \in 0 .. MaxFaults
  BY <1>0, GuardianFails DEF Guardian!removes_manifest, Guardian!delete_env
<1>2. ASSUME NEW entry \in {[trash[x] EXCEPT !.manifest = FALSE], [trash[x] EXCEPT !.row = FALSE]},
             trash' = [trash EXCEPT ![x] = entry], NEW place \in {"idle", "unrowing"}, NEW id \in {NoVersion, x},
             undo' = [at |-> place, entry |-> id], place # "idle" => id = x
      PROVE  GuardianInv'
  <2>1. /\ entry \in Guardian!Entries /\ entry.path = trash[x].path /\ entry.owed = trash[x].owed
        /\ entry.kind = trash[x].kind /\ entry.excused = trash[x].excused /\ entry.bytes = trash[x].bytes
    BY <1>0, <1>2 DEF Guardian!Entries
  <2>2. \A e \in DOMAIN trash : e \in DOMAIN trash' /\ trash'[e].bytes = trash[e].bytes
    BY <1>2, <2>1 DEF GuardianInv
  <2>3. \A v \in 1 .. versions : Somewhere(v)'
    BY <1>0, <2>2 DEF GuardianInv, Somewhere
  <2>4. at' \in Guardian!Bytes /\ beside' \subseteq Guardian!Versions /\ entry.bytes = Guardian!NoBytes
    BY <1>0, <2>1
  <2> QED BY <1>0, <1>1, <1>2, <2>1, <2>3, <2>4, EntryUndone
<1>3. CASE Guardian!removes_manifest
  <2>1. trash' = [trash EXCEPT ![x] = [trash[x] EXCEPT !.manifest = FALSE]] /\ undo' = [at |-> "unrowing", entry |-> x]
    BY <1>3 DEF Guardian!removes_manifest, Guardian!Gets
  <2> QED BY <1>2, <2>1
<1>4. CASE Guardian!delete_env /\ trash' = trash
  <2>1. undo' = Guardian!Idle
    BY <1>4 DEF Guardian!delete_env
  <2> QED BY <1>0, <1>1, <1>4, <2>1, UndoGoesOn
<1>5. CASE Guardian!delete_env /\ trash' # trash
  <2>1. trash' = [trash EXCEPT ![x] = [trash[x] EXCEPT !.row = FALSE]] /\ undo' = [at |-> "idle", entry |-> NoVersion]
    BY <1>5 DEF Guardian!delete_env, Guardian!Idle
  <2> QED BY <1>2, <2>1
<1> QED BY <1>3, <1>4, <1>5

LEMMA UndoKeepsGuardian ==
    ASSUME GuardianInv, (\E e \in Guardian!Ids : Guardian!UndoPressed(e)) \/ Guardian!_handle_undo \/ Guardian!UndoCut
    PROVE  GuardianInv'
<1>1. faults' \in 0 .. MaxFaults
  BY GuardianFails DEF GuardianInv, Guardian!TypeOK, Guardian!UndoPressed, Guardian!_handle_undo, Guardian!UndoCut
<1>2. CASE \E e \in Guardian!Ids : Guardian!UndoPressed(e)
  BY <1>1, <1>2, UndoGoesOn DEF Guardian!UndoPressed, Guardian!Gets
<1>3. CASE Guardian!_handle_undo
  <2>1. undo.entry \in DOMAIN trash
    BY <1>3 DEF GuardianInv, UndoInv, Guardian!_handle_undo
  <2> QED BY <1>1, <1>3, <2>1, UndoGoesOn DEF Guardian!_handle_undo, Guardian!Gets
<1>4. CASE Guardian!UndoCut
  BY <1>1, <1>4, UndoGoesOn DEF Guardian!UndoCut
<1> QED BY <1>2, <1>3, <1>4

LEMMA GuardianStep == ASSUME GuardianInv, Guardian!Next PROVE GuardianInv'
<1>1. ASSUME NEW c \in Callers, Guardian!Asks(c) PROVE GuardianInv'
  <2>1. ASSUME NEW tool \in {"fs.write", "fs.edit", "permission"}, NEW p \in Paths, NEW for \in BOOLEAN,
               Guardian!review(c, tool, <<p>>, for)
        PROVE  GuardianInv'
    <3>1. <<p>> \in Seq(Paths) /\ <<p>> # <<>> /\ tool \in Guardian!Tools
      BY DEF Guardian!Tools
    <3> QED BY <2>1, <3>1, ReviewKeepsGuardian
  <2>2. ASSUME NEW p \in Paths, NEW q \in Paths, NEW for \in BOOLEAN, Guardian!review(c, "fs.move", <<p, q>>, for)
        PROVE  GuardianInv'
    <3>1. <<p, q>> \in Seq(Paths) /\ <<p, q>> # <<>> /\ "fs.move" \in Guardian!Tools
      BY DEF Guardian!Tools
    <3> QED BY <2>2, <3>1, ReviewKeepsGuardian
  <2>3. ASSUME NEW ts \in Commands, Guardian!review(c, "fs.delete", ts, FALSE) PROVE GuardianInv'
    <3>1. ts \in Seq(Paths) /\ ts # <<>> /\ "fs.delete" \in Guardian!Tools /\ FALSE \in BOOLEAN
      BY GuardianConstants DEF Guardian!Tools
    <3> QED BY <2>3, <3>1, ReviewKeepsGuardian
  <2> QED BY <1>1, <2>1, <2>2, <2>3 DEF Guardian!Asks
<1>2. ASSUME NEW c \in Callers, Guardian!Works(c) \/ Guardian!CallCut(c) PROVE GuardianInv'
  BY <1>2, LookingKeepsGuardian, MoveKeepsGuardian, NamingKeepsGuardian, EndKeepsGuardian, FilesKeepGuardian DEF Guardian!Works
<1>3. CASE Guardian!Undoes
  BY <1>3, UndoKeepsGuardian, RestoreKeepsGuardian, UnnamingKeepsGuardian DEF Guardian!Undoes
<1> QED BY <1>1, <1>2, <1>3, UndoKeepsGuardian DEF Guardian!Next

\* A deletion keeps the bytes, can be undone, and was reviewed when it had to
\* be (trash.py's move and restore, gate.py's review, runner.py's undo): a
\* version is in a path, the trash, the backups or beside its origin, or was
\* moved onto; an entry with bytes in it can be named, unless its call was cut
\* or still has it in hand; what was owed a verdict had one, or was excused.
GuardianPart == part = "guardian" => GuardianInv
THEOREM DeletionsKeepTheBytes == Spec => []GuardianSafe
<1>1. Init => GuardianPart
  BY GuardianInit DEF Init, GuardianPart
<1>2. GuardianPart /\ [Next]_vars => GuardianPart'
  <2> SUFFICES ASSUME part = "guardian", GuardianInv, [Next]_vars PROVE GuardianInv'
    <3>1. [Next]_vars => part' = part
      BY DEF Next, vars
    <3> QED BY <3>1 DEF GuardianPart
  <2>1. CASE Next
    BY <2>1, GuardianStep DEF Next
  <2>2. CASE UNCHANGED vars
    <3>1. UNCHANGED <<at, versions, backups, beside, artifacts, trash, job, calls, undo, clobbered, faults>>
      BY <2>2 DEF vars, guardianVars
    <3>2. EntriesInv' /\ UndoInv' /\ Guardian!TypeOK' /\ trash' \in [DOMAIN trash' -> Guardian!Entries]
      BY <3>1 DEF GuardianInv, EntriesInv, Before, UndoInv, Emptied, Guardian!TypeOK
    <3>3. \A c \in Callers : CallOK(job[c])'
      BY <3>1 DEF GuardianInv, CallOK, Emptied
    <3>4. \A e \in DOMAIN trash' : EntryOK(e)'
      BY <3>1 DEF GuardianInv, EntryOK, Emptied
    <3>5. \A v \in 1 .. versions' : Somewhere(v)'
      BY <3>1 DEF GuardianInv, Somewhere
    <3> QED BY <3>2, <3>3, <3>4, <3>5 DEF GuardianInv
  <2> QED BY <2>1, <2>2
<1>3. GuardianPart => GuardianSafe
  <2> SUFFICES ASSUME GuardianInv
      PROVE Guardian!TypeOK /\ Guardian!BytesSurvive /\ Guardian!Restorable /\ Guardian!DueProcess
    BY DEF GuardianPart, GuardianSafe
  <2>1. Guardian!BytesSurvive
    <3> SUFFICES ASSUME NEW v \in 1 .. versions PROVE v \in Guardian!Kept \cup clobbered
      BY DEF Guardian!BytesSurvive
    <3>1. Somewhere(v)
      BY DEF GuardianInv
    <3>2. ASSUME NEW e \in DOMAIN trash, NEW f \in Guardian!Files, trash[e].bytes[f] = v PROVE v \in Guardian!Kept
      <4>1. v \in {trash[e].bytes[g] : g \in Guardian!Files}
        BY <3>2
      <4> QED BY <4>1 DEF Guardian!Kept
    <3> QED BY <3>1, <3>2 DEF Somewhere, Guardian!Kept
  <2>2. Guardian!Restorable
    BY DEF GuardianInv, EntryOK, Emptied, Guardian!Restorable, Guardian!Named
  <2>3. Guardian!DueProcess
    BY DEF GuardianInv, EntryOK, Guardian!DueProcess
  <2> QED BY <2>1, <2>2, <2>3 DEF GuardianInv
<1> QED BY <1>1, <1>2, <1>3, PTL DEF Spec

-----------------------------------------------------------------------------
(* The supervisor.                                                          *)

LEMMA SupervisorConstants ==
    Optional \subseteq Children /\ Supervisor!NoPid \notin Supers /\ MAX_RESTARTS \in Nat /\ MAX_RESTARTS > 0
  BY HostAssumption DEF HostAssumption, Supervisor!SupervisorAssumption

\* What a sweep leaves of a child is a child's state, with one restart more at most.
LEMMA SweptIsSpec ==
    ASSUME NEW c \in Children, NEW r \in Supervisor!Specs
    PROVE  Supervisor!Swept(c, r) \subseteq Supervisor!Specs
<1>1. ASSUME NEW n \in Supervisor!Forgiven(r) PROVE n \in 0 .. MAX_RESTARTS
  BY SupervisorConstants DEF Supervisor!Forgiven, Supervisor!Specs
<1>2. ASSUME NEW n \in Supervisor!Forgiven(r), Supervisor!_should_restart(c, n)
      PROVE  [proc : {"up", "waiting"}, restarts : {n + 1}] \subseteq Supervisor!Specs
  <2>1. n + 1 \in 0 .. MAX_RESTARTS
    BY <1>1, <1>2, SupervisorConstants DEF Supervisor!_should_restart
  <2> QED BY <2>1 DEF Supervisor!Specs
<1>3. ASSUME NEW n \in Supervisor!Forgiven(r) PROVE [proc |-> "retired", restarts |-> n] \in Supervisor!Specs
  BY <1>1 DEF Supervisor!Specs
<1>4. CASE Supervisor!Left(r)
  BY <1>4 DEF Supervisor!Swept
<1>5. CASE ~Supervisor!Left(r)
  <2> SUFFICES ASSUME NEW q \in Supervisor!Swept(c, r) PROVE q \in Supervisor!Specs
    OBVIOUS
  <2>1. PICK n \in Supervisor!Forgiven(r) :
          q \in (IF Supervisor!_should_restart(c, n) THEN [proc : {"up", "waiting"}, restarts : {n + 1}]
                 ELSE {[proc |-> "retired", restarts |-> n]})
    BY <1>5 DEF Supervisor!Swept
  <2> QED BY <1>2, <1>3, <2>1
<1> QED BY <1>4, <1>5

\* A step that may change the children of one supervisor only.
LEMMA ChildrenOfOne ==
    ASSUME SupervisorInv, NEW s \in Supers, NEW f \in [Children -> Supervisor!Specs],
           spec' = [spec EXCEPT ![s] = f], phase' \in [Supers -> {"none", "born", "opening", "watching", "closing", "gone"}],
           \A t \in Supers : t # s => phase'[t] = phase[t],
           killed \subseteq killed', killed' \subseteq Supers,
           phase'[s] = "closing" \/ (phase'[s] = "gone" /\ s \notin killed') => \A c \in Children : f[c].proc # "up",
           UNCHANGED <<windows, up, stopping, pid_file, stop_file>>, unopened' \in [Supers -> SUBSET Children]
    PROVE  SupervisorInv'
<1>1. \A t \in Supers : spec'[t] = IF t = s THEN f ELSE spec[t]
  BY DEF SupervisorInv, Supervisor!TypeOK
<1>2. Supervisor!TypeOK'
  BY DEF SupervisorInv, Supervisor!TypeOK
<1>3. ASSUME NEW t \in Supers, NEW c \in Children, Supervisor!IsUp(t, c)'
      PROVE  phase'[t] # "closing" /\ (phase'[t] = "gone" => t \in killed')
  BY <1>1, <1>3 DEF SupervisorInv, Supervisor!IsUp, Supervisor!NoneLeftBehind
<1> QED BY <1>2, <1>3 DEF SupervisorInv, Supervisor!NoneLeftBehind

\* A step that leaves the children alone.
LEMMA ChildrenLeft ==
    ASSUME SupervisorInv, Supervisor!TypeOK', UNCHANGED spec, killed \subseteq killed',
           \A s \in Supers : \/ phase'[s] \in {phase[s], "born", "opening", "watching"}
                             \/ phase'[s] = "gone" /\ (phase[s] = "closing" \/ s \in killed')
    PROVE  SupervisorInv'
<1>1. ASSUME NEW s \in Supers, NEW c \in Children, Supervisor!IsUp(s, c)'
      PROVE  phase'[s] # "closing" /\ (phase'[s] = "gone" => s \in killed')
  BY <1>1 DEF SupervisorInv, Supervisor!IsUp, Supervisor!NoneLeftBehind
<1> QED BY <1>1 DEF SupervisorInv, Supervisor!NoneLeftBehind

LEMMA SupervisorInit == ASSUME Supervisor!Init PROVE SupervisorInv
<1>1. [c \in Children |-> [proc |-> "none", restarts |-> 0]] \in [Children -> Supervisor!Specs]
  BY SupervisorConstants DEF Supervisor!Specs
<1>2. Supervisor!TypeOK
  BY <1>1 DEF Supervisor!Init, Supervisor!TypeOK
<1> QED BY <1>2 DEF SupervisorInv, Supervisor!NoneLeftBehind, Supervisor!Init

LEMMA SupervisorStep == ASSUME SupervisorInv, Supervisor!Next PROVE SupervisorInv'
<1>0. Supervisor!TypeOK
  BY DEF SupervisorInv
<1>1. CASE Supervisor!stop
  <2>1. Supervisor!TypeOK'
    BY <1>0, <1>1, SupervisorConstants DEF Supervisor!TypeOK, Supervisor!stop
  <2> QED BY <1>1, <2>1, ChildrenLeft DEF Supervisor!stop
<1>2. ASSUME NEW u \in Launches, Supervisor!_running_pid(u) PROVE SupervisorInv'
  <2>1. Supervisor!TypeOK'
    BY <1>0, <1>2 DEF Supervisor!TypeOK, Supervisor!_running_pid
  <2> QED BY <1>2, <2>1, ChildrenLeft DEF Supervisor!_running_pid
<1>3. ASSUME NEW u \in Launches, NEW s \in Supers, Supervisor!_start_supervisor(u, s) PROVE SupervisorInv'
  <2>1. Supervisor!TypeOK'
    BY <1>0, <1>3 DEF Supervisor!TypeOK, Supervisor!_start_supervisor
  <2> QED BY <1>0, <1>3, <2>1, ChildrenLeft DEF Supervisor!_start_supervisor, Supervisor!TypeOK
<1>4. ASSUME NEW s \in Supers, Supervisor!_write_pid_file(s) \/ Supervisor!run(s) \/ Supervisor!_request_stop(s)
      PROVE  SupervisorInv'
  <2>1. Supervisor!TypeOK'
    BY <1>0, <1>4 DEF Supervisor!TypeOK, Supervisor!_write_pid_file, Supervisor!run, Supervisor!_request_stop
  <2>2. phase \in [Supers -> {"none", "born", "opening", "watching", "closing", "gone"}]
    BY <1>0 DEF Supervisor!TypeOK
  <2>3. UNCHANGED spec /\ killed \subseteq killed'
    BY <1>4 DEF Supervisor!_write_pid_file, Supervisor!run, Supervisor!_request_stop
  <2>4. \A t \in Supers : phase'[t] \in {phase[t], "born", "opening", "watching"}
    <3>1. phase' \in {phase, [phase EXCEPT ![s] = "opening"], [phase EXCEPT ![s] = "watching"]}
      BY <1>4 DEF Supervisor!_write_pid_file, Supervisor!run, Supervisor!_request_stop
    <3> QED BY <2>2, <3>1
  <2> QED BY <2>1, <2>3, <2>4, ChildrenLeft
<1>5. ASSUME NEW s \in Supers, Supervisor!shutdown(s) \/ Supervisor!Killed(s) PROVE SupervisorInv'
  <2>1. Supervisor!TypeOK'
    BY <1>0, <1>5 DEF Supervisor!TypeOK, Supervisor!shutdown, Supervisor!Killed
  <2> QED BY <1>0, <1>5, <2>1, ChildrenLeft DEF Supervisor!shutdown, Supervisor!Killed, Supervisor!TypeOK
<1>6. ASSUME NEW s \in Supers, Supervisor!_sweep(s) PROVE SupervisorInv'
  <2>1. PICK f \in [Children -> UNION {Supervisor!Swept(c, spec[s][c]) : c \in Children}] :
          (\A c \in Children : f[c] \in Supervisor!Swept(c, spec[s][c])) /\ spec' = [spec EXCEPT ![s] = f]
    BY <1>6 DEF Supervisor!_sweep
  <2>2. \A c \in Children : spec[s][c] \in Supervisor!Specs
    BY <1>0 DEF Supervisor!TypeOK
  <2>3. f \in [Children -> Supervisor!Specs]
    BY <2>1, <2>2, SweptIsSpec
  <2> QED BY <1>0, <1>6, <2>1, <2>3, ChildrenOfOne DEF Supervisor!_sweep, Supervisor!TypeOK
\* One child of a supervisor, with the state it is left in.
<1>7. ASSUME NEW s \in Supers, NEW c \in Children, NEW proc \in {"up", "none", "dead"},
             spec' = [spec EXCEPT ![s][c].proc = proc], UNCHANGED <<windows, up, phase, stopping, pid_file, stop_file, killed>>,
             unopened' \in [Supers -> SUBSET Children], proc = "up" => phase[s] \notin {"closing", "gone"}
      PROVE  SupervisorInv'
  <2>. PICK f : f = [spec[s] EXCEPT ![c] = [spec[s][c] EXCEPT !.proc = proc]]
    OBVIOUS
  <2>1. spec[s] \in [Children -> Supervisor!Specs] /\ spec' = [spec EXCEPT ![s] = f]
    BY <1>0, <1>7 DEF Supervisor!TypeOK
  <2>2. [spec[s][c] EXCEPT !.proc = proc] \in Supervisor!Specs /\ [spec[s][c] EXCEPT !.proc = proc].proc = proc
    BY <2>1 DEF Supervisor!Specs
  <2>3. f \in [Children -> Supervisor!Specs] /\ (\A d \in Children : f[d].proc = "up" => spec[s][d].proc = "up" \/ proc = "up")
    BY <2>1, <2>2
  <2>4. phase[s] = "closing" \/ (phase[s] = "gone" /\ s \notin killed) => \A d \in Children : f[d].proc # "up"
    BY <1>7, <2>3 DEF SupervisorInv, Supervisor!NoneLeftBehind, Supervisor!IsUp
  <2>5. phase' \in [Supers -> {"none", "born", "opening", "watching", "closing", "gone"}] /\ killed' \subseteq Supers
    BY <1>0, <1>7 DEF Supervisor!TypeOK
  <2> QED BY <1>7, <2>1, <2>3, <2>4, <2>5, ChildrenOfOne
<1>8. ASSUME NEW s \in Supers, NEW c \in Children,
             Supervisor!_open(s, c) \/ Supervisor!Dies(s, c) \/ Supervisor!WaitEnds(s, c)
      PROVE  SupervisorInv'
  <2>1. unopened' \in [Supers -> SUBSET Children]
    <3>1. unopened \in [Supers -> SUBSET Children]
      BY <1>0 DEF Supervisor!TypeOK
    <3>2. unopened' \in {unopened, [unopened EXCEPT ![s] = @ \ {c}]}
      BY <1>8 DEF Supervisor!_open, Supervisor!Dies, Supervisor!WaitEnds
    <3> QED BY <3>1, <3>2
  <2>2. CASE Supervisor!_open(s, c)
    <3>1. PICK proc \in {"up", "none"} : spec' = [spec EXCEPT ![s][c].proc = proc]
      BY <2>2 DEF Supervisor!_open
    <3>2. phase[s] \notin {"closing", "gone"} /\ UNCHANGED <<windows, up, phase, stopping, pid_file, stop_file, killed>>
      BY <2>2 DEF Supervisor!_open
    <3>3. proc \in {"up", "none", "dead"}
      OBVIOUS
    <3> QED BY <1>7, <2>1, <3>1, <3>2, <3>3
  <2>3. CASE Supervisor!Dies(s, c)
    <3>1. spec' = [spec EXCEPT ![s][c].proc = "dead"] /\ UNCHANGED <<windows, up, phase, stopping, pid_file, stop_file, killed>>
      BY <2>3 DEF Supervisor!Dies
    <3> QED BY <1>7, <2>1, <3>1
  <2>4. CASE Supervisor!WaitEnds(s, c)
    <3>1. spec' = [spec EXCEPT ![s][c].proc = "none"] /\ UNCHANGED <<windows, up, phase, stopping, pid_file, stop_file, killed>>
      BY <2>4 DEF Supervisor!WaitEnds
    <3> QED BY <1>7, <2>1, <3>1
  <2> QED BY <1>8, <2>2, <2>3, <2>4
\* Every child that is up, stopped at once.
<1>9. ASSUME NEW s \in Supers, Supervisor!_close_children(s) \/ Supervisor!_stop_windows(s) PROVE SupervisorInv'
  <2>. PICK f : f = [c \in Children |-> IF Supervisor!IsUp(s, c) THEN [spec[s][c] EXCEPT !.proc = "dead"] ELSE spec[s][c]]
    OBVIOUS
  <2>1. spec' = [spec EXCEPT ![s] = f]
    BY <1>9 DEF Supervisor!_close_children, Supervisor!_stop_windows, Supervisor!Closed
  <2>2. \A c \in Children : spec[s][c] \in Supervisor!Specs
    BY <1>0 DEF Supervisor!TypeOK
  <2>3. \A c \in Children : f[c] \in Supervisor!Specs /\ f[c].proc # "up"
    BY <2>2 DEF Supervisor!Specs, Supervisor!IsUp
  <2>4. f \in [Children -> Supervisor!Specs]
    BY <2>3
  <2>5. /\ phase' \in [Supers -> {"none", "born", "opening", "watching", "closing", "gone"}]
        /\ (\A t \in Supers : t # s => phase'[t] = phase[t]) /\ killed \subseteq killed' /\ killed' \subseteq Supers
        /\ UNCHANGED <<windows, up, stopping, pid_file, stop_file>> /\ unopened' \in [Supers -> SUBSET Children]
    BY <1>0, <1>9 DEF Supervisor!_close_children, Supervisor!_stop_windows, Supervisor!TypeOK
  <2>6. phase'[s] = "closing" \/ (phase'[s] = "gone" /\ s \notin killed') => \A c \in Children : f[c].proc # "up"
    BY <2>3
  <2> HIDE DEF SupervisorInv
  <2> QED BY <2>1, <2>4, <2>5, <2>6, ChildrenOfOne
<1> QED BY <1>1, <1>2, <1>3, <1>4, <1>5, <1>6, <1>8, <1>9 DEF Supervisor!Next

\* The file that names a supervisor is taken away by its own shutdown only.
LEMMA FileOfTheLiving ==
    ASSUME SupervisorInv, Supervisor!Next, NEW s \in Supers, pid_file = s, phase'[s] = phase[s]
    PROVE  pid_file' # Supervisor!NoPid
<1>0. pid_file # Supervisor!NoPid /\ phase \in [Supers -> {"none", "born", "opening", "watching", "closing", "gone"}]
  BY SupervisorConstants DEF SupervisorInv, Supervisor!TypeOK
<1>1. ASSUME NEW t \in Supers, Supervisor!_write_pid_file(t) PROVE pid_file' # Supervisor!NoPid
  BY <1>1, SupervisorConstants DEF Supervisor!_write_pid_file
<1>2. ASSUME NEW t \in Supers, Supervisor!shutdown(t) PROVE pid_file' # Supervisor!NoPid
  BY <1>0, <1>2 DEF Supervisor!shutdown, Supervisor!Mine
<1>3. CASE UNCHANGED pid_file
  BY <1>0, <1>3
<1>4. UNCHANGED pid_file \/ \E t \in Supers : Supervisor!_write_pid_file(t) \/ Supervisor!shutdown(t)
  BY DEF Supervisor!Next, Supervisor!stop, Supervisor!_running_pid, Supervisor!_start_supervisor, Supervisor!run,
     Supervisor!_sweep, Supervisor!_request_stop, Supervisor!_close_children, Supervisor!Killed, Supervisor!_stop_windows,
     Supervisor!_open, Supervisor!Dies, Supervisor!WaitEnds
<1> QED BY <1>1, <1>2, <1>3, <1>4

\* A supervisor that shut down left none of its children running, however its
\* opening, sweeps and restarts fell with the stop, and one that ends takes no
\* pid file away but its own (supervisor.py's run, _sweep, _close_children and
\* _remove_pid_file).
SupervisorPart == part = "supervisor" => SupervisorInv
FileStays == \A s \in Supers : pid_file = s /\ Supervisor!Alive(s) /\ phase'[s] = phase[s] => pid_file' # Supervisor!NoPid
THEOREM ChildrenEndWithTheirOwn == Spec => SupervisorSafe
<1>1. Init => SupervisorPart
  BY SupervisorInit DEF Init, SupervisorPart
<1>2. SupervisorPart /\ [Next]_vars => SupervisorPart'
  <2> SUFFICES ASSUME part = "supervisor", SupervisorInv, [Next]_vars PROVE SupervisorInv'
    <3>1. [Next]_vars => part' = part
      BY DEF Next, vars
    <3> QED BY <3>1 DEF SupervisorPart
  <2>1. CASE Next
    BY <2>1, SupervisorStep DEF Next
  <2>2. CASE UNCHANGED vars
    BY <2>2 DEF vars, supervisorVars, SupervisorInv, Supervisor!TypeOK, Supervisor!NoneLeftBehind, Supervisor!IsUp
  <2> QED BY <2>1, <2>2
<1>3. SupervisorPart => (part = "supervisor" => Supervisor!TypeOK /\ Supervisor!NoneLeftBehind)
  BY DEF SupervisorPart, SupervisorInv
<1>4. SupervisorPart /\ [Next]_vars => [FileStays]_(Supervisor!vars)
  <2> SUFFICES ASSUME SupervisorPart, [Next]_vars, ~UNCHANGED Supervisor!vars PROVE FileStays
    OBVIOUS
  <2>1. part = "supervisor" /\ Supervisor!Next
    BY DEF Next, vars, supervisorVars, Supervisor!vars
  <2> QED BY <2>1, FileOfTheLiving DEF SupervisorPart, FileStays
<1>5. (Supervisor!PidFileOfTheLiving) <=> [][FileStays]_(Supervisor!vars)
  BY DEF Supervisor!PidFileOfTheLiving, FileStays
<1> QED BY <1>1, <1>2, <1>3, <1>4, <1>5, PTL DEF Spec, SupervisorSafe
=============================================================================
