---------------------------- MODULE RecordsProofs ----------------------------
(***************************************************************************)
(* Proofs about the parts that keep records or pass words on, for every    *)
(* value of their constants.  A part's variables move while the behaviour  *)
(* is that part's and rest otherwise: an invariant of the whole has the    *)
(* form part = "x" => ..., and a step of the whole is a step of x or       *)
(* leaves its variables alone.                                             *)
(***************************************************************************)
EXTENDS Records, FiniteSetTheorems, SequenceTheorems, TLAPS

-----------------------------------------------------------------------------
(* The audit trail, until two have been at it: who is in an append, what it *)
(* starts from, and that the head in memory is that of the table.           *)

AppendOK(t) ==
    /\ task[t].at # "idle" => \A u \in Audit!Tasks : task[u].at # "idle" => u = t
    /\ task[t].at # "idle" => \A w \in Writers \ {t[1]} : ~primed[w]
    /\ task[t].at \in {"asked", "inserting"} => task[t].prev = Audit!last
    /\ task[t].at = "inserted" => task[t].hash = Audit!last
HeadOK(w) ==
    primed[w] => /\ \A v \in Writers : primed[v] => v = w
                 /\ head[w] = Audit!last \/ \E t \in Audit!Tasks : t[1] = w /\ task[t].at = "inserted"
Chained ==
    /\ audit_log # << >> => audit_log[1].prev = Audit!GENESIS
    /\ \A i \in 2 .. Len(audit_log) : audit_log[i].prev = audit_log[i - 1].hash
AuditInv ==
    /\ Audit!TypeOK
    /\ ~shared => Chained /\ (\A t \in Audit!Tasks : AppendOK(t)) /\ \A w \in Writers : HeadOK(w)

-----------------------------------------------------------------------------
(* Audit. *)

LEMMA AuditConstants == MaxRows \in Nat /\ AuditFaults \in Nat /\ AuditLimit \in Nat
  BY RecordsAssumption DEF RecordsAssumption, Audit!AuditAssumption

LEMMA LastIsOne ==
    ASSUME NEW S, NEW q \in Seq(S), q # << >>
    PROVE  Len(q) \in 1 .. Len(q) /\ q[Len(q)] \in S
  BY EmptySeq, LenProperties, ElementOfSeq

LEMMA LastHash == Audit!last = IF audit_log = << >> THEN Audit!GENESIS ELSE audit_log[Len(audit_log)].hash
  BY DEF Audit!last

\* The types of what an append makes of its task, its writer's head and the table.
LEMMA AuditTypes ==
    ASSUME Audit!TypeOK, Audit!Next
    PROVE  Audit!TypeOK'
<1>0. MaxRows \in Nat /\ AuditFaults \in Nat
  BY AuditConstants
<1> DEFINE Job == [at : {"idle", "asking", "asked", "inserting", "inserted"}, hash : Audit!Hashes, prev : Audit!Hashes]
<1>1. Audit!GENESIS \in Audit!Hashes /\ Audit!Idle \in Job /\ Audit!last \in Audit!Hashes
  <2>1. Audit!GENESIS \in Audit!Hashes /\ Audit!Idle \in Job
    BY DEF Audit!Hashes, Audit!Idle
  <2>2. audit_log \in Seq([hash : Audit!Hashes, prev : Audit!Hashes])
    BY DEF Audit!TypeOK
  <2>3. audit_log # << >> => audit_log[Len(audit_log)] \in [hash : Audit!Hashes, prev : Audit!Hashes]
    BY <2>2, LastIsOne
  <2> QED BY <2>1, <2>3, LastHash
<1>2. \A t \in Audit!Tasks : task[t] \in Job /\ t[1] \in Writers
  BY DEF Audit!TypeOK, Audit!Tasks
<1>3. ASSUME NEW t \in Audit!Tasks, Audit!append(t) PROVE Audit!TypeOK'
  <2>1. asked' \in 1 .. MaxRows /\ [by |-> t[1], n |-> asked'] \in Audit!Hashes
    BY <1>0, <1>2, <1>3 DEF Audit!append, Audit!TypeOK, Audit!Hashes
  <2>2. head[t[1]] \in Audit!Hashes
    BY <1>2 DEF Audit!TypeOK
  <2>3. Audit!Linked(t, head[t[1]]) \in Job
    BY <2>1, <2>2 DEF Audit!Linked
  <2>4. [Audit!Idle EXCEPT !.at = "asking", !.hash = [by |-> t[1], n |-> asked']] \in Job
    BY <1>1, <2>1
  <2>5. task' \in [Audit!Tasks -> Job]
    BY <1>3, <2>3, <2>4 DEF Audit!append, Audit!TypeOK
  <2> QED BY <1>0, <1>3, <2>1, <2>5 DEF Audit!append, Audit!TypeOK
<1>4. ASSUME NEW t \in Audit!Tasks, Audit!Asks(t) PROVE Audit!TypeOK'
  <2>1. [task[t] EXCEPT !.at = "asked", !.prev = Audit!last] \in Job
    BY <1>1, <1>2
  <2>2. task' = [task EXCEPT ![t] = [task[t] EXCEPT !.at = "asked", !.prev = Audit!last]]
    BY <1>4, <1>2 DEF Audit!Asks, Audit!TypeOK
  <2>3. task' \in [Audit!Tasks -> Job]
    BY <2>1, <2>2 DEF Audit!TypeOK
  <2> QED BY <1>4, <2>3 DEF Audit!Asks, Audit!TypeOK
<1>5. ASSUME NEW t \in Audit!Tasks, Audit!_prime(t) PROVE Audit!TypeOK'
  <2>1. task' \in [Audit!Tasks -> Job] /\ task[t].prev \in Audit!Hashes
    BY <1>5, <1>2 DEF Audit!_prime, Audit!TypeOK
  <2> QED BY <1>2, <1>5, <2>1 DEF Audit!_prime, Audit!TypeOK
<1>6. ASSUME NEW t \in Audit!Tasks, Audit!Inserted(t) PROVE Audit!TypeOK'
  <2>1. task' \in [Audit!Tasks -> Job]
    BY <1>6, <1>2 DEF Audit!Inserted, Audit!TypeOK
  <2>2. [hash |-> task[t].hash, prev |-> task[t].prev] \in [hash : Audit!Hashes, prev : Audit!Hashes]
    BY <1>2
  <2>3. audit_log' \in Seq([hash : Audit!Hashes, prev : Audit!Hashes])
    BY <1>6, <2>2, AppendProperties DEF Audit!Inserted, Audit!TypeOK
  <2> QED BY <1>6, <2>1, <2>3 DEF Audit!Inserted, Audit!TypeOK
<1>7. ASSUME NEW t \in Audit!Tasks, Audit!Returned(t) PROVE Audit!TypeOK'
  BY <1>1, <1>2, <1>7 DEF Audit!Returned, Audit!TypeOK
<1>8. ASSUME NEW t \in Audit!Tasks, Audit!Raised(t) PROVE Audit!TypeOK'
  BY <1>0, <1>1, <1>2, <1>8 DEF Audit!Raised, Audit!TypeOK
<1>9. ASSUME NEW w \in Writers, Audit!Restarts(w) PROVE Audit!TypeOK'
  BY <1>0, <1>1, <1>2, <1>9 DEF Audit!Restarts, Audit!TypeOK
<1> QED BY <1>3, <1>4, <1>5, <1>6, <1>7, <1>8, <1>9 DEF Audit!Next

\* What holds of the appends and of the heads, while one task is at it at a time.
LEMMA AuditStep ==
    ASSUME AuditInv, Audit!Next
    PROVE  AuditInv'
<1> DEFINE Ours == Chained /\ (\A t \in Audit!Tasks : AppendOK(t)) /\ (\A w \in Writers : HeadOK(w))
<1>1. Audit!TypeOK'
  BY AuditTypes DEF AuditInv
<1> SUFFICES ASSUME ~shared' PROVE Ours'
  BY <1>1 DEF AuditInv
<1>2. /\ task \in [Audit!Tasks -> [at : {"idle", "asking", "asked", "inserting", "inserted"}, hash : Audit!Hashes, prev : Audit!Hashes]]
      /\ head \in [Writers -> Audit!Hashes] /\ primed \in [Writers -> BOOLEAN]
      /\ audit_log \in Seq([hash : Audit!Hashes, prev : Audit!Hashes])
      /\ \A t \in Audit!Tasks : t[1] \in Writers
      /\ Audit!Idle.at = "idle"
  BY DEF AuditInv, Audit!TypeOK, Audit!Tasks, Audit!Idle
<1>3. ~shared
  BY DEF Audit!Next, Audit!append, Audit!Asks, Audit!_prime, Audit!Inserted, Audit!Returned, Audit!Raised, Audit!Restarts
<1>4. Chained /\ (\A t \in Audit!Tasks : AppendOK(t)) /\ (\A w \in Writers : HeadOK(w))
  BY <1>3 DEF AuditInv
<1>5. audit_log' = audit_log => Audit!last' = Audit!last /\ Chained'
  BY <1>4 DEF Chained, Audit!last
<1>6. ASSUME NEW t \in Audit!Tasks, Audit!append(t) PROVE Ours'
  <2>1. (\A u \in Audit!Tasks : task[u].at = "idle") /\ (\A w \in Writers \ {t[1]} : ~primed[w])
    BY <1>2, <1>6 DEF Audit!append
  <2>2. primed[t[1]] => head[t[1]] = Audit!last
    BY <1>2, <1>4, <2>1 DEF HeadOK
  <2>3. /\ \A u \in Audit!Tasks \ {t} : task'[u] = task[u]
        /\ task'[t].at \in {"asking", "inserting"}
        /\ task'[t].at = "inserting" => task'[t].prev = Audit!last
    BY <1>2, <1>6, <2>2 DEF Audit!append, Audit!Linked
  <2>4. UNCHANGED <<audit_log, primed, head>>
    BY <1>6 DEF Audit!append
  <2> QED BY <1>2, <1>4, <1>5, <2>1, <2>3, <2>4 DEF AppendOK, HeadOK
<1>7. ASSUME NEW t \in Audit!Tasks, Audit!Asks(t) PROVE Ours'
  <2>1. /\ \A u \in Audit!Tasks \ {t} : task'[u] = task[u]
        /\ task[t].at = "asking" /\ task'[t].at = "asked" /\ task'[t].prev = Audit!last
    BY <1>2, <1>7 DEF Audit!Asks
  <2>2. UNCHANGED <<audit_log, primed, head>>
    BY <1>7 DEF Audit!Asks
  <2> QED BY <1>2, <1>4, <1>5, <2>1, <2>2 DEF AppendOK, HeadOK
<1>8. ASSUME NEW t \in Audit!Tasks, Audit!_prime(t) PROVE Ours'
  <2>1. /\ \A u \in Audit!Tasks \ {t} : task'[u] = task[u]
        /\ task[t].at = "asked" /\ task'[t].at = "inserting" /\ task'[t].prev = task[t].prev
    BY <1>2, <1>8 DEF Audit!_prime
  <2>2. task[t].prev = Audit!last
    BY <1>4, <2>1 DEF AppendOK
  <2>3. /\ \A w \in Writers : primed'[w] = (w = t[1] \/ primed[w]) /\ head'[w] = IF w = t[1] THEN Audit!last ELSE head[w]
        /\ audit_log' = audit_log
    BY <1>2, <1>8, <2>2 DEF Audit!_prime
  <2>4. \A w \in Writers \ {t[1]} : ~primed[w]
    BY <1>4, <2>1 DEF AppendOK
  <2> QED BY <1>2, <1>4, <1>5, <2>1, <2>2, <2>3, <2>4 DEF AppendOK, HeadOK
<1>9. ASSUME NEW t \in Audit!Tasks, Audit!Inserted(t) PROVE Ours'
  <2>1. /\ \A u \in Audit!Tasks \ {t} : task'[u] = task[u]
        /\ task[t].at = "inserting" /\ task'[t].at = "inserted" /\ task'[t].hash = task[t].hash
        /\ primed' = primed /\ head' = head
    BY <1>2, <1>9 DEF Audit!Inserted
  <2>2. task[t].prev = Audit!last /\ (\A u \in Audit!Tasks \ {t} : task[u].at = "idle") /\ \A w \in Writers \ {t[1]} : ~primed[w]
    BY <1>4, <2>1 DEF AppendOK
  <2>3. PICK r \in [hash : Audit!Hashes, prev : Audit!Hashes] : r = [hash |-> task[t].hash, prev |-> task[t].prev]
    BY <1>2
  <2>4. audit_log' = Append(audit_log, r)
    BY <1>9, <2>3 DEF Audit!Inserted
  <2>5. /\ audit_log' # << >> /\ Len(audit_log') = Len(audit_log) + 1
        /\ \A i \in 1 .. Len(audit_log) : audit_log'[i] = audit_log[i]
        /\ audit_log'[Len(audit_log) + 1] = r
    <3>1. audit_log \in Seq([hash : Audit!Hashes, prev : Audit!Hashes])
      BY <1>2
    <3>2. /\ Append(audit_log, r) # << >> /\ Len(Append(audit_log, r)) = Len(audit_log) + 1
          /\ \A i \in 1 .. Len(audit_log) : Append(audit_log, r)[i] = audit_log[i]
          /\ Append(audit_log, r)[Len(audit_log) + 1] = r
      BY <3>1, AppendProperties
    <3> QED BY <2>4, <3>2
  <2>6. Audit!last' = task[t].hash
    BY <2>3, <2>5 DEF Audit!last
  <2>7. Chained'
    <3>1. Len(audit_log) \in Nat /\ (audit_log = << >> <=> Len(audit_log) = 0)
      BY <1>2, EmptySeq, LenProperties
    <3>2. r.prev = IF audit_log = << >> THEN Audit!GENESIS ELSE audit_log[Len(audit_log)].hash
      BY <2>2, <2>3, LastHash
    <3>3. audit_log'[1].prev = Audit!GENESIS
      <4>1. CASE audit_log = << >>
        BY <3>1, <3>2, <2>5, <4>1
      <4>2. CASE audit_log # << >>
        BY <3>1, <1>4, <2>5, <4>2 DEF Chained
      <4> QED BY <4>1, <4>2
    <3>4. ASSUME NEW i \in 2 .. Len(audit_log') PROVE audit_log'[i].prev = audit_log'[i - 1].hash
      <4>1. CASE i = Len(audit_log) + 1
        BY <3>1, <3>2, <2>5, <4>1
      <4>2. CASE i # Len(audit_log) + 1
        BY <3>1, <1>4, <2>5, <4>2 DEF Chained
      <4> QED BY <4>1, <4>2
    <3> QED BY <3>3, <3>4 DEF Chained
  <2>8. ASSUME NEW u \in Audit!Tasks PROVE AppendOK(u)'
    BY <2>1, <2>2, <2>6 DEF AppendOK
  <2>9. ASSUME NEW w \in Writers PROVE HeadOK(w)'
    BY <1>2, <2>1, <2>2, <2>6 DEF HeadOK
  <2> QED BY <2>7, <2>8, <2>9
<1>10. ASSUME NEW t \in Audit!Tasks, Audit!Returned(t) PROVE Ours'
  <2>1. /\ \A u \in Audit!Tasks \ {t} : task'[u] = task[u]
        /\ task[t].at = "inserted" /\ task'[t].at = "idle"
        /\ primed' = primed /\ audit_log' = audit_log
    BY <1>2, <1>10 DEF Audit!Returned
  <2>2. task[t].hash = Audit!last /\ (\A u \in Audit!Tasks \ {t} : task[u].at = "idle")
    BY <1>4, <2>1 DEF AppendOK
  <2>3. \A w \in Writers : head'[w] = IF w = t[1] THEN Audit!last ELSE head[w]
    BY <1>2, <1>10, <2>2 DEF Audit!Returned
  <2>4. \A w \in Writers \ {t[1]} : ~primed[w]
    BY <1>4, <2>1 DEF AppendOK
  <2> QED BY <1>2, <1>4, <1>5, <2>1, <2>2, <2>3, <2>4 DEF AppendOK, HeadOK
<1>11. ASSUME NEW t \in Audit!Tasks, Audit!Raised(t) PROVE Ours'
  <2>1. /\ \A u \in Audit!Tasks \ {t} : task'[u] = task[u]
        /\ task[t].at \in {"asking", "inserting"} /\ task'[t].at = "idle"
        /\ primed' = primed /\ audit_log' = audit_log /\ head' = head
    BY <1>2, <1>11 DEF Audit!Raised
  <2> QED BY <1>2, <1>4, <1>5, <2>1 DEF AppendOK, HeadOK
<1>12. ASSUME NEW w \in Writers, Audit!Restarts(w) PROVE Ours'
  <2>1. /\ \A u \in Audit!Tasks : task'[u] = IF u[1] = w THEN Audit!Idle ELSE task[u]
        /\ \A v \in Writers : primed'[v] = (v # w /\ primed[v]) /\ (v # w => head'[v] = head[v])
        /\ audit_log' = audit_log
    BY <1>2, <1>12 DEF Audit!Restarts
  <2>2. ASSUME NEW u \in Audit!Tasks PROVE AppendOK(u)'
    BY <1>2, <1>4, <1>5, <2>1 DEF AppendOK
  <2>3. ASSUME NEW v \in Writers PROVE HeadOK(v)'
    <3> SUFFICES ASSUME primed'[v]
                 PROVE  /\ \A x \in Writers : primed'[x] => x = v
                        /\ head'[v] = Audit!last' \/ \E t \in Audit!Tasks : t[1] = v /\ task'[t].at = "inserted"
      BY DEF HeadOK
    <3>1. v # w /\ primed[v] /\ head'[v] = head[v]
      BY <2>1
    <3>2. /\ \A x \in Writers : primed[x] => x = v
          /\ head[v] = Audit!last \/ \E t \in Audit!Tasks : t[1] = v /\ task[t].at = "inserted"
      BY <1>4, <3>1 DEF HeadOK
    <3>3. Audit!last' = Audit!last
      BY <1>5, <2>1
    <3>4. ASSUME NEW t \in Audit!Tasks, t[1] = v PROVE task'[t] = task[t]
      BY <2>1, <3>1, <3>4
    <3>5. \A x \in Writers : primed'[x] => x = v
      BY <2>1, <3>2
    <3>6. head'[v] = Audit!last' \/ \E t \in Audit!Tasks : t[1] = v /\ task'[t].at = "inserted"
      BY <3>1, <3>2, <3>3, <3>4
    <3> QED BY <3>5, <3>6
  <2> QED BY <1>5, <2>1, <2>2, <2>3
<1> QED BY <1>6, <1>7, <1>8, <1>9, <1>10, <1>11, <1>12 DEF Audit!Next

LEMMA AuditInit == ASSUME Audit!Init PROVE AuditInv
<1>1. Audit!TypeOK
  <2>1. Audit!GENESIS \in Audit!Hashes /\ << >> \in Seq([hash : Audit!Hashes, prev : Audit!Hashes])
    BY DEF Audit!Hashes
  <2>2. Audit!Idle \in [at : {"idle", "asking", "asked", "inserting", "inserted"}, hash : Audit!Hashes, prev : Audit!Hashes]
    BY <2>1 DEF Audit!Idle
  <2>3. 0 \in 0 .. MaxRows /\ 0 \in 0 .. AuditFaults
    BY AuditConstants
  <2> QED BY <2>1, <2>2, <2>3 DEF Audit!Init, Audit!TypeOK
<1>2. Audit!Idle.at = "idle"
  BY DEF Audit!Idle
<1>3. Chained
  BY EmptySeq DEF Audit!Init, Chained
<1>4. (\A t \in Audit!Tasks : AppendOK(t)) /\ \A w \in Writers : HeadOK(w)
  BY <1>2 DEF Audit!Init, AppendOK, HeadOK
<1> QED BY <1>1, <1>3, <1>4 DEF AuditInv

\* The newest rows of a chain are a chain.
LEMMA NewestVerify == ASSUME Audit!TypeOK, Chained PROVE Audit!verify_chain
<1> DEFINE n == Len(audit_log)
           m == IF n > AuditLimit THEN n - AuditLimit + 1 ELSE 1
           Row == [hash : Audit!Hashes, prev : Audit!Hashes]
<1>1. audit_log \in Seq(Row) /\ n \in Nat /\ m \in Nat \ {0} /\ Audit!entries = SubSeq(audit_log, m, n)
  BY AuditConstants, LenProperties DEF Audit!TypeOK, Audit!entries
<1>2. \A i \in 1 .. n : audit_log[i] \in Row
  BY <1>1, ElementOfSeq
<1>3. /\ Len(Audit!entries) = IF m <= n THEN n - m + 1 ELSE 0
      /\ \A i \in 1 .. n - m + 1 : Audit!entries[i] = audit_log[m + i - 1]
  <2>1. \A i \in m .. n : audit_log[i] \in Row
    BY <1>1, <1>2
  <2>2. m \in Int /\ n \in Int
    BY <1>1
  <2> HIDE DEF m, n, Row
  <2> QED BY <1>1, <2>1, <2>2, SubSeqProperties
<1>4. \A i \in 2 .. Len(Audit!entries) : Audit!entries[i].prev = Audit!entries[i - 1].hash
  <2> TAKE i \in 2 .. Len(Audit!entries)
  <2> HIDE DEF m
  <2>1. m + i - 1 \in 2 .. n /\ i \in 1 .. n - m + 1 /\ i - 1 \in 1 .. n - m + 1
    BY <1>1, <1>3
  <2>2. Audit!entries[i] = audit_log[m + i - 1] /\ Audit!entries[i - 1] = audit_log[m + (i - 1) - 1]
    BY <1>3, <2>1
  <2>3. (m + i - 1) - 1 = m + (i - 1) - 1
    BY <1>1
  <2> QED BY <2>1, <2>2, <2>3 DEF Chained
<1>5. Audit!entries # << >> => Audit!entries[1].prev = Audit!GENESIS \/ n > AuditLimit
  <2> SUFFICES ASSUME Audit!entries # << >>, ~(n > AuditLimit) PROVE Audit!entries[1].prev = Audit!GENESIS
    OBVIOUS
  <2>1. m = 1
    OBVIOUS
  <2>2. Audit!entries = audit_log
    <3> HIDE DEF m
    <3> QED BY <1>1, <2>1, SubSeqFull
  <2> QED BY <2>2 DEF Chained
<1> QED BY <1>4, <1>5 DEF Audit!verify_chain

\* The trail of an agent whose processes write one at a time verifies, whatever
\* fails and whoever restarts (AuditLog.append and _prime of
\* observability/audit.py): the head in memory is that of the table, but for
\* the task that has just inserted.
AuditPart == part = "audit" => AuditInv
THEOREM TrailForksOnlyWhenShared == Spec => []ForksOnlyWhenShared
<1>1. Init => AuditPart
  BY AuditInit DEF Init, AuditPart
<1>2. AuditPart /\ [Next]_vars => AuditPart'
  <2> SUFFICES ASSUME AuditPart, [Next]_vars, part' = "audit" PROVE AuditInv'
    BY DEF AuditPart
  <2>1. CASE part = "audit" /\ Audit!Next
    BY <2>1, AuditStep DEF AuditPart
  <2>2. CASE UNCHANGED vars
    BY <2>2 DEF vars, handedVars, auditVars, AuditPart, AuditInv, Audit!TypeOK, Chained, AppendOK, HeadOK, Audit!last
  <2> QED BY <2>1, <2>2 DEF Next, Handed, Mind, Hands
<1>3. AuditPart => ForksOnlyWhenShared
  BY NewestVerify DEF AuditPart, AuditInv, ForksOnlyWhenShared, Audit!ForksOnlyWhenShared
<1> QED BY <1>1, <1>2, <1>3, PTL DEF Spec

-----------------------------------------------------------------------------
(* Background jobs: the names given out are 1 .. k, and a start that crossed *)
(* nobody's has the name of its own job.                                    *)

Numbered(k) ==
    /\ DOMAIN background_jobs = 1 .. k
    /\ \A n \in 1 .. k : background_jobs[n] \in Starts /\ start[background_jobs[n]] = [at |-> "told", n |-> n]
    /\ \A s \in Starts : start[s].at = "starting" => start[s].n \in 1 .. k + 1
    /\ \A s \in Starts \ crossed :
         /\ start[s].at = "starting" => start[s].n = k + 1 /\ \A r \in Starts : start[r].at = "starting" => r = s
         /\ start[s].at = "told" => /\ start[s].n \in 1 .. k /\ background_jobs[start[s].n] = s
                                    /\ \A r \in Starts : start[r].at = "starting" => start[r].n # start[s].n
JobsInv ==
    /\ start \in [Starts -> [at : {"new", "starting", "told"}, n : 0 .. Cardinality(Starts)]]
    /\ ended \subseteq Starts /\ crossed \subseteq Starts
    /\ \E k \in 0 .. Cardinality(Starts) : Numbered(k)

LEMMA JobsCounts ==
    /\ IsFiniteSet(Starts) /\ Cardinality(Starts) \in Nat
    /\ \A S : Jobs!Cardinality(S) = Cardinality(S)
    /\ \A f : Jobs!Range(f) = {f[x] : x \in DOMAIN f}
<1>1. \A S : (Jobs!IsFiniteSet(S) <=> IsFiniteSet(S)) /\ Jobs!Cardinality(S) = Cardinality(S)
  BY DEF Jobs!IsFiniteSet, Jobs!Cardinality, IsFiniteSet, Cardinality
<1>2. IsFiniteSet(Starts)
  BY <1>1, RecordsAssumption DEF RecordsAssumption, Jobs!JobsAssumption
<1> QED BY <1>1, <1>2, FS_CardinalityType DEF Jobs!Range

\* As many are numbered as were told, so that somebody who is not adds one.
LEMMA RoomForOneMore ==
    ASSUME NEW k \in 0 .. Cardinality(Starts), Numbered(k), NEW s \in Starts, start[s].at # "told"
    PROVE  k + 1 \in 1 .. Cardinality(Starts) /\ Cardinality(DOMAIN background_jobs) = k
<1>1. IsFiniteSet(Starts \ {s}) /\ Cardinality(Starts \ {s}) = Cardinality(Starts) - 1
  BY JobsCounts, FS_RemoveElement
<1> DEFINE f == [n \in 1 .. k |-> background_jobs[n]]
<1>2. f \in [1 .. k -> Starts \ {s}] /\ \A m, n \in 1 .. k : f[m] = f[n] => m = n
  <2>1. \A n \in 1 .. k : background_jobs[n] \in Starts /\ start[background_jobs[n]] = [at |-> "told", n |-> n]
    BY DEF Numbered
  <2>2. ASSUME NEW n \in 1 .. k PROVE background_jobs[n] # s /\ start[background_jobs[n]].n = n
    <3>1. PICK b : b = background_jobs[n]
      OBVIOUS
    <3>2. start[b] = [at |-> "told", n |-> n]
      BY <2>1, <3>1
    <3>3. start[b].at = "told" /\ start[b].n = n
      BY <3>2
    <3> QED BY <3>1, <3>3
  <2>3. ASSUME NEW m \in 1 .. k, NEW n \in 1 .. k, background_jobs[m] = background_jobs[n] PROVE m = n
    BY <2>2, <2>3
  <2> QED BY <2>1, <2>2, <2>3
<1>3. f \in Injection(1 .. k, Starts \ {s})
  BY <1>2 DEF Injection, IsInjective
<1>4. IsFiniteSet(1 .. k) /\ Cardinality(1 .. k) = k
  BY JobsCounts, FS_Interval
<1> HIDE DEF f
<1>5. Cardinality(1 .. k) <= Cardinality(Starts \ {s})
  BY <1>1, <1>3, FS_Injection
<1> QED BY <1>1, <1>4, <1>5, JobsCounts DEF Numbered

LEMMA JobsStep == ASSUME JobsInv, Jobs!Next PROVE JobsInv'
<1>0. PICK k \in 0 .. Cardinality(Starts) : Numbered(k)
  BY DEF JobsInv
<1>1. /\ start \in [Starts -> [at : {"new", "starting", "told"}, n : 0 .. Cardinality(Starts)]]
      /\ ended \subseteq Starts /\ crossed \subseteq Starts /\ Cardinality(Starts) \in Nat
  BY JobsCounts DEF JobsInv
<1>2. ASSUME NEW s \in Starts, Jobs!ShellJobTool(s) PROVE JobsInv'
  <2>1. start[s].at = "new" /\ k + 1 \in 0 .. Cardinality(Starts) /\ Cardinality(DOMAIN background_jobs) = k
    BY <1>0, <1>2, RoomForOneMore DEF Jobs!ShellJobTool
  <2>2. start' = [start EXCEPT ![s] = [at |-> "starting", n |-> k + 1]]
    BY <1>2, <2>1, JobsCounts DEF Jobs!ShellJobTool
  <2>3. UNCHANGED <<background_jobs, ended>>
    BY <1>2 DEF Jobs!ShellJobTool
  <2>4. /\ crossed \subseteq crossed' /\ crossed' \subseteq Starts
        /\ \A r \in Starts : start[r].at = "starting" => r \in crossed' /\ s \in crossed'
    BY <1>1, <1>2 DEF Jobs!ShellJobTool
  <2>5. start' \in [Starts -> [at : {"new", "starting", "told"}, n : 0 .. Cardinality(Starts)]]
    BY <1>1, <2>1, <2>2
  <2>6. /\ \A r \in Starts \ {s} : start'[r] = start[r]
        /\ start'[s].at = "starting" /\ start'[s].n = k + 1
    BY <1>1, <2>2
  <2>7. Numbered(k)'
    <3>1. DOMAIN background_jobs' = 1 .. k
      BY <1>0, <2>3 DEF Numbered
    <3>2. \A n \in 1 .. k : background_jobs'[n] \in Starts /\ start'[background_jobs'[n]] = [at |-> "told", n |-> n]
      <4> TAKE n \in 1 .. k
      <4>1. background_jobs[n] \in Starts /\ start[background_jobs[n]] = [at |-> "told", n |-> n]
        BY <1>0 DEF Numbered
      <4>2. background_jobs[n] # s
        BY <2>1, <4>1
      <4> QED BY <2>3, <2>6, <4>1, <4>2
    <3>3. \A r \in Starts : start'[r].at = "starting" => start'[r].n \in 1 .. k + 1
      BY <1>0, <2>6 DEF Numbered
    <3>4. ASSUME NEW r \in Starts \ crossed', start'[r].at = "starting"
          PROVE  start'[r].n = k + 1 /\ \A q \in Starts : start'[q].at = "starting" => q = r
      BY <2>4, <2>6, <3>4
    <3>5. ASSUME NEW r \in Starts \ crossed', start'[r].at = "told"
          PROVE  /\ start'[r].n \in 1 .. k /\ background_jobs'[start'[r].n] = r
                 /\ \A q \in Starts : start'[q].at = "starting" => start'[q].n # start'[r].n
      <4>1. r # s /\ r \in Starts \ crossed /\ start'[r] = start[r] /\ start[r].at = "told"
        BY <2>4, <2>6, <3>5
      <4>2. /\ start[r].n \in 1 .. k /\ background_jobs[start[r].n] = r
            /\ \A q \in Starts : start[q].at = "starting" => start[q].n # start[r].n
        BY <1>0, <4>1 DEF Numbered
      <4> QED BY <2>3, <2>6, <4>1, <4>2
    <3> QED BY <3>1, <3>2, <3>3, <3>4, <3>5 DEF Numbered
  <2> QED BY <2>3, <2>4, <2>5, <2>7, <1>1 DEF JobsInv
<1>3. ASSUME NEW s \in Starts, Jobs!Started(s) PROVE JobsInv'
  <2>0. PICK m : m = start[s].n
    OBVIOUS
  <2> DEFINE j == IF m = k + 1 THEN k + 1 ELSE k
  <2>1. start[s].at = "starting" /\ m \in 1 .. k + 1 /\ k + 1 \in 1 .. Cardinality(Starts)
    BY <1>0, <1>3, <2>0, RoomForOneMore DEF Jobs!Started, Numbered
  <2>2. /\ \A r \in Starts \ {s} : start'[r] = start[r]
        /\ start'[s] = [at |-> "told", n |-> m] /\ UNCHANGED <<ended, crossed>>
        /\ start' \in [Starts -> [at : {"new", "starting", "told"}, n : 0 .. Cardinality(Starts)]]
    BY <1>1, <1>3, <2>0 DEF Jobs!Started
  <2>3. j \in 0 .. Cardinality(Starts) /\ DOMAIN background_jobs' = 1 .. j
    BY <1>0, <1>3, <2>0, <2>1 DEF Jobs!Started, Numbered
  <2>4. \A n \in 1 .. j : background_jobs'[n] = IF n = m THEN s ELSE background_jobs[n]
    BY <1>0, <1>3, <2>0, <2>1 DEF Jobs!Started, Numbered
  <2>5. Numbered(j)'
    <3>1. ASSUME NEW n \in 1 .. j
          PROVE  background_jobs'[n] \in Starts /\ start'[background_jobs'[n]] = [at |-> "told", n |-> n]
      <4>1. CASE n = m
        BY <2>2, <2>4, <4>1
      <4>2. CASE n # m
        <5>1. n \in 1 .. k /\ background_jobs'[n] = background_jobs[n]
          BY <2>1, <2>4, <4>2
        <5>2. background_jobs[n] \in Starts /\ start[background_jobs[n]] = [at |-> "told", n |-> n]
          BY <1>0, <5>1 DEF Numbered
        <5>3. background_jobs[n] # s
          BY <2>0, <2>1, <5>2
        <5> QED BY <2>2, <5>1, <5>2, <5>3
      <4> QED BY <4>1, <4>2
    <3>2. ASSUME NEW r \in Starts, start'[r].at = "starting" PROVE r # s /\ start[r] = start'[r] /\ start'[r].n \in 1 .. j + 1
      BY <1>0, <2>1, <2>2, <3>2 DEF Numbered
    <3>3. ASSUME NEW r \in Starts \ crossed', start'[r].at = "starting"
          PROVE  start'[r].n = j + 1 /\ \A q \in Starts : start'[q].at = "starting" => q = r
      <4>1. r # s /\ start[r].at = "starting" /\ r \in Starts \ crossed
        BY <2>2, <3>2, <3>3
      <4>2. s = r
        BY <1>0, <2>1, <4>1 DEF Numbered
      <4> QED BY <4>1, <4>2
    <3>4. ASSUME NEW r \in Starts \ crossed', start'[r].at = "told"
          PROVE  /\ start'[r].n \in 1 .. j /\ background_jobs'[start'[r].n] = r
                 /\ \A q \in Starts : start'[q].at = "starting" => start'[q].n # start'[r].n
      <4>1. CASE r = s
        <5>1. m = k + 1 /\ \A q \in Starts : start[q].at = "starting" => q = s
          BY <1>0, <2>0, <2>1, <2>2, <3>4, <4>1 DEF Numbered
        <5> QED BY <2>1, <2>2, <2>4, <3>2, <4>1, <5>1
      <4>2. CASE r # s
        <5>1. r \in Starts \ crossed /\ start'[r] = start[r] /\ start[r].at = "told"
          BY <2>2, <3>4, <4>2
        <5>2. /\ start[r].n \in 1 .. k /\ background_jobs[start[r].n] = r
              /\ \A q \in Starts : start[q].at = "starting" => start[q].n # start[r].n
          BY <1>0, <5>1 DEF Numbered
        <5>3. start[r].n \in 1 .. j /\ start[r].n # m
          BY <2>0, <2>1, <5>2
        <5> QED BY <2>4, <3>2, <5>1, <5>2, <5>3
      <4> QED BY <4>1, <4>2
    <3> QED BY <2>3, <3>1, <3>2, <3>3, <3>4 DEF Numbered
  <2> QED BY <1>1, <2>2, <2>3, <2>5 DEF JobsInv
<1>4. ASSUME NEW s \in Starts, Jobs!_pump(s) PROVE JobsInv'
  BY <1>0, <1>1, <1>4 DEF Jobs!_pump, JobsInv, Numbered
<1>5. ASSUME NEW n \in DOMAIN background_jobs, Jobs!kill(n) PROVE JobsInv'
  <2>1. background_jobs[n] \in Starts
    BY <1>0 DEF Numbered
  <2> QED BY <1>0, <1>1, <1>5, <2>1 DEF Jobs!kill, JobsInv, Numbered
<1> QED BY <1>2, <1>3, <1>4, <1>5 DEF Jobs!Next

LEMMA JobsInit == ASSUME Jobs!Init PROVE JobsInv
<1>1. background_jobs = << >> /\ crossed = {} /\ ended = {} /\ Cardinality(Starts) \in Nat
  BY JobsCounts DEF Jobs!Init
<1>2. /\ start \in [Starts -> [at : {"new", "starting", "told"}, n : 0 .. Cardinality(Starts)]]
      /\ \A s \in Starts : start[s].at = "new"
  BY <1>1 DEF Jobs!Init
<1>3. Numbered(0)
  BY <1>1, <1>2 DEF Numbered
<1> QED BY <1>1, <1>2, <1>3 DEF JobsInv

LEMMA JobsFound == ASSUME JobsInv PROVE Jobs!TypeOK /\ Jobs!IdFindsTheJob
<1>1. PICK k \in 0 .. Cardinality(Starts) : Numbered(k)
  BY DEF JobsInv
<1>2. Jobs!TypeOK
  <2>1. DOMAIN background_jobs \subseteq 1 .. Cardinality(Starts)
    <3>1. k \in Nat /\ Cardinality(Starts) \in Nat /\ k <= Cardinality(Starts)
      BY <1>1, JobsCounts
    <3>2. DOMAIN background_jobs = 1 .. k
      BY <1>1 DEF Numbered
    <3> QED BY <3>1, <3>2
  <2>2. Jobs!Range(background_jobs) \subseteq Starts
    <3>1. \A n \in DOMAIN background_jobs : background_jobs[n] \in Starts
      BY <1>1 DEF Numbered
    <3> QED BY <3>1 DEF Jobs!Range
  <2> QED BY <2>1, <2>2, JobsCounts DEF JobsInv, Jobs!TypeOK
<1>3. Jobs!IdFindsTheJob
  BY <1>1 DEF Numbered, Jobs!IdFindsTheJob
<1> QED BY <1>2, <1>3

-----------------------------------------------------------------------------
(* The browsers, until two calls have been at the pool: who is there, what   *)
(* room it has made, and what every Chromium that runs is accounted for by.  *)

Places == {"new", "reaping", "evicting", "discarding", "launching", "opening", "using", "over", "failed"}
Registered(b) == \E i \in DOMAIN sessions : sessions[i] = b
BrowsersTyped ==
    /\ DOMAIN sessions \subseteq SessionIds /\ \A i \in DOMAIN sessions : sessions[i] \in Calls
    /\ last_used \in Seq(SessionIds) /\ Browsers!IsInjective(last_used) /\ Browsers!ToSet(last_used) = DOMAIN sessions
    /\ idle \subseteq DOMAIN sessions /\ live \subseteq Calls /\ leaked \subseteq Calls
    /\ opened \in [Calls -> [at : Places, id : SessionIds \cup {Browsers!None},
                             of : Calls \cup {Browsers!None}, stale : SUBSET SessionIds]]
    /\ faults \in 0 .. MaxFaults /\ crowded \in BOOLEAN
    /\ \A c \in Calls : opened[c].at \in {"reaping", "evicting", "launching", "opening", "using"} => opened[c].id \in SessionIds
Room == Cardinality(DOMAIN sessions) < max_sessions
CallInv(c) ==
    /\ c \in Browsers!Under => \A d \in Browsers!Under : d = c
    /\ opened[c].at \in {"reaping", "evicting", "discarding", "launching", "opening"} => opened[c].id \notin DOMAIN sessions
    /\ opened[c].at = "discarding" =>
         /\ ~Registered(opened[c].of) /\ opened[c].of \notin leaked
         /\ opened[c].of # Browsers!None => Room
    /\ opened[c].at \in {"launching", "opening"} => Room
    /\ opened[c].at = "using" => Registered(opened[c].of)
    /\ opened[c].at # "failed"
Accounted(b) ==
    b \in live <=> \/ Registered(b) \/ b \in leaked \/ opened[b].at = "opening"
                   \/ \E c \in Calls : opened[c].at = "discarding" /\ opened[c].of = b
PoolInv ==
    /\ \A i, j \in DOMAIN sessions : sessions[i] = sessions[j] => i = j
    /\ \A i \in DOMAIN sessions : opened[sessions[i]].at \in {"using", "over"} /\ sessions[i] \notin leaked
    /\ \A b \in leaked : opened[b].at = "over"
    /\ Cardinality(DOMAIN sessions) <= max_sessions
    /\ \A c \in Calls : CallInv(c) /\ Accounted(c)
BrowsersInv == BrowsersTyped /\ (~crowded => PoolInv)

LEMMA PoolOperators ==
    /\ \A q : Browsers!ToSet(q) = {q[i] : i \in DOMAIN q}
    /\ \A f : Browsers!IsInjective(f) <=> \A a, b \in DOMAIN f : f[a] = f[b] => a = b
    /\ \A f : Browsers!Range(f) = {f[x] : x \in DOMAIN f}
    /\ \A f, S : Browsers!Restrict(f, S) = [x \in S |-> f[x]]
    /\ \A S : Browsers!Cardinality(S) = Cardinality(S)
  BY DEF Browsers!ToSet, Browsers!IsInjective, Browsers!Range, Browsers!Restrict, Browsers!Cardinality, Cardinality

LEMMA BrowsersConstants ==
    /\ max_sessions \in Nat /\ max_sessions > 0 /\ MaxFaults \in Nat
    /\ IsFiniteSet(SessionIds) /\ Browsers!None \notin Calls \cup SessionIds
<1>1. \A S : Browsers!IsFiniteSet(S) <=> IsFiniteSet(S)
  BY DEF Browsers!IsFiniteSet, IsFiniteSet
<1> QED BY <1>1, RecordsAssumption DEF RecordsAssumption, Browsers!BrowsersAssumption

\* Taking one out of a list leaves the others in it, once each.
LEMMA TakenFromPool ==
    ASSUME NEW S, NEW q \in Seq(S), Browsers!IsInjective(q), NEW e
    PROVE  /\ Browsers!RemoveFirst(q, e) \in Seq(S)
           /\ Browsers!IsInjective(Browsers!RemoveFirst(q, e))
           /\ Browsers!ToSet(Browsers!RemoveFirst(q, e)) = Browsers!ToSet(q) \ {e}
<1>1. CASE ~\E i \in 1 .. Len(q) : q[i] = e
  BY <1>1, PoolOperators DEF Browsers!RemoveFirst
<1>2. CASE \E i \in 1 .. Len(q) : q[i] = e
  <2>1. PICK k \in 1 .. Len(q) : q[k] = e
    BY <1>2
  <2>2. {i \in 1 .. Len(q) : q[i] = e} = {k}
    BY <2>1, PoolOperators
  <2>3. Browsers!SelectInSeq(q, LAMBDA v : v = e) = k
    BY <2>1, <2>2 DEF Browsers!SelectInSeq, Browsers!Min
  <2>4. Browsers!RemoveFirst(q, e) = SubSeq(q, 1, k - 1) \o SubSeq(q, k + 1, Len(q))
    BY <1>2, <2>3 DEF Browsers!RemoveFirst, Browsers!RemoveAt
  <2> DEFINE l == SubSeq(q, 1, k - 1)
             r == SubSeq(q, k + 1, Len(q))
             n == Len(q) - 1
  <2>5. Len(q) \in Nat /\ \A i \in 1 .. Len(q) : q[i] \in S
    OBVIOUS
  <2>6. l \in Seq(S) /\ Len(l) = k - 1 /\ \A i \in 1 .. k - 1 : l[i] = q[i]
    BY <2>1, <2>5, SubSeqProperties
  <2>7. r \in Seq(S) /\ Len(r) = Len(q) - k /\ \A i \in 1 .. Len(q) - k : r[i] = q[i + k]
    <3>1. k + 1 \in Int /\ Len(q) \in Int /\ \A i \in k + 1 .. Len(q) : q[i] \in S
      BY <2>1, <2>5
    <3>2. \A i \in 1 .. Len(q) - (k + 1) + 1 : r[i] = q[k + 1 + i - 1]
      BY <3>1, SubSeqProperties
    <3>3. r \in Seq(S) /\ Len(r) = IF k + 1 <= Len(q) THEN Len(q) - (k + 1) + 1 ELSE 0
      BY <3>1, SubSeqProperties
    <3> QED BY <2>1, <2>5, <3>2, <3>3
  <2> DEFINE w == l \o r
  <2> HIDE DEF l, r
  <2>8. w \in Seq(S) /\ Len(w) = n /\ \A i \in 1 .. n : w[i] = IF i < k THEN q[i] ELSE q[i + 1]
    <3>1. w \in Seq(S) /\ Len(w) = Len(l) + Len(r)
      BY <2>6, <2>7, ConcatProperties
    <3>2. \A i \in 1 .. Len(l) + Len(r) : w[i] = IF i <= Len(l) THEN l[i] ELSE r[i - Len(l)]
      BY <2>6, <2>7, ConcatProperties
    <3>3. Len(w) = n
      BY <2>1, <2>5, <2>6, <2>7, <3>1
    <3>4. ASSUME NEW i \in 1 .. n PROVE w[i] = IF i < k THEN q[i] ELSE q[i + 1]
      <4>1. CASE i < k
        BY <2>1, <2>5, <2>6, <2>7, <3>2, <4>1
      <4>2. CASE ~(i < k)
        <5>1. w[i] = r[i - (k - 1)] /\ i - (k - 1) \in 1 .. Len(q) - k
          BY <2>1, <2>5, <2>6, <2>7, <3>2, <4>2
        <5>2. r[i - (k - 1)] = q[(i - (k - 1)) + k]
          BY <2>7, <5>1
        <5> QED BY <2>1, <4>2, <5>1, <5>2
      <4> QED BY <4>1, <4>2
    <3> QED BY <3>1, <3>3, <3>4
  <2> HIDE DEF w
  <2>9. DOMAIN w = 1 .. n /\ DOMAIN q = 1 .. Len(q)
    BY <2>8
  <2>10. Browsers!IsInjective(w)
    BY <2>1, <2>5, <2>8, <2>9, PoolOperators
  <2>11. Browsers!ToSet(w) = Browsers!ToSet(q) \ {e}
    <3>1. ASSUME NEW i \in 1 .. n PROVE w[i] \in Browsers!ToSet(q) \ {e}
      <4>1. \E j \in 1 .. Len(q) : j # k /\ w[i] = q[j]
        BY <2>1, <2>5, <2>8
      <4> QED BY <2>1, <2>9, <4>1, PoolOperators
    <3>2. ASSUME NEW j \in 1 .. Len(q), q[j] # e PROVE \E i \in 1 .. n : w[i] = q[j]
      <4>1. CASE j < k
        BY <2>1, <2>5, <2>8, <4>1
      <4>2. CASE j > k
        <5>1. j - 1 \in 1 .. n /\ ~(j - 1 < k) /\ (j - 1) + 1 = j
          BY <2>1, <2>5, <4>2
        <5> QED BY <2>8, <5>1
      <4> QED BY <2>1, <3>2, <4>1, <4>2
    <3> QED BY <2>9, <3>1, <3>2, PoolOperators
  <2> QED BY <2>4, <2>8, <2>10, <2>11 DEF w, l, r
<1> QED BY <1>1, <1>2

\* Putting one at the end of a list that lacks it.
LEMMA PutIntoPool ==
    ASSUME NEW S, NEW q \in Seq(S), Browsers!IsInjective(q), NEW e \in S, e \notin Browsers!ToSet(q)
    PROVE  /\ Append(q, e) \in Seq(S)
           /\ Browsers!IsInjective(Append(q, e))
           /\ Browsers!ToSet(Append(q, e)) = Browsers!ToSet(q) \cup {e}
<1> DEFINE w == Append(q, e)
<1>1. /\ w \in Seq(S) /\ Len(w) = Len(q) + 1 /\ Len(q) \in Nat
      /\ \A i \in 1 .. Len(q) : w[i] = q[i]
      /\ w[Len(q) + 1] = e
  BY AppendProperties
<1> HIDE DEF w
<1>2. DOMAIN w = 1 .. Len(q) + 1 /\ DOMAIN q = 1 .. Len(q)
  BY <1>1
<1>3. \A i \in 1 .. Len(q) : q[i] # e
  BY <1>2, PoolOperators
<1>4. Browsers!IsInjective(w)
  BY <1>1, <1>2, <1>3, PoolOperators
<1>5. Browsers!ToSet(w) = Browsers!ToSet(q) \cup {e}
  BY <1>1, <1>2, PoolOperators
<1> QED BY <1>1, <1>4, <1>5 DEF w

LEMMA Touched ==
    ASSUME BrowsersTyped, NEW id \in SessionIds
    PROVE  /\ Browsers!_touch(id) \in Seq(SessionIds) /\ Browsers!IsInjective(Browsers!_touch(id))
           /\ Browsers!ToSet(Browsers!_touch(id)) = DOMAIN sessions \cup {id}
<1> DEFINE q == Browsers!RemoveFirst(last_used, id)
<1>1. q \in Seq(SessionIds) /\ Browsers!IsInjective(q) /\ Browsers!ToSet(q) = DOMAIN sessions \ {id}
  BY TakenFromPool DEF BrowsersTyped
<1> HIDE DEF q
<1>2. id \notin Browsers!ToSet(q)
  BY <1>1
<1>3. /\ Append(q, id) \in Seq(SessionIds) /\ Browsers!IsInjective(Append(q, id))
      /\ Browsers!ToSet(Append(q, id)) = Browsers!ToSet(q) \cup {id}
  BY <1>1, <1>2, PutIntoPool
<1>4. Browsers!_touch(id) = Append(q, id)
  BY DEF Browsers!_touch, q
<1> QED BY <1>1, <1>3, <1>4

LEMMA DomainCounts ==
    ASSUME BrowsersTyped
    PROVE  IsFiniteSet(DOMAIN sessions) /\ Cardinality(DOMAIN sessions) \in Nat
  BY BrowsersConstants, FS_Subset, FS_CardinalityType DEF BrowsersTyped

CallRecords == [at : Places, id : SessionIds \cup {Browsers!None}, of : Calls \cup {Browsers!None}, stale : SUBSET SessionIds]

\* What _discard leaves: the others, and a call that closes what was registered.
LEMMA Discarded ==
    ASSUME BrowsersTyped, NEW c \in Calls, NEW id \in SessionIds, NEW then \in CallRecords,
           Browsers!_discard(c, id, then)
    PROVE  /\ last_used' \in Seq(SessionIds) /\ Browsers!IsInjective(last_used')
           /\ Browsers!ToSet(last_used') = DOMAIN sessions'
           /\ DOMAIN sessions' = DOMAIN sessions \ {id}
           /\ \A i \in DOMAIN sessions' : sessions'[i] = sessions[i]
           /\ idle' \subseteq DOMAIN sessions'
           /\ opened' \in [Calls -> CallRecords]
           /\ \A d \in Calls \ {c} : opened'[d] = opened[d]
           /\ opened'[c].at = "discarding" /\ opened'[c].id = then.id
           /\ opened'[c].of = IF id \in DOMAIN sessions THEN sessions[id] ELSE Browsers!None
<1>1. /\ Browsers!RemoveFirst(last_used, id) \in Seq(SessionIds)
      /\ Browsers!IsInjective(Browsers!RemoveFirst(last_used, id))
      /\ Browsers!ToSet(Browsers!RemoveFirst(last_used, id)) = DOMAIN sessions \ {id}
  BY TakenFromPool DEF BrowsersTyped
<1>2. sessions' = [i \in DOMAIN sessions \ {id} |-> sessions[i]]
  BY PoolOperators DEF Browsers!_discard
<1>3. last_used' = Browsers!RemoveFirst(last_used, id) /\ idle' = idle \ {id}
  BY DEF Browsers!_discard
<1> DEFINE o == IF id \in DOMAIN sessions THEN sessions[id] ELSE Browsers!None
<1>4. o \in Calls \cup {Browsers!None}
  BY DEF BrowsersTyped
<1>5. PICK r : r = [then EXCEPT !.at = "discarding", !.of = o]
  OBVIOUS
<1>6. r \in CallRecords /\ r.at = "discarding" /\ r.id = then.id /\ r.of = o
  BY <1>4, <1>5 DEF CallRecords, Places
<1>7. opened' = [opened EXCEPT ![c] = r]
  BY <1>5 DEF Browsers!_discard
<1>8. opened \in [Calls -> CallRecords]
  BY DEF BrowsersTyped, CallRecords
<1> HIDE DEF o
<1>9. /\ opened' \in [Calls -> CallRecords] /\ \A d \in Calls \ {c} : opened'[d] = opened[d]
      /\ opened'[c].at = "discarding" /\ opened'[c].id = then.id /\ opened'[c].of = o
  BY <1>6, <1>7, <1>8
<1>10. DOMAIN sessions' = DOMAIN sessions \ {id} /\ \A i \in DOMAIN sessions' : sessions'[i] = sessions[i]
  BY <1>2
<1> QED BY <1>1, <1>3, <1>9, <1>10 DEF BrowsersTyped, o

\* A call that has the pool to itself may discard what it likes of it.
LEMMA DiscardKeepsPool ==
    ASSUME BrowsersTyped, PoolInv, NEW c \in Calls, NEW id \in SessionIds, NEW then \in CallRecords,
           Browsers!_discard(c, id, then), UNCHANGED <<live, leaked>>,
           opened[c].at \in {"new", "reaping", "evicting"}, Browsers!Under \subseteq {c},
           then.id \notin DOMAIN sessions
    PROVE  PoolInv'
<1>1. /\ DOMAIN sessions' = DOMAIN sessions \ {id} /\ \A i \in DOMAIN sessions' : sessions'[i] = sessions[i]
      /\ \A d \in Calls \ {c} : opened'[d] = opened[d]
      /\ opened'[c].at = "discarding" /\ opened'[c].id = then.id
      /\ opened'[c].of = IF id \in DOMAIN sessions THEN sessions[id] ELSE Browsers!None
  BY Discarded
<1>2. \A d \in Calls \ {c} : opened[d].at \in {"new", "over"}
  BY DEF Browsers!Under, PoolInv, CallInv, BrowsersTyped, Places
<1>3. Cardinality(DOMAIN sessions') <= max_sessions /\ (id \in DOMAIN sessions => Cardinality(DOMAIN sessions') < max_sessions)
  <2>1. CASE id \in DOMAIN sessions
    <3>1. Cardinality(DOMAIN sessions \ {id}) = Cardinality(DOMAIN sessions) - 1
      BY <2>1, DomainCounts, FS_RemoveElement
    <3> QED BY <1>1, <3>1, DomainCounts, BrowsersConstants DEF PoolInv
  <2>2. CASE id \notin DOMAIN sessions
    <3>1. DOMAIN sessions' = DOMAIN sessions
      BY <1>1, <2>2
    <3> QED BY <2>2, <3>1 DEF PoolInv
  <2> QED BY <2>1, <2>2
<1>4. \A i \in DOMAIN sessions : opened[sessions[i]].at = "over" /\ sessions[i] \in Calls \ leaked /\ sessions[i] # c
  BY <1>2 DEF PoolInv, BrowsersTyped
<1>5. \A b \in leaked : opened[b].at = "over" /\ b # c /\ b \in Calls
  BY DEF PoolInv, BrowsersTyped
<1>6. Browsers!None \notin Calls
  BY BrowsersConstants
<1>7. CallInv(c)'
  <2>1. Browsers!Under' \subseteq {c}
    BY <1>1, <1>2 DEF Browsers!Under
  <2>2. ~Registered(opened[c].of)' /\ opened'[c].of \notin leaked'
    BY <1>1, <1>4, <1>5, <1>6 DEF Registered, PoolInv
  <2>3. opened'[c].of # Browsers!None => Room'
    BY <1>1, <1>3 DEF Room
  <2> QED BY <1>1, <2>1, <2>2, <2>3 DEF CallInv
<1>8. ASSUME NEW d \in Calls \ {c} PROVE CallInv(d)'
  BY <1>1, <1>2, <1>8 DEF CallInv, Browsers!Under
<1>9. ASSUME NEW b \in Calls PROVE Accounted(b)'
  <2>1. b \in live <=> Registered(b) \/ b \in leaked
    BY <1>2 DEF PoolInv, Accounted
  <2>2. Registered(b) <=> Registered(b)' \/ opened'[c].of = b
    BY <1>1, <1>6 DEF Registered
  <2>3. \A d \in Calls : opened'[d].at = "discarding" <=> d = c
    BY <1>1, <1>2
  <2>4. opened'[b].at # "opening"
    BY <1>1, <1>2
  <2>5. live' = live /\ leaked' = leaked
    OBVIOUS
  <2> QED BY <2>1, <2>2, <2>3, <2>4, <2>5 DEF Accounted
<1>10. \A i, j \in DOMAIN sessions' : sessions'[i] = sessions'[j] => i = j
  BY <1>1 DEF PoolInv
<1>11. \A i \in DOMAIN sessions' : opened'[sessions'[i]].at \in {"using", "over"} /\ sessions'[i] \notin leaked'
  BY <1>1, <1>4
<1>12. \A b \in leaked' : opened'[b].at = "over"
  BY <1>1, <1>5
<1> QED BY <1>3, <1>7, <1>8, <1>9, <1>10, <1>11, <1>12 DEF PoolInv

\* A call moves on and the pool stays as it is.
LEMMA CallMoves ==
    ASSUME BrowsersTyped, NEW c \in Calls, NEW r \in CallRecords, opened' = [opened EXCEPT ![c] = r],
           r.at \in {"reaping", "evicting", "launching", "opening", "using"} => r.id \in SessionIds,
           UNCHANGED <<sessions, last_used, idle>>, live' \subseteq Calls, leaked' \subseteq Calls,
           faults' \in 0 .. MaxFaults, crowded' \in BOOLEAN
    PROVE  BrowsersTyped' /\ opened'[c] = r /\ \A d \in Calls \ {c} : opened'[d] = opened[d]
<1>1. opened \in [Calls -> CallRecords]
  BY DEF BrowsersTyped, CallRecords
<1>2. opened' \in [Calls -> CallRecords] /\ opened'[c] = r /\ \A d \in Calls \ {c} : opened'[d] = opened[d]
  BY <1>1
<1>3. \A d \in Calls : opened'[d].at \in {"reaping", "evicting", "launching", "opening", "using"} => opened'[d].id \in SessionIds
  BY <1>2 DEF BrowsersTyped
<1>4. Browsers!IsInjective(last_used)' /\ Browsers!ToSet(last_used)' = (DOMAIN sessions)'
  BY PoolOperators DEF BrowsersTyped
<1>5. /\ (DOMAIN sessions \subseteq SessionIds)' /\ (\A i \in DOMAIN sessions : sessions[i] \in Calls)'
      /\ last_used' \in Seq(SessionIds) /\ (idle \subseteq DOMAIN sessions)'
  BY DEF BrowsersTyped
<1> QED BY <1>2, <1>3, <1>4, <1>5 DEF BrowsersTyped, CallRecords

\* A call that is at the pool is alone there.
LEMMA Alone ==
    ASSUME BrowsersTyped, PoolInv, NEW c \in Calls, opened[c].at \notin {"new", "over"}
    PROVE  /\ \A d \in Calls \ {c} : opened[d].at \in {"new", "over"}
           /\ Browsers!Under \subseteq {c}
           /\ opened[c].at # "failed"
  BY DEF Browsers!Under, PoolInv, CallInv, BrowsersTyped, Places

\* What _discard leaves of the types.
LEMMA DiscardTyped ==
    ASSUME BrowsersTyped, NEW c \in Calls, NEW id \in SessionIds, NEW then \in CallRecords,
           Browsers!_discard(c, id, then), UNCHANGED <<live, leaked, faults>>, crowded' \in BOOLEAN
    PROVE  BrowsersTyped'
<1>1. /\ last_used' \in Seq(SessionIds) /\ Browsers!IsInjective(last_used')
      /\ Browsers!ToSet(last_used') = DOMAIN sessions'
      /\ DOMAIN sessions' = DOMAIN sessions \ {id}
      /\ \A i \in DOMAIN sessions' : sessions'[i] = sessions[i]
      /\ idle' \subseteq DOMAIN sessions'
      /\ opened' \in [Calls -> CallRecords]
      /\ \A d \in Calls \ {c} : opened'[d] = opened[d]
      /\ opened'[c].at = "discarding"
  BY Discarded
<1>2. (DOMAIN sessions \subseteq SessionIds)' /\ (\A i \in DOMAIN sessions : sessions[i] \in Calls)'
  BY <1>1 DEF BrowsersTyped
<1>3. \A d \in Calls : opened'[d].at \in {"reaping", "evicting", "launching", "opening", "using"} => opened'[d].id \in SessionIds
  BY <1>1 DEF BrowsersTyped
<1>4. live' \subseteq Calls /\ leaked' \subseteq Calls /\ faults' \in 0 .. MaxFaults
  BY DEF BrowsersTyped
<1>5. Browsers!IsInjective(last_used)' /\ Browsers!ToSet(last_used)' = (DOMAIN sessions)'
  BY <1>1, PoolOperators
<1> QED BY <1>1, <1>2, <1>3, <1>4, <1>5 DEF BrowsersTyped, CallRecords

\* A call that moves on, the pool being as it was, keeps what holds of the pool.
LEMMA MoveKeepsPool ==
    ASSUME BrowsersTyped, PoolInv, NEW c \in Calls, \A d \in Calls \ {c} : opened[d].at \in {"new", "over"},
           \A d \in Calls \ {c} : opened'[d] = opened[d], UNCHANGED <<sessions, live, leaked>>,
           opened[c].at \notin {"discarding", "opening"}, opened'[c].at \notin {"discarding", "opening"},
           opened'[c].at \in {"using", "over"} \/ opened[c].at \notin {"using", "over"},
           opened'[c].at = "over" \/ opened[c].at # "over", CallInv(c)'
    PROVE  PoolInv'
<1>1. ASSUME NEW d \in Calls \ {c} PROVE CallInv(d)'
  BY <1>1 DEF CallInv, Browsers!Under
<1>2. ASSUME NEW b \in Calls PROVE Accounted(b)'
  <2>1. b \in live <=> Registered(b) \/ b \in leaked
    BY DEF PoolInv, Accounted
  <2>2. Registered(b)' <=> Registered(b)
    BY DEF Registered
  <2>3. \A d \in Calls : opened'[d].at \notin {"discarding", "opening"}
    OBVIOUS
  <2> QED BY <2>1, <2>2, <2>3 DEF Accounted
<1>3. ASSUME NEW i \in DOMAIN sessions' PROVE opened'[sessions'[i]].at \in {"using", "over"} /\ sessions'[i] \notin leaked'
  BY <1>3 DEF PoolInv, BrowsersTyped
<1>4. ASSUME NEW b \in leaked' PROVE opened'[b].at = "over"
  BY <1>4 DEF PoolInv, BrowsersTyped
<1>5. /\ (\A i, j \in DOMAIN sessions : sessions[i] = sessions[j] => i = j)'
      /\ (Cardinality(DOMAIN sessions) <= max_sessions)'
  BY DEF PoolInv
<1> QED BY <1>1, <1>2, <1>3, <1>4, <1>5 DEF PoolInv

LEMMA ReapStep == ASSUME BrowsersInv, NEW c \in Calls, Browsers!reap_idle(c) PROVE BrowsersInv'
<1>0. BrowsersTyped /\ opened[c].at = "reaping" /\ opened[c] \in CallRecords /\ opened[c].id \in SessionIds
  BY DEF BrowsersInv, BrowsersTyped, CallRecords, Browsers!reap_idle
<1>1. CASE opened[c].stale = {}
  <2>1. PICK r : r = [opened[c] EXCEPT !.at = "evicting"]
    OBVIOUS
  <2>2. r \in CallRecords /\ r.at = "evicting" /\ r.id = opened[c].id
    BY <1>0, <2>1 DEF CallRecords, Places
  <2>3. /\ opened' = [opened EXCEPT ![c] = r]
        /\ UNCHANGED <<sessions, last_used, idle, live, leaked, faults, crowded>>
    BY <1>1, <2>1 DEF Browsers!reap_idle
  <2>4. BrowsersTyped' /\ opened'[c] = r /\ \A d \in Calls \ {c} : opened'[d] = opened[d]
    <3>1. live' \subseteq Calls /\ leaked' \subseteq Calls /\ faults' \in 0 .. MaxFaults /\ crowded' \in BOOLEAN
      BY <1>0, <2>3 DEF BrowsersTyped
    <3> QED BY <1>0, <2>2, <2>3, <3>1, CallMoves
  <2>5. ASSUME PoolInv PROVE PoolInv'
    <3>1. \A d \in Calls \ {c} : opened[d].at \in {"new", "over"}
      BY <1>0, <2>5, Alone
    <3>2. CallInv(c)'
      BY <1>0, <2>2, <2>3, <2>4, <2>5, <3>1 DEF PoolInv, CallInv, Browsers!Under
    <3> QED BY <1>0, <2>2, <2>3, <2>4, <2>5, <3>1, <3>2, MoveKeepsPool
  <2> QED BY <2>3, <2>4, <2>5 DEF BrowsersInv
<1>2. CASE opened[c].stale # {}
  <2>1. PICK id \in opened[c].stale : Browsers!_discard(c, id, [opened[c] EXCEPT !.stale = @ \ {id}])
    BY <1>2 DEF Browsers!reap_idle
  <2>2. PICK r : r = [opened[c] EXCEPT !.stale = @ \ {id}]
    OBVIOUS
  <2>3. r \in CallRecords /\ r.id = opened[c].id /\ id \in SessionIds
    BY <1>0, <2>2 DEF CallRecords
  <2>4. Browsers!_discard(c, id, r) /\ UNCHANGED <<live, leaked, faults, crowded>>
    BY <2>1, <2>2 DEF Browsers!reap_idle
  <2>5. BrowsersTyped'
    BY <1>0, <2>3, <2>4, DiscardTyped DEF BrowsersTyped
  <2>6. ASSUME PoolInv PROVE PoolInv'
    <3>1. Browsers!Under \subseteq {c}
      BY <1>0, <2>6, Alone
    <3>2. r.id \notin DOMAIN sessions
      BY <1>0, <2>3, <2>6 DEF PoolInv, CallInv
    <3> QED BY <1>0, <2>3, <2>4, <2>6, <3>1, <3>2, DiscardKeepsPool
  <2> QED BY <2>4, <2>5, <2>6 DEF BrowsersInv
<1> QED BY <1>1, <1>2

LEMMA EvictStep == ASSUME BrowsersInv, NEW c \in Calls, Browsers!_evict_lru(c) PROVE BrowsersInv'
<1>1. /\ BrowsersTyped /\ opened[c].at = "evicting" /\ opened[c] \in CallRecords /\ opened[c].id \in SessionIds
      /\ last_used \in Seq(SessionIds) /\ last_used # << >>
  BY DEF BrowsersInv, BrowsersTyped, CallRecords, Browsers!_evict_lru
<1>2. Head(last_used) \in SessionIds
  BY <1>1, HeadTailProperties
<1>3. Browsers!_discard(c, Head(last_used), opened[c]) /\ UNCHANGED <<live, leaked, faults, crowded>>
  BY DEF Browsers!_evict_lru
<1>4. BrowsersTyped'
  BY <1>1, <1>2, <1>3, DiscardTyped DEF BrowsersTyped
<1>5. ASSUME PoolInv PROVE PoolInv'
  <2>1. Browsers!Under \subseteq {c}
    BY <1>1, <1>5, Alone
  <2>2. opened[c].id \notin DOMAIN sessions
    BY <1>1, <1>5 DEF PoolInv, CallInv
  <2> QED BY <1>1, <1>2, <1>3, <1>5, <2>1, <2>2, DiscardKeepsPool
<1> QED BY <1>3, <1>4, <1>5 DEF BrowsersInv

LEMMA StartStep == ASSUME BrowsersInv, NEW c \in Calls, Browsers!start(c) PROVE BrowsersInv'
<1>1. BrowsersTyped /\ opened[c].at = "evicting" /\ opened[c] \in CallRecords /\ opened[c].id \in SessionIds
  BY DEF BrowsersInv, BrowsersTyped, CallRecords, Browsers!start
<1>2. PICK r : r = [opened[c] EXCEPT !.at = "launching"]
  OBVIOUS
<1>3. r \in CallRecords /\ r.at = "launching" /\ r.id = opened[c].id
  BY <1>1, <1>2 DEF CallRecords, Places
<1>4. opened' = [opened EXCEPT ![c] = r] /\ UNCHANGED <<sessions, last_used, idle, live, leaked, faults, crowded>>
  BY <1>2 DEF Browsers!start
<1>5. BrowsersTyped' /\ opened'[c] = r /\ \A d \in Calls \ {c} : opened'[d] = opened[d]
  <2>1. live' \subseteq Calls /\ leaked' \subseteq Calls /\ faults' \in 0 .. MaxFaults /\ crowded' \in BOOLEAN
    BY <1>1, <1>4 DEF BrowsersTyped
  <2> QED BY <1>1, <1>3, <1>4, <2>1, CallMoves
<1>6. Room
  <2>1. CASE ~Browsers!Full
    <3>1. Browsers!Cardinality(DOMAIN sessions) = Cardinality(DOMAIN sessions)
      BY PoolOperators
    <3>2. ~(Cardinality(DOMAIN sessions) >= max_sessions)
      BY <2>1, <3>1 DEF Browsers!Full
    <3> QED BY <1>1, <3>2, DomainCounts, BrowsersConstants DEF Room
  <2>2. CASE last_used = << >>
    <3>1. DOMAIN sessions = {}
      <4>1. DOMAIN last_used = {} /\ DOMAIN sessions = Browsers!ToSet(last_used)
        BY <1>1, <2>2 DEF BrowsersTyped
      <4>2. Browsers!ToSet(last_used) = {last_used[i] : i \in DOMAIN last_used}
        BY PoolOperators
      <4> QED BY <4>1, <4>2
    <3>2. Cardinality(DOMAIN sessions) = 0
      BY <3>1, FS_EmptySet
    <3> QED BY <3>2, BrowsersConstants DEF Room
  <2> QED BY <2>1, <2>2 DEF Browsers!start
<1>7. ASSUME PoolInv PROVE PoolInv'
  <2>1. \A d \in Calls \ {c} : opened[d].at \in {"new", "over"}
    BY <1>1, <1>7, Alone
  <2>2. CallInv(c)'
    BY <1>1, <1>3, <1>4, <1>5, <1>6, <1>7, <2>1 DEF PoolInv, CallInv, Browsers!Under, Room
  <2> QED BY <1>1, <1>3, <1>4, <1>5, <1>7, <2>1, <2>2, MoveKeepsPool
<1> QED BY <1>4, <1>5, <1>7 DEF BrowsersInv

\* A browser that was being closed ends, and nothing else is known of it.
LEMMA EndKeepsPool ==
    ASSUME BrowsersTyped, PoolInv, NEW c \in Calls, opened[c].at = "discarding",
           live' = live \ {opened[c].of}, UNCHANGED <<sessions, leaked>>,
           \A d \in Calls \ {c} : opened'[d] = opened[d],
           opened'[c].at \in {"over", "reaping", "evicting"}, opened'[c].id = opened[c].id
    PROVE  PoolInv'
<1>1. \A d \in Calls \ {c} : opened[d].at \in {"new", "over"}
  BY Alone
<1>2. ~Registered(opened[c].of) /\ opened[c].of \notin leaked /\ opened[c].id \notin DOMAIN sessions
  BY DEF PoolInv, CallInv
<1>3. CallInv(c)'
  BY <1>1, <1>2 DEF CallInv, Browsers!Under
<1>4. ASSUME NEW d \in Calls \ {c} PROVE CallInv(d)'
  BY <1>1, <1>4 DEF CallInv, Browsers!Under
<1>5. ASSUME NEW b \in Calls PROVE Accounted(b)'
  <2>1. b \in live <=> Registered(b) \/ b \in leaked \/ opened[c].of = b
    BY <1>1 DEF PoolInv, Accounted
  <2>2. Registered(b)' <=> Registered(b)
    BY DEF Registered
  <2>3. \A d \in Calls : opened'[d].at \notin {"discarding", "opening"}
    BY <1>1
  <2>4. b \in live' <=> Registered(b) \/ b \in leaked
    BY <1>2, <2>1
  <2> QED BY <2>2, <2>3, <2>4 DEF Accounted
<1>6. ASSUME NEW i \in DOMAIN sessions' PROVE opened'[sessions'[i]].at \in {"using", "over"} /\ sessions'[i] \notin leaked'
  BY <1>6 DEF PoolInv, BrowsersTyped
<1>7. ASSUME NEW b \in leaked' PROVE opened'[b].at = "over"
  BY <1>7 DEF PoolInv, BrowsersTyped
<1>8. /\ (\A i, j \in DOMAIN sessions : sessions[i] = sessions[j] => i = j)'
      /\ (Cardinality(DOMAIN sessions) <= max_sessions)'
  BY DEF PoolInv
<1> QED BY <1>3, <1>4, <1>5, <1>6, <1>7, <1>8 DEF PoolInv

LEMMA ClosedStep == ASSUME BrowsersInv, NEW c \in Calls, Browsers!Closed(c) PROVE BrowsersInv'
<1>1. BrowsersTyped /\ opened[c].at = "discarding" /\ opened[c] \in CallRecords /\ opened \in [Calls -> CallRecords]
  BY DEF BrowsersInv, BrowsersTyped, CallRecords, Browsers!Closed
<1>2. PICK a : a = IF opened[c].id = Browsers!None THEN "over" ELSE IF opened[c].stale # {} THEN "reaping" ELSE "evicting"
  OBVIOUS
<1>3. PICK r : r = [opened[c] EXCEPT !.of = Browsers!None, !.at = a]
  OBVIOUS
<1>4. r \in CallRecords /\ r.at = a /\ r.id = opened[c].id
  BY <1>1, <1>2, <1>3 DEF CallRecords, Places
<1>5. a \in {"over", "reaping", "evicting"} /\ (a # "over" => r.id \in SessionIds)
  BY <1>1, <1>2, <1>4 DEF CallRecords
<1>6. opened' = [opened EXCEPT ![c] = r]
  BY <1>1, <1>2, <1>3 DEF Browsers!Closed
<1>7. live' = live \ {opened[c].of} /\ UNCHANGED <<sessions, last_used, idle, leaked, faults, crowded>>
  BY DEF Browsers!Closed
<1>8. BrowsersTyped' /\ opened'[c] = r /\ \A d \in Calls \ {c} : opened'[d] = opened[d]
  <2>1. live' \subseteq Calls /\ leaked' \subseteq Calls /\ faults' \in 0 .. MaxFaults /\ crowded' \in BOOLEAN
    BY <1>1, <1>7 DEF BrowsersTyped
  <2>2. r.at \in {"reaping", "evicting", "launching", "opening", "using"} => r.id \in SessionIds
    BY <1>4, <1>5
  <2> QED BY <1>1, <1>4, <1>6, <1>7, <2>1, <2>2, CallMoves
<1>9. PoolInv => PoolInv'
  BY <1>1, <1>4, <1>5, <1>7, <1>8, EndKeepsPool
<1> QED BY <1>7, <1>8, <1>9 DEF BrowsersInv

LEMMA LaunchedStep == ASSUME BrowsersInv, NEW c \in Calls, Browsers!Launched(c) PROVE BrowsersInv'
<1>1. BrowsersTyped /\ opened[c].at = "launching" /\ opened[c] \in CallRecords /\ opened[c].id \in SessionIds
  BY DEF BrowsersInv, BrowsersTyped, CallRecords, Browsers!Launched
<1>2. PICK r : r = [opened[c] EXCEPT !.at = "opening"]
  OBVIOUS
<1>3. r \in CallRecords /\ r.at = "opening" /\ r.id = opened[c].id
  BY <1>1, <1>2 DEF CallRecords, Places
<1>4. /\ opened' = [opened EXCEPT ![c] = r] /\ live' = live \cup {c}
      /\ UNCHANGED <<sessions, last_used, idle, leaked, faults, crowded>>
  BY <1>2 DEF Browsers!Launched
<1>5. BrowsersTyped' /\ opened'[c] = r /\ \A d \in Calls \ {c} : opened'[d] = opened[d]
  <2>1. live' \subseteq Calls /\ leaked' \subseteq Calls /\ faults' \in 0 .. MaxFaults /\ crowded' \in BOOLEAN
    BY <1>1, <1>4 DEF BrowsersTyped
  <2> QED BY <1>1, <1>3, <1>4, <2>1, CallMoves
<1>6. ASSUME PoolInv PROVE PoolInv'
  <2>1. \A d \in Calls \ {c} : opened[d].at \in {"new", "over"}
    BY <1>1, <1>6, Alone
  <2>2. CallInv(c)'
    BY <1>1, <1>3, <1>4, <1>5, <1>6, <2>1 DEF PoolInv, CallInv, Browsers!Under, Room
  <2>3. ASSUME NEW d \in Calls \ {c} PROVE CallInv(d)'
    BY <1>5, <2>1, <2>3 DEF CallInv, Browsers!Under
  <2>4. ASSUME NEW b \in Calls PROVE Accounted(b)'
    <3>1. b \in live <=> Registered(b) \/ b \in leaked
      BY <1>1, <1>6, <2>1 DEF PoolInv, Accounted
    <3>2. (Registered(b)' <=> Registered(b)) /\ (b \in live' <=> b \in live \/ b = c) /\ leaked' = leaked
      BY <1>4 DEF Registered
    <3>3. \A d \in Calls : opened'[d].at # "discarding" /\ (opened'[d].at = "opening" <=> d = c)
      BY <1>3, <1>5, <2>1
    <3> QED BY <3>1, <3>2, <3>3 DEF Accounted
  <2>5. ASSUME NEW i \in DOMAIN sessions' PROVE opened'[sessions'[i]].at \in {"using", "over"} /\ sessions'[i] \notin leaked'
    BY <1>1, <1>4, <1>5, <1>6, <2>5 DEF PoolInv, BrowsersTyped
  <2>6. ASSUME NEW b \in leaked' PROVE opened'[b].at = "over"
    BY <1>1, <1>4, <1>5, <1>6, <2>6 DEF PoolInv, BrowsersTyped
  <2>7. /\ (\A i, j \in DOMAIN sessions : sessions[i] = sessions[j] => i = j)'
        /\ (Cardinality(DOMAIN sessions) <= max_sessions)'
    BY <1>4, <1>6 DEF PoolInv
  <2> QED BY <2>2, <2>3, <2>4, <2>5, <2>6, <2>7 DEF PoolInv
<1> QED BY <1>4, <1>5, <1>6 DEF BrowsersInv

LEMMA OpenedStep == ASSUME BrowsersInv, NEW c \in Calls, Browsers!Opened(c) PROVE BrowsersInv'
<1>1. BrowsersTyped /\ opened[c].at = "opening" /\ opened[c] \in CallRecords /\ opened[c].id \in SessionIds
  BY DEF BrowsersInv, BrowsersTyped, CallRecords, Browsers!Opened
<1>2. PICK id : id = opened[c].id
  OBVIOUS
<1>3. PICK r : r = [opened[c] EXCEPT !.at = "using", !.of = c]
  OBVIOUS
<1>4. r \in CallRecords /\ r.at = "using" /\ r.id = id /\ r.of = c
  BY <1>1, <1>2, <1>3 DEF CallRecords, Places
<1>5. /\ sessions' = [i \in DOMAIN sessions \cup {id} |-> IF i = id THEN c ELSE sessions[i]]
      /\ last_used' = Browsers!_touch(id) /\ idle' = idle \ {id}
      /\ UNCHANGED <<live, leaked, faults, crowded>>
  BY <1>2 DEF Browsers!Opened
<1>6. opened' = [opened EXCEPT ![c] = r]
  BY <1>1, <1>3 DEF Browsers!Opened
<1>7. /\ DOMAIN sessions' = DOMAIN sessions \cup {id} /\ sessions'[id] = c
      /\ \A i \in DOMAIN sessions \ {id} : sessions'[i] = sessions[i]
  BY <1>5
<1>8. opened' \in [Calls -> CallRecords] /\ opened'[c] = r /\ \A d \in Calls \ {c} : opened'[d] = opened[d]
  <2>1. opened \in [Calls -> CallRecords]
    BY <1>1 DEF BrowsersTyped, CallRecords
  <2> QED BY <1>4, <1>6, <2>1
<1>9. BrowsersTyped'
  <2>1. /\ last_used' \in Seq(SessionIds) /\ Browsers!IsInjective(last_used)'
        /\ Browsers!ToSet(last_used)' = DOMAIN sessions \cup {id}
    <3>1. /\ Browsers!_touch(id) \in Seq(SessionIds) /\ Browsers!IsInjective(Browsers!_touch(id))
          /\ Browsers!ToSet(Browsers!_touch(id)) = DOMAIN sessions \cup {id}
      BY <1>1, <1>2, Touched
    <3> QED BY <1>5, <3>1, PoolOperators
  <2>2. (DOMAIN sessions \subseteq SessionIds)' /\ (\A i \in DOMAIN sessions : sessions[i] \in Calls)'
    BY <1>1, <1>2, <1>7 DEF BrowsersTyped
  <2>3. \A d \in Calls : opened'[d].at \in {"reaping", "evicting", "launching", "opening", "using"} => opened'[d].id \in SessionIds
    BY <1>1, <1>2, <1>4, <1>8 DEF BrowsersTyped
  <2>4. /\ (idle \subseteq DOMAIN sessions)' /\ live' \subseteq Calls /\ leaked' \subseteq Calls
        /\ faults' \in 0 .. MaxFaults /\ crowded' \in BOOLEAN
    BY <1>1, <1>5, <1>7 DEF BrowsersTyped
  <2> QED BY <1>7, <1>8, <2>1, <2>2, <2>3, <2>4 DEF BrowsersTyped, CallRecords
<1>10. ASSUME PoolInv PROVE PoolInv'
  <2>1. \A d \in Calls \ {c} : opened[d].at \in {"new", "over"}
    BY <1>1, <1>10, Alone
  <2>2. Room /\ id \notin DOMAIN sessions
    BY <1>1, <1>2, <1>10 DEF PoolInv, CallInv
  <2>3. \A i \in DOMAIN sessions : sessions'[i] = sessions[i] /\ sessions[i] # c
    BY <1>1, <1>7, <1>10, <2>2 DEF PoolInv
  <2>4. Cardinality(DOMAIN sessions') <= max_sessions
    <3>1. Cardinality(DOMAIN sessions \cup {id}) = Cardinality(DOMAIN sessions) + 1
      BY <1>1, <2>2, DomainCounts, FS_AddElement
    <3> QED BY <1>1, <1>7, <2>2, <3>1, DomainCounts, BrowsersConstants DEF Room
  <2>5. Registered(c)'
    BY <1>7 DEF Registered
  <2>6. CallInv(c)'
    BY <1>4, <1>8, <2>1, <2>5 DEF CallInv, Browsers!Under
  <2>7. ASSUME NEW d \in Calls \ {c} PROVE CallInv(d)'
    BY <1>8, <2>1, <2>7 DEF CallInv, Browsers!Under
  <2>8. ASSUME NEW b \in Calls PROVE Accounted(b)'
    <3>1. b \in live <=> Registered(b) \/ b \in leaked \/ b = c
      BY <1>1, <1>10, <2>1 DEF PoolInv, Accounted
    <3>2. Registered(b)' <=> Registered(b) \/ b = c
      BY <1>7, <2>2, <2>3 DEF Registered
    <3>3. \A d \in Calls : opened'[d].at \notin {"discarding", "opening"}
      BY <1>4, <1>8, <2>1
    <3> QED BY <1>5, <3>1, <3>2, <3>3 DEF Accounted
  <2>9. \A i, j \in DOMAIN sessions' : sessions'[i] = sessions'[j] => i = j
    BY <1>7, <1>10, <2>3 DEF PoolInv
  <2>10. ASSUME NEW i \in DOMAIN sessions' PROVE opened'[sessions'[i]].at \in {"using", "over"} /\ sessions'[i] \notin leaked'
    <3>1. CASE i = id
      <4>1. c \notin leaked
        BY <1>1, <1>10 DEF PoolInv
      <4> QED BY <1>4, <1>5, <1>7, <1>8, <3>1, <4>1
    <3>2. CASE i # id
      <4>1. i \in DOMAIN sessions /\ sessions'[i] = sessions[i] /\ sessions[i] \in Calls \ {c}
        BY <1>1, <1>7, <2>3, <2>10, <3>2 DEF BrowsersTyped
      <4> QED BY <1>5, <1>8, <1>10, <4>1 DEF PoolInv
    <3> QED BY <3>1, <3>2
  <2>11. ASSUME NEW b \in leaked' PROVE opened'[b].at = "over"
    BY <1>1, <1>5, <1>8, <1>10, <2>11 DEF PoolInv, BrowsersTyped
  <2> QED BY <2>4, <2>6, <2>7, <2>8, <2>9, <2>10, <2>11 DEF PoolInv
<1> QED BY <1>5, <1>9, <1>10 DEF BrowsersInv

LEMMA UsedStep == ASSUME BrowsersInv, NEW c \in Calls, Browsers!Used(c) PROVE BrowsersInv'
<1>1. BrowsersTyped /\ opened[c].at = "using" /\ opened[c] \in CallRecords
  BY DEF BrowsersInv, BrowsersTyped, CallRecords, Browsers!Used
<1>2. PICK a : a = IF Browsers!_require_page(opened[c].of) THEN "over" ELSE "failed"
  OBVIOUS
<1>3. PICK r : r = [opened[c] EXCEPT !.at = a]
  OBVIOUS
<1>4. r \in CallRecords /\ r.at = a /\ a \in {"over", "failed"}
  BY <1>1, <1>2, <1>3 DEF CallRecords, Places
<1>5. opened' = [opened EXCEPT ![c] = r] /\ UNCHANGED <<sessions, last_used, idle, live, leaked, faults, crowded>>
  BY <1>2, <1>3 DEF Browsers!Used
<1>6. BrowsersTyped' /\ opened'[c] = r /\ \A d \in Calls \ {c} : opened'[d] = opened[d]
  <2>1. live' \subseteq Calls /\ leaked' \subseteq Calls /\ faults' \in 0 .. MaxFaults /\ crowded' \in BOOLEAN
    BY <1>1, <1>5 DEF BrowsersTyped
  <2>2. r.at \in {"reaping", "evicting", "launching", "opening", "using"} => r.id \in SessionIds
    BY <1>4
  <2> QED BY <1>1, <1>4, <1>5, <2>1, <2>2, CallMoves
<1>7. ASSUME PoolInv PROVE PoolInv'
  <2>1. \A d \in Calls \ {c} : opened[d].at \in {"new", "over"}
    BY <1>1, <1>7, Alone
  <2>2. Registered(opened[c].of) /\ opened[c].of \in Calls
    BY <1>1, <1>7 DEF PoolInv, CallInv, Registered, BrowsersTyped
  <2>3. opened[c].of \in live
    BY <1>7, <2>2 DEF PoolInv, Accounted
  <2>4. r.at = "over"
    BY <1>2, <1>4, <2>3 DEF Browsers!_require_page
  <2>5. CallInv(c)'
    BY <1>6, <2>4 DEF CallInv, Browsers!Under
  <2> QED BY <1>1, <1>5, <1>6, <1>7, <2>1, <2>4, <2>5, MoveKeepsPool
<1> QED BY <1>5, <1>6, <1>7 DEF BrowsersInv

LEMMA FailsStep == ASSUME BrowsersInv, NEW c \in Calls, Browsers!Fails(c) PROVE BrowsersInv'
<1>1. BrowsersTyped /\ opened[c].at \in {"launching", "opening"} /\ opened[c] \in CallRecords
  BY DEF BrowsersInv, BrowsersTyped, CallRecords, Browsers!Fails
<1>2. PICK r : r = [opened[c] EXCEPT !.at = "over"]
  OBVIOUS
<1>3. r \in CallRecords /\ r.at = "over"
  BY <1>1, <1>2 DEF CallRecords, Places
<1>4. /\ opened' = [opened EXCEPT ![c] = r] /\ UNCHANGED <<sessions, last_used, idle, live, crowded>>
      /\ faults' = faults + 1 /\ faults < MaxFaults
      /\ leaked' = IF opened[c].at = "opening" THEN leaked \cup {c} ELSE leaked
  BY <1>2 DEF Browsers!Fails
<1>5. BrowsersTyped' /\ opened'[c] = r /\ \A d \in Calls \ {c} : opened'[d] = opened[d]
  <2>1. live' \subseteq Calls /\ leaked' \subseteq Calls /\ crowded' \in BOOLEAN
    BY <1>1, <1>4 DEF BrowsersTyped
  <2>2. faults' \in 0 .. MaxFaults
    BY <1>1, <1>4, BrowsersConstants DEF BrowsersTyped
  <2> QED BY <1>1, <1>3, <1>4, <2>1, <2>2, CallMoves
<1>6. ASSUME PoolInv PROVE PoolInv'
  <2>1. \A d \in Calls \ {c} : opened[d].at \in {"new", "over"}
    BY <1>1, <1>6, Alone
  <2>2. CallInv(c)'
    BY <1>3, <1>5 DEF CallInv, Browsers!Under
  <2>3. ASSUME NEW d \in Calls \ {c} PROVE CallInv(d)'
    BY <1>5, <2>1, <2>3 DEF CallInv, Browsers!Under
  <2>4. \A i \in DOMAIN sessions : sessions[i] # c /\ sessions[i] \in Calls
    BY <1>1, <1>6 DEF PoolInv, BrowsersTyped
  <2>5. ASSUME NEW b \in Calls PROVE Accounted(b)'
    <3>1. b \in live <=> Registered(b) \/ b \in leaked \/ (opened[c].at = "opening" /\ b = c)
      BY <1>1, <1>6, <2>1 DEF PoolInv, Accounted
    <3>2. Registered(b)' <=> Registered(b)
      BY <1>4 DEF Registered
    <3>3. \A d \in Calls : opened'[d].at \notin {"discarding", "opening"}
      BY <1>3, <1>5, <2>1
    <3>4. b \in leaked' <=> b \in leaked \/ (opened[c].at = "opening" /\ b = c)
      BY <1>4
    <3> QED BY <1>4, <3>1, <3>2, <3>3, <3>4 DEF Accounted
  <2>6. ASSUME NEW i \in DOMAIN sessions' PROVE opened'[sessions'[i]].at \in {"using", "over"} /\ sessions'[i] \notin leaked'
    BY <1>4, <1>5, <1>6, <2>4, <2>6 DEF PoolInv
  <2>7. ASSUME NEW b \in leaked' PROVE opened'[b].at = "over"
    BY <1>1, <1>3, <1>4, <1>5, <1>6, <2>7 DEF PoolInv, BrowsersTyped
  <2>8. /\ (\A i, j \in DOMAIN sessions : sessions[i] = sessions[j] => i = j)'
        /\ (Cardinality(DOMAIN sessions) <= max_sessions)'
    BY <1>4, <1>6 DEF PoolInv
  <2> QED BY <2>2, <2>3, <2>5, <2>6, <2>7, <2>8 DEF PoolInv
<1> QED BY <1>4, <1>5, <1>6 DEF BrowsersInv

LEMMA TimesOutStep == ASSUME BrowsersInv, NEW c \in Calls, Browsers!TimesOut(c) PROVE BrowsersInv'
<1>1. BrowsersTyped /\ opened[c].at \in {"discarding", "using"} /\ opened[c] \in CallRecords
  BY DEF BrowsersInv, BrowsersTyped, CallRecords, Browsers!TimesOut
<1>2. PICK r : r = [opened[c] EXCEPT !.at = "over"]
  OBVIOUS
<1>3. r \in CallRecords /\ r.at = "over" /\ r.id = opened[c].id
  BY <1>1, <1>2 DEF CallRecords, Places
<1>4. /\ opened' = [opened EXCEPT ![c] = r] /\ UNCHANGED <<sessions, last_used, idle, leaked, crowded>>
      /\ faults' = faults + 1 /\ faults < MaxFaults
      /\ live' = IF opened[c].at = "discarding" THEN live \ {opened[c].of} ELSE live
  BY <1>2 DEF Browsers!TimesOut
<1>5. BrowsersTyped' /\ opened'[c] = r /\ \A d \in Calls \ {c} : opened'[d] = opened[d]
  <2>1. live' \subseteq Calls /\ leaked' \subseteq Calls /\ crowded' \in BOOLEAN
    BY <1>1, <1>4 DEF BrowsersTyped
  <2>2. faults' \in 0 .. MaxFaults
    BY <1>1, <1>4, BrowsersConstants DEF BrowsersTyped
  <2> QED BY <1>1, <1>3, <1>4, <2>1, <2>2, CallMoves
<1>6. ASSUME PoolInv PROVE PoolInv'
  <2>1. CASE opened[c].at = "discarding"
    BY <1>1, <1>3, <1>4, <1>5, <1>6, <2>1, EndKeepsPool
  <2>2. CASE opened[c].at = "using"
    <3>1. \A d \in Calls \ {c} : opened[d].at \in {"new", "over"}
      BY <1>1, <1>6, Alone
    <3>2. CallInv(c)'
      BY <1>3, <1>5 DEF CallInv, Browsers!Under
    <3>3. live' = live
      BY <1>4, <2>2
    <3> QED BY <1>1, <1>3, <1>4, <1>5, <1>6, <2>2, <3>1, <3>2, <3>3, MoveKeepsPool
  <2> QED BY <1>1, <2>1, <2>2
<1> QED BY <1>4, <1>5, <1>6 DEF BrowsersInv

LEMMA LookStep ==
    ASSUME BrowsersInv, NEW c \in Calls, NEW id \in SessionIds, Browsers!get_or_create(c, id) PROVE BrowsersInv'
<1>1. BrowsersTyped /\ opened[c].at = "new" /\ opened \in [Calls -> CallRecords]
  BY DEF BrowsersInv, BrowsersTyped, CallRecords, Browsers!get_or_create
<1>2. UNCHANGED <<sessions, live, faults, leaked>> /\ crowded' = (crowded \/ Browsers!Under # {})
  BY DEF Browsers!get_or_create
<1>3. live' \subseteq Calls /\ leaked' \subseteq Calls /\ faults' \in 0 .. MaxFaults /\ crowded' \in BOOLEAN
  BY <1>1, <1>2 DEF BrowsersTyped
<1>4. ASSUME ~crowded' PROVE ~crowded /\ \A d \in Calls : opened[d].at \in {"new", "over"}
  <2>1. ~crowded /\ Browsers!Under = {}
    BY <1>2, <1>4
  <2> QED BY <1>1, <2>1 DEF BrowsersInv, PoolInv, CallInv, Browsers!Under
<1>5. Browsers!Fresh \in CallRecords
  BY DEF Browsers!Fresh, CallRecords, Places
<1>6. CASE id \in DOMAIN sessions
  <2>1. PICK r : r = [Browsers!Fresh EXCEPT !.at = "using", !.id = id, !.of = sessions[id]]
    OBVIOUS
  <2>2. sessions[id] \in Calls
    BY <1>1, <1>6 DEF BrowsersTyped
  <2>3. r \in CallRecords /\ r.at = "using" /\ r.id = id /\ r.of = sessions[id]
    BY <2>1, <2>2 DEF Browsers!Fresh, CallRecords, Places
  <2>4. opened' = [opened EXCEPT ![c] = r] /\ last_used' = Browsers!_touch(id) /\ idle' = idle \ {id}
    BY <1>6, <2>1 DEF Browsers!get_or_create
  <2>5. opened' \in [Calls -> CallRecords] /\ opened'[c] = r /\ \A d \in Calls \ {c} : opened'[d] = opened[d]
    BY <1>1, <2>3, <2>4
  <2>6. BrowsersTyped'
    <3>1. last_used' \in Seq(SessionIds) /\ Browsers!IsInjective(last_used)' /\ Browsers!ToSet(last_used)' = (DOMAIN sessions)'
      <4>1. /\ Browsers!_touch(id) \in Seq(SessionIds) /\ Browsers!IsInjective(Browsers!_touch(id))
            /\ Browsers!ToSet(Browsers!_touch(id)) = DOMAIN sessions \cup {id}
        BY <1>1, Touched
      <4>2. DOMAIN sessions \cup {id} = DOMAIN sessions
        BY <1>6
      <4> QED BY <1>2, <2>4, <4>1, <4>2, PoolOperators
    <3>2. \A d \in Calls : opened'[d].at \in {"reaping", "evicting", "launching", "opening", "using"} => opened'[d].id \in SessionIds
      BY <1>1, <2>3, <2>5 DEF BrowsersTyped
    <3>3. (DOMAIN sessions \subseteq SessionIds)' /\ (\A i \in DOMAIN sessions : sessions[i] \in Calls)' /\ (idle \subseteq DOMAIN sessions)'
      BY <1>1, <1>2, <2>4 DEF BrowsersTyped
    <3> QED BY <1>3, <2>5, <3>1, <3>2, <3>3 DEF BrowsersTyped, CallRecords
  <2>7. ASSUME PoolInv, \A d \in Calls : opened[d].at \in {"new", "over"} PROVE PoolInv'
    <3>1. \E i \in DOMAIN sessions' : sessions'[i] = opened'[c].of
      BY <1>2, <1>6, <2>3, <2>5
    <3>2. CallInv(c)'
      BY <2>3, <2>5, <2>7, <3>1 DEF CallInv, Browsers!Under, Registered
    <3> QED BY <1>1, <1>2, <2>3, <2>5, <2>7, <3>2, MoveKeepsPool
  <2> QED BY <1>4, <2>6, <2>7 DEF BrowsersInv
<1>7. CASE id \notin DOMAIN sessions
  <2>1. PICK r : r = [Browsers!Fresh EXCEPT !.at = "reaping", !.id = id, !.stale = idle]
    OBVIOUS
  <2>2. idle \subseteq SessionIds
    BY <1>1 DEF BrowsersTyped
  <2>3. r \in CallRecords /\ r.at = "reaping" /\ r.id = id
    BY <2>1, <2>2 DEF Browsers!Fresh, CallRecords, Places
  <2>4. opened' = [opened EXCEPT ![c] = r] /\ UNCHANGED <<last_used, idle>>
    BY <1>7, <2>1 DEF Browsers!get_or_create
  <2>5. BrowsersTyped' /\ opened'[c] = r /\ \A d \in Calls \ {c} : opened'[d] = opened[d]
    BY <1>1, <1>2, <1>3, <2>3, <2>4, CallMoves
  <2>6. ASSUME PoolInv, \A d \in Calls : opened[d].at \in {"new", "over"} PROVE PoolInv'
    <3>1. CallInv(c)'
      BY <1>2, <1>7, <2>3, <2>5, <2>6 DEF CallInv, Browsers!Under
    <3> QED BY <1>1, <1>2, <2>3, <2>5, <2>6, <3>1, MoveKeepsPool
  <2> QED BY <1>4, <2>5, <2>6 DEF BrowsersInv
<1> QED BY <1>6, <1>7

LEMMA CloseStep ==
    ASSUME BrowsersInv, NEW c \in Calls, NEW id \in SessionIds, Browsers!close(c, id) PROVE BrowsersInv'
<1>1. BrowsersTyped /\ opened[c].at = "new"
  BY DEF BrowsersInv, Browsers!close
<1>2. UNCHANGED <<live, faults, leaked>> /\ crowded' = (crowded \/ Browsers!Under # {}) /\ Browsers!_discard(c, id, Browsers!Fresh)
  BY DEF Browsers!close
<1>3. Browsers!Fresh \in CallRecords /\ Browsers!Fresh.id = Browsers!None
  BY DEF Browsers!Fresh, CallRecords, Places
<1>4. crowded' \in BOOLEAN
  BY <1>1, <1>2 DEF BrowsersTyped
<1>5. BrowsersTyped'
  BY <1>1, <1>2, <1>3, <1>4, DiscardTyped
<1>6. ASSUME ~crowded' PROVE PoolInv'
  <2>1. PoolInv /\ Browsers!Under = {}
    BY <1>2, <1>6 DEF BrowsersInv
  <2>2. Browsers!Fresh.id \notin DOMAIN sessions
    BY <1>1, <1>3, BrowsersConstants DEF BrowsersTyped
  <2> QED BY <1>1, <1>2, <1>3, <2>1, <2>2, DiscardKeepsPool
<1> QED BY <1>5, <1>6 DEF BrowsersInv

\* Time passes, or nothing does.
LEMMA TimeStep ==
    ASSUME BrowsersInv, UNCHANGED <<sessions, last_used, live, opened, faults, crowded, leaked>>, idle' \in {idle, DOMAIN sessions}
    PROVE  BrowsersInv'
<1>1. UNCHANGED <<sessions, last_used, live, opened, faults, crowded, leaked>> /\ idle' \in {idle, DOMAIN sessions}
  OBVIOUS
<1>2. Browsers!IsInjective(last_used)' /\ Browsers!ToSet(last_used)' = (DOMAIN sessions)'
  BY <1>1, PoolOperators DEF BrowsersInv, BrowsersTyped
<1>3. BrowsersTyped'
  BY <1>1, <1>2 DEF BrowsersInv, BrowsersTyped
<1>4. PoolInv => PoolInv'
  <2>1. Room' <=> Room
    BY <1>1 DEF Room
  <2>2. \A b : Registered(b)' <=> Registered(b)
    BY <1>1 DEF Registered
  <2>3. \A c \in Calls : CallInv(c) => CallInv(c)'
    BY <1>1, <2>1, <2>2 DEF CallInv, Browsers!Under
  <2>4. \A c \in Calls : Accounted(c) => Accounted(c)'
    BY <1>1, <2>2 DEF Accounted
  <2> QED BY <1>1, <2>3, <2>4 DEF PoolInv
<1> QED BY <1>1, <1>3, <1>4 DEF BrowsersInv

LEMMA BrowsersStep == ASSUME BrowsersInv, Browsers!Next PROVE BrowsersInv'
<1>1. CASE Browsers!TimePasses
  <2>1. idle' = DOMAIN sessions /\ UNCHANGED <<sessions, last_used, live, opened, faults, crowded, leaked>>
    BY <1>1 DEF Browsers!TimePasses
  <2> QED BY <2>1, TimeStep
<1>2. ASSUME NEW c \in Calls, Browsers!reap_idle(c) \/ Browsers!_evict_lru(c) \/ Browsers!start(c) PROVE BrowsersInv'
  BY <1>2, ReapStep, EvictStep, StartStep
<1>3. ASSUME NEW c \in Calls, Browsers!Closed(c) \/ Browsers!Launched(c) \/ Browsers!Opened(c) \/ Browsers!Used(c) PROVE BrowsersInv'
  BY <1>3, ClosedStep, LaunchedStep, OpenedStep, UsedStep
<1>4. ASSUME NEW c \in Calls, Browsers!Fails(c) \/ Browsers!TimesOut(c) PROVE BrowsersInv'
  BY <1>4, FailsStep, TimesOutStep
<1>5. ASSUME NEW c \in Calls, NEW id \in SessionIds, Browsers!get_or_create(c, id) \/ Browsers!close(c, id) PROVE BrowsersInv'
  BY <1>5, LookStep, CloseStep
<1> QED BY <1>1, <1>2, <1>3, <1>4, <1>5 DEF Browsers!Next

LEMMA BrowsersInit == ASSUME Browsers!Init PROVE BrowsersInv
<1>1. \A c \in Calls : opened[c] = Browsers!Fresh
  BY DEF Browsers!Init
<1>2. /\ Browsers!Fresh \in CallRecords /\ Browsers!Fresh.at = "new"
  BY DEF Browsers!Fresh, CallRecords, Places
<1>3. DOMAIN sessions = {} /\ DOMAIN last_used = {} /\ live = {} /\ leaked = {} /\ idle = {}
  BY DEF Browsers!Init
<1>4. last_used \in Seq(SessionIds)
  BY EmptySeq DEF Browsers!Init
<1>5. Browsers!IsInjective(last_used) /\ Browsers!ToSet(last_used) = {}
  <2>1. Browsers!ToSet(last_used) = {last_used[i] : i \in DOMAIN last_used}
    BY PoolOperators
  <2>2. Browsers!IsInjective(last_used) <=> \A a, b \in DOMAIN last_used : last_used[a] = last_used[b] => a = b
    BY PoolOperators
  <2> QED BY <1>3, <2>1, <2>2
<1>6. opened \in [Calls -> CallRecords]
  BY <1>2 DEF Browsers!Init
<1>7. faults \in 0 .. MaxFaults /\ crowded \in BOOLEAN
  <2>1. faults = 0 /\ crowded = FALSE
    BY DEF Browsers!Init
  <2>2. 0 \in 0 .. MaxFaults
    BY BrowsersConstants
  <2> QED BY <2>1, <2>2
<1>8. BrowsersTyped
  BY <1>1, <1>2, <1>3, <1>4, <1>5, <1>6, <1>7 DEF BrowsersTyped, CallRecords
<1>9. Cardinality(DOMAIN sessions) <= max_sessions
  BY <1>3, FS_EmptySet, BrowsersConstants
<1>10. PoolInv
  BY <1>1, <1>2, <1>3, <1>9 DEF PoolInv, CallInv, Accounted, Registered, Browsers!Under
<1> QED BY <1>8, <1>10 DEF BrowsersInv

\* The list of the least recently used is as long as there are sessions.
LEMMA AsLongAsThePool == ASSUME BrowsersTyped PROVE Len(last_used) = Cardinality(DOMAIN sessions)
<1>1. Len(last_used) \in Nat /\ last_used \in [1 .. Len(last_used) -> SessionIds] /\ DOMAIN last_used = 1 .. Len(last_used)
  BY LenProperties DEF BrowsersTyped
<1>2. /\ {last_used[i] : i \in 1 .. Len(last_used)} = DOMAIN sessions
      /\ \A i, j \in 1 .. Len(last_used) : last_used[i] = last_used[j] => i = j
  BY <1>1, PoolOperators DEF BrowsersTyped
<1>3. last_used \in [1 .. Len(last_used) -> DOMAIN sessions]
  BY <1>1, <1>2
<1>4. last_used \in Bijection(1 .. Len(last_used), DOMAIN sessions)
  BY <1>1, <1>2, <1>3 DEF Bijection, Injection, Surjection, IsInjective
<1>5. ExistsBijection(1 .. Len(last_used), DOMAIN sessions)
  BY <1>4 DEF ExistsBijection
<1> QED BY <1>1, <1>5, FS_CountingElements

\* As many browsers are registered as there are names for them.
LEMMA AsManyAsNames ==
    ASSUME BrowsersTyped, \A i, j \in DOMAIN sessions : sessions[i] = sessions[j] => i = j
    PROVE  /\ IsFiniteSet({b \in Calls : Registered(b)})
           /\ Cardinality({b \in Calls : Registered(b)}) = Cardinality(DOMAIN sessions)
<1> DEFINE T == {b \in Calls : Registered(b)}
           f == [i \in DOMAIN sessions |-> sessions[i]]
<1>1. f \in [DOMAIN sessions -> T]
  BY DEF BrowsersTyped, Registered
<1>2. f \in Bijection(DOMAIN sessions, T)
  BY <1>1 DEF Bijection, Injection, Surjection, IsInjective, Registered
<1>3. ExistsBijection(DOMAIN sessions, T)
  BY <1>2 DEF ExistsBijection
<1>4. IsFiniteSet(DOMAIN sessions)
  BY DomainCounts
<1> QED BY <1>3, <1>4, FS_Bijection

LEMMA PoolStands == ASSUME BrowsersInv PROVE Browsers!TypeOK
<1>1. Browsers!Cardinality(DOMAIN sessions) = Cardinality(DOMAIN sessions)
  BY PoolOperators
<1>2. Len(last_used) = Browsers!Cardinality(DOMAIN sessions)
  BY <1>1, AsLongAsThePool DEF BrowsersInv
<1>3. opened \in [Calls -> CallRecords]
  BY DEF BrowsersInv, BrowsersTyped, CallRecords
<1> QED BY <1>2, <1>3 DEF BrowsersInv, BrowsersTyped, CallRecords, Places, Browsers!TypeOK

LEMMA CeilingStands == ASSUME BrowsersInv PROVE Browsers!CeilingHolds
<1> SUFFICES ASSUME BrowsersTyped, PoolInv PROVE Cardinality(live \ leaked) <= max_sessions
  BY PoolOperators DEF BrowsersInv, Browsers!CeilingHolds
<1> DEFINE T == {b \in Calls : Registered(b)}
<1>1. IsFiniteSet(T) /\ Cardinality(T) = Cardinality(DOMAIN sessions)
  BY AsManyAsNames DEF PoolInv
<1>2. Cardinality(DOMAIN sessions) \in Nat /\ max_sessions \in Nat
  BY DomainCounts, BrowsersConstants
<1>3. CASE \E c \in Calls : opened[c].at = "opening" \/ (opened[c].at = "discarding" /\ opened[c].of # Browsers!None)
  <2>1. PICK c \in Calls : opened[c].at = "opening" \/ (opened[c].at = "discarding" /\ opened[c].of # Browsers!None)
    BY <1>3
  <2>2. Room
    BY <2>1 DEF PoolInv, CallInv
  <2>3. \A d \in Calls \ {c} : opened[d].at \in {"new", "over"}
    BY <2>1, Alone
  <2>4. PICK x : x = IF opened[c].at = "opening" THEN c ELSE opened[c].of
    OBVIOUS
  <2>5. live \ leaked \subseteq T \cup {x}
    <3>1. ASSUME NEW b \in live \ leaked PROVE Registered(b) \/ b = x
      <4>1. Accounted(b) /\ b \in Calls
        BY <3>1 DEF PoolInv, BrowsersTyped
      <4> QED BY <2>1, <2>3, <2>4, <3>1, <4>1 DEF Accounted
    <3> QED BY <3>1 DEF BrowsersTyped
  <2>6. IsFiniteSet(T \cup {x}) /\ Cardinality(T \cup {x}) <= Cardinality(T) + 1
    <3>1. Cardinality(T) \in Nat
      BY <1>1, <1>2
    <3>2. IsFiniteSet(T \cup {x}) /\ Cardinality(T \cup {x}) = IF x \in T THEN Cardinality(T) ELSE Cardinality(T) + 1
      BY <1>1, FS_AddElement
    <3> HIDE DEF T
    <3> QED BY <3>1, <3>2
  <2>7. IsFiniteSet(live \ leaked) /\ Cardinality(live \ leaked) <= Cardinality(T \cup {x}) /\ Cardinality(live \ leaked) \in Nat
    BY <2>5, <2>6, FS_Subset, FS_CardinalityType
  <2>8. Cardinality(T \cup {x}) \in Nat
    BY <2>6, FS_CardinalityType
  <2> HIDE DEF T
  <2> QED BY <1>1, <1>2, <2>2, <2>6, <2>7, <2>8 DEF Room
<1>4. CASE ~\E c \in Calls : opened[c].at = "opening" \/ (opened[c].at = "discarding" /\ opened[c].of # Browsers!None)
  <2>1. live \ leaked \subseteq T
    <3>1. ASSUME NEW b \in live \ leaked PROVE Registered(b)
      <4>1. Accounted(b) /\ b \in Calls
        BY <3>1 DEF PoolInv, BrowsersTyped
      <4> QED BY <1>4, <3>1, <4>1, BrowsersConstants DEF Accounted
    <3> QED BY <3>1 DEF BrowsersTyped
  <2>2. Cardinality(live \ leaked) <= Cardinality(T) /\ Cardinality(live \ leaked) \in Nat
    BY <1>1, <2>1, FS_Subset, FS_CardinalityType
  <2> HIDE DEF T
  <2> QED BY <1>1, <1>2, <2>2 DEF PoolInv
<1> QED BY <1>3, <1>4

LEMMA PagesStand == ASSUME BrowsersInv PROVE Browsers!PageIsThere
  BY DEF BrowsersInv, PoolInv, CallInv, Browsers!PageIsThere

LEMMA NoStraysStand == ASSUME BrowsersInv PROVE Browsers!NoStrays
<1> SUFFICES ASSUME BrowsersTyped, PoolInv
             PROVE  live = Browsers!Range(sessions) \cup leaked \cup Browsers!Closing \cup Browsers!Opening
  BY DEF BrowsersInv, Browsers!NoStrays
<1>1. Browsers!Range(sessions) = {sessions[i] : i \in DOMAIN sessions}
  BY PoolOperators
<1>2. ASSUME NEW b \in Calls
      PROVE  b \in live <=> b \in Browsers!Range(sessions) \cup leaked \cup Browsers!Closing \cup Browsers!Opening
  <2>1. b \in Browsers!Range(sessions) <=> Registered(b)
    BY <1>1 DEF Registered
  <2>2. b \in Browsers!Closing <=> \E c \in Calls : opened[c].at = "discarding" /\ opened[c].of = b
    BY <1>2, BrowsersConstants DEF Browsers!Closing
  <2>3. b \in Browsers!Opening <=> opened[b].at = "opening"
    BY <1>2 DEF Browsers!Opening
  <2>4. Accounted(b)
    BY DEF PoolInv
  <2> QED BY <2>1, <2>2, <2>3, <2>4 DEF Accounted
<1>3. Browsers!Range(sessions) \cup leaked \cup Browsers!Closing \cup Browsers!Opening \subseteq Calls
  BY <1>1 DEF BrowsersTyped, Browsers!Closing, Browsers!Opening
<1>4. live \subseteq Calls
  BY DEF BrowsersTyped
<1> QED BY <1>2, <1>3, <1>4

\* Calls that follow one another hold the pool to its ceiling, are handed pages
\* that are open and leave no stray (BrowserSessionManager of
\* toolhost/browser.py); a job's number is looked up as it was given out
\* (toolhost/tools/async_tools.py).  Whoever is at the pool is alone there until
\* calls overlap, and has made room before it launches.
HandsPart == (part = "browsers" => BrowsersInv) /\ (part = "jobs" => JobsInv)
THEOREM HandsAreSafe == Spec => []HandsSafe
<1>1. Init => HandsPart
  BY BrowsersInit, JobsInit DEF Init, HandsPart
<1>2. HandsPart /\ [Next]_vars => HandsPart'
  <2> SUFFICES ASSUME HandsPart, [Next]_vars PROVE HandsPart'
    OBVIOUS
  <2>1. ASSUME part' = "browsers" PROVE BrowsersInv'
    <3>1. CASE part = "browsers" /\ Browsers!Next
      BY <3>1, BrowsersStep DEF HandsPart
    <3>2. CASE UNCHANGED vars
      <4>1. BrowsersInv /\ UNCHANGED <<sessions, last_used, idle, live, opened, faults, crowded, leaked>>
        BY <2>1, <3>2 DEF vars, handsVars, browsersVars, HandsPart
      <4> QED BY <4>1, TimeStep
    <3> QED BY <2>1, <3>1, <3>2 DEF Next, Handed, Mind, Hands
  <2>2. ASSUME part' = "jobs" PROVE JobsInv'
    <3>1. CASE part = "jobs" /\ Jobs!Next
      BY <3>1, JobsStep DEF HandsPart
    <3>2. CASE UNCHANGED vars
      BY <2>2, <3>2 DEF vars, handsVars, jobsVars, HandsPart, JobsInv, Numbered
    <3> QED BY <2>2, <3>1, <3>2 DEF Next, Handed, Mind, Hands
  <2> QED BY <2>1, <2>2 DEF HandsPart
<1>3. HandsPart => HandsSafe
  BY PoolStands, CeilingStands, PagesStand, NoStraysStand, JobsFound DEF HandsPart, HandsSafe
<1> QED BY <1>1, <1>2, <1>3, PTL DEF Spec

-----------------------------------------------------------------------------
(* A verdict: what is covered is held until a check fails, what failed is   *)
(* remembered until a check cannot be evaluated, and what was not blocked    *)
(* was covered, and evaluated where there is code.                           *)

Judged == judging \in {"thread", "model", "human", "done"}
CheckRecords == [kind : Verdict!Stated \cup {"syntax", "project"}, on : SUBSET Verdict!Code]
VerdictTyped ==
    /\ goal \in [code : Verdict!changed_paths, stated : UNION {[1 .. n -> Verdict!Stated] : n \in 0 .. StatedBound},
                 human : BOOLEAN, strict : BOOLEAN, verify_code : BOOLEAN]
    /\ judging \in {"derive", "checking", "coverage", "thread", "model", "human", "done"}
    /\ checks \in Seq(CheckRecords)
    /\ objective \in [failed : BOOLEAN, observed : BOOLEAN, covered : SUBSET Verdict!Code, empty : BOOLEAN]
    /\ passed \in BOOLEAN /\ human_pending \in BOOLEAN /\ blocked \in BOOLEAN
    /\ refuted \in BOOLEAN /\ raised \in BOOLEAN /\ held \subseteq Verdict!Code
Grounded ==
    /\ ~objective.failed => objective.covered \subseteq held
    /\ refuted /\ ~raised => objective.failed
    /\ judging = "derive" => ~refuted
    /\ judging \in {"derive", "checking"} => ~passed /\ ~raised
    /\ judging = "coverage" /\ passed => ~objective.failed /\ ~raised
    /\ Judged /\ passed => ~objective.failed /\ ~blocked
    /\ Judged /\ goal.strict /\ ~blocked => /\ Verdict!There \subseteq objective.covered
                                            /\ Verdict!Code # {} => ~raised
VerdictInv == VerdictTyped /\ Grounded

LEMMA VerdictConstants == MaxCommands \in Nat /\ StatedBound \in Nat
  BY RecordsAssumption DEF RecordsAssumption, Verdict!VerdictAssumption

\* The checks a goal states, over any of its files.
LEMMA StatedChecks ==
    ASSUME VerdictTyped, NEW on \in SUBSET Verdict!Code
    PROVE  [i \in DOMAIN goal.stated |-> [kind |-> goal.stated[i], on |-> on]] \in Seq(CheckRecords)
<1>1. PICK n \in 0 .. StatedBound : goal.stated \in [1 .. n -> Verdict!Stated]
  BY DEF VerdictTyped
<1>2. n \in Nat
  BY <1>1, VerdictConstants
<1>3. \A i \in 1 .. n : [kind |-> goal.stated[i], on |-> on] \in CheckRecords
  BY <1>1 DEF CheckRecords
<1>4. [i \in 1 .. n |-> [kind |-> goal.stated[i], on |-> on]] \in [1 .. n -> CheckRecords]
  BY <1>3
<1>5. DOMAIN goal.stated = 1 .. n
  BY <1>1
<1> QED BY <1>2, <1>4, <1>5, SeqDef

LEMMA DerivedChecks ==
    ASSUME VerdictTyped, NEW commands \in Verdict!_project_commands
    PROVE  Verdict!derive_checks(commands) \in Seq(CheckRecords)
<1>1. PICK n \in 0 .. MaxCommands : commands \in [1 .. n -> Verdict!project_root]
  BY DEF Verdict!_project_commands
<1>2. n \in Nat
  BY <1>1, VerdictConstants
<1>3. \A r : Verdict!Under(r) \in SUBSET Verdict!Code
  BY DEF Verdict!Under
<1>4. \A i \in 1 .. n : [kind |-> "project", on |-> Verdict!Under(commands[i])] \in CheckRecords
  BY <1>3 DEF CheckRecords
<1>5. [i \in 1 .. n |-> [kind |-> "project", on |-> Verdict!Under(commands[i])]] \in [1 .. n -> CheckRecords]
  BY <1>4
<1>6. DOMAIN commands = 1 .. n
  BY <1>1
<1>7. [i \in DOMAIN commands |-> [kind |-> "project", on |-> Verdict!Under(commands[i])]] \in Seq(CheckRecords)
  BY <1>2, <1>5, <1>6, SeqDef
<1>8. [kind |-> "syntax", on |-> {}] \in CheckRecords
  BY DEF CheckRecords
<1>9. <<[kind |-> "syntax", on |-> {}]>> \in Seq(CheckRecords) /\ << >> \in Seq(CheckRecords)
  BY <1>8
<1>10. ASSUME NEW q \in Seq(CheckRecords) PROVE <<[kind |-> "syntax", on |-> {}]>> \o q \in Seq(CheckRecords)
  BY <1>9, ConcatProperties
<1> QED BY <1>7, <1>9, <1>10 DEF Verdict!derive_checks

\* What was derived is a list of checks, and nothing has been found yet.
LEMMA DeriveStep == ASSUME VerdictInv, Verdict!_derive PROVE VerdictInv'
<1>1. VerdictTyped /\ Grounded /\ judging = "derive" /\ judging' = "checking"
      /\ UNCHANGED <<goal, passed, human_pending, blocked, refuted, raised, held>>
  BY DEF VerdictInv, Verdict!_derive
<1>2. checks' \in Seq(CheckRecords)
  <2>1. PICK commands \in Verdict!_project_commands, on \in {{}, Verdict!Code} :
           \/ checks' = [i \in DOMAIN goal.stated |-> [kind |-> goal.stated[i], on |-> on]] \o Verdict!derive_checks(commands)
           \/ checks' = [i \in DOMAIN goal.stated |-> [kind |-> goal.stated[i], on |-> on]]
    BY DEF Verdict!_derive
  <2>2. on \in SUBSET Verdict!Code
    BY <2>1
  <2>3. /\ [i \in DOMAIN goal.stated |-> [kind |-> goal.stated[i], on |-> on]] \in Seq(CheckRecords)
        /\ Verdict!derive_checks(commands) \in Seq(CheckRecords)
    BY <1>1, <2>2, StatedChecks, DerivedChecks
  <2> QED BY <2>1, <2>3, ConcatProperties
<1>3. PICK e \in BOOLEAN : objective' = [failed |-> FALSE, observed |-> FALSE, covered |-> {}, empty |-> e]
  BY DEF Verdict!_derive, Verdict!Clean
<1>4. objective' \in [failed : BOOLEAN, observed : BOOLEAN, covered : SUBSET Verdict!Code, empty : BOOLEAN]
  BY <1>3
<1>5. Verdict!Code' = Verdict!Code
  BY <1>1 DEF Verdict!Code
<1>6. VerdictTyped'
  BY <1>1, <1>2, <1>4, <1>5 DEF VerdictTyped, CheckRecords, Verdict!changed_paths
<1>7. ~refuted
  BY <1>1 DEF Grounded, VerdictTyped
<1> QED BY <1>1, <1>3, <1>6, <1>7 DEF VerdictInv, Grounded, Judged

\* A check was made: what it covers is held, unless it failed.
LEMMA MadeStep ==
    ASSUME VerdictInv, judging = "checking", checks # << >>, NEW ok \in BOOLEAN, NEW seen_ok \in BOOLEAN,
           NEW covered \in SUBSET Verdict!Code, NEW proves \in SUBSET Verdict!Code, ok => covered \subseteq proves,
           Verdict!Made(ok, seen_ok, covered, proves)
    PROVE  VerdictInv'
<1>1. /\ VerdictTyped /\ Grounded /\ UNCHANGED <<goal, judging, passed, human_pending, blocked, raised>>
      /\ checks' = Tail(checks) /\ held' = held \cup proves
      /\ refuted' = (refuted \/ (seen_ok /\ ~ok))
  BY DEF VerdictInv, Verdict!Made
<1>2. checks' \in Seq(CheckRecords)
  BY <1>1, HeadTailProperties DEF VerdictTyped
<1>3. PICK f \in BOOLEAN, o \in BOOLEAN :
         /\ f = (objective.failed \/ ~ok) /\ o = (objective.observed \/ seen_ok)
         /\ objective' = [objective EXCEPT !.failed = f, !.observed = o, !.covered = @ \cup covered]
  <2>1. /\ (objective.failed \/ ~ok) \in BOOLEAN /\ (objective.observed \/ seen_ok) \in BOOLEAN
        /\ objective' = [objective EXCEPT !.failed = @ \/ ~ok, !.observed = @ \/ seen_ok, !.covered = @ \cup covered]
    BY DEF Verdict!Made
  <2> QED BY <2>1
<1>4. objective \in [failed : BOOLEAN, observed : BOOLEAN, covered : SUBSET Verdict!Code, empty : BOOLEAN]
  BY <1>1 DEF VerdictTyped
<1>5. /\ objective' \in [failed : BOOLEAN, observed : BOOLEAN, covered : SUBSET Verdict!Code, empty : BOOLEAN]
      /\ objective'.failed = f /\ objective'.covered = objective.covered \cup covered
  BY <1>3, <1>4
<1>6. Verdict!Code' = Verdict!Code
  BY <1>1 DEF Verdict!Code
<1>7. refuted' \in BOOLEAN /\ held' \subseteq Verdict!Code
  BY <1>1 DEF VerdictTyped
<1>8. VerdictTyped'
  BY <1>1, <1>2, <1>5, <1>6, <1>7 DEF VerdictTyped, CheckRecords, Verdict!changed_paths
<1>9. ~objective'.failed => objective'.covered \subseteq held'
  BY <1>1, <1>3, <1>5 DEF Grounded
<1>10. refuted' /\ ~raised' => objective'.failed
  BY <1>1, <1>3, <1>5 DEF Grounded
<1> QED BY <1>1, <1>8, <1>9, <1>10 DEF VerdictInv, Grounded, Judged

LEMMA ChecksStep ==
    ASSUME VerdictInv,
           Verdict!_check_syntax \/ Verdict!_check_command \/ Verdict!_check_observes \/ Verdict!_check_unknown
    PROVE  VerdictInv'
<1>1. VerdictTyped
  BY DEF VerdictInv
<1>2. CASE Verdict!_check_syntax
  <2>1. PICK parsed, errors : /\ parsed = {f \in Verdict!Code : goal.code[f].kind = "ok"}
                              /\ errors = {f \in Verdict!Code : goal.code[f].kind = "error"}
    OBVIOUS
  <2>2. PICK ok \in BOOLEAN, seen_ok \in BOOLEAN : ok = (errors = {}) /\ seen_ok = (parsed \cup errors # {})
    OBVIOUS
  <2>3. judging = "checking" /\ checks # << >> /\ Verdict!Made(errors = {}, parsed \cup errors # {}, parsed, parsed)
    BY <1>2, <2>1 DEF Verdict!_check_syntax, Verdict!Checking
  <2>4. Verdict!Made(ok, seen_ok, parsed, parsed)
    BY <2>2, <2>3
  <2>5. parsed \in SUBSET Verdict!Code
    BY <2>1
  <2> QED BY <2>3, <2>4, <2>5, MadeStep
<1>3. CASE Verdict!_check_command
  <2>1. PICK ran \in BOOLEAN, ok \in BOOLEAN : Verdict!Made(ok, ran, Head(checks).on, IF ok THEN Head(checks).on ELSE {})
    BY <1>3 DEF Verdict!_check_command
  <2>2. judging = "checking" /\ checks # << >>
    BY <1>3 DEF Verdict!_check_command, Verdict!Checking
  <2>3. Head(checks) \in CheckRecords
    BY <1>1, <2>2, HeadTailProperties DEF VerdictTyped
  <2>4. PICK on, proves : on = Head(checks).on /\ proves = IF ok THEN Head(checks).on ELSE {}
    OBVIOUS
  <2>5. on \in SUBSET Verdict!Code /\ proves \in SUBSET Verdict!Code /\ (ok => on \subseteq proves)
    BY <2>3, <2>4 DEF CheckRecords
  <2> QED BY <2>1, <2>2, <2>4, <2>5, MadeStep
<1>4. CASE Verdict!_check_observes
  <2>1. PICK ok \in BOOLEAN, seen_ok \in BOOLEAN : Verdict!Made(ok, seen_ok, {}, {})
    BY <1>4 DEF Verdict!_check_observes
  <2>2. judging = "checking" /\ checks # << >>
    BY <1>4 DEF Verdict!_check_observes, Verdict!Checking
  <2> QED BY <2>1, <2>2, MadeStep
<1>5. CASE Verdict!_check_unknown
  <2>1. PICK ok \in BOOLEAN, seen_ok \in BOOLEAN : ok = TRUE /\ seen_ok = FALSE
    OBVIOUS
  <2>2. judging = "checking" /\ checks # << >> /\ Verdict!Made(ok, seen_ok, {}, {})
    BY <1>5, <2>1 DEF Verdict!_check_unknown, Verdict!Checking
  <2> QED BY <2>2, MadeStep
<1> QED BY <1>2, <1>3, <1>4, <1>5

\* A step that finds nothing new keeps what was found.
LEMMA FoundStands ==
    ASSUME VerdictInv, UNCHANGED <<goal, checks, objective, refuted, raised, held>>,
           judging' \in {"coverage", "thread", "model", "human", "done"}, judging # "derive",
           passed' \in BOOLEAN, human_pending' \in BOOLEAN, blocked' \in BOOLEAN,
           judging' = "coverage" /\ passed' => ~objective.failed /\ ~raised,
           Judged' /\ passed' => ~objective.failed /\ ~blocked',
           Judged' /\ goal.strict /\ ~blocked' => Verdict!There \subseteq objective.covered /\ (Verdict!Code # {} => ~raised)
    PROVE  VerdictInv'
<1>1. VerdictTyped /\ Grounded
  BY DEF VerdictInv
<1>2. Verdict!Code' = Verdict!Code /\ Verdict!There' = Verdict!There
  BY DEF Verdict!Code, Verdict!There
<1>3. VerdictTyped'
  BY <1>1, <1>2 DEF VerdictTyped, CheckRecords, Verdict!changed_paths
<1>4. Grounded'
  BY <1>1, <1>2 DEF Grounded
<1> QED BY <1>3, <1>4 DEF VerdictInv

LEMMA EvaluateStep == ASSUME VerdictInv, Verdict!evaluate_objective PROVE VerdictInv'
<1>1. /\ UNCHANGED <<goal, checks, objective, human_pending, blocked, refuted, raised, held>>
      /\ judging = "checking" /\ judging' = "coverage" /\ passed' = (~objective.empty /\ ~objective.failed)
  BY DEF Verdict!evaluate_objective
<1>2. passed' \in BOOLEAN /\ human_pending' \in BOOLEAN /\ blocked' \in BOOLEAN
  BY <1>1 DEF VerdictInv, VerdictTyped
<1>3. ~raised /\ ~Judged'
  BY <1>1 DEF VerdictInv, Grounded, Judged
<1> QED BY <1>1, <1>2, <1>3, FoundStands

\* What raises takes what was found with it.
LEMMA RaisedStep == ASSUME VerdictInv, Verdict!objective_failed PROVE VerdictInv'
<1>1. /\ UNCHANGED <<goal, passed, human_pending, blocked, refuted, held>>
      /\ judging = "checking" /\ judging' = "coverage" /\ checks' = << >> /\ raised' = TRUE
      /\ objective' = [failed |-> FALSE, observed |-> FALSE, covered |-> {}, empty |-> TRUE]
  BY DEF Verdict!objective_failed, Verdict!Checking, Verdict!Clean
<1>2. VerdictTyped /\ Grounded
  BY DEF VerdictInv
<1>3. Verdict!Code' = Verdict!Code
  BY <1>1 DEF Verdict!Code
<1>4. objective' \in [failed : BOOLEAN, observed : BOOLEAN, covered : SUBSET Verdict!Code, empty : BOOLEAN]
  BY <1>1
<1>5. checks' \in Seq(CheckRecords)
  BY <1>1, EmptySeq
<1>6. VerdictTyped'
  BY <1>1, <1>2, <1>3, <1>4, <1>5 DEF VerdictTyped, CheckRecords, Verdict!changed_paths
<1>7. ~passed
  BY <1>1, <1>2 DEF Grounded
<1>8. objective'.covered = {}
  BY <1>1
<1> QED BY <1>1, <1>6, <1>7, <1>8 DEF VerdictInv, Grounded, Judged

LEMMA CoverageStep == ASSUME VerdictInv, NEW commissioned \in BOOLEAN, Verdict!Coverage(commissioned) PROVE VerdictInv'
<1>1. /\ UNCHANGED <<goal, checks, objective, human_pending, refuted, raised, held>>
      /\ judging = "coverage" /\ judging' \in {"thread", "human"}
      /\ blocked' = Verdict!Blocked /\ passed' = (passed /\ ~Verdict!Blocked)
  BY DEF Verdict!Coverage
<1>2. passed' \in BOOLEAN /\ human_pending' \in BOOLEAN /\ blocked' \in BOOLEAN
  BY <1>1 DEF VerdictInv, VerdictTyped, Verdict!Blocked
<1>3. passed => ~objective.failed /\ ~raised
  BY <1>1 DEF VerdictInv, Grounded
<1>4. ASSUME goal.strict, ~Verdict!Blocked
      PROVE  Verdict!There \subseteq objective.covered /\ (Verdict!Code # {} => ~raised)
  <2>1. Verdict!uncovered_paths = {} /\ (Verdict!Code # {} => passed)
    BY <1>4 DEF Verdict!Blocked
  <2> QED BY <1>3, <2>1 DEF Verdict!uncovered_paths
<1> QED BY <1>1, <1>2, <1>3, <1>4, FoundStands

LEMMA JudgedStep ==
    ASSUME VerdictInv, NEW verdict, judging \in {"thread", "model"}, Verdict!Judged(verdict) PROVE VerdictInv'
<1>1. /\ UNCHANGED <<goal, checks, objective, blocked, refuted, raised, held>>
      /\ judging' = "human" /\ passed' = Verdict!Accepts(verdict)
      /\ human_pending' = (verdict # "pass" /\ (verdict = "needs_human" \/ goal.human))
  BY DEF Verdict!Judged
<1>2. passed' \in BOOLEAN /\ human_pending' \in BOOLEAN /\ blocked' \in BOOLEAN
  BY <1>1 DEF VerdictInv, VerdictTyped, Verdict!Accepts
<1>3. passed' => ~objective.failed /\ ~blocked
  BY <1>1 DEF Verdict!Accepts
<1>4. goal.strict /\ ~blocked => Verdict!There \subseteq objective.covered /\ (Verdict!Code # {} => ~raised)
  BY DEF VerdictInv, Grounded, Judged
<1> QED BY <1>1, <1>2, <1>3, <1>4, FoundStands

LEMMA PersonStep == ASSUME VerdictInv, Verdict!NoThread \/ Verdict!HumanReview PROVE VerdictInv'
<1>1. /\ UNCHANGED <<goal, checks, objective, blocked, refuted, raised, held>>
      /\ judging \in {"thread", "human"} /\ judging' \in {"model", "done"}
      /\ passed' => passed
  <2>1. CASE Verdict!NoThread
    BY <2>1 DEF Verdict!NoThread
  <2>2. CASE Verdict!HumanReview
    BY <2>2 DEF Verdict!HumanReview
  <2> QED BY <2>1, <2>2
<1>2. passed' \in BOOLEAN /\ human_pending' \in BOOLEAN /\ blocked' \in BOOLEAN
  <2>1. CASE Verdict!NoThread
    BY <2>1 DEF VerdictInv, VerdictTyped, Verdict!NoThread
  <2>2. CASE Verdict!HumanReview
    <3>1. blocked' \in BOOLEAN
      BY <2>2 DEF VerdictInv, VerdictTyped, Verdict!HumanReview
    <3>2. passed' = (passed /\ ~goal.human) /\ human_pending' = (human_pending \/ goal.human)
      BY <2>2 DEF Verdict!HumanReview
    <3> QED BY <3>1, <3>2
  <2> QED BY <2>1, <2>2
<1>3. passed => ~objective.failed /\ ~blocked
  BY <1>1 DEF VerdictInv, Grounded, Judged
<1>4. goal.strict /\ ~blocked => Verdict!There \subseteq objective.covered /\ (Verdict!Code # {} => ~raised)
  BY <1>1 DEF VerdictInv, Grounded, Judged
<1> QED BY <1>1, <1>2, <1>3, <1>4, FoundStands

LEMMA VerdictStep == ASSUME VerdictInv, Verdict!Next PROVE VerdictInv'
<1>1. ASSUME NEW v, Verdict!_independent_verifier(v) \/ Verdict!run_model_verifier(v) PROVE VerdictInv'
  BY <1>1, JudgedStep DEF Verdict!_independent_verifier, Verdict!run_model_verifier
<1> QED BY <1>1, DeriveStep, ChecksStep, EvaluateStep, RaisedStep, CoverageStep, PersonStep DEF Verdict!Next

LEMMA VerdictInit == ASSUME Verdict!Init PROVE VerdictInv
<1>1. /\ judging = "derive" /\ checks = << >> /\ objective = [failed |-> FALSE, observed |-> FALSE, covered |-> {}, empty |-> FALSE]
      /\ passed = FALSE /\ human_pending = FALSE /\ blocked = FALSE /\ refuted = FALSE /\ raised = FALSE /\ held = {}
  BY DEF Verdict!Init, Verdict!Clean
<1>2. checks \in Seq(CheckRecords)
  BY <1>1, EmptySeq
<1>3. objective \in [failed : BOOLEAN, observed : BOOLEAN, covered : SUBSET Verdict!Code, empty : BOOLEAN] /\ objective.covered = {}
  BY <1>1
<1>4. VerdictTyped
  BY <1>1, <1>2, <1>3 DEF VerdictTyped, Verdict!Init
<1> QED BY <1>1, <1>3, <1>4 DEF VerdictInv, Grounded, Judged

LEMMA VerdictStands ==
    ASSUME VerdictInv PROVE Verdict!TypeOK /\ Verdict!CodeIsLookedAt /\ Verdict!FailedCheckStands
<1>1. VerdictTyped /\ Grounded
  BY DEF VerdictInv
<1>2. Verdict!TypeOK
  <2>1. PICK C \in SUBSET Files : goal.code \in [C -> [kind : Verdict!Kinds, root : Roots \cup {none}]]
    BY <1>1 DEF VerdictTyped, Verdict!changed_paths
  <2>2. \A f \in Verdict!Code : f \in Files /\ goal.code[f].kind \in Verdict!Kinds /\ goal.code[f].root \in Roots \cup {none}
    BY <2>1 DEF Verdict!Code
  <2>3. \A i \in DOMAIN checks : checks[i] \in CheckRecords
    BY <1>1, ElementOfSeq, LenProperties DEF VerdictTyped
  <2>4. \A i \in DOMAIN checks : checks[i].kind \in Verdict!Stated \cup {"syntax", "project"} /\ checks[i].on \subseteq Verdict!Code
    BY <2>3 DEF CheckRecords
  <2>5. objective.covered \subseteq Verdict!Code /\ objective.failed \in BOOLEAN
    BY <1>1 DEF VerdictTyped
  <2> QED BY <1>1, <2>2, <2>4, <2>5 DEF VerdictTyped, Verdict!TypeOK
<1>3. Verdict!CodeIsLookedAt
  BY <1>1 DEF Grounded, Judged, Verdict!CodeIsLookedAt, Verdict!Verdict
<1>4. Verdict!FailedCheckStands
  BY <1>1 DEF Grounded, Judged, Verdict!FailedCheckStands, Verdict!Verdict
<1> QED BY <1>2, <1>3, <1>4

\* What passes a strict goal was looked at, and a check that ran and failed is
\* not outvoted (VerificationLadder of gsl/verification.py).
VerdictPart == part = "verdict" => VerdictInv
THEOREM VerdictsStand == Spec => []VerdictSafe
<1>1. Init => VerdictPart
  BY VerdictInit DEF Init, VerdictPart
<1>2. VerdictPart /\ [Next]_vars => VerdictPart'
  <2> SUFFICES ASSUME VerdictPart, [Next]_vars, part' = "verdict" PROVE VerdictInv'
    BY DEF VerdictPart
  <2>1. CASE part = "verdict" /\ Verdict!Next
    BY <2>1, VerdictStep DEF VerdictPart
  <2>2. CASE UNCHANGED vars
    BY <2>2 DEF vars, mindVars, verdictVars, VerdictPart, VerdictInv, VerdictTyped, Grounded, Judged, CheckRecords,
                Verdict!Code, Verdict!There, Verdict!changed_paths
  <2> QED BY <2>1, <2>2 DEF Next, Handed, Mind, Hands
<1>3. VerdictPart => VerdictSafe
  BY VerdictStands DEF VerdictPart, VerdictSafe
<1> QED BY <1>1, <1>2, <1>3, PTL DEF Spec

-----------------------------------------------------------------------------
(* A reply: the names the state holds are backed from the moment it holds    *)
(* them, an attempt with words leaves them for the recovery, and what        *)
(* withholds a text leaves one that claimed.                                 *)

JournalRows == [tool : Reply!Started, start : 0 .. Horizon, running : BOOLEAN]
Decisions == [texts : SUBSET Replies, decided : BOOLEAN, commissions : BOOLEAN]
ReplyTyped ==
    /\ now \in 0 .. Horizon /\ Len(journal) <= ActionBound /\ journal \in Seq(JournalRows)
    /\ deliberating \in {"new", "journal", "delegations", "ask", "withhold", "done"} /\ attempt \in 1 .. 2
    /\ state \in [readable : BOOLEAN, something_happened : BOOLEAN, names : SUBSET Reply!Agents]
    /\ answer \subseteq Replies /\ decision \in Decisions /\ decision.texts \subseteq answer /\ spoke \in BOOLEAN
    /\ prose \in BOOLEAN /\ fallback \in BOOLEAN
Honest ==
    /\ state.names \subseteq backed
    /\ deliberating \in {"new", "journal", "delegations"} => state.names = {} /\ attempt = 1
    /\ deliberating \in {"new", "journal", "delegations", "ask"} =>
         decision.texts = {} /\ (attempt = 1 => ~spoke) /\ (spoke => prose \/ fallback)
    /\ deliberating = "withhold" => decision.decided
    /\ deliberating = "done" => Reply!ClaimsWereBacked /\ Reply!WordsAreKept
ReplyInv == ReplyTyped /\ Honest

LEMMA ReplyConstants ==
    /\ StateWindow \in Nat /\ MaxDelegations \in Nat /\ Horizon \in Nat /\ ActionBound \in Nat
    /\ Replies \subseteq [claims : BOOLEAN, names : SUBSET Reply!Agents]
  BY RecordsAssumption DEF RecordsAssumption, Reply!ReplyAssumption

\* The journal moves on: what is known of the answer stays.
LEMMA JournalMoves ==
    ASSUME ReplyInv, UNCHANGED <<deliberating, attempt, state, prose, fallback, answer, decision, backed, spoke>>,
           now' \in 0 .. Horizon, Len(journal') <= ActionBound, journal' \in Seq(JournalRows)
    PROVE  ReplyInv'
<1>1. ReplyTyped'
  BY DEF ReplyInv, ReplyTyped
<1>2. Honest'
  BY DEF ReplyInv, Honest, Reply!ClaimsWereBacked, Reply!WordsAreKept, Reply!Said
<1> QED BY <1>1, <1>2 DEF ReplyInv

LEMMA JournalStep ==
    ASSUME ReplyInv, \/ \E tool \in Reply!Started : Reply!Start(tool)
                     \/ \E i \in DOMAIN journal : Reply!End(i)
                     \/ Reply!Tick
    PROVE  ReplyInv'
<1>1. ReplyTyped /\ Len(journal) \in Nat /\ DOMAIN journal = 1 .. Len(journal)
  BY LenProperties DEF ReplyInv, ReplyTyped
<1>2. ASSUME NEW tool \in Reply!Started, Reply!Start(tool) PROVE ReplyInv'
  <2>1. PICK r : r = [tool |-> tool, start |-> now, running |-> TRUE]
    OBVIOUS
  <2>2. r \in JournalRows
    BY <1>1, <2>1 DEF ReplyTyped, JournalRows
  <2>3. /\ Len(journal) < ActionBound /\ journal' = Append(journal, r) /\ now' = now
        /\ UNCHANGED <<deliberating, attempt, state, prose, fallback, answer, decision, backed, spoke>>
    BY <1>2, <2>1 DEF Reply!Start, Reply!kept
  <2>4. journal' \in Seq(JournalRows) /\ Len(journal') = Len(journal) + 1
    BY <1>1, <2>2, <2>3, AppendProperties DEF ReplyTyped
  <2>5. Len(journal') <= ActionBound /\ now' \in 0 .. Horizon
    BY <1>1, <2>3, <2>4, ReplyConstants DEF ReplyTyped
  <2> QED BY <2>3, <2>4, <2>5, JournalMoves
<1>3. ASSUME NEW i \in DOMAIN journal, Reply!End(i) PROVE ReplyInv'
  <2>1. PICK r : r = [journal[i] EXCEPT !.running = FALSE]
    OBVIOUS
  <2>2. i \in 1 .. Len(journal) /\ journal[i] \in JournalRows
    BY <1>1, ElementOfSeq DEF ReplyTyped
  <2>3. r \in JournalRows
    BY <2>1, <2>2 DEF JournalRows
  <2>4. /\ journal' = [journal EXCEPT ![i] = r] /\ now' = now
        /\ UNCHANGED <<deliberating, attempt, state, prose, fallback, answer, decision, backed, spoke>>
    BY <1>3, <2>1 DEF Reply!End, Reply!kept
  <2>5. journal' \in Seq(JournalRows) /\ Len(journal') = Len(journal)
    BY <1>1, <2>2, <2>3, <2>4, ExceptSeq DEF ReplyTyped
  <2>6. Len(journal') <= ActionBound /\ now' \in 0 .. Horizon
    BY <1>1, <2>4, <2>5 DEF ReplyTyped
  <2> QED BY <2>4, <2>5, <2>6, JournalMoves
<1>4. ASSUME Reply!Tick PROVE ReplyInv'
  <2>1. /\ now < Horizon /\ now' = now + 1 /\ journal' = journal
        /\ UNCHANGED <<deliberating, attempt, state, prose, fallback, answer, decision, backed, spoke>>
    BY <1>4 DEF Reply!Tick, Reply!kept
  <2>2. now' \in 0 .. Horizon /\ Len(journal') <= ActionBound /\ journal' \in Seq(JournalRows)
    BY <1>1, <2>1, ReplyConstants DEF ReplyTyped
  <2> QED BY <2>1, <2>2, JournalMoves
<1> QED BY <1>2, <1>3, <1>4

\* The rules that ask no model, and the look at the journal.
LEMMA LookingStep ==
    ASSUME ReplyInv, Reply!_t0_rules \/ Reply!_execution_state \/ Reply!_delegation_state PROVE ReplyInv'
<1>1. ReplyTyped /\ Honest
  BY DEF ReplyInv
<1>2. CASE Reply!_t0_rules
  <2>1. /\ UNCHANGED <<now, journal, backed, attempt, state, prose, fallback, spoke, answer>> /\ deliberating = "new"
        /\ \/ deliberating' = "journal" /\ decision' = decision
           \/ deliberating' = "done" /\ decision' = [texts |-> {}, decided |-> TRUE, commissions |-> FALSE]
    BY <1>2 DEF Reply!_t0_rules, Reply!Undecided, Reply!world, Reply!kept
  <2>2. CASE deliberating' = "journal" /\ decision' = decision
    <3>1. ReplyTyped'
      BY <1>1, <2>1, <2>2 DEF ReplyTyped
    <3>2. Honest'
      BY <1>1, <2>1, <2>2 DEF Honest
    <3> QED BY <3>1, <3>2 DEF ReplyInv
  <2>3. CASE deliberating' = "done" /\ decision' = [texts |-> {}, decided |-> TRUE, commissions |-> FALSE]
    <3>1. decision' \in Decisions /\ decision'.texts = {} /\ decision'.decided
      BY <2>3 DEF Decisions
    <3>2. ReplyTyped'
      BY <1>1, <2>1, <2>3, <3>1 DEF ReplyTyped
    <3>3. decision' # Reply!Undecided
      BY <2>3 DEF Reply!Undecided
    <3>4. Reply!ClaimsWereBacked' /\ Reply!WordsAreKept'
      BY <2>3, <3>1, <3>3 DEF Reply!ClaimsWereBacked, Reply!WordsAreKept, Reply!Said, Reply!Undecided
    <3> QED BY <1>1, <2>1, <2>3, <3>2, <3>4 DEF ReplyInv, Honest
  <2> QED BY <2>1, <2>2, <2>3
<1>3. CASE Reply!_execution_state
  <2>1. /\ UNCHANGED <<now, journal, backed, attempt, prose, fallback, spoke, answer, decision>>
        /\ deliberating = "journal" /\ deliberating' \in {"delegations", "ask"}
    BY <1>3 DEF Reply!_execution_state, Reply!world, Reply!kept
  <2>2. /\ state' \in [readable : BOOLEAN, something_happened : BOOLEAN, names : SUBSET Reply!Agents]
        /\ state'.names = state.names
    <3>1. PICK b \in BOOLEAN : b = (Reply!Rows(now - StateWindow) # {})
      OBVIOUS
    <3>2. state' = state \/ state' = [state EXCEPT !.readable = TRUE, !.something_happened = b]
      BY <1>3, <3>1 DEF Reply!_execution_state
    <3>3. state \in [readable : BOOLEAN, something_happened : BOOLEAN, names : SUBSET Reply!Agents]
      BY <1>1 DEF ReplyTyped
    <3> QED BY <3>2, <3>3
  <2>3. ReplyTyped'
    BY <1>1, <2>1, <2>2 DEF ReplyTyped
  <2>4. Honest'
    BY <1>1, <2>1, <2>2 DEF Honest
  <2> QED BY <2>3, <2>4 DEF ReplyInv
<1>4. CASE Reply!_delegation_state
  <2>1. /\ UNCHANGED <<now, journal, attempt, prose, fallback, spoke, answer, decision>>
        /\ deliberating = "delegations" /\ deliberating' = "ask"
    BY <1>4 DEF Reply!_delegation_state, Reply!kept
  <2>2. /\ state' \in [readable : BOOLEAN, something_happened : BOOLEAN, names : SUBSET Reply!Agents]
        /\ state'.names \subseteq backed'
    <3>1. PICK rows_seen : rows_seen = Reply!Newest({i \in Reply!Rows(now - DelegationWindow) : Reply!Delegated(i)})
      OBVIOUS
    <3>2. rows_seen \subseteq DOMAIN journal
      BY <3>1 DEF Reply!Newest, Reply!Rows
    <3>3. PICK current : current = {i \in rows_seen : journal[i].running \/ journal[i].start >= now - StateWindow}
      OBVIOUS
    <3>4. PICK ran : ran = {j \in DOMAIN journal : journal[j].running \/ journal[j].start >= now - StateWindow}
      OBVIOUS
    <3>5. PICK N : N = {journal[i].tool : i \in current} \cap Reply!Agents
      OBVIOUS
    <3>6. backed' = {journal[i].tool : i \in ran} \cap Reply!Agents /\ (state' = state \/ state' = [state EXCEPT !.names = N])
      BY <1>4, <3>1, <3>3, <3>4, <3>5 DEF Reply!_delegation_state
    <3>7. N \subseteq backed' /\ N \subseteq Reply!Agents
      BY <3>2, <3>3, <3>4, <3>5, <3>6
    <3>8. state \in [readable : BOOLEAN, something_happened : BOOLEAN, names : SUBSET Reply!Agents] /\ state.names = {}
      BY <1>1, <2>1 DEF ReplyTyped, Honest
    <3> QED BY <3>6, <3>7, <3>8
  <2>3. ReplyTyped'
    BY <1>1, <2>1, <2>2 DEF ReplyTyped
  <2>4. Honest'
    BY <1>1, <2>1, <2>2 DEF Honest
  <2> QED BY <2>3, <2>4 DEF ReplyInv
<1> QED BY <1>2, <1>3, <1>4

\* An attempt that is over without a decision has had no words to keep.
LEMMA GivenUp ==
    ASSUME ReplyInv, Reply!Failed, UNCHANGED <<now, journal, state, backed>>,
           attempt' \in 1 .. 2, prose' \in BOOLEAN, fallback' \in BOOLEAN, spoke' = FALSE
    PROVE  ReplyInv'
<1>1. /\ deliberating' = "done" /\ decision' = [texts |-> {}, decided |-> FALSE, commissions |-> FALSE] /\ answer' = answer
  BY DEF Reply!Failed, Reply!Undecided
<1>2. decision' \in Decisions /\ decision'.texts = {}
  BY <1>1 DEF Decisions
<1>3. ReplyTyped'
  BY <1>1, <1>2 DEF ReplyInv, ReplyTyped
<1>4. Reply!ClaimsWereBacked' /\ Reply!WordsAreKept'
  BY <1>1, <1>2 DEF Reply!ClaimsWereBacked, Reply!WordsAreKept, Reply!Said
<1> QED BY <1>1, <1>3, <1>4 DEF ReplyInv, Honest

LEMMA DecidedKeeps ==
    ASSUME ReplyInv, NEW texts \in SUBSET Replies, NEW c \in BOOLEAN, Reply!Decided(texts, c),
           UNCHANGED <<now, journal, state, backed>>,
           attempt' \in 1 .. 2, prose' \in BOOLEAN, fallback' \in BOOLEAN, spoke' \in BOOLEAN
    PROVE  ReplyInv'
<1>1. /\ deliberating' = "withhold" /\ decision' = [texts |-> texts, decided |-> TRUE, commissions |-> c] /\ answer' = texts
  BY DEF Reply!Decided
<1>2. decision' \in Decisions /\ decision'.texts = texts /\ decision'.decided
  BY <1>1 DEF Decisions
<1>3. ReplyTyped'
  BY <1>1, <1>2 DEF ReplyInv, ReplyTyped
<1> QED BY <1>1, <1>2, <1>3 DEF ReplyInv, Honest

LEMMA RecoveredKeeps ==
    ASSUME ReplyInv, NEW p \in BOOLEAN, NEW f \in BOOLEAN, Reply!Recovered(p, f),
           UNCHANGED <<now, journal, state, backed>>,
           attempt' \in 1 .. 2, prose' \in BOOLEAN, fallback' \in BOOLEAN, spoke' \in BOOLEAN, spoke' => p \/ f
    PROVE  ReplyInv'
<1>1. CASE p \/ f
  <2>1. PICK text \in Replies : Reply!Decided({text}, FALSE)
    BY <1>1 DEF Reply!Recovered
  <2>2. {text} \in SUBSET Replies
    BY <2>1
  <2>3. PICK c \in BOOLEAN : Reply!Decided({text}, c)
    BY <2>1
  <2> QED BY <2>2, <2>3, DecidedKeeps
<1>2. CASE ~(p \/ f)
  <2>1. Reply!Failed /\ spoke' = FALSE
    BY <1>2 DEF Reply!Recovered
  <2> QED BY <2>1, GivenUp
<1> QED BY <1>1, <1>2

LEMMA AskStep == ASSUME ReplyInv, NEW ps, NEW cut \in BOOLEAN, Reply!_ask(ps, cut) PROVE ReplyInv'
<1>1. ReplyTyped /\ Honest /\ deliberating = "ask"
  BY DEF ReplyInv, Reply!_ask
<1>2. PICK formed \in BOOLEAN, body \in BOOLEAN, other \in BOOLEAN :
         /\ formed = Reply!_formed_a_decision(ps)
         /\ body = Reply!_prose_body(ps) /\ other = Reply!_object_as_the_reply(ps)
  BY DEF Reply!_formed_a_decision, Reply!_prose_body, Reply!_object_as_the_reply
<1>3. PICK p \in BOOLEAN, f \in BOOLEAN, w \in BOOLEAN :
         /\ p = (prose \/ (~cut /\ ~formed /\ body)) /\ f = (fallback \/ (~cut /\ ~formed /\ ~body /\ other))
         /\ w = (spoke \/ formed \/ (~cut /\ (body \/ other)))
  OBVIOUS
<1>4. prose' = p /\ fallback' = f
  BY <1>2, <1>3 DEF Reply!_ask
<1>5. spoke' = w
  BY <1>2, <1>3 DEF Reply!_ask, Reply!Words
<1>6. UNCHANGED <<now, journal, state, backed>>
  BY DEF Reply!_ask, Reply!world
<1>7. spoke => prose \/ fallback
  BY <1>1 DEF Honest
<1>8. CASE formed
  <2>1. PICK texts \in SUBSET Replies, c \in BOOLEAN : Reply!Decided(texts, c)
    BY <1>2, <1>8 DEF Reply!_ask
  <2>2. attempt' = attempt
    BY <1>2, <1>8 DEF Reply!_ask
  <2>3. attempt' \in 1 .. 2 /\ prose' \in BOOLEAN /\ fallback' \in BOOLEAN /\ spoke' \in BOOLEAN
    BY <1>1, <1>4, <1>5, <2>2 DEF ReplyTyped
  <2> QED BY <1>6, <2>1, <2>3, DecidedKeeps
<1>9. CASE ~formed /\ attempt = 1
  <2>1. attempt' = 2 /\ UNCHANGED <<deliberating, answer, decision>>
    BY <1>2, <1>9 DEF Reply!_ask
  <2>2. ReplyTyped'
    BY <1>1, <1>4, <1>5, <1>6, <2>1 DEF ReplyTyped
  <2>3. spoke' => prose' \/ fallback'
    BY <1>3, <1>4, <1>5, <1>7, <1>9
  <2> QED BY <1>1, <1>6, <2>1, <2>2, <2>3 DEF ReplyInv, Honest
<1>10. CASE ~formed /\ attempt # 1
  <2>1. Reply!Recovered(p, f) /\ attempt' = attempt
    BY <1>2, <1>3, <1>10 DEF Reply!_ask
  <2>2. attempt' \in 1 .. 2 /\ prose' \in BOOLEAN /\ fallback' \in BOOLEAN /\ spoke' \in BOOLEAN
    BY <1>1, <1>4, <1>5, <2>1 DEF ReplyTyped
  <2>3. spoke' => p \/ f
    BY <1>3, <1>5, <1>7, <1>10
  <2> QED BY <1>6, <2>1, <2>2, <2>3, RecoveredKeeps
<1> QED BY <1>8, <1>9, <1>10

LEMMA CallFailsStep == ASSUME ReplyInv, Reply!CallFails PROVE ReplyInv'
<1>1. /\ ReplyTyped /\ Honest /\ deliberating = "ask"
      /\ UNCHANGED <<now, journal, backed, attempt, state, prose, fallback, spoke>>
  BY DEF ReplyInv, Reply!CallFails, Reply!world, Reply!kept
<1>2. attempt' \in 1 .. 2 /\ prose' \in BOOLEAN /\ fallback' \in BOOLEAN /\ spoke' \in BOOLEAN
  BY <1>1 DEF ReplyTyped
<1>3. CASE attempt = 1
  <2>1. Reply!Failed
    BY <1>3 DEF Reply!CallFails
  <2>2. spoke' = FALSE
    BY <1>1, <1>3 DEF Honest, ReplyTyped
  <2> QED BY <1>1, <1>2, <2>1, <2>2, GivenUp
<1>4. CASE attempt # 1
  <2>1. PICK p \in BOOLEAN, f \in BOOLEAN : p = prose /\ f = fallback
    BY <1>1 DEF ReplyTyped
  <2>2. Reply!Recovered(p, f)
    BY <1>4, <2>1 DEF Reply!CallFails
  <2>3. spoke' => p \/ f
    BY <1>1, <2>1 DEF Honest
  <2> QED BY <1>1, <1>2, <2>2, <2>3, RecoveredKeeps
<1> QED BY <1>3, <1>4

\* What is left of a decision once the journal was held against it.
LEMMA WithholdStep == ASSUME ReplyInv, Reply!_withhold_unearned_progress PROVE ReplyInv'
<1>1. /\ ReplyTyped /\ Honest /\ deliberating = "withhold" /\ deliberating' = "done"
      /\ UNCHANGED <<now, journal, backed, attempt, state, prose, fallback, spoke, answer>>
  BY DEF ReplyInv, Reply!_withhold_unearned_progress, Reply!world, Reply!kept
<1>2. PICK left : left = {text \in decision.texts : ~Reply!Unearned(text)}
  OBVIOUS
<1>3. \/ decision' = decision /\ (~state.readable \/ (~\E text \in decision.texts : text.claims) \/ left = decision.texts)
      \/ decision' = Reply!Undecided /\ \E text \in decision.texts : text.claims
      \/ decision' = [decision EXCEPT !.texts = left] /\ left # {}
  BY <1>2 DEF Reply!_withhold_unearned_progress
<1>4. decision \in Decisions /\ decision.texts \subseteq Replies /\ left \subseteq decision.texts /\ decision.decided
  BY <1>1, <1>2 DEF ReplyTyped, Honest, Decisions
<1>5. \A text \in left : text.names \subseteq backed
  BY <1>1, <1>2, <1>4, ReplyConstants DEF Reply!Unearned, Honest
<1>6. decision' \in Decisions /\ decision'.texts \subseteq decision.texts
  <2>1. CASE decision' = decision
    BY <1>4, <2>1
  <2>2. CASE decision' = Reply!Undecided
    BY <2>2 DEF Decisions, Reply!Undecided
  <2>3. CASE decision' = [decision EXCEPT !.texts = left]
    BY <1>4, <2>3 DEF Decisions
  <2> QED BY <1>3, <2>1, <2>2, <2>3
<1>7. ReplyTyped'
  BY <1>1, <1>6 DEF ReplyTyped
<1>8. Reply!ClaimsWereBacked'
  <2>1. ASSUME state.readable, NEW text \in decision'.texts, text.claims PROVE text.names \subseteq backed
    <3>1. CASE decision' = decision
      BY <1>3, <1>4, <1>5, <2>1, <3>1 DEF Decisions, Reply!Undecided
    <3>2. CASE decision' = Reply!Undecided
      BY <2>1, <3>2 DEF Reply!Undecided
    <3>3. CASE decision' = [decision EXCEPT !.texts = left]
      BY <1>4, <1>5, <2>1, <3>3 DEF Decisions
    <3> QED BY <1>3, <3>1, <3>2, <3>3
  <2> QED BY <1>1, <2>1 DEF Reply!ClaimsWereBacked, Reply!Said
<1>9. Reply!WordsAreKept'
  <2>1. ASSUME decision' = Reply!Undecided PROVE \E text \in answer : text.claims
    <3>1. decision # Reply!Undecided
      BY <1>4 DEF Reply!Undecided
    <3>2. decision' # [decision EXCEPT !.texts = left]
      BY <1>4, <2>1 DEF Decisions, Reply!Undecided
    <3> QED BY <1>1, <1>3, <2>1, <3>1, <3>2 DEF ReplyTyped
  <2>2. answer' = answer
    BY <1>1
  <2> QED BY <2>1, <2>2 DEF Reply!WordsAreKept, Reply!Undecided
<1> QED BY <1>1, <1>7, <1>8, <1>9 DEF ReplyInv, Honest

LEMMA ReplyStep == ASSUME ReplyInv, Reply!Next PROVE ReplyInv'
<1>1. ASSUME NEW ps \in Reply!Answers, NEW cut \in BOOLEAN, Reply!_ask(ps, cut) PROVE ReplyInv'
  BY <1>1, AskStep
<1> QED BY <1>1, JournalStep, LookingStep, CallFailsStep, WithholdStep DEF Reply!Next

LEMMA ReplyInit == ASSUME Reply!Init PROVE ReplyInv
<1>1. /\ now = 0 /\ journal = << >> /\ deliberating = "new" /\ attempt = 1
      /\ state = [readable |-> FALSE, something_happened |-> FALSE, names |-> {}]
      /\ prose = FALSE /\ fallback = FALSE /\ answer = {} /\ backed = {} /\ spoke = FALSE
      /\ decision = [texts |-> {}, decided |-> FALSE, commissions |-> FALSE]
  BY DEF Reply!Init, Reply!Undecided
<1>2. journal \in Seq(JournalRows) /\ Len(journal) = 0
  BY <1>1, EmptySeq
<1>3. 0 \in 0 .. Horizon /\ 0 <= ActionBound
  BY ReplyConstants
<1>4. /\ state \in [readable : BOOLEAN, something_happened : BOOLEAN, names : SUBSET Reply!Agents] /\ state.names = {}
      /\ decision \in Decisions /\ decision.texts = {}
  BY <1>1 DEF Decisions
<1>5. now \in 0 .. Horizon /\ Len(journal) <= ActionBound /\ attempt \in 1 .. 2 /\ answer \subseteq Replies
  BY <1>1, <1>2, <1>3
<1>6. spoke \in BOOLEAN /\ prose \in BOOLEAN /\ fallback \in BOOLEAN
  BY <1>1
<1>7. ReplyTyped
  BY <1>1, <1>2, <1>4, <1>5, <1>6 DEF ReplyTyped
<1> QED BY <1>1, <1>4, <1>7 DEF ReplyInv, Honest

LEMMA ReplyStands == ASSUME ReplyInv PROVE Reply!TypeOK /\ Reply!ClaimsWereBacked /\ Reply!WordsAreKept
<1>1. ReplyTyped /\ Honest
  BY DEF ReplyInv
<1>2. \A i \in DOMAIN journal : journal[i] \in JournalRows
  BY <1>1, ElementOfSeq, LenProperties DEF ReplyTyped
<1>3. Reply!TypeOK
  <2>1. decision.decided \in BOOLEAN /\ decision.commissions \in BOOLEAN /\ state.names \subseteq Reply!Agents
    BY <1>1 DEF ReplyTyped, Decisions
  <2> QED BY <1>1, <1>2, <2>1 DEF ReplyTyped, JournalRows, Reply!TypeOK
<1>4. CASE deliberating = "done"
  BY <1>1, <1>3, <1>4 DEF Honest
<1>5. CASE deliberating # "done"
  BY <1>3, <1>5 DEF Reply!ClaimsWereBacked, Reply!WordsAreKept, Reply!Said
<1> QED BY <1>4, <1>5

\* No text that is sent names a sub-agent nothing journaled backs, and no attempt's
\* words are lost to a failure (SocialCognition.deliberate of social/deliberation.py).
ReplyPart == part = "reply" => ReplyInv
THEOREM RepliesAreBacked == Spec => []ReplySafe
<1>1. Init => ReplyPart
  BY ReplyInit DEF Init, ReplyPart
<1>2. ReplyPart /\ [Next]_vars => ReplyPart'
  <2> SUFFICES ASSUME ReplyPart, [Next]_vars, part' = "reply" PROVE ReplyInv'
    BY DEF ReplyPart
  <2>1. CASE part = "reply" /\ Reply!Next
    BY <2>1, ReplyStep DEF ReplyPart
  <2>2. CASE UNCHANGED vars
    <3>1. /\ ReplyInv /\ UNCHANGED <<deliberating, attempt, state, prose, fallback, answer, decision, backed, spoke>>
          /\ now' = now /\ journal' = journal
      BY <2>2 DEF vars, mindVars, replyVars, ReplyPart
    <3> QED BY <3>1, JournalMoves DEF ReplyInv, ReplyTyped
  <2> QED BY <2>1, <2>2 DEF Next, Handed, Mind, Hands
<1>3. ReplyPart => ReplySafe
  BY ReplyStands DEF ReplyPart, ReplySafe
<1> QED BY <1>1, <1>2, <1>3, PTL DEF Spec

-----------------------------------------------------------------------------
(* A message: a task has it in hand, it was recorded and told of, or a fault *)
(* met it; the window of its door holds its id from the moment it is taken   *)
(* up until it is forgotten, and no other message of the door has that id.   *)

Handling(s, m) == job[s].at # "idle" /\ job[s].msg = m
Told(m) == (\E s \in Handlers : Handling(s, m)) \/ events[m] > 0 \/ m \in hit
Tracked(m) == m.door \in Inbound!Named /\ ~Inbound!Unnamed(m)
OnceOK(m) ==
    /\ \A s, t \in Handlers : Handling(s, m) /\ Handling(t, m) => s = t
    /\ \A s \in Handlers : Handling(s, m) /\ job[s].at = "recording" => rows[m] = 0
    /\ rows[m] <= 1
    /\ (\E s \in Handlers : Handling(s, m)) \/ rows[m] > 0 =>
         IF m.door = "discord" THEN sender[m] = "gone" ELSE m.id \in seen[m.door]
MessageOK(m) ==
    /\ m \notin forgotten /\ ~Inbound!Unnamed(m) => OnceOK(m)
    /\ Tracked(m) /\ m.id \in seen[m.door] => Told(m)
    /\ sender[m] = "gone" \/ (m.door = "telegram" /\ sender[m] = "read") => m \in queue \/ Told(m)
InboundInv == Inbound!TypeOK /\ \A m \in Messages : MessageOK(m)

LEMMA MessagesTyped ==
    /\ MaxFaults \in Nat /\ MaxDelay \in Nat
    /\ \A m \in Messages : m.door \in Inbound!Kinds
    /\ \A m, o \in Messages : Tracked(m) /\ Tracked(o) /\ m.door = o.door /\ m.id = o.id => m = o
<1>1. /\ Messages \subseteq [door : Inbound!Kinds, id : Nat, n : Nat]
      /\ \A m \in Messages : m.id = 0 => m.door \in {"push", "discord"}
      /\ \A m, o \in Messages : m.door = o.door /\ m.id = o.id /\ m.id # 0 => m = o
      /\ MaxFaults \in Nat /\ MaxDelay \in Nat
  BY RecordsAssumption DEF RecordsAssumption, Inbound!InboundAssumption
<1>2. \A m \in Messages : Tracked(m) => m.id # 0
  BY <1>1 DEF Tracked, Inbound!Unnamed, Inbound!Named
<1> QED BY <1>1, <1>2

\* What a task has in hand when one takes a message up, goes on or lays it down.
LEMMA HandsLaidDown ==
    ASSUME Inbound!TypeOK, NEW s \in Handlers, NEW r, r = Inbound!Free, job' = [job EXCEPT ![s] = r]
    PROVE  /\ job'[s] = r /\ \A t \in Handlers \ {s} : job'[t] = job[t]
           /\ job' \in [Handlers -> Inbound!Jobs]
           /\ \A t \in Handlers, o \in Messages : Handling(t, o)' <=> Handling(t, o) /\ t # s
<1>1. job \in [Handlers -> Inbound!Jobs]
  BY DEF Inbound!TypeOK
<1>2. r \in Inbound!Jobs /\ r.at = "idle"
  BY DEF Inbound!Free, Inbound!Jobs
<1>3. job' \in [Handlers -> Inbound!Jobs]
  BY <1>1, <1>2
<1>4. job'[s] = r /\ \A t \in Handlers \ {s} : job'[t] = job[t]
  BY <1>1
<1>5. ASSUME NEW t \in Handlers, NEW o \in Messages PROVE Handling(t, o)' <=> Handling(t, o) /\ t # s
  BY <1>2, <1>4 DEF Handling
<1> QED BY <1>3, <1>4, <1>5

\* The same for a task that has a message in hand after the step.
LEMMA HandsTaken ==
    ASSUME NEW s \in Handlers, NEW m \in Messages, job'[s].at \in {"recording", "publishing"}, job'[s].msg = m,
           \A t \in Handlers \ {s} : job'[t] = job[t]
    PROVE  \A t \in Handlers, o \in Messages : Handling(t, o)' <=> (Handling(t, o) /\ t # s) \/ (t = s /\ o = m)
<1> SUFFICES ASSUME NEW t \in Handlers, NEW o \in Messages
             PROVE  Handling(t, o)' <=> (Handling(t, o) /\ t # s) \/ (t = s /\ o = m)
  OBVIOUS
<1>1. CASE t = s
  BY <1>1 DEF Handling
<1>2. CASE t # s
  BY <1>2 DEF Handling
<1> QED BY <1>1, <1>2

LEMMA Taking ==
    ASSUME Inbound!TypeOK, NEW s \in Handlers, NEW m \in Messages, Inbound!Takes(s, m)
    PROVE  /\ job' \in [Handlers -> Inbound!Jobs] /\ job[s].at = "idle" /\ job'[s].at = "recording"
           /\ \A t \in Handlers \ {s} : job'[t] = job[t]
           /\ \A t \in Handlers, o \in Messages : Handling(t, o)' <=> Handling(t, o) \/ (t = s /\ o = m)
<1>1. PICK r : r = [at |-> "recording", msg |-> m]
  OBVIOUS
<1>2. r \in Inbound!Jobs /\ r.at = "recording" /\ r.msg = m
  BY <1>1 DEF Inbound!Jobs
<1>3. job[s].at = "idle" /\ job' = [job EXCEPT ![s] = r]
  BY <1>1 DEF Inbound!Takes
<1>4. job'[s] = r /\ job' \in [Handlers -> Inbound!Jobs] /\ \A t \in Handlers \ {s} : job'[t] = job[t]
  BY <1>2, <1>3 DEF Inbound!TypeOK
<1>5. job'[s].at \in {"recording", "publishing"} /\ job'[s].msg = m
  BY <1>2, <1>4
<1>6. \A t \in Handlers, o \in Messages : Handling(t, o)' <=> (Handling(t, o) /\ t # s) \/ (t = s /\ o = m)
  BY <1>4, <1>5, HandsTaken
<1>7. \A o \in Messages : ~Handling(s, o)
  BY <1>3 DEF Handling
<1> QED BY <1>2, <1>3, <1>4, <1>6, <1>7

\* What the windows of ids keep: an id that is in one stays, unless its message
\* is forgotten, and only the one that is offered comes in.
Windows(m) ==
    /\ seen' \in [Inbound!Named -> SUBSET Inbound!Ids] /\ forgotten' \subseteq Messages /\ forgotten \subseteq forgotten'
    /\ \A o \in Messages : o.door \in Inbound!Named /\ o \notin forgotten' /\ o.id \in seen[o.door] => o.id \in seen'[o.door]
    /\ \A o \in Messages : Tracked(o) /\ o.id \in seen'[o.door] => o.id \in seen[o.door] \/ o = m
    /\ Tracked(m) /\ m \notin forgotten' => m.id \in seen'[m.door]

LEMMA OfferKeepsWindows ==
    ASSUME Inbound!TypeOK, NEW m \in Messages, m.door \in Inbound!Named, Inbound!offer_seen(m) PROVE Windows(m)
<1>1. CASE Inbound!Unnamed(m)
  <2>1. seen' = seen /\ forgotten' = forgotten /\ ~Tracked(m)
    BY <1>1 DEF Inbound!offer_seen, Tracked
  <2> QED BY <2>1 DEF Windows, Inbound!TypeOK
<1>2. CASE ~Inbound!Unnamed(m)
  <2>1. PICK stale \in Inbound!Stale(m.door, seen[m.door] \cup {m.id}) :
           /\ seen' = [seen EXCEPT ![m.door] = (@ \cup {m.id}) \ stale]
           /\ forgotten' = forgotten \cup {o \in Inbound!Of(m.door) : o.id \in stale}
    BY <1>2 DEF Inbound!offer_seen
  <2>2. seen \in [Inbound!Named -> SUBSET Inbound!Ids] /\ forgotten \subseteq Messages
    BY DEF Inbound!TypeOK
  <2>3. m.id \in Inbound!Ids
    BY DEF Inbound!Ids
  <2>4. /\ seen' \in [Inbound!Named -> SUBSET Inbound!Ids]
        /\ seen'[m.door] = (seen[m.door] \cup {m.id}) \ stale
        /\ \A d \in Inbound!Named \ {m.door} : seen'[d] = seen[d]
    BY <2>1, <2>2, <2>3
  <2>5. forgotten' = forgotten \cup {o \in Messages : o.door = m.door /\ o.id \in stale}
    BY <2>1 DEF Inbound!Of
  <2>6. Tracked(m)
    BY <1>2 DEF Tracked
  <2>7. \A o \in Messages : Tracked(o) /\ o.id \in seen'[o.door] => o.id \in seen[o.door] \/ o = m
    <3> TAKE o \in Messages
    <3> HAVE Tracked(o) /\ o.id \in seen'[o.door]
    <3>1. CASE o.door # m.door
      BY <2>4, <3>1 DEF Tracked
    <3>2. CASE o.door = m.door
      BY <2>4, <2>6, <3>2, MessagesTyped
    <3> QED BY <3>1, <3>2
  <2>8. \A o \in Messages : o.door \in Inbound!Named /\ o \notin forgotten' /\ o.id \in seen[o.door] => o.id \in seen'[o.door]
    BY <2>4, <2>5
  <2>9. m \notin forgotten' => m.id \in seen'[m.door]
    BY <2>4, <2>5
  <2> QED BY <2>2, <2>4, <2>5, <2>7, <2>8, <2>9 DEF Windows
<1> QED BY <1>1, <1>2

LEMMA WindowsRest ==
    ASSUME Inbound!TypeOK, NEW m \in Messages, UNCHANGED <<seen, forgotten>>, Tracked(m) => m.id \in seen[m.door] PROVE Windows(m)
  BY DEF Windows, Inbound!TypeOK

\* A message that is new to its window, or said once, is taken up.
LEMMA TakenUp ==
    ASSUME InboundInv, NEW s \in Handlers, NEW m \in Messages, Inbound!Takes(s, m),
           Windows(m) \/ (m.door = "discord" /\ UNCHANGED <<seen, forgotten>>),
           m.door # "discord" => Inbound!New(m), m.door = "discord" => sender[m] = "held" /\ sender'[m] = "gone",
           sender' \in [Messages -> {"unsent", "held", "read", "gone"}],
           \A o \in Messages \ {m} : sender'[o] = sender[o], queue' \subseteq queue, queue \ {m} \subseteq queue',
           UNCHANGED <<rows, events, connected, delay, hit, faults>>
    PROVE  InboundInv'
<1>1. /\ job' \in [Handlers -> Inbound!Jobs] /\ job[s].at = "idle" /\ job'[s].at = "recording"
      /\ \A t \in Handlers \ {s} : job'[t] = job[t]
      /\ \A t \in Handlers, o \in Messages : Handling(t, o)' <=> Handling(t, o) \/ (t = s /\ o = m)
  BY Taking DEF InboundInv
<1>2. Inbound!TypeOK /\ \A o \in Messages : MessageOK(o)
  BY DEF InboundInv
<1>3. /\ seen' \in [Inbound!Named -> SUBSET Inbound!Ids] /\ forgotten' \subseteq Messages /\ forgotten \subseteq forgotten'
      /\ \A o \in Messages : o.door \in Inbound!Named /\ o \notin forgotten' /\ o.id \in seen[o.door] => o.id \in seen'[o.door]
      /\ \A o \in Messages : Tracked(o) /\ o.id \in seen'[o.door] => o.id \in seen[o.door] \/ o = m
      /\ Tracked(m) /\ m \notin forgotten' => m.id \in seen'[m.door]
  <2>1. CASE Windows(m)
    BY <2>1 DEF Windows
  <2>2. CASE m.door = "discord" /\ UNCHANGED <<seen, forgotten>>
    BY <1>2, <2>2 DEF Inbound!TypeOK, Tracked, Inbound!Named
  <2> QED BY <2>1, <2>2
<1>4. Inbound!TypeOK'
  BY <1>1, <1>2, <1>3 DEF Inbound!TypeOK
<1>5. \A o \in Messages : o.door = "discord" \/ o.door \in Inbound!Named
  BY MessagesTyped DEF Inbound!Kinds, Inbound!Named
<1>6. m \notin forgotten /\ ~Inbound!Unnamed(m) => rows[m] = 0 /\ \A t \in Handlers : ~Handling(t, m)
  <2> HAVE m \notin forgotten /\ ~Inbound!Unnamed(m)
  <2>1. OnceOK(m) /\ rows[m] \in 0 .. 2
    BY <1>2 DEF MessageOK, Inbound!TypeOK
  <2>2. CASE m.door = "discord"
    BY <2>1, <2>2 DEF OnceOK
  <2>3. CASE m.door # "discord"
    <3>1. m.id \notin seen[m.door]
      BY <2>3 DEF Inbound!New
    <3> QED BY <2>1, <2>3, <3>1 DEF OnceOK
  <2> QED BY <2>2, <2>3
<1>7. Told(m)'
  BY <1>1 DEF Told
<1>8. \A o \in Messages : Told(o) => Told(o)'
  BY <1>1 DEF Told
<1>9. MessageOK(m)'
  <2>1. OnceOK(m)' \/ m \in forgotten' \/ Inbound!Unnamed(m)
    <3> SUFFICES ASSUME m \notin forgotten', ~Inbound!Unnamed(m) PROVE OnceOK(m)'
      OBVIOUS
    <3>1. rows[m] = 0 /\ \A t \in Handlers : ~Handling(t, m)
      BY <1>3, <1>6
    <3>2. IF m.door = "discord" THEN sender'[m] = "gone" ELSE m.id \in seen'[m.door]
      BY <1>3, <1>5 DEF Tracked
    <3> QED BY <1>1, <3>1, <3>2 DEF OnceOK
  <2> QED BY <1>7, <2>1 DEF MessageOK
<1>10. ASSUME NEW o \in Messages \ {m} PROVE MessageOK(o)'
  <2>1. MessageOK(o) /\ sender'[o] = sender[o] /\ (o \in queue => o \in queue')
    BY <1>2
  <2>2. \A t \in Handlers : (Handling(t, o)' <=> Handling(t, o)) /\ (Handling(t, o) => job'[t] = job[t])
    BY <1>1 DEF Handling
  <2>3. o \notin forgotten' /\ ~Inbound!Unnamed(o) => OnceOK(o)'
    <3> HAVE o \notin forgotten' /\ ~Inbound!Unnamed(o)
    <3>1. OnceOK(o)
      BY <1>3, <2>1 DEF MessageOK
    <3>2. (\E t \in Handlers : Handling(t, o)) \/ rows[o] > 0 => IF o.door = "discord" THEN sender'[o] = "gone" ELSE o.id \in seen'[o.door]
      BY <1>3, <1>5, <2>1, <3>1 DEF OnceOK
    <3> QED BY <2>2, <3>1, <3>2 DEF OnceOK
  <2>4. Tracked(o) /\ o.id \in seen'[o.door] => Told(o)'
    BY <1>3, <1>8, <2>1 DEF MessageOK
  <2>5. sender'[o] = "gone" \/ (o.door = "telegram" /\ sender'[o] = "read") => o \in queue' \/ Told(o)'
    BY <1>8, <2>1 DEF MessageOK
  <2> QED BY <2>3, <2>4, <2>5 DEF MessageOK, Tracked, Inbound!Unnamed
<1> QED BY <1>4, <1>9, <1>10 DEF InboundInv

\* What a step may do to a message that it neither takes up nor records: the
\* windows keep its id, what it loses of its place it has been told of.
Kept(o) ==
    /\ (o \in forgotten => o \in forgotten') /\ rows'[o] = rows[o] /\ (Told(o) => Told(o)')
    /\ o.door \in Inbound!Named /\ o \notin forgotten' /\ o.id \in seen[o.door] => o.id \in seen'[o.door]
    /\ Tracked(o) /\ o.id \in seen'[o.door] => o.id \in seen[o.door] \/ Told(o)'
    /\ \A t \in Handlers : Handling(t, o)' => Handling(t, o) /\ job'[t] = job[t]
    /\ sender[o] = "gone" => sender'[o] = "gone"
    /\ sender'[o] = "gone" => sender[o] = "gone" \/ (o.door = "telegram" /\ sender[o] = "read") \/ o \in queue' \/ Told(o)'
    /\ sender'[o] = "read" => sender[o] = "read" \/ o \in queue' \/ Told(o)'
    /\ o \in queue => o \in queue' \/ Told(o)'

LEMMA KeptMessage == ASSUME NEW o \in Messages, MessageOK(o), Kept(o) PROVE MessageOK(o)'
<1>1. o.door = "discord" \/ o.door \in Inbound!Named
  BY MessagesTyped DEF Inbound!Kinds, Inbound!Named
<1>2. o \notin forgotten' /\ ~Inbound!Unnamed(o) => OnceOK(o)'
  <2> HAVE o \notin forgotten' /\ ~Inbound!Unnamed(o)
  <2>1. OnceOK(o)
    BY DEF MessageOK, Kept
  <2>2. (\E t \in Handlers : Handling(t, o)') \/ rows'[o] > 0 => IF o.door = "discord" THEN sender'[o] = "gone" ELSE o.id \in seen'[o.door]
    BY <1>1, <2>1 DEF OnceOK, Kept
  <2>3. \A t \in Handlers : Handling(t, o)' => Handling(t, o) /\ job'[t] = job[t]
    BY DEF Kept
  <2>4. rows'[o] = rows[o]
    BY DEF Kept
  <2> QED BY <2>1, <2>2, <2>3, <2>4 DEF OnceOK
<1>3. Tracked(o) /\ o.id \in seen'[o.door] => Told(o)'
  BY DEF MessageOK, Kept
<1>4. sender'[o] = "gone" \/ (o.door = "telegram" /\ sender'[o] = "read") => o \in queue' \/ Told(o)'
  <2> HAVE sender'[o] = "gone" \/ (o.door = "telegram" /\ sender'[o] = "read")
  <2>1. sender[o] = "gone" \/ (o.door = "telegram" /\ sender[o] = "read") \/ o \in queue' \/ Told(o)'
    BY DEF Kept
  <2>2. sender[o] = "gone" \/ (o.door = "telegram" /\ sender[o] = "read") => o \in queue \/ Told(o)
    BY DEF MessageOK
  <2> QED BY <2>1, <2>2 DEF Kept
<1> QED BY <1>2, <1>3, <1>4 DEF MessageOK, Tracked, Inbound!Unnamed

LEMMA KeptAll == ASSUME InboundInv, Inbound!TypeOK', \A o \in Messages : Kept(o) PROVE InboundInv'
  BY KeptMessage DEF InboundInv

\* Where the tasks and the rows rest, a message keeps what is said of it as
\* long as the windows do and nothing of its place is lost unseen.
LEMMA TasksRest ==
    ASSUME InboundInv, UNCHANGED <<job, rows, events>>, hit \subseteq hit', NEW o \in Messages
    PROVE  /\ \A t \in Handlers : Handling(t, o)' => Handling(t, o) /\ job'[t] = job[t]
           /\ Told(o) => Told(o)'
           /\ o \in hit' => Told(o)'
           /\ rows'[o] = rows[o]
  BY DEF Handling, Told

LEMMA getUpdatesStep == ASSUME InboundInv, Inbound!getUpdates PROVE InboundInv'
<1>1. /\ sender' = [m \in Messages |->
           IF m.door # "telegram" THEN sender[m]
           ELSE IF sender[m] = "held" THEN "read" ELSE IF sender[m] = "read" THEN "gone" ELSE sender[m]]
      /\ queue' = queue \cup {m \in Inbound!Of("telegram") : sender[m] = "held"}
      /\ UNCHANGED <<seen, job, rows, events, connected, delay, forgotten, hit, faults>>
  BY DEF Inbound!getUpdates
<1>2. Inbound!TypeOK
  BY DEF InboundInv
<1>3. Inbound!TypeOK'
  <2>1. sender' \in [Messages -> {"unsent", "held", "read", "gone"}] /\ queue' \subseteq Inbound!Of("telegram")
    BY <1>1, <1>2 DEF Inbound!TypeOK
  <2> QED BY <1>1, <1>2, <2>1 DEF Inbound!TypeOK
<1>4. ASSUME NEW o \in Messages PROVE Kept(o)
  <2>1. o \in queue => o \in queue'
    BY <1>1
  <2>2. sender'[o] = "gone" => sender[o] = "gone" \/ (o.door = "telegram" /\ sender[o] = "read")
    BY <1>1
  <2>3. sender'[o] = "read" => sender[o] = "read" \/ o \in queue'
    BY <1>1 DEF Inbound!Of
  <2>4. sender[o] = "gone" => sender'[o] = "gone"
    BY <1>1
  <2> QED BY <1>1, <2>1, <2>2, <2>3, <2>4, TasksRest DEF Kept
<1> QED BY <1>3, <1>4, KeptAll

\* A message that is not new to its window has been told of.
LEMMA KnownIsTold == ASSUME InboundInv, NEW m \in Messages, m.door # "discord", ~Inbound!New(m) PROVE Told(m)
<1>1. Tracked(m) /\ m.id \in seen[m.door]
  BY MessagesTyped DEF Inbound!New, Tracked, Inbound!Kinds, Inbound!Named
<1> QED BY <1>1 DEF InboundInv, MessageOK

LEMMA handleStep == ASSUME InboundInv, NEW s \in Handlers, NEW m \in Messages, Inbound!handle(s, m) PROVE InboundInv'
<1>1. m \in queue /\ queue' = queue \ {m} /\ UNCHANGED <<sender, rows, events, connected, delay, hit, faults>>
  BY DEF Inbound!handle
<1>2. Inbound!TypeOK /\ m.door = "telegram"
  BY <1>1 DEF InboundInv, Inbound!TypeOK, Inbound!Of
<1>3. CASE Inbound!New(m)
  <2>1. Inbound!offer_seen(m) /\ Inbound!Takes(s, m)
    BY <1>3 DEF Inbound!handle
  <2>2. Windows(m)
    BY <1>2, <2>1, OfferKeepsWindows DEF Inbound!Named
  <2>3. sender' \in [Messages -> {"unsent", "held", "read", "gone"}]
    BY <1>1, <1>2 DEF Inbound!TypeOK
  <2> QED BY <1>1, <1>2, <1>3, <2>1, <2>2, <2>3, TakenUp
<1>4. CASE ~Inbound!New(m)
  <2>1. UNCHANGED <<seen, forgotten, job>>
    BY <1>4 DEF Inbound!handle
  <2>2. Inbound!TypeOK'
    BY <1>1, <1>2, <2>1 DEF Inbound!TypeOK
  <2>3. Told(m)
    BY <1>2, <1>4, KnownIsTold
  <2>4. ASSUME NEW o \in Messages PROVE Kept(o)
    <3>1. o \in queue => o \in queue' \/ Told(o)'
      BY <1>1, <2>1, <2>3, TasksRest
    <3> QED BY <1>1, <2>1, <3>1, TasksRest DEF Kept
  <2> QED BY <2>2, <2>4, KeptAll
<1> QED BY <1>3, <1>4

LEMMA handle_webhookStep == ASSUME InboundInv, NEW s \in Handlers, NEW m \in Messages, Inbound!handle_webhook(s, m) PROVE InboundInv'
<1>1. m.door = "push" /\ UNCHANGED <<queue, rows, events, connected, delay, hit, faults>>
  BY DEF Inbound!handle_webhook
<1>2. Inbound!TypeOK
  BY DEF InboundInv
<1>3. CASE Inbound!New(m)
  <2>1. Inbound!offer_seen(m) /\ Inbound!Takes(s, m) /\ sender' = sender
    BY <1>3 DEF Inbound!handle_webhook
  <2>2. Windows(m)
    BY <1>1, <1>2, <2>1, OfferKeepsWindows DEF Inbound!Named
  <2>3. sender' \in [Messages -> {"unsent", "held", "read", "gone"}]
    BY <1>2, <2>1 DEF Inbound!TypeOK
  <2> QED BY <1>1, <1>3, <2>1, <2>2, <2>3, TakenUp
<1>4. CASE ~Inbound!New(m)
  <2>1. UNCHANGED <<seen, forgotten, job>> /\ sender' = [sender EXCEPT ![m] = "gone"]
    BY <1>4 DEF Inbound!handle_webhook
  <2>2. Inbound!TypeOK'
    BY <1>1, <1>2, <2>1 DEF Inbound!TypeOK
  <2>3. Told(m)
    BY <1>1, <1>4, KnownIsTold
  <2>4. ASSUME NEW o \in Messages PROVE Kept(o)
    <3>1. sender'[o] = IF o = m THEN "gone" ELSE sender[o]
      BY <1>2, <2>1 DEF Inbound!TypeOK
    <3>2. Told(m)'
      BY <1>1, <2>1, <2>3, TasksRest
    <3> QED BY <1>1, <2>1, <3>1, <3>2, TasksRest DEF Kept
  <2> QED BY <2>2, <2>4, KeptAll
<1> QED BY <1>3, <1>4

LEMMA _runStep == ASSUME InboundInv, Inbound!_run PROVE InboundInv'
<1>1. connected' = TRUE /\ UNCHANGED <<sender, queue, seen, job, rows, events, delay, forgotten, hit, faults>>
  BY DEF Inbound!_run
<1>2. Inbound!TypeOK'
  BY <1>1 DEF InboundInv, Inbound!TypeOK
<1>3. \A o \in Messages : Kept(o)
  BY <1>1, TasksRest DEF Kept
<1> QED BY <1>2, <1>3, KeptAll

LEMMA _sessionStep == ASSUME InboundInv, Inbound!_session PROVE InboundInv'
<1>1. PICK unread : unread = {m \in Inbound!Of("discord") : sender[m] = "held"}
  OBVIOUS
<1>2. /\ faults < MaxFaults /\ faults' = faults + 1 /\ connected' = FALSE
      /\ delay' = IF delay < MaxDelay THEN delay + 1 ELSE delay
      /\ sender' = [m \in Messages |-> IF m \in unread THEN "gone" ELSE sender[m]]
      /\ hit' = hit \cup unread
      /\ UNCHANGED <<queue, seen, job, rows, events, forgotten>>
  BY <1>1 DEF Inbound!_session
<1>3. unread \subseteq Messages
  BY <1>1 DEF Inbound!Of
<1>4. Inbound!TypeOK
  BY DEF InboundInv
<1>5. Inbound!TypeOK'
  <2>1. sender' \in [Messages -> {"unsent", "held", "read", "gone"}] /\ hit' \subseteq Messages
    BY <1>2, <1>3, <1>4 DEF Inbound!TypeOK
  <2>2. faults' \in 0 .. MaxFaults /\ delay' \in 0 .. MaxDelay
    BY <1>2, <1>4, MessagesTyped DEF Inbound!TypeOK
  <2> QED BY <1>2, <1>4, <2>1, <2>2 DEF Inbound!TypeOK
<1>6. ASSUME NEW o \in Messages PROVE Kept(o)
  <2>1. sender'[o] = IF o \in unread THEN "gone" ELSE sender[o]
    BY <1>2
  <2>2. o \in unread => Told(o)'
    BY <1>2, TasksRest
  <2> QED BY <1>2, <2>1, <2>2, TasksRest DEF Kept
<1> QED BY <1>5, <1>6, KeptAll

LEMMA _dispatchStep == ASSUME InboundInv, NEW s \in Handlers, NEW m \in Messages, Inbound!_dispatch(s, m) PROVE InboundInv'
<1>1. /\ m.door = "discord" /\ sender[m] = "held" /\ sender' = [sender EXCEPT ![m] = "gone"] /\ Inbound!Takes(s, m)
      /\ UNCHANGED <<queue, seen, rows, events, connected, delay, forgotten, hit, faults>>
  BY DEF Inbound!_dispatch
<1>2. sender \in [Messages -> {"unsent", "held", "read", "gone"}]
  BY DEF InboundInv, Inbound!TypeOK
<1>3. sender' \in [Messages -> {"unsent", "held", "read", "gone"}] /\ sender'[m] = "gone" /\ \A o \in Messages \ {m} : sender'[o] = sender[o]
  BY <1>1, <1>2
<1> QED BY <1>1, <1>3, TakenUp

LEMMA Faulted == ASSUME InboundInv, NEW m \in Messages, Inbound!Fails(m) \/ Inbound!Well
                 PROVE  faults' \in 0 .. MaxFaults /\ hit \subseteq hit' /\ hit' \subseteq Messages /\ (Inbound!Fails(m) => m \in hit')
  BY MessagesTyped DEF InboundInv, Inbound!TypeOK, Inbound!Fails, Inbound!Well

LEMMA _poll_onceStep == ASSUME InboundInv, NEW s \in Handlers, NEW m \in Messages, Inbound!_poll_once(s, m) PROVE InboundInv'
<1>1. m.door = "email" /\ sender[m] = "held" /\ Inbound!New(m) /\ Inbound!offer_seen(m) /\ UNCHANGED <<queue, rows, events, connected, delay>>
  BY DEF Inbound!_poll_once
<1>2. Inbound!TypeOK
  BY DEF InboundInv
<1>3. Windows(m)
  BY <1>1, <1>2, OfferKeepsWindows DEF Inbound!Named
<1>4. CASE Inbound!Takes(s, m) /\ sender' = [sender EXCEPT ![m] = "gone"] /\ Inbound!Well
  <2>1. sender' \in [Messages -> {"unsent", "held", "read", "gone"}] /\ \A o \in Messages \ {m} : sender'[o] = sender[o]
    BY <1>2, <1>4 DEF Inbound!TypeOK
  <2>2. UNCHANGED <<hit, faults>>
    BY <1>4 DEF Inbound!Well
  <2>3. Inbound!Takes(s, m)
    BY <1>4
  <2> QED BY <1>1, <1>3, <2>1, <2>2, <2>3, TakenUp
<1>5. CASE Inbound!Fails(m) /\ UNCHANGED <<job, sender>>
  <2>1. /\ seen' \in [Inbound!Named -> SUBSET Inbound!Ids] /\ forgotten' \subseteq Messages /\ forgotten \subseteq forgotten'
        /\ \A o \in Messages : o.door \in Inbound!Named /\ o \notin forgotten' /\ o.id \in seen[o.door] => o.id \in seen'[o.door]
        /\ \A o \in Messages : Tracked(o) /\ o.id \in seen'[o.door] => o.id \in seen[o.door] \/ o = m
    BY <1>3 DEF Windows
  <2>2. faults' \in 0 .. MaxFaults /\ hit \subseteq hit' /\ hit' \subseteq Messages /\ m \in hit'
    BY <1>5, Faulted
  <2>3. Inbound!TypeOK'
    BY <1>1, <1>2, <1>5, <2>1, <2>2 DEF Inbound!TypeOK
  <2>4. Told(m)'
    BY <2>2 DEF Told
  <2>5. ASSUME NEW o \in Messages PROVE Kept(o)
    <3>1. /\ \A t \in Handlers : Handling(t, o)' => Handling(t, o) /\ job'[t] = job[t]
          /\ Told(o) => Told(o)'
      BY <1>1, <1>5, <2>2, TasksRest
    <3>2. Tracked(o) /\ o.id \in seen'[o.door] => o.id \in seen[o.door] \/ Told(o)'
      BY <2>1, <2>4
    <3> QED BY <1>1, <1>5, <2>1, <3>1, <3>2 DEF Kept
  <2> QED BY <2>3, <2>5, KeptAll
<1> QED BY <1>1, <1>4, <1>5 DEF Inbound!_poll_once

\* A task that ends leaves a sign of its message: an event, or the fault.
LEMMA Laid ==
    ASSUME InboundInv, NEW s \in Handlers, NEW m \in Messages, Handling(s, m),
           job' = [job EXCEPT ![s] = Inbound!Free], Inbound!Answered(m), rows' = rows,
           events' \in [Messages -> 0 .. 2], \A o \in Messages : events[o] > 0 => events'[o] > 0,
           Inbound!Fails(m) \/ Inbound!Well, Inbound!Fails(m) \/ events'[m] > 0,
           UNCHANGED <<queue, seen, connected, delay, forgotten>>
    PROVE  InboundInv'
<1>1. Inbound!TypeOK
  BY DEF InboundInv
<1>2. /\ job' \in [Handlers -> Inbound!Jobs]
      /\ \A t \in Handlers \ {s} : job'[t] = job[t]
      /\ \A t \in Handlers, o \in Messages : Handling(t, o)' <=> Handling(t, o) /\ t # s
  <2>1. PICK r : r = Inbound!Free
    OBVIOUS
  <2>2. job' = [job EXCEPT ![s] = r]
    BY <2>1
  <2> QED BY <1>1, <2>1, <2>2, HandsLaidDown
<1>3. faults' \in 0 .. MaxFaults /\ hit \subseteq hit' /\ hit' \subseteq Messages /\ (m \in hit' \/ events'[m] > 0)
  BY Faulted
<1>4. /\ sender' \in [Messages -> {"unsent", "held", "read", "gone"}]
      /\ \A o \in Messages : sender'[o] = sender[o] \/ (o = m /\ sender'[o] = "gone")
  BY <1>1 DEF Inbound!Answered, Inbound!TypeOK
<1>5. Inbound!TypeOK'
  BY <1>1, <1>2, <1>3, <1>4 DEF Inbound!TypeOK
<1>6. Told(m)'
  BY <1>3 DEF Told
<1>7. ASSUME NEW o \in Messages PROVE Kept(o)
  <2>1. \A t \in Handlers : Handling(t, o)' => Handling(t, o) /\ job'[t] = job[t]
    BY <1>2
  <2>2. Told(o) => Told(o)'
    <3>1. \A t \in Handlers : Handling(t, o) /\ o # m => Handling(t, o)'
      BY <1>2 DEF Handling
    <3> QED BY <1>3, <1>6, <3>1 DEF Told
  <2>3. sender'[o] = sender[o] \/ (sender'[o] = "gone" /\ Told(o)')
    BY <1>4, <1>6
  <2> QED BY <2>1, <2>2, <2>3 DEF Kept
<1> QED BY <1>5, <1>7, KeptAll

LEMMA Counted == ASSUME NEW k \in [Messages -> 0 .. 2], NEW m \in Messages
                 PROVE  Inbound!Some(m, k) \in 1 .. 2 /\ (k[m] = 0 => Inbound!Some(m, k) = 1)
  BY DEF Inbound!Some

LEMMA AtWork == ASSUME InboundInv, NEW s \in Handlers, job[s].at # "idle" PROVE job[s].msg \in Messages /\ Handling(s, job[s].msg)
<1>1. job[s] \in Inbound!Jobs
  BY DEF InboundInv, Inbound!TypeOK
<1> QED BY <1>1 DEF Inbound!Jobs, Handling

LEMMA publishStep == ASSUME InboundInv, NEW s \in Handlers, Inbound!publish(s) PROVE InboundInv'
<1>1. PICK m \in Messages : m = job[s].msg /\ Handling(s, m)
  BY AtWork DEF Inbound!publish
<1>2. /\ (events' = [events EXCEPT ![m] = Inbound!Some(m, events)] /\ Inbound!Well) \/ (Inbound!Fails(m) /\ events' = events)
      /\ job' = [job EXCEPT ![s] = Inbound!Free] /\ Inbound!Answered(m)
      /\ UNCHANGED <<queue, seen, rows, connected, delay, forgotten>>
  BY <1>1 DEF Inbound!publish
<1>3. events \in [Messages -> 0 .. 2]
  BY DEF InboundInv, Inbound!TypeOK
<1>4. CASE events' = [events EXCEPT ![m] = Inbound!Some(m, events)] /\ Inbound!Well
  <2>1. Inbound!Some(m, events) \in 1 .. 2
    BY <1>3, Counted
  <2>2. events' \in [Messages -> 0 .. 2] /\ events'[m] > 0 /\ \A o \in Messages : events[o] > 0 => events'[o] > 0
    BY <1>3, <1>4, <2>1
  <2> QED BY <1>1, <1>2, <1>4, <2>2, Laid
<1>5. CASE Inbound!Fails(m) /\ events' = events
  BY <1>1, <1>2, <1>3, <1>5, Laid
<1> QED BY <1>2, <1>4, <1>5

LEMMA record_inboundStep == ASSUME InboundInv, NEW s \in Handlers, Inbound!record_inbound(s) PROVE InboundInv'
<1>1. job[s].at = "recording" /\ UNCHANGED <<queue, seen, events, connected, delay, forgotten>>
  BY DEF Inbound!record_inbound
<1>2. PICK m \in Messages : m = job[s].msg /\ Handling(s, m)
  BY <1>1, AtWork
<1>3. Inbound!TypeOK /\ \A o \in Messages : MessageOK(o)
  BY DEF InboundInv
<1>4. CASE Inbound!Fails(m) /\ job' = [job EXCEPT ![s] = Inbound!Free] /\ Inbound!Answered(m) /\ rows' = rows
  <2>1. events' \in [Messages -> 0 .. 2] /\ \A o \in Messages : events[o] > 0 => events'[o] > 0
    BY <1>1, <1>3 DEF Inbound!TypeOK
  <2> QED BY <1>1, <1>2, <1>4, <2>1, Laid
<1>5. CASE rows' = [rows EXCEPT ![m] = Inbound!Some(m, rows)] /\ job' = [job EXCEPT ![s].at = "publishing"] /\ Inbound!Well /\ sender' = sender
  <2>1. PICK r : r = [at |-> "publishing", msg |-> m]
    OBVIOUS
  <2>2. r \in Inbound!Jobs /\ r.at = "publishing" /\ r.msg = m
    BY <2>1 DEF Inbound!Jobs
  <2>3. job' = [job EXCEPT ![s] = r]
    <3>1. job \in [Handlers -> Inbound!Jobs] /\ job[s] \in [at : {"recording", "publishing"}, msg : Messages]
      BY <1>1, <1>3 DEF Inbound!TypeOK, Inbound!Jobs
    <3>2. [job[s] EXCEPT !.at = "publishing"] = r
      BY <1>2, <2>1, <3>1
    <3> QED BY <1>5, <3>1, <3>2
  <2>4. /\ job'[s] = r /\ \A t \in Handlers \ {s} : job'[t] = job[t]
        /\ job' \in [Handlers -> Inbound!Jobs]
        /\ \A t \in Handlers, o \in Messages : Handling(t, o)' <=> (Handling(t, o) /\ t # s) \/ (t = s /\ o = m)
    <3>1. job'[s] = r /\ job' \in [Handlers -> Inbound!Jobs] /\ \A t \in Handlers \ {s} : job'[t] = job[t]
      BY <1>3, <2>2, <2>3 DEF Inbound!TypeOK
    <3>2. job'[s].at \in {"recording", "publishing"} /\ job'[s].msg = m
      BY <2>2, <3>1
    <3>3. \A t \in Handlers, o \in Messages : Handling(t, o)' <=> (Handling(t, o) /\ t # s) \/ (t = s /\ o = m)
      BY <3>1, <3>2, HandsTaken
    <3> QED BY <3>1, <3>3
  <2>5. \A t \in Handlers, o \in Messages : Handling(t, o)' <=> Handling(t, o)
    BY <1>2, <2>4 DEF Handling
  <2>6. rows \in [Messages -> 0 .. 2]
    BY <1>3 DEF Inbound!TypeOK
  <2>7. rows' \in [Messages -> 0 .. 2] /\ (rows[m] = 0 => rows'[m] = 1) /\ \A o \in Messages \ {m} : rows'[o] = rows[o]
    BY <1>5, <2>6, Counted
  <2>8. UNCHANGED <<faults, hit>>
    BY <1>5 DEF Inbound!Well
  <2>9. Inbound!TypeOK'
    BY <1>1, <1>3, <1>5, <2>4, <2>7, <2>8 DEF Inbound!TypeOK
  <2>10. \A o \in Messages : Told(o) => Told(o)'
    BY <1>1, <2>5, <2>8 DEF Told
  <2>11. ASSUME NEW o \in Messages \ {m} PROVE MessageOK(o)'
    <3>1. \A t \in Handlers : Handling(t, o)' => Handling(t, o) /\ job'[t] = job[t]
      BY <1>2, <2>4, <2>5 DEF Handling
    <3>2. Kept(o)
      BY <1>1, <1>5, <2>7, <2>10, <3>1 DEF Kept
    <3> QED BY <1>3, <3>2, KeptMessage
  <2>12. MessageOK(m)'
    <3>1. m \notin forgotten /\ ~Inbound!Unnamed(m) => OnceOK(m)'
      <4> HAVE m \notin forgotten /\ ~Inbound!Unnamed(m)
      <4>1. OnceOK(m)
        BY <1>3 DEF MessageOK
      <4>2. rows[m] = 0
        BY <1>1, <1>2, <4>1 DEF OnceOK
      <4>3. \A t \in Handlers : Handling(t, m)' => t = s
        BY <1>2, <2>5, <4>1 DEF OnceOK
      <4>4. job'[s].at # "recording"
        BY <2>2, <2>4
      <4>5. rows'[m] = 1
        BY <2>7, <4>2
      <4>6. IF m.door = "discord" THEN sender'[m] = "gone" ELSE m.id \in seen'[m.door]
        BY <1>1, <1>2, <1>5, <4>1 DEF OnceOK
      <4> QED BY <4>3, <4>4, <4>5, <4>6 DEF OnceOK
    <3>2. MessageOK(m)
      BY <1>3
    <3> QED BY <1>1, <1>5, <2>10, <3>1, <3>2 DEF MessageOK, Tracked, Inbound!Unnamed
  <2> QED BY <2>9, <2>11, <2>12 DEF InboundInv
<1> QED BY <1>2, <1>4, <1>5 DEF Inbound!record_inbound

LEMMA InboundRestart == ASSUME InboundInv, Inbound!Restart PROVE InboundInv'
<1>1. /\ faults < MaxFaults /\ faults' = faults + 1
      /\ sender' = [m \in Messages |-> IF sender[m] = "read" THEN "held" ELSE sender[m]]
      /\ hit' = hit \cup queue \cup {job[s].msg : s \in Inbound!Busy}
      /\ forgotten' = forgotten \cup {m \in Messages : m.door \in Inbound!Named /\ m.id \in seen[m.door]}
      /\ queue' = {} /\ seen' = [d \in Inbound!Named |-> {}] /\ job' = [s \in Handlers |-> Inbound!Free]
      /\ connected' = FALSE /\ delay' = 0
      /\ UNCHANGED <<rows, events>>
  BY DEF Inbound!Restart
<1>2. Inbound!TypeOK
  BY DEF InboundInv
<1>3. \A s \in Handlers, m \in Messages : Handling(s, m) => m \in hit'
  BY <1>1 DEF Handling, Inbound!Busy
<1>4. {job[s].msg : s \in Inbound!Busy} \subseteq Messages
  BY AtWork DEF Inbound!Busy
<1>5. \A s \in Handlers, m \in Messages : ~Handling(s, m)'
  BY <1>1 DEF Handling, Inbound!Free
<1>6. Inbound!TypeOK'
  <2>1. sender' \in [Messages -> {"unsent", "held", "read", "gone"}] /\ hit' \subseteq Messages /\ forgotten' \subseteq Messages
    BY <1>1, <1>2, <1>4 DEF Inbound!TypeOK, Inbound!Of
  <2>2. faults' \in 0 .. MaxFaults /\ delay' \in 0 .. MaxDelay
    BY <1>1, <1>2, MessagesTyped DEF Inbound!TypeOK
  <2>3. job' \in [Handlers -> Inbound!Jobs]
    BY <1>1 DEF Inbound!Jobs, Inbound!Free
  <2>4. queue' \subseteq Inbound!Of("telegram") /\ connected' \in BOOLEAN /\ seen' \in [Inbound!Named -> SUBSET Inbound!Ids]
    BY <1>1
  <2>5. rows' \in [Messages -> 0 .. 2] /\ events' \in [Messages -> 0 .. 2]
    BY <1>1, <1>2 DEF Inbound!TypeOK
  <2> QED BY <2>1, <2>2, <2>3, <2>4, <2>5 DEF Inbound!TypeOK
<1>7. ASSUME NEW o \in Messages PROVE Kept(o)
  <2>1. sender'[o] = IF sender[o] = "read" THEN "held" ELSE sender[o]
    BY <1>1
  <2>2. (Told(o) => Told(o)') /\ (o \in queue => Told(o)')
    BY <1>1, <1>3 DEF Told
  <2>3. /\ o \in forgotten => o \in forgotten'
        /\ o.door \in Inbound!Named /\ o.id \in seen[o.door] => o \in forgotten'
        /\ o.door \in Inbound!Named => o.id \notin seen'[o.door]
    BY <1>1
  <2> QED BY <1>1, <1>5, <2>1, <2>2, <2>3 DEF Kept, Tracked
<1> QED BY <1>6, <1>7, KeptAll

LEMMA InboundWrite == ASSUME InboundInv, NEW m \in Messages, Inbound!Write(m) PROVE InboundInv'
<1>1. PICK gone \in BOOLEAN : gone = (m.door = "discord" /\ ~connected)
  OBVIOUS
<1>2. /\ sender[m] = "unsent" /\ sender' = [sender EXCEPT ![m] = IF gone THEN "gone" ELSE "held"]
      /\ hit' = IF gone THEN hit \cup {m} ELSE hit
      /\ UNCHANGED <<queue, seen, job, rows, events, connected, delay, forgotten, faults>>
  BY <1>1 DEF Inbound!Write
<1>3. Inbound!TypeOK
  BY DEF InboundInv
<1>4. /\ sender' \in [Messages -> {"unsent", "held", "read", "gone"}]
      /\ \A o \in Messages : sender'[o] = IF o = m THEN (IF gone THEN "gone" ELSE "held") ELSE sender[o]
  BY <1>2, <1>3 DEF Inbound!TypeOK
<1>5. Inbound!TypeOK'
  BY <1>2, <1>3, <1>4 DEF Inbound!TypeOK
<1>6. ASSUME NEW o \in Messages PROVE Kept(o)
  <2>1. hit \subseteq hit' /\ (gone => m \in hit')
    BY <1>2
  <2>2. sender'[o] = "gone" => sender[o] = "gone" \/ Told(o)'
    BY <1>2, <1>4, <2>1, TasksRest
  <2>3. (sender[o] = "gone" => sender'[o] = "gone") /\ (sender'[o] = "read" => sender[o] = "read")
    BY <1>2, <1>4
  <2> QED BY <1>2, <2>1, <2>2, <2>3, TasksRest DEF Kept
<1> QED BY <1>5, <1>6, KeptAll

LEMMA InboundKeeps == ASSUME InboundInv, Inbound!Next PROVE InboundInv'
  BY handleStep, handle_webhookStep, _dispatchStep, _poll_onceStep, record_inboundStep, publishStep,
     getUpdatesStep, _runStep, _sessionStep, InboundRestart, InboundWrite DEF Inbound!Next, Inbound!Works

LEMMA InboundRests == ASSUME InboundInv, UNCHANGED <<faults, inboundVars>> PROVE InboundInv'
<1>1. /\ sender' = sender /\ queue' = queue /\ seen' = seen /\ job' = job /\ rows' = rows /\ events' = events /\ connected' = connected
      /\ delay' = delay /\ forgotten' = forgotten /\ hit' = hit /\ faults' = faults
  BY DEF inboundVars
<1>2. Inbound!TypeOK'
  BY <1>1 DEF InboundInv, Inbound!TypeOK
<1>3. \A o \in Messages : Kept(o)
  BY <1>1, TasksRest DEF Kept
<1> QED BY <1>2, <1>3, KeptAll

LEMMA InboundInit == Inbound!Init => InboundInv
<1> SUFFICES ASSUME Inbound!Init PROVE InboundInv
  OBVIOUS
<1>1. /\ sender = [m \in Messages |-> "unsent"] /\ queue = {} /\ seen = [d \in Inbound!Named |-> {}]
      /\ job = [s \in Handlers |-> Inbound!Free] /\ rows = [m \in Messages |-> 0] /\ events = [m \in Messages |-> 0]
      /\ connected = FALSE /\ delay = 0 /\ forgotten = {} /\ hit = {} /\ faults = 0
  BY DEF Inbound!Init
<1>2. Inbound!TypeOK
  <2>1. job \in [Handlers -> Inbound!Jobs]
    BY <1>1 DEF Inbound!Jobs, Inbound!Free
  <2>2. sender \in [Messages -> {"unsent", "held", "read", "gone"}] /\ queue \subseteq Inbound!Of("telegram")
    BY <1>1
  <2>3. seen \in [Inbound!Named -> SUBSET Inbound!Ids] /\ rows \in [Messages -> 0 .. 2] /\ events \in [Messages -> 0 .. 2]
    BY <1>1
  <2>4. connected \in BOOLEAN /\ forgotten \subseteq Messages /\ hit \subseteq Messages
    BY <1>1
  <2>5. delay \in 0 .. MaxDelay /\ faults \in 0 .. MaxFaults
    BY <1>1, MessagesTyped
  <2> QED BY <2>1, <2>2, <2>3, <2>4, <2>5 DEF Inbound!TypeOK
<1>3. \A s \in Handlers, m \in Messages : ~Handling(s, m)
  BY <1>1 DEF Handling, Inbound!Free
<1>4. ASSUME NEW m \in Messages PROVE MessageOK(m)
  <2>1. rows[m] = 0 /\ sender[m] = "unsent"
    BY <1>1
  <2>2. Tracked(m) => m.id \notin seen[m.door]
    BY <1>1 DEF Tracked
  <2>3. OnceOK(m)
    BY <1>3, <2>1 DEF OnceOK
  <2> QED BY <2>1, <2>2, <2>3 DEF MessageOK
<1> QED BY <1>2, <1>4 DEF InboundInv

LEMMA InboundStands == InboundInv => Inbound!TypeOK /\ Inbound!OnceUnlessForgotten /\ Inbound!LostOnlyByFault
<1> SUFFICES ASSUME InboundInv PROVE Inbound!TypeOK /\ Inbound!OnceUnlessForgotten /\ Inbound!LostOnlyByFault
  OBVIOUS
<1>1. Inbound!TypeOK /\ \A m \in Messages : MessageOK(m)
  BY DEF InboundInv
<1>2. ASSUME NEW m \in Messages, rows[m] > 1 PROVE m \in forgotten \/ (m.door = "push" /\ m.id = 0)
  <2>1. m \notin forgotten /\ ~Inbound!Unnamed(m) => rows[m] <= 1
    BY <1>1 DEF MessageOK, OnceOK
  <2>2. rows[m] \in 0 .. 2
    BY <1>1 DEF Inbound!TypeOK
  <2> QED BY <1>2, <2>1, <2>2 DEF Inbound!Unnamed
<1>3. ASSUME NEW m \in Messages, sender[m] = "gone", m \notin queue, ~Inbound!On(m) PROVE events[m] > 0 \/ m \in hit
  <2>1. Told(m)
    BY <1>1, <1>3 DEF MessageOK
  <2>2. \A s \in Handlers : ~Handling(s, m)
    BY <1>3 DEF Handling, Inbound!On, Inbound!Busy
  <2> QED BY <2>1, <2>2 DEF Told
<1> QED BY <1>1, <1>2, <1>3 DEF Inbound!OnceUnlessForgotten, Inbound!LostOnlyByFault

\* A message is recorded once unless its door has no ids or forgot its own, and what a
\* provider handed over for good was told of, unless a fault met it (offer_seen of
\* comms/adapters/base.py, the adapters' loops and CommsHost's handler).
InboundPart == part = "inbound" => InboundInv
THEOREM MessagesTakenInOnce == Spec => []InboundSafe
<1>1. Init => InboundPart
  BY InboundInit DEF Init, InboundPart
<1>2. InboundPart /\ [Next]_vars => InboundPart'
  <2> SUFFICES ASSUME InboundPart, [Next]_vars, part' = "inbound" PROVE InboundInv'
    BY DEF InboundPart
  <2>1. CASE part = "inbound" /\ Inbound!Next
    BY <2>1, InboundKeeps DEF InboundPart
  <2>2. CASE UNCHANGED vars
    <3>1. InboundInv /\ UNCHANGED <<faults, inboundVars>>
      BY <2>2 DEF vars, handedVars, InboundPart
    <3> QED BY <3>1, InboundRests
  <2> QED BY <2>1, <2>2 DEF Next, Handed, Mind, Hands
<1>3. InboundPart => InboundSafe
  BY InboundStands DEF InboundPart, InboundSafe
<1> QED BY <1>1, <1>2, <1>3, PTL DEF Spec

-----------------------------------------------------------------------------
(* An event: how often it is in the queue or with the handler, whether its   *)
(* id is still in the window or has left it, and, while it is awaited, where *)
(* it is.  What was enqueued was taken in; what was taken in and is not in   *)
(* the window has left it, so a second fetch is one the window allowed.      *)

Occ(q, e) == Cardinality({i \in 1 .. Len(q) : q[i] = e})
Met == Bus!Range(handled) \cup Bus!Range(dispatched)
Gone(e) == \E i \in 1 .. Len(recorded) - Window : recorded[i] = e
BusTyped ==
    /\ Bus!TypeOK
    /\ inbox \in Seq(Events) /\ dispatched \in Seq(Events) /\ claiming \in Seq(Events) /\ handled \in Seq(Events)
    /\ seenOrder \in Seq(Events) /\ recorded \in Seq(Events)
WindowInv ==
    /\ Bus!WindowKept
    /\ \A i, j \in 1 .. Len(seenOrder) : seenOrder[i] = seenOrder[j] => i = j
Awaited(e) ==
    e \in expected => (e \in Bus!Range(inbox) /\ e \notin seenIds) \/ e \in Met \/ fetching[e] > 0 \/ e \in lost
EventOK(e) ==
    /\ fetching[e] > 0 => e \in committed
    /\ e \notin overlapped => fetching[e] <= 1
    /\ e \in Met => e \in Bus!Range(recorded)
    /\ e \notin overlapped /\ Occ(handled, e) + Occ(dispatched, e) + fetching[e] > 1 => Gone(e)
    /\ Awaited(e)
BusInv == BusTyped /\ WindowInv /\ (~Bus!Wired => expected = {}) /\ \A e \in Events : EventOK(e)

LEMMA WindowStays == ASSUME WindowInv, UNCHANGED <<seenIds, seenOrder, recorded>> PROVE WindowInv'
<1>1. Bus!WindowKept'
  BY DEF WindowInv, Bus!WindowKept
<1>2. (\A i, j \in 1 .. Len(seenOrder) : seenOrder[i] = seenOrder[j] => i = j)'
  BY DEF WindowInv
<1> QED BY <1>1, <1>2 DEF WindowInv

LEMMA BusConstants ==
    /\ Events \subseteq Nat /\ IsFiniteSet(Events) /\ Window \in Nat \ {0} /\ DrainLimit \in Nat \ {0}
    /\ MaxEchoes \in Nat /\ MaxFaults \in Nat
<1>1. Bus!IsFiniteSet(Events) <=> IsFiniteSet(Events)
  BY DEF Bus!IsFiniteSet, IsFiniteSet
<1> QED BY <1>1, RecordsAssumption DEF RecordsAssumption, Bus!BusAssumption

LEMMA BusNames ==
    /\ \A q : Bus!Range(q) = {q[i] : i \in DOMAIN q}
    /\ \A S : Bus!Cardinality(S) = Cardinality(S)
  BY DEF Bus!Range, Bus!Cardinality, Cardinality

\* Who is in a queue, and how often.
LEMMA OccType ==
    ASSUME NEW S, NEW q \in Seq(S), NEW e
    PROVE  /\ Occ(q, e) \in Nat /\ IsFiniteSet({i \in 1 .. Len(q) : q[i] = e})
           /\ e \notin Bus!Range(q) => Occ(q, e) = 0
           /\ Bus!Range(q) = {q[i] : i \in 1 .. Len(q)}
<1>1. Len(q) \in Nat /\ DOMAIN q = 1 .. Len(q)
  BY LenProperties
<1>2. IsFiniteSet(1 .. Len(q))
  BY <1>1, FS_Interval
<1>3. PICK here : here = {i \in 1 .. Len(q) : q[i] = e}
  OBVIOUS
<1>4. IsFiniteSet(here) /\ Cardinality(here) \in Nat
  BY <1>2, <1>3, FS_Subset, FS_CardinalityType
<1>5. e \notin Bus!Range(q) => here = {}
  BY <1>1, <1>3, BusNames
<1> QED BY <1>1, <1>3, <1>4, <1>5, FS_EmptySet, BusNames DEF Occ

LEMMA OccAppend ==
    ASSUME NEW S, NEW q \in Seq(S), NEW x \in S
    PROVE  /\ Append(q, x) \in Seq(S) /\ Bus!Range(Append(q, x)) = Bus!Range(q) \cup {x}
           /\ \A e : Occ(Append(q, x), e) = Occ(q, e) + (IF x = e THEN 1 ELSE 0)
<1>1. PICK r : r = Append(q, x)
  OBVIOUS
<1>2. /\ r \in Seq(S) /\ Len(r) = Len(q) + 1 /\ Len(q) \in Nat
      /\ \A i \in 1 .. Len(q) : r[i] = q[i]
      /\ r[Len(q) + 1] = x
  BY <1>1, AppendProperties, LenProperties
<1>3. Bus!Range(r) = Bus!Range(q) \cup {x}
  <2>1. Bus!Range(r) = {r[i] : i \in 1 .. Len(r)} /\ Bus!Range(q) = {q[i] : i \in 1 .. Len(q)}
    BY <1>2, OccType
  <2>2. \A i \in 1 .. Len(r) : i \in 1 .. Len(q) \/ i = Len(q) + 1
    BY <1>2
  <2>3. \A i \in 1 .. Len(q) : i \in 1 .. Len(r)
    BY <1>2
  <2>4. Len(q) + 1 \in 1 .. Len(r)
    BY <1>2
  <2> QED BY <1>2, <2>1, <2>2, <2>3, <2>4
<1>4. ASSUME NEW e PROVE Occ(r, e) = Occ(q, e) + (IF x = e THEN 1 ELSE 0)
  <2>1. PICK here, there : here = {i \in 1 .. Len(q) : q[i] = e} /\ there = {i \in 1 .. Len(r) : r[i] = e}
    OBVIOUS
  <2>2. IsFiniteSet(here) /\ Cardinality(here) \in Nat /\ Len(q) + 1 \notin here
    <3>1. here \subseteq 1 .. Len(q) /\ IsFiniteSet(1 .. Len(q))
      BY <1>2, <2>1, FS_Interval
    <3>2. IsFiniteSet(here)
      BY <3>1, FS_Subset
    <3> QED BY <1>2, <3>1, <3>2, FS_CardinalityType
  <2>3. CASE x = e
    <3>1. there = here \cup {Len(q) + 1}
      BY <1>2, <2>1, <2>3
    <3>2. Cardinality(there) = Cardinality(here) + 1
      BY <2>2, <3>1, FS_AddElement
    <3> QED BY <2>1, <2>3, <3>2 DEF Occ
  <2>4. CASE x # e
    <3>1. there = here
      BY <1>2, <2>1, <2>4
    <3>2. Occ(r, e) = Cardinality(here) /\ Occ(q, e) = Cardinality(here)
      BY <2>1, <3>1 DEF Occ
    <3> QED BY <2>2, <2>4, <3>2
  <2> QED BY <2>3, <2>4
<1> QED BY <1>1, <1>2, <1>3, <1>4

LEMMA OccTail ==
    ASSUME NEW S, NEW q \in Seq(S), q # << >>
    PROVE  /\ Tail(q) \in Seq(S) /\ Head(q) \in S /\ Bus!Range(q) = {Head(q)} \cup Bus!Range(Tail(q))
           /\ \A e : Occ(q, e) = Occ(Tail(q), e) + (IF Head(q) = e THEN 1 ELSE 0)
<1>1. PICK r, x : r = Tail(q) /\ x = Head(q)
  OBVIOUS
<1>2. /\ r \in Seq(S) /\ x \in S /\ Len(r) = Len(q) - 1 /\ Len(q) \in Nat \ {0}
      /\ \A i \in 1 .. Len(r) : r[i] = q[i + 1]
      /\ q[1] = x
  BY <1>1, HeadTailProperties, EmptySeq, LenProperties
<1>3. Bus!Range(q) = {x} \cup Bus!Range(r)
  <2>1. Bus!Range(r) = {r[i] : i \in 1 .. Len(r)} /\ Bus!Range(q) = {q[i] : i \in 1 .. Len(q)}
    BY <1>2, OccType
  <2>2. \A i \in 1 .. Len(q) : i = 1 \/ (i - 1 \in 1 .. Len(r) /\ q[i] = r[i - 1])
    BY <1>2
  <2>3. \A i \in 1 .. Len(r) : i + 1 \in 1 .. Len(q)
    BY <1>2
  <2>4. 1 \in 1 .. Len(q)
    BY <1>2
  <2>5. ASSUME NEW y \in Bus!Range(q) PROVE y = x \/ y \in Bus!Range(r)
    <3>1. PICK i \in 1 .. Len(q) : y = q[i]
      BY <2>1
    <3> QED BY <1>2, <2>1, <2>2, <3>1
  <2>6. x \in Bus!Range(q) /\ \A y \in Bus!Range(r) : y \in Bus!Range(q)
    BY <1>2, <2>1, <2>3, <2>4
  <2> QED BY <2>5, <2>6
<1>4. ASSUME NEW e PROVE Occ(q, e) = Occ(r, e) + (IF x = e THEN 1 ELSE 0)
  <2>1. PICK here, there, rest : /\ here = {i \in 1 .. Len(q) : q[i] = e} /\ there = {i \in 1 .. Len(r) : r[i] = e}
                                 /\ rest = here \ {1}
    OBVIOUS
  <2>2. IsFiniteSet(here) /\ Cardinality(here) \in Nat /\ IsFiniteSet(there) /\ Cardinality(there) \in Nat
    <3>1. here \in SUBSET (1 .. Len(q)) /\ there \in SUBSET (1 .. Len(r))
      BY <2>1
    <3>2. IsFiniteSet(1 .. Len(q)) /\ IsFiniteSet(1 .. Len(r))
      BY <1>2, FS_Interval
    <3>3. IsFiniteSet(here) /\ IsFiniteSet(there)
      BY <3>1, <3>2, FS_Subset
    <3> QED BY <3>3, FS_CardinalityType
  <2>3. Cardinality(rest) = Cardinality(there)
    <3>1. PICK f : f = [i \in there |-> i + 1]
      OBVIOUS
    <3>2. \A i \in there : i \in Nat /\ i + 1 \in rest
      BY <1>2, <2>1
    <3>3. \A j \in rest : j - 1 \in there /\ f[j - 1] = j
      BY <1>2, <2>1, <3>1
    <3>4. f \in [there -> rest] /\ \A i, j \in there : f[i] = f[j] => i = j
      BY <3>1, <3>2
    <3>5. f \in Bijection(there, rest)
      BY <3>3, <3>4 DEF Bijection, Injection, Surjection, IsInjective
    <3> QED BY <2>2, <3>5, FS_Bijection DEF ExistsBijection
  <2>4. Cardinality(rest) = IF 1 \in here THEN Cardinality(here) - 1 ELSE Cardinality(here)
    BY <2>1, <2>2, FS_RemoveElement
  <2>5. 1 \in here <=> x = e
    BY <1>2, <2>1
  <2>6. Occ(q, e) = Cardinality(here) /\ Occ(r, e) = Cardinality(there)
    BY <2>1 DEF Occ
  <2>7. CASE x = e
    <3>1. Cardinality(there) = Cardinality(here) - 1
      BY <2>3, <2>4, <2>5, <2>7
    <3> QED BY <2>2, <2>6, <2>7, <3>1
  <2>8. CASE x # e
    <3>1. Cardinality(there) = Cardinality(here)
      BY <2>3, <2>4, <2>5, <2>8
    <3> QED BY <2>2, <2>6, <2>8, <3>1
  <2> QED BY <2>7, <2>8
<1> QED BY <1>1, <1>2, <1>3, <1>4

\* The window takes an id in.
LEMMA SeenAdded ==
    ASSUME BusTyped, WindowInv, NEW e \in Events, Bus!_seen_add(e)
    PROVE  /\ seenOrder' \in Seq(Events) /\ recorded' \in Seq(Events) /\ Len(seenOrder') <= Window
           /\ WindowInv'
           /\ seenIds' \subseteq seenIds \cup {e} /\ e \in seenIds'
           /\ Bus!Range(recorded') = Bus!Range(recorded) \cup {e}
           /\ \A x \in Events : Gone(x) => Gone(x)'
<1>1. PICK W, n, from : W = Window /\ n = Len(recorded) /\ from = IF n > W THEN n - W + 1 ELSE 1
  OBVIOUS
<1>2. /\ W \in Nat \ {0} /\ n \in Nat /\ recorded \in Seq(Events) /\ seenOrder \in Seq(Events)
      /\ \A i \in 1 .. n : recorded[i] \in Events
  BY <1>1, BusConstants, LenProperties, ElementOfSeq DEF BusTyped
<1>3. seenIds = Bus!Range(seenOrder) /\ seenOrder = SubSeq(recorded, from, n)
  BY <1>1 DEF WindowInv, Bus!WindowKept
<1>4. from \in 1 .. n + 1 /\ from \in Int /\ n \in Int
  BY <1>1, <1>2
<1>5. /\ Len(seenOrder) = IF n > W THEN W ELSE n
      /\ \A i \in 1 .. Len(seenOrder) : seenOrder[i] = recorded[from + i - 1]
  <2>1. \A i \in from .. n : recorded[i] \in Events
    BY <1>2, <1>4
  <2>2. /\ Len(seenOrder) = IF from <= n THEN n - from + 1 ELSE 0
        /\ \A i \in 1 .. n - from + 1 : seenOrder[i] = recorded[from + i - 1]
    BY <1>3, <1>4, <2>1, SubSeqProperties
  <2>3. n - from + 1 = Len(seenOrder) /\ Len(seenOrder) = IF n > W THEN W ELSE n
    <3>1. CASE n > W
      <4>1. from = n - W + 1
        BY <1>1, <3>1
      <4> QED BY <1>2, <2>2, <3>1, <4>1
    <3>2. CASE ~(n > W)
      <4>1. from = 1
        BY <1>1, <3>2
      <4> QED BY <1>2, <2>2, <3>2, <4>1
    <3> QED BY <3>1, <3>2
  <2> QED BY <2>2, <2>3
<1>6. /\ Bus!Range(seenOrder) = {seenOrder[i] : i \in 1 .. Len(seenOrder)}
      /\ Bus!Range(recorded) = {recorded[i] : i \in 1 .. n}
  BY <1>1, <1>2, OccType
<1>7. CASE e \in seenIds
  <2>1. seenIds' = seenIds /\ seenOrder' = seenOrder /\ recorded' = recorded
    BY <1>7 DEF Bus!_seen_add, Bus!Seen
  <2>2. e \in Bus!Range(recorded)
    <3>1. PICK i \in 1 .. Len(seenOrder) : seenOrder[i] = e
      BY <1>3, <1>6, <1>7
    <3>2. from + i - 1 \in 1 .. n
      BY <1>1, <1>2, <1>5
    <3>3. recorded[from + i - 1] = e
      BY <1>5, <3>1
    <3> QED BY <1>6, <3>2, <3>3
  <2>3. WindowInv'
    BY <2>1, WindowStays
  <2>4. \A x \in Events : Gone(x) => Gone(x)'
    BY <2>1 DEF Gone
  <2> QED BY <1>2, <1>7, <1>5, <1>1, <2>1, <2>2, <2>3, <2>4
<1>8. CASE e \notin seenIds
  <2>1. /\ recorded' = Append(recorded, e)
        /\ seenOrder' = IF Len(seenOrder) >= W THEN Append(Tail(seenOrder), e) ELSE Append(seenOrder, e)
        /\ seenIds' = IF Len(seenOrder) >= W THEN (seenIds \cup {e}) \ {Head(seenOrder)} ELSE seenIds \cup {e}
    BY <1>1, <1>8 DEF Bus!_seen_add, Bus!Seen
  <2>2. /\ recorded' \in Seq(Events) /\ Len(recorded') = n + 1
        /\ \A i \in 1 .. n : recorded'[i] = recorded[i]
        /\ recorded'[n + 1] = e
        /\ Bus!Range(recorded') = Bus!Range(recorded) \cup {e}
    BY <1>1, <1>2, <2>1, AppendProperties, OccAppend
  <2>3. \A x \in Events : Gone(x) => Gone(x)'
    <3> TAKE x \in Events
    <3> HAVE Gone(x)
    <3>1. PICK i \in 1 .. n - W : recorded[i] = x
      BY <1>1 DEF Gone
    <3>2. i \in 1 .. n /\ i \in 1 .. n + 1 - W
      BY <1>2
    <3>3. recorded'[i] = x
      BY <2>2, <3>1, <3>2
    <3>4. i \in 1 .. Len(recorded') - Window
      <4>1. Len(recorded') - Window = n + 1 - W
        BY <1>1, <1>2, <2>2
      <4> QED BY <3>2, <4>1
    <3> QED BY <3>3, <3>4 DEF Gone
  <2>4. CASE n >= W
    <3>1. /\ seenOrder # << >> /\ Len(seenOrder) = W /\ from = n - W + 1
      <4>1. Len(seenOrder) = W /\ from = n - W + 1
        BY <1>1, <1>2, <1>5, <2>4
      <4>2. seenOrder # << >>
        BY <1>2, <4>1, EmptySeq
      <4> QED BY <4>1, <4>2
    <3>2. PICK r : r = Tail(seenOrder)
      OBVIOUS
    <3>3. /\ r \in Seq(Events) /\ Len(r) = W - 1 /\ Head(seenOrder) = seenOrder[1]
          /\ \A i \in 1 .. W - 1 : r[i] = seenOrder[i + 1]
      BY <1>2, <3>1, <3>2, HeadTailProperties
    <3>4. seenOrder' = Append(r, e) /\ seenIds' = (seenIds \cup {e}) \ {seenOrder[1]}
      BY <1>2, <2>1, <3>1, <3>2, <3>3
    <3>5. /\ seenOrder' \in Seq(Events) /\ Len(seenOrder') = W
          /\ \A i \in 1 .. W - 1 : seenOrder'[i] = seenOrder[i + 1]
          /\ seenOrder'[W] = e
      <4>1. /\ seenOrder' \in Seq(Events) /\ Len(seenOrder') = Len(r) + 1
            /\ \A i \in 1 .. Len(r) : seenOrder'[i] = r[i]
            /\ seenOrder'[Len(r) + 1] = e
        BY <3>3, <3>4, AppendProperties
      <4> QED BY <1>2, <3>3, <4>1
    <3>6. \A i \in 1 .. W : seenOrder'[i] = recorded'[n - W + 1 + i]
      <4> TAKE i \in 1 .. W
      <4>1. CASE i = W
        BY <1>2, <2>2, <3>5, <4>1
      <4>2. CASE i # W
        <5>1. i \in 1 .. W - 1 /\ i + 1 \in 1 .. W /\ n - W + 1 + i \in 1 .. n /\ from + (i + 1) - 1 = n - W + 1 + i
          BY <1>2, <2>4, <3>1, <4>2
        <5>2. seenOrder'[i] = seenOrder[i + 1] /\ seenOrder[i + 1] = recorded[from + (i + 1) - 1]
          BY <1>5, <3>1, <3>5, <5>1
        <5> QED BY <2>2, <5>1, <5>2
      <4> QED BY <4>1, <4>2
    <3>7. PICK w : w = SubSeq(recorded', n - W + 2, n + 1)
      OBVIOUS
    <3>8. w \in Seq(Events) /\ Len(w) = W /\ \A i \in 1 .. W : w[i] = recorded'[n - W + 1 + i]
      <4>1. n - W + 2 \in Int /\ n + 1 \in Int /\ \A i \in n - W + 2 .. n + 1 : recorded'[i] \in Events
        BY <1>2, <2>2, <2>4
      <4>2. /\ w \in Seq(Events) /\ Len(w) = IF n - W + 2 <= n + 1 THEN (n + 1) - (n - W + 2) + 1 ELSE 0
            /\ \A i \in 1 .. (n + 1) - (n - W + 2) + 1 : w[i] = recorded'[(n - W + 2) + i - 1]
        BY <3>7, <4>1, SubSeqProperties
      <4>3. (n + 1) - (n - W + 2) + 1 = W /\ n - W + 2 <= n + 1
        BY <1>2
      <4>4. \A i \in 1 .. W : (n - W + 2) + i - 1 = n - W + 1 + i
        BY <1>2
      <4> QED BY <4>2, <4>3, <4>4
    <3>9. seenOrder' = w
      BY <3>5, <3>6, <3>8, SeqEqual
    <3>10. \A i, j \in 1 .. W : seenOrder'[i] = seenOrder'[j] => i = j
      <4>1. \A i \in 1 .. W : seenOrder[i] # e
        BY <1>3, <1>6, <1>8, <3>1
      <4>2. \A i, j \in 1 .. W : seenOrder[i] = seenOrder[j] => i = j
        BY <3>1 DEF WindowInv
      <4> TAKE i, j \in 1 .. W
      <4>3. CASE i = W /\ j = W
        BY <4>3
      <4>4. CASE i = W /\ j # W
        <5>1. j \in 1 .. W - 1 /\ j + 1 \in 1 .. W
          BY <1>2, <4>4
        <5>2. seenOrder'[i] = e /\ seenOrder'[j] = seenOrder[j + 1]
          BY <3>5, <4>4, <5>1
        <5> QED BY <4>1, <5>1, <5>2
      <4>5. CASE i # W /\ j = W
        <5>1. i \in 1 .. W - 1 /\ i + 1 \in 1 .. W
          BY <1>2, <4>5
        <5>2. seenOrder'[j] = e /\ seenOrder'[i] = seenOrder[i + 1]
          BY <3>5, <4>5, <5>1
        <5> QED BY <4>1, <5>1, <5>2
      <4>6. CASE i # W /\ j # W
        <5>1. i \in 1 .. W - 1 /\ j \in 1 .. W - 1 /\ i + 1 \in 1 .. W /\ j + 1 \in 1 .. W
          BY <1>2, <4>6
        <5>2. seenOrder'[i] = seenOrder[i + 1] /\ seenOrder'[j] = seenOrder[j + 1]
          BY <3>5, <5>1
        <5>3. seenOrder'[i] = seenOrder'[j] => i + 1 = j + 1
          BY <4>2, <5>1, <5>2
        <5> QED BY <5>1, <5>3
      <4> QED BY <4>3, <4>4, <4>5, <4>6
    <3>11. seenIds' = Bus!Range(seenOrder')
      <4>1. Bus!Range(seenOrder') = Bus!Range(r) \cup {e}
        BY <3>3, <3>4, OccAppend
      <4>2. Bus!Range(seenOrder) = {seenOrder[1]} \cup Bus!Range(r)
        BY <1>2, <3>1, <3>2, <3>3, OccTail
      <4>3. seenOrder[1] \notin Bus!Range(r)
        <5> SUFFICES ASSUME seenOrder[1] \in Bus!Range(r) PROVE FALSE
          OBVIOUS
        <5>1. Bus!Range(r) = {r[i] : i \in 1 .. Len(r)}
          BY <3>3, OccType
        <5>2. PICK i \in 1 .. W - 1 : r[i] = seenOrder[1]
          BY <3>3, <5>1
        <5>3. i + 1 \in 1 .. Len(seenOrder) /\ 1 \in 1 .. Len(seenOrder) /\ i + 1 # 1 /\ seenOrder[i + 1] = seenOrder[1]
          BY <1>2, <3>1, <3>3, <5>2
        <5> QED BY <5>3 DEF WindowInv
      <4>4. seenOrder[1] # e
        BY <1>3, <1>8, <4>2
      <4> QED BY <1>3, <3>4, <4>1, <4>2, <4>3, <4>4
    <3>12. n + 1 > W /\ (n + 1) - W + 1 = n - W + 2
      BY <1>2, <2>4
    <3>13. WindowInv'
      <4>1. (IF Len(recorded') > Window THEN Len(recorded') - Window + 1 ELSE 1) = n - W + 2 /\ Len(recorded') = n + 1
        BY <1>1, <2>2, <3>12
      <4>2. seenOrder' = SubSeq(recorded', IF Len(recorded') > Window THEN Len(recorded') - Window + 1 ELSE 1, Len(recorded'))
        BY <3>7, <3>9, <4>1
      <4>3. \A i, j \in 1 .. Len(seenOrder') : seenOrder'[i] = seenOrder'[j] => i = j
        BY <3>5, <3>10
      <4> QED BY <3>11, <4>2, <4>3 DEF WindowInv, Bus!WindowKept
    <3>14. e \in seenIds' /\ seenIds' \subseteq seenIds \cup {e} /\ Len(seenOrder') <= Window
      <4>1. seenOrder[1] \in seenIds
        BY <1>2, <1>3, <1>6, <3>1
      <4> QED BY <1>1, <1>2, <1>8, <3>4, <3>5, <4>1
    <3> QED BY <2>2, <2>3, <3>5, <3>13, <3>14
  <2>5. CASE n < W
    <3>1. from = 1 /\ seenOrder = recorded /\ Len(seenOrder) = n
      <4>1. from = 1
        BY <1>1, <1>2, <2>5
      <4>2. seenOrder = recorded
        BY <1>1, <1>2, <1>3, <4>1, SubSeqFull
      <4> QED BY <1>1, <4>1, <4>2
    <3>2. seenOrder' = recorded' /\ seenIds' = seenIds \cup {e}
      BY <1>2, <2>1, <2>5, <3>1
    <3>3. seenOrder' = SubSeq(recorded', 1, n + 1)
      BY <2>2, <3>2, SubSeqFull
    <3>4. seenIds' = Bus!Range(seenOrder')
      BY <1>3, <2>2, <3>1, <3>2
    <3>5. \A i, j \in 1 .. n + 1 : seenOrder'[i] = seenOrder'[j] => i = j
      <4>1. \A i \in 1 .. n : recorded[i] # e
        BY <1>3, <1>6, <1>8, <3>1
      <4>2. \A i, j \in 1 .. n : recorded[i] = recorded[j] => i = j
        BY <3>1 DEF WindowInv
      <4>3. \A i \in 1 .. n + 1 : i \in 1 .. n \/ i = n + 1
        BY <1>2
      <4> QED BY <2>2, <3>2, <4>1, <4>2, <4>3
    <3>6. ~(n + 1 > W)
      BY <1>2, <2>5
    <3>7. WindowInv'
      <4>1. (IF Len(recorded') > Window THEN Len(recorded') - Window + 1 ELSE 1) = 1 /\ Len(recorded') = n + 1
        BY <1>1, <2>2, <3>6
      <4>2. seenOrder' = SubSeq(recorded', IF Len(recorded') > Window THEN Len(recorded') - Window + 1 ELSE 1, Len(recorded'))
        BY <3>3, <4>1
      <4>3. \A i, j \in 1 .. Len(seenOrder') : seenOrder'[i] = seenOrder'[j] => i = j
        BY <2>2, <3>2, <3>5
      <4> QED BY <3>4, <4>2, <4>3 DEF WindowInv, Bus!WindowKept
    <3> QED BY <1>1, <1>2, <2>2, <2>3, <2>5, <3>2, <3>7
  <2> QED BY <1>2, <2>4, <2>5
<1> QED BY <1>7, <1>8

\* A step under which an event's copies do not grow in number keeps what is
\* said of it, provided that it is still awaited somewhere.
Fewer(x) ==
    /\ committed \subseteq committed'
    /\ Occ(handled, x)' + Occ(dispatched, x)' + fetching'[x] <= Occ(handled, x) + Occ(dispatched, x) + fetching[x]
    /\ fetching'[x] <= fetching[x] /\ (x \in overlapped => x \in overlapped')
    /\ (x \in Met' => x \in Met) /\ (x \in Bus!Range(recorded) => x \in Bus!Range(recorded)') /\ (Gone(x) => Gone(x)')

LEMMA CopiesType ==
    ASSUME BusTyped, NEW x \in Events
    PROVE  /\ Occ(handled, x) \in Nat /\ Occ(dispatched, x) \in Nat /\ fetching[x] \in Nat
           /\ Met = {handled[i] : i \in 1 .. Len(handled)} \cup {dispatched[i] : i \in 1 .. Len(dispatched)}
           /\ x \notin Met => Occ(handled, x) = 0 /\ Occ(dispatched, x) = 0
<1>1. /\ Occ(handled, x) \in Nat /\ (x \notin Bus!Range(handled) => Occ(handled, x) = 0)
      /\ Bus!Range(handled) = {handled[i] : i \in 1 .. Len(handled)}
  BY OccType DEF BusTyped
<1>2. /\ Occ(dispatched, x) \in Nat /\ (x \notin Bus!Range(dispatched) => Occ(dispatched, x) = 0)
      /\ Bus!Range(dispatched) = {dispatched[i] : i \in 1 .. Len(dispatched)}
  BY OccType DEF BusTyped
<1>3. fetching[x] \in Nat
  BY DEF BusTyped, Bus!TypeOK
<1> QED BY <1>1, <1>2, <1>3 DEF Met

LEMMA FewerKeeps == ASSUME BusTyped, BusTyped', NEW x \in Events, EventOK(x), Fewer(x), Awaited(x)' PROVE EventOK(x)'
<1>1. /\ Occ(handled, x) \in Nat /\ Occ(dispatched, x) \in Nat /\ fetching[x] \in Nat
  BY CopiesType
<1>2. /\ Occ(handled, x)' \in Nat /\ Occ(dispatched, x)' \in Nat /\ fetching'[x] \in Nat
  <2>1. handled' \in Seq(Events) /\ dispatched' \in Seq(Events) /\ fetching' \in [Events -> Nat]
    BY DEF BusTyped, Bus!TypeOK
  <2>2. PICK h, d : h = handled' /\ d = dispatched'
    OBVIOUS
  <2>3. Occ(h, x) \in Nat /\ Occ(d, x) \in Nat
    BY <2>1, <2>2, OccType
  <2> QED BY <2>1, <2>2, <2>3 DEF Occ
<1>3. (x \notin overlapped' => fetching'[x] <= 1) /\ (fetching'[x] > 0 => x \in committed')
  BY <1>1, <1>2 DEF EventOK, Fewer
<1>4. (x \in Met => x \in Bus!Range(recorded))'
  BY DEF EventOK, Fewer
<1>5. x \notin overlapped' /\ Occ(handled, x)' + Occ(dispatched, x)' + fetching'[x] > 1 => Gone(x)'
  BY <1>1, <1>2 DEF EventOK, Fewer
<1> QED BY <1>3, <1>4, <1>5 DEF EventOK

\* What stays of the copies where the queue and the handled rest.
LEMMA SameCopies ==
    ASSUME UNCHANGED <<handled, dispatched>>, NEW x \in Events
    PROVE  Occ(handled, x)' = Occ(handled, x) /\ Occ(dispatched, x)' = Occ(dispatched, x) /\ Met' = Met
  BY DEF Occ, Met, Bus!Range

LEMMA BusRests == ASSUME BusInv, UNCHANGED <<faults, busVars>> PROVE BusInv'
<1>1. /\ committed' = committed /\ consumed' = consumed /\ phase' = phase /\ deaf' = deaf /\ inbox' = inbox /\ fetching' = fetching
      /\ seenIds' = seenIds /\ seenOrder' = seenOrder /\ dispatched' = dispatched /\ claiming' = claiming /\ handled' = handled
      /\ recorded' = recorded /\ expected' = expected /\ lost' = lost /\ overlapped' = overlapped /\ echoes' = echoes /\ faults' = faults
  BY DEF busVars
<1>2. BusTyped'
  BY <1>1 DEF BusInv, BusTyped, Bus!TypeOK
<1>3. WindowInv' /\ (~Bus!Wired' => expected' = {})
  <2>1. WindowInv /\ UNCHANGED <<seenIds, seenOrder, recorded>>
    BY <1>1 DEF BusInv
  <2>2. WindowInv'
    BY <2>1, WindowStays
  <2>3. ~Bus!Wired' => expected' = {}
    BY <1>1 DEF BusInv, Bus!Wired
  <2> QED BY <2>2, <2>3
<1>4. \A e \in Events : EventOK(e)'
  BY <1>1 DEF BusInv, EventOK, Occ, Met, Gone, Awaited
<1> QED BY <1>2, <1>3, <1>4 DEF BusInv

LEMMA BusInit == Bus!Init => BusInv
<1> SUFFICES ASSUME Bus!Init PROVE BusInv
  OBVIOUS
<1>1. /\ committed = {} /\ consumed = {} /\ phase = "down" /\ deaf = FALSE /\ inbox = << >> /\ dispatched = << >> /\ claiming = << >>
      /\ fetching = [e \in Events |-> 0] /\ seenIds = {} /\ seenOrder = << >> /\ recorded = << >> /\ handled = << >>
      /\ expected = {} /\ lost = {} /\ overlapped = {} /\ echoes = 0 /\ faults = 0
  BY DEF Bus!Init, Bus!NoTasks
<1>2. << >> \in Seq(Events) /\ Len(<< >>) = 0 /\ Bus!Range(<< >>) = {}
  <2>1. << >> \in Seq(Events) /\ Len(<< >>) = 0
    BY EmptySeq
  <2>2. Bus!Range(<< >>) = {<< >>[i] : i \in 1 .. Len(<< >>)}
    BY <2>1, OccType
  <2> QED BY <2>1, <2>2
<1>3. BusTyped
  <2>1. fetching \in [Events -> Nat] /\ echoes \in 0 .. MaxEchoes /\ faults \in 0 .. MaxFaults /\ Len(seenOrder) <= Window
    BY <1>1, <1>2, BusConstants
  <2>2. Bus!Range(inbox) \cup Bus!Range(dispatched) \cup Bus!Range(claiming) \cup Bus!Range(handled) \subseteq committed
    BY <1>1, <1>2
  <2>3. committed \subseteq Events /\ consumed \subseteq committed /\ seenIds \subseteq committed /\ expected \cup lost \cup overlapped \subseteq committed
    BY <1>1
  <2>4. Bus!TypeOK
    BY <1>1, <2>1, <2>2, <2>3 DEF Bus!TypeOK, Bus!Phases
  <2>5. /\ inbox \in Seq(Events) /\ dispatched \in Seq(Events) /\ claiming \in Seq(Events) /\ handled \in Seq(Events)
        /\ seenOrder \in Seq(Events) /\ recorded \in Seq(Events)
    BY <1>1, <1>2
  <2> QED BY <2>4, <2>5 DEF BusTyped
<1>4. WindowInv
  <2>1. SubSeq(recorded, IF Len(recorded) > Window THEN Len(recorded) - Window + 1 ELSE 1, Len(recorded)) = << >>
    <3>1. (IF Len(recorded) > Window THEN Len(recorded) - Window + 1 ELSE 1) = 1 /\ Len(recorded) = 0
      BY <1>1, <1>2, BusConstants
    <3> QED BY <3>1, SubSeqEmpty
  <2>2. Bus!WindowKept
    BY <1>1, <1>2, <2>1 DEF Bus!WindowKept
  <2>3. \A i, j \in 1 .. Len(seenOrder) : seenOrder[i] = seenOrder[j] => i = j
    <3>1. Len(seenOrder) = 0
      BY <1>1, <1>2
    <3> QED BY <3>1
  <2> QED BY <2>2, <2>3 DEF WindowInv
<1>5. ASSUME NEW e \in Events PROVE EventOK(e)
  <2>1. e \notin Met /\ Occ(handled, e) = 0 /\ Occ(dispatched, e) = 0 /\ fetching[e] = 0
    BY <1>1, <1>2, <1>3, CopiesType DEF Met
  <2> QED BY <1>1, <2>1 DEF EventOK, Awaited
<1> QED BY <1>1, <1>3, <1>4, <1>5 DEF BusInv

\* An id that was taken in and is not in the window has left it.
LEMMA LeftWindow == ASSUME BusTyped, WindowInv, NEW e, e \in Bus!Range(recorded), e \notin seenIds PROVE Gone(e)
<1>1. PICK W, n, from : W = Window /\ n = Len(recorded) /\ from = IF n > W THEN n - W + 1 ELSE 1
  OBVIOUS
<1>2. W \in Nat \ {0} /\ n \in Nat /\ recorded \in Seq(Events) /\ seenOrder \in Seq(Events) /\ \A i \in 1 .. n : recorded[i] \in Events
  BY <1>1, BusConstants, LenProperties, ElementOfSeq DEF BusTyped
<1>3. /\ Bus!Range(recorded) = {recorded[i] : i \in 1 .. n}
      /\ seenIds = {seenOrder[i] : i \in 1 .. Len(seenOrder)} /\ seenOrder = SubSeq(recorded, from, n)
  <2>1. seenIds = Bus!Range(seenOrder) /\ seenOrder = SubSeq(recorded, from, n)
    BY <1>1 DEF WindowInv, Bus!WindowKept
  <2>2. Bus!Range(recorded) = {recorded[i] : i \in 1 .. n} /\ Bus!Range(seenOrder) = {seenOrder[i] : i \in 1 .. Len(seenOrder)}
    BY <1>1, <1>2, OccType
  <2> QED BY <2>1, <2>2
<1>4. PICK i \in 1 .. n : recorded[i] = e
  BY <1>3
<1>5. from \in 1 .. n /\ \A j \in from .. n : recorded[j] \in Events
  BY <1>1, <1>2, <1>4
<1>6. Len(seenOrder) = n - from + 1 /\ \A j \in 1 .. n - from + 1 : seenOrder[j] = recorded[from + j - 1]
  <2>1. from \in Int /\ n \in Int /\ from <= n
    BY <1>2, <1>5
  <2> QED BY <1>3, <1>5, <2>1, SubSeqProperties
<1>7. i < from
  <2> SUFFICES ASSUME i >= from PROVE FALSE
    BY <1>2, <1>5
  <2>1. i - from + 1 \in 1 .. n - from + 1 /\ from + (i - from + 1) - 1 = i
    BY <1>2, <1>5
  <2>2. seenOrder[i - from + 1] = e
    BY <1>4, <1>6, <2>1
  <2> QED BY <1>3, <1>6, <2>1, <2>2
<1>8. i \in 1 .. Len(recorded) - Window
  <2>1. n > W /\ from = n - W + 1
    BY <1>1, <1>2, <1>7
  <2> QED BY <1>1, <1>2, <1>7, <2>1
<1> QED BY <1>4, <1>8 DEF Gone

\* What an event's row, notification or fetch does outside the window.
LEMMA BusState ==
    ASSUME BusInv
    PROVE  /\ BusTyped /\ WindowInv /\ committed \subseteq Events /\ seenIds \subseteq committed
           /\ (~Bus!Wired => expected = {}) /\ \A e \in Events : EventOK(e) /\ Awaited(e)
           /\ fetching \in [Events -> Nat]
  BY DEF BusInv, BusTyped, Bus!TypeOK, EventOK

LEMMA publishEvent == ASSUME BusInv, NEW e \in Events, Bus!publish(e) PROVE BusInv'
<1>1. /\ e \notin committed /\ committed' = committed \cup {e}
      /\ inbox' = IF Bus!Hears THEN Append(inbox, e) ELSE inbox
      /\ expected' = IF Bus!Hears /\ Bus!Wired THEN expected \cup {e} ELSE expected
      /\ UNCHANGED <<consumed, phase, deaf, fetching, seenIds, seenOrder, recorded, dispatched, claiming, handled, lost, overlapped, echoes, faults>>
  BY DEF Bus!publish, Bus!seenVars, Bus!boundVars
<1>2. BusTyped /\ WindowInv /\ (~Bus!Wired => expected = {}) /\ \A x \in Events : EventOK(x) /\ Awaited(x)
  BY BusState
<1>3. inbox' \in Seq(Events) /\ Bus!Range(inbox') \subseteq Bus!Range(inbox) \cup {e} /\ Bus!Range(inbox) \subseteq Bus!Range(inbox')
      /\ (Bus!Hears => e \in Bus!Range(inbox'))
  <2>1. inbox \in Seq(Events)
    BY <1>2 DEF BusTyped
  <2>2. Append(inbox, e) \in Seq(Events) /\ Bus!Range(Append(inbox, e)) = Bus!Range(inbox) \cup {e}
    BY <2>1, OccAppend
  <2> QED BY <1>1, <2>1, <2>2
<1>4. BusTyped'
  <2>1. Bus!TypeOK'
    BY <1>1, <1>2, <1>3 DEF BusTyped, Bus!TypeOK
  <2> QED BY <1>1, <1>2, <1>3, <2>1 DEF BusTyped
<1>5. WindowInv' /\ (~Bus!Wired' => expected' = {})
  <2>1. WindowInv /\ UNCHANGED <<seenIds, seenOrder, recorded>>
    BY <1>1, <1>2
  <2>2. WindowInv'
    BY <2>1, WindowStays
  <2>3. ~Bus!Wired' => expected' = {}
    BY <1>1, <1>2 DEF Bus!Wired
  <2> QED BY <2>2, <2>3
<1>6. ASSUME NEW x \in Events PROVE EventOK(x)'
  <2>1. Fewer(x)
    <3>1. Occ(handled, x)' = Occ(handled, x) /\ Occ(dispatched, x)' = Occ(dispatched, x) /\ Met' = Met
      BY <1>1, SameCopies
    <3>2. Occ(handled, x) \in Nat /\ Occ(dispatched, x) \in Nat /\ fetching[x] \in Nat
      BY <1>2, CopiesType
    <3> QED BY <1>1, <3>1, <3>2 DEF Fewer, Gone
  <2>2. Awaited(x)'
    <3>1. Met' = Met
      BY <1>1, SameCopies
    <3>2. CASE x \in expected
      BY <1>1, <1>2, <1>3, <3>1, <3>2 DEF Awaited
    <3>3. CASE x \notin expected
      <4>1. x \in expected' => x = e /\ Bus!Hears
        BY <1>1, <3>3
      <4>2. e \notin seenIds'
        BY <1>1, BusState
      <4> QED BY <1>3, <4>1, <4>2 DEF Awaited
    <3> QED BY <3>2, <3>3
  <2> QED BY <1>2, <1>4, <2>1, <2>2, FewerKeeps
<1> QED BY <1>4, <1>5, <1>6 DEF BusInv

LEMMA EchoEvent == ASSUME BusInv, NEW e \in Events, Bus!Echo(e) PROVE BusInv'
<1>1. /\ e \in committed /\ echoes < MaxEchoes /\ echoes' = echoes + 1 /\ inbox' = Append(inbox, e)
      /\ UNCHANGED <<committed, consumed, phase, deaf, fetching, seenIds, seenOrder, recorded, dispatched, claiming, handled, expected, lost, overlapped, faults>>
  BY DEF Bus!Echo, Bus!seenVars, Bus!tableVars
<1>2. BusTyped /\ WindowInv /\ (~Bus!Wired => expected = {}) /\ \A x \in Events : EventOK(x) /\ Awaited(x)
  BY BusState
<1>3. inbox' \in Seq(Events) /\ Bus!Range(inbox') = Bus!Range(inbox) \cup {e}
  BY <1>1, <1>2, OccAppend DEF BusTyped
<1>4. BusTyped'
  <2>1. echoes' \in 0 .. MaxEchoes
    BY <1>1, <1>2, BusConstants DEF BusTyped, Bus!TypeOK
  <2>2. Bus!TypeOK'
    BY <1>1, <1>2, <1>3, <2>1 DEF BusTyped, Bus!TypeOK
  <2> QED BY <1>1, <1>2, <1>3, <2>2 DEF BusTyped
<1>5. WindowInv' /\ (~Bus!Wired' => expected' = {})
  <2>1. WindowInv /\ UNCHANGED <<seenIds, seenOrder, recorded>>
    BY <1>1, <1>2
  <2>2. WindowInv'
    BY <2>1, WindowStays
  <2>3. ~Bus!Wired' => expected' = {}
    BY <1>1, <1>2 DEF Bus!Wired
  <2> QED BY <2>2, <2>3
<1>6. ASSUME NEW x \in Events PROVE EventOK(x)'
  <2>1. Occ(handled, x)' = Occ(handled, x) /\ Occ(dispatched, x)' = Occ(dispatched, x) /\ Met' = Met
    BY <1>1, SameCopies
  <2>2. Fewer(x)
    <3>1. Occ(handled, x) \in Nat /\ Occ(dispatched, x) \in Nat /\ fetching[x] \in Nat
      BY <1>2, CopiesType
    <3> QED BY <1>1, <2>1, <3>1 DEF Fewer, Gone
  <2>3. Awaited(x)'
    BY <1>1, <1>2, <1>3, <2>1 DEF Awaited
  <2> QED BY <1>2, <1>4, <2>2, <2>3, FewerKeeps
<1> QED BY <1>4, <1>5, <1>6 DEF BusInv

LEMMA _on_notifyStep == ASSUME BusInv, Bus!_on_notify PROVE BusInv'
<1>1. PICK e : e = Head(inbox)
  OBVIOUS
<1>2. /\ inbox # << >> /\ inbox' = Tail(inbox)
      /\ fetching' = IF e \notin seenIds THEN [fetching EXCEPT ![e] = @ + 1] ELSE fetching
      /\ overlapped' = IF e \notin seenIds /\ fetching[e] > 0 THEN overlapped \cup {e} ELSE overlapped
      /\ UNCHANGED <<committed, consumed, phase, deaf, seenIds, seenOrder, recorded, dispatched, claiming, handled, expected, lost, echoes, faults>>
  BY <1>1 DEF Bus!_on_notify, Bus!Unseen, Bus!seenVars, Bus!tableVars, Bus!boundVars
<1>3. BusTyped /\ WindowInv /\ (~Bus!Wired => expected = {}) /\ (\A x \in Events : EventOK(x) /\ Awaited(x)) /\ fetching \in [Events -> Nat]
  BY BusState
<1>4. inbox' \in Seq(Events) /\ Bus!Range(inbox) = {e} \cup Bus!Range(inbox') /\ e \in Events
  BY <1>1, <1>2, <1>3, OccTail DEF BusTyped
<1>5. fetching' \in [Events -> Nat] /\ \A x \in Events : fetching'[x] = IF x = e /\ e \notin seenIds THEN fetching[x] + 1 ELSE fetching[x]
  BY <1>2, <1>3, <1>4
<1>6. BusTyped'
  <2>1. e \in committed
    BY <1>3, <1>4 DEF BusTyped, Bus!TypeOK
  <2>2. Bus!TypeOK'
    BY <1>2, <1>3, <1>4, <1>5, <2>1 DEF BusTyped, Bus!TypeOK
  <2> QED BY <1>2, <1>3, <1>4, <2>2 DEF BusTyped
<1>7. WindowInv' /\ (~Bus!Wired' => expected' = {})
  <2>1. WindowInv /\ UNCHANGED <<seenIds, seenOrder, recorded>>
    BY <1>2, <1>3
  <2>2. WindowInv'
    BY <2>1, WindowStays
  <2>3. ~Bus!Wired' => expected' = {}
    BY <1>2, <1>3 DEF Bus!Wired
  <2> QED BY <2>2, <2>3
<1>8. \A x \in Events : Occ(handled, x)' = Occ(handled, x) /\ Occ(dispatched, x)' = Occ(dispatched, x) /\ Met' = Met /\ (Gone(x) => Gone(x)')
  BY <1>2, SameCopies DEF Gone
<1>9. \A x \in Events : Occ(handled, x) \in Nat /\ Occ(dispatched, x) \in Nat /\ fetching[x] \in Nat
  BY <1>3, CopiesType
\* What is seen and was awaited in the inbox is met, fetched or lost by now.
<1>10. ASSUME NEW x \in Events PROVE Awaited(x)'
  <2>1. fetching[x] > 0 => fetching'[x] > 0
    BY <1>5, <1>9
  <2>2. x = e /\ e \notin seenIds => fetching'[x] > 0
    BY <1>5, <1>9
  <2> QED BY <1>2, <1>3, <1>4, <1>8, <2>1, <2>2 DEF Awaited
<1>11. ASSUME NEW x \in Events, x # e \/ e \in seenIds PROVE EventOK(x)'
  <2>1. fetching'[x] = fetching[x] /\ (x \in overlapped => x \in overlapped')
    BY <1>2, <1>5, <1>11
  <2>2. Fewer(x)
    BY <1>2, <1>8, <1>9, <2>1 DEF Fewer
  <2> QED BY <1>3, <1>6, <1>10, <2>2, FewerKeeps
<1>12. e \in committed'
  BY <1>2, <1>3, <1>4 DEF BusTyped, Bus!TypeOK
<1>13. ASSUME e \notin seenIds PROVE EventOK(e)'
  <2>1. CASE fetching[e] > 0
    <3>1. e \in overlapped'
      BY <1>2, <1>13, <2>1
    <3>2. (e \in Met => e \in Bus!Range(recorded))'
      BY <1>2, <1>3, <1>4, <1>8 DEF EventOK
    <3> QED BY <1>4, <1>10, <1>12, <3>1, <3>2 DEF EventOK
  <2>2. CASE fetching[e] = 0
    <3>0. e \in committed'
      BY <1>12
    <3>1. fetching'[e] = 1
      BY <1>4, <1>5, <1>13, <2>2
    <3>2. (e \in Met => e \in Bus!Range(recorded))'
      BY <1>2, <1>3, <1>4, <1>8 DEF EventOK
    <3>3. CASE e \in Met
      <4>1. e \in Bus!Range(recorded)
        BY <1>3, <1>4, <3>3 DEF EventOK
      <4>2. Gone(e)
        BY <1>3, <1>4, <1>13, <4>1, LeftWindow
      <4> QED BY <1>4, <1>8, <1>10, <3>0, <3>1, <3>2, <4>2 DEF EventOK
    <3>4. CASE e \notin Met
      <4>1. Occ(handled, e)' = 0 /\ Occ(dispatched, e)' = 0
        BY <1>3, <1>4, <1>8, <3>4, CopiesType
      <4> QED BY <1>4, <1>10, <3>0, <3>1, <3>2, <4>1 DEF EventOK
    <3> QED BY <3>3, <3>4
  <2> QED BY <1>4, <1>9, <2>1, <2>2
<1>14. \A x \in Events : EventOK(x)'
  BY <1>4, <1>11, <1>13
<1> QED BY <1>6, <1>7, <1>14 DEF BusInv

LEMMA _fetch_and_enqueueStep == ASSUME BusInv, NEW e \in Events, Bus!_fetch_and_enqueue(e) PROVE BusInv'
<1>1. /\ fetching[e] > 0 /\ fetching' = [fetching EXCEPT ![e] = @ - 1] /\ Bus!_seen_add(e) /\ dispatched' = Append(dispatched, e)
      /\ UNCHANGED <<committed, consumed, phase, deaf, inbox, claiming, handled, expected, lost, overlapped, echoes, faults>>
  BY DEF Bus!_fetch_and_enqueue, Bus!Enqueued, Bus!tableVars, Bus!boundVars
<1>2. BusTyped /\ WindowInv /\ (~Bus!Wired => expected = {}) /\ (\A x \in Events : EventOK(x) /\ Awaited(x)) /\ fetching \in [Events -> Nat]
  BY BusState
<1>3. /\ seenOrder' \in Seq(Events) /\ recorded' \in Seq(Events) /\ Len(seenOrder') <= Window
      /\ WindowInv'
      /\ seenIds' \subseteq seenIds \cup {e} /\ e \in seenIds'
      /\ Bus!Range(recorded') = Bus!Range(recorded) \cup {e}
      /\ \A x \in Events : Gone(x) => Gone(x)'
  BY <1>1, <1>2, SeenAdded
<1>4. PICK d : d = dispatched'
  OBVIOUS
<1>5. /\ d \in Seq(Events) /\ Bus!Range(d) = Bus!Range(dispatched) \cup {e}
      /\ \A x : Occ(d, x) = Occ(dispatched, x) + (IF e = x THEN 1 ELSE 0)
  BY <1>1, <1>2, <1>4, OccAppend DEF BusTyped
<1>6. e \in committed
  BY <1>1, <1>2 DEF EventOK
<1>7. fetching' \in [Events -> Nat] /\ \A x \in Events : fetching'[x] = IF x = e THEN fetching[x] - 1 ELSE fetching[x]
  <2>1. fetching[e] - 1 \in Nat
    BY <1>1, <1>2
  <2> QED BY <1>1, <1>2, <2>1
<1>8. BusTyped'
  <2>1. Bus!TypeOK'
    BY <1>1, <1>2, <1>3, <1>4, <1>5, <1>6, <1>7 DEF BusTyped, Bus!TypeOK
  <2> QED BY <1>1, <1>2, <1>3, <1>4, <1>5, <2>1 DEF BusTyped
<1>9. ~Bus!Wired' => expected' = {}
  BY <1>1, <1>2 DEF Bus!Wired
<1>10. ASSUME NEW x \in Events PROVE EventOK(x)'
  <2>1. Occ(handled, x) \in Nat /\ Occ(dispatched, x) \in Nat /\ fetching[x] \in Nat
    BY <1>2, CopiesType
  <2>2. Occ(handled, x)' = Occ(handled, x) /\ Occ(dispatched, x)' = Occ(dispatched, x) + (IF e = x THEN 1 ELSE 0)
    <3>1. Occ(dispatched, x)' = Occ(d, x) /\ Occ(handled, x)' = Occ(handled, x)
      BY <1>1, <1>4 DEF Occ
    <3>2. Occ(d, x) = Occ(dispatched, x) + (IF e = x THEN 1 ELSE 0)
      BY <1>5
    <3> QED BY <3>1, <3>2
  <2>3. Met' = Met \cup {e}
    BY <1>1, <1>4, <1>5 DEF Met
  <2>4. Occ(handled, x)' + Occ(dispatched, x)' + fetching'[x] = Occ(handled, x) + Occ(dispatched, x) + fetching[x] /\ fetching'[x] <= fetching[x]
    <3>1. CASE x = e
      BY <1>7, <2>1, <2>2, <3>1
    <3>2. CASE x # e
      BY <1>7, <2>1, <2>2, <3>2
    <3> QED BY <3>1, <3>2
  <2>5. fetching'[x] \in Nat
    BY <1>7
  <2>6. (x \notin overlapped' => fetching'[x] <= 1) /\ (fetching'[x] > 0 => x \in committed')
    BY <1>1, <1>2, <2>1, <2>4, <2>5 DEF EventOK
  <2>7. (x \in Met => x \in Bus!Range(recorded))'
    BY <1>2, <1>3, <2>3 DEF EventOK
  <2>8. x \notin overlapped' /\ Occ(handled, x)' + Occ(dispatched, x)' + fetching'[x] > 1 => Gone(x)'
    BY <1>1, <1>2, <1>3, <2>4 DEF EventOK
  <2>9. Awaited(x)'
    <3>1. CASE x = e
      BY <2>3, <3>1 DEF Awaited
    <3>2. CASE x # e
      <4>1. fetching'[x] = fetching[x] /\ (x \notin seenIds => x \notin seenIds')
        BY <1>3, <1>7, <3>2
      <4> QED BY <1>1, <1>2, <2>3, <4>1 DEF Awaited
    <3> QED BY <3>1, <3>2
  <2> QED BY <2>6, <2>7, <2>8, <2>9 DEF EventOK
<1> QED BY <1>3, <1>8, <1>9, <1>10 DEF BusInv

LEMMA BusDispatchStep == ASSUME BusInv, Bus!_dispatch PROVE BusInv'
<1>1. PICK e, d, h : e = Head(dispatched) /\ d = Tail(dispatched) /\ h = IF Bus!Wired THEN Append(handled, e) ELSE handled
  OBVIOUS
<1>2. /\ dispatched # << >> /\ dispatched' = d /\ handled' = h
      /\ UNCHANGED <<committed, consumed, phase, deaf, inbox, fetching, seenIds, seenOrder, recorded, claiming, expected, lost, overlapped, echoes, faults>>
  BY <1>1 DEF Bus!_dispatch, Bus!seenVars, Bus!tableVars, Bus!boundVars
<1>3. BusTyped /\ WindowInv /\ (~Bus!Wired => expected = {}) /\ (\A x \in Events : EventOK(x) /\ Awaited(x)) /\ fetching \in [Events -> Nat]
  BY BusState
<1>4. /\ d \in Seq(Events) /\ e \in Events /\ Bus!Range(dispatched) = {e} \cup Bus!Range(d)
      /\ \A x : Occ(dispatched, x) = Occ(d, x) + (IF e = x THEN 1 ELSE 0)
  BY <1>1, <1>2, <1>3, OccTail DEF BusTyped
<1>5. handled \in Seq(Events) /\ dispatched \in Seq(Events)
  BY <1>3 DEF BusTyped
<1>6. PICK a : a = Append(handled, e)
  OBVIOUS
<1>7. /\ a \in Seq(Events) /\ Bus!Range(a) = Bus!Range(handled) \cup {e}
      /\ \A x : Occ(a, x) = Occ(handled, x) + (IF e = x THEN 1 ELSE 0)
  BY <1>4, <1>5, <1>6, OccAppend
<1>8. /\ h \in Seq(Events) /\ Bus!Range(h) \subseteq Bus!Range(handled) \cup {e} /\ Bus!Range(handled) \subseteq Bus!Range(h)
      /\ (Bus!Wired => h = a) /\ (~Bus!Wired => h = handled)
  BY <1>1, <1>5, <1>6, <1>7
<1>9. BusTyped'
  <2>1. e \in committed
    BY <1>3, <1>4 DEF BusTyped, Bus!TypeOK
  <2>2. Bus!TypeOK'
    BY <1>2, <1>3, <1>4, <1>8, <2>1 DEF BusTyped, Bus!TypeOK
  <2> QED BY <1>2, <1>3, <1>4, <1>8, <2>2 DEF BusTyped
<1>10. WindowInv' /\ (~Bus!Wired' => expected' = {})
  <2>1. WindowInv /\ UNCHANGED <<seenIds, seenOrder, recorded>>
    BY <1>2, <1>3
  <2>2. WindowInv'
    BY <2>1, WindowStays
  <2>3. ~Bus!Wired' => expected' = {}
    BY <1>2, <1>3 DEF Bus!Wired
  <2> QED BY <2>2, <2>3
<1>11. Met' \subseteq Met /\ (Bus!Wired => Met' = Met)
  BY <1>2, <1>4, <1>7, <1>8 DEF Met
<1>12. ASSUME NEW x \in Events PROVE EventOK(x)'
  <2>1. Occ(handled, x) \in Nat /\ Occ(dispatched, x) \in Nat /\ fetching[x] \in Nat /\ Occ(d, x) \in Nat
    BY <1>3, <1>4, CopiesType, OccType
  <2>2. Occ(handled, x)' = Occ(h, x) /\ Occ(dispatched, x)' = Occ(d, x)
    BY <1>2 DEF Occ
  <2>3. Occ(h, x) + Occ(d, x) <= Occ(handled, x) + Occ(dispatched, x)
    <3>1. CASE Bus!Wired
      <4>1. Occ(h, x) = Occ(handled, x) + (IF e = x THEN 1 ELSE 0) /\ Occ(dispatched, x) = Occ(d, x) + (IF e = x THEN 1 ELSE 0)
        BY <1>4, <1>7, <1>8, <3>1
      <4> QED BY <2>1, <4>1
    <3>2. CASE ~Bus!Wired
      <4>1. Occ(h, x) = Occ(handled, x) /\ Occ(dispatched, x) = Occ(d, x) + (IF e = x THEN 1 ELSE 0)
        BY <1>4, <1>8, <3>2
      <4> QED BY <2>1, <4>1
    <3> QED BY <3>1, <3>2
  <2>4. Occ(h, x) \in Nat
    BY <1>8, OccType
  <2>5. Fewer(x)
    BY <1>2, <1>11, <2>1, <2>2, <2>3, <2>4 DEF Fewer, Gone
  <2>6. Awaited(x)'
    <3>1. CASE Bus!Wired
      BY <1>2, <1>3, <1>11, <3>1 DEF Awaited
    <3>2. CASE ~Bus!Wired
      BY <1>2, <1>3, <3>2 DEF Awaited
    <3> QED BY <3>1, <3>2
  <2> QED BY <1>3, <1>9, <2>5, <2>6, FewerKeeps
<1> QED BY <1>9, <1>10, <1>12 DEF BusInv

\* The steps of the start-up: the phase moves, or the drain reads.
LEMMA StartUp ==
    ASSUME BusInv, phase' \in Bus!Phases, (Bus!Wired => Bus!Wired'),
           claiming' \in Seq(Events), Bus!Range(claiming') \subseteq committed,
           UNCHANGED <<committed, consumed, deaf, inbox, fetching, seenIds, seenOrder, recorded, dispatched, handled, expected, lost, overlapped, echoes, faults>>
    PROVE  BusInv'
<1>1. BusTyped /\ WindowInv /\ (~Bus!Wired => expected = {}) /\ (\A x \in Events : EventOK(x) /\ Awaited(x))
  BY BusState
<1>2. BusTyped'
  <2>1. Bus!TypeOK'
    BY <1>1 DEF BusTyped, Bus!TypeOK
  <2> QED BY <1>1, <2>1 DEF BusTyped
<1>3. WindowInv' /\ (~Bus!Wired' => expected' = {})
  <2>1. WindowInv /\ UNCHANGED <<seenIds, seenOrder, recorded>>
    BY <1>1
  <2>2. WindowInv'
    BY <2>1, WindowStays
  <2>3. ~Bus!Wired' => expected' = {}
    BY <1>1 DEF Bus!Wired
  <2> QED BY <2>2, <2>3
<1>4. \A x \in Events : EventOK(x)'
  BY <1>1 DEF EventOK, Occ, Met, Gone, Awaited
<1> QED BY <1>2, <1>3, <1>4 DEF BusInv

LEMMA ClaimingRest == ASSUME BusInv, claiming' = claiming PROVE claiming' \in Seq(Events) /\ Bus!Range(claiming') \subseteq committed
  BY DEF BusInv, BusTyped, Bus!TypeOK

LEMMA startStep == ASSUME BusInv, Bus!start PROVE BusInv'
<1>1. /\ phase' = "listening" /\ phase = "down" /\ claiming' = claiming
      /\ UNCHANGED <<committed, consumed, deaf, inbox, fetching, seenIds, seenOrder, recorded, dispatched, handled, expected, lost, overlapped, echoes, faults>>
  BY DEF Bus!start, Bus!seenVars, Bus!tableVars, Bus!boundVars
<1> QED BY <1>1, ClaimingRest, StartUp DEF Bus!Phases, Bus!Wired

LEMMA _wire_busStep == ASSUME BusInv, Bus!_wire_bus PROVE BusInv'
<1>1. /\ phase' = "wired" /\ claiming' = claiming
      /\ UNCHANGED <<committed, consumed, deaf, inbox, fetching, seenIds, seenOrder, recorded, dispatched, handled, expected, lost, overlapped, echoes, faults>>
  BY DEF Bus!_wire_bus, Bus!seenVars, Bus!tableVars, Bus!boundVars
<1> QED BY <1>1, ClaimingRest, StartUp DEF Bus!Phases, Bus!Wired

LEMMA DrainedStep == ASSUME BusInv, Bus!Drained PROVE BusInv'
<1>1. /\ phase' = "awake" /\ claiming' = claiming
      /\ UNCHANGED <<committed, consumed, deaf, inbox, fetching, seenIds, seenOrder, recorded, dispatched, handled, expected, lost, overlapped, echoes, faults>>
  BY DEF Bus!Drained, Bus!seenVars, Bus!tableVars, Bus!boundVars
<1> QED BY <1>1, ClaimingRest, StartUp DEF Bus!Phases, Bus!Wired

LEMMA drainStep == ASSUME BusInv, Bus!drain PROVE BusInv'
<1>1. /\ phase' = "draining" /\ claiming' \in Bus!Unclaimed
      /\ UNCHANGED <<committed, consumed, deaf, inbox, fetching, seenIds, seenOrder, recorded, dispatched, handled, expected, lost, overlapped, echoes, faults>>
  BY DEF Bus!drain, Bus!seenVars, Bus!tableVars, Bus!boundVars
<1>2. PICK n, q : n = (IF Bus!Cardinality(committed \ consumed) < DrainLimit THEN Bus!Cardinality(committed \ consumed) ELSE DrainLimit) /\ q = claiming'
  OBVIOUS
<1>3. q \in [1 .. n -> committed \ consumed]
  BY <1>1, <1>2 DEF Bus!Unclaimed
<1>4. n \in Nat
  <2>1. committed \ consumed \in SUBSET Events
    BY DEF BusInv, BusTyped, Bus!TypeOK
  <2>2. IsFiniteSet(committed \ consumed)
    BY <2>1, BusConstants, FS_Subset
  <2>3. Cardinality(committed \ consumed) \in Nat
    BY <2>2, FS_CardinalityType
  <2> QED BY <1>2, <2>3, BusConstants, BusNames
<1>5. q \in Seq(committed \ consumed) /\ committed \ consumed \subseteq Events
  <2>1. committed \ consumed \subseteq Events
    BY DEF BusInv, BusTyped, Bus!TypeOK
  <2> QED BY <1>3, <1>4, <2>1, SeqDef
<1>6. q \in Seq(Events)
  BY <1>5, SeqMonotonic
<1>7. Bus!Range(q) \subseteq committed
  BY <1>3 DEF Bus!Range
<1> QED BY <1>1, <1>2, <1>6, <1>7, StartUp DEF Bus!Phases, Bus!Wired

LEMMA ClaimStep == ASSUME BusInv, Bus!Claim PROVE BusInv'
<1>1. PICK e, c : e = Head(claiming) /\ c = Tail(claiming)
  OBVIOUS
<1>2. /\ claiming # << >> /\ claiming' = c /\ consumed' = consumed \cup {e} /\ Bus!_seen_add(e)
      /\ lost' = lost \cup (IF e \in Bus!Range(inbox) /\ e \notin seenIds THEN {e} ELSE {})
      /\ UNCHANGED <<committed, phase, deaf, inbox, fetching, dispatched, handled, expected, overlapped, echoes, faults>>
  BY <1>1 DEF Bus!Claim, Bus!TakenAway, Bus!Unseen, Bus!boundVars
<1>3. BusTyped /\ WindowInv /\ (~Bus!Wired => expected = {}) /\ (\A x \in Events : EventOK(x) /\ Awaited(x)) /\ fetching \in [Events -> Nat]
  BY BusState
<1>4. c \in Seq(Events) /\ e \in Events /\ Bus!Range(claiming) = {e} \cup Bus!Range(c)
  BY <1>1, <1>2, <1>3, OccTail DEF BusTyped
<1>5. /\ seenOrder' \in Seq(Events) /\ recorded' \in Seq(Events) /\ Len(seenOrder') <= Window
      /\ WindowInv'
      /\ seenIds' \subseteq seenIds \cup {e}
      /\ Bus!Range(recorded') = Bus!Range(recorded) \cup {e}
      /\ \A x \in Events : Gone(x) => Gone(x)'
  BY <1>2, <1>3, <1>4, SeenAdded
<1>6. e \in committed
  BY <1>3, <1>4 DEF BusTyped, Bus!TypeOK
<1>7. BusTyped'
  <2>1. Bus!TypeOK'
    BY <1>2, <1>3, <1>4, <1>5, <1>6 DEF BusTyped, Bus!TypeOK
  <2> QED BY <1>2, <1>3, <1>4, <1>5, <2>1 DEF BusTyped
<1>8. ~Bus!Wired' => expected' = {}
  BY <1>2, <1>3 DEF Bus!Wired
<1>9. ASSUME NEW x \in Events PROVE EventOK(x)'
  <2>1. Occ(handled, x)' = Occ(handled, x) /\ Occ(dispatched, x)' = Occ(dispatched, x) /\ Met' = Met
    BY <1>2, SameCopies
  <2>2. Occ(handled, x) \in Nat /\ Occ(dispatched, x) \in Nat /\ fetching[x] \in Nat
    BY <1>3, CopiesType
  <2>3. x \in Bus!Range(recorded) => x \in Bus!Range(recorded)'
    BY <1>5
  <2>4. Fewer(x)
    BY <1>2, <1>5, <2>1, <2>2, <2>3 DEF Fewer
  <2>5. Awaited(x)'
    <3>1. CASE x = e
      BY <1>2, <1>3, <2>1, <3>1 DEF Awaited
    <3>2. CASE x # e
      <4>1. x \notin seenIds => x \notin seenIds'
        BY <1>5, <3>2
      <4> QED BY <1>2, <1>3, <2>1, <4>1 DEF Awaited
    <3> QED BY <3>1, <3>2
  <2> QED BY <1>3, <1>7, <2>4, <2>5, FewerKeeps
<1> QED BY <1>5, <1>7, <1>8, <1>9 DEF BusInv

LEMMA FetchFailsEvent == ASSUME BusInv, NEW e \in Events, Bus!FetchFails(e) PROVE BusInv'
<1>1. /\ faults < MaxFaults /\ faults' = faults + 1 /\ fetching[e] > 0 /\ fetching' = [fetching EXCEPT ![e] = @ - 1] /\ lost' = lost \cup {e}
      /\ UNCHANGED <<committed, consumed, phase, deaf, inbox, seenIds, seenOrder, recorded, dispatched, claiming, handled, expected, overlapped, echoes>>
  BY DEF Bus!FetchFails, Bus!Faulty, Bus!seenVars, Bus!tableVars
<1>2. BusTyped /\ WindowInv /\ (~Bus!Wired => expected = {}) /\ (\A x \in Events : EventOK(x) /\ Awaited(x)) /\ fetching \in [Events -> Nat]
  BY BusState
<1>3. fetching' \in [Events -> Nat] /\ \A x \in Events : fetching'[x] = IF x = e THEN fetching[x] - 1 ELSE fetching[x]
  <2>1. fetching[e] - 1 \in Nat
    BY <1>1, <1>2
  <2> QED BY <1>1, <1>2, <2>1
<1>4. BusTyped'
  <2>1. faults' \in 0 .. MaxFaults /\ e \in committed
    BY <1>1, <1>2, BusConstants DEF BusTyped, Bus!TypeOK, EventOK
  <2>2. Bus!TypeOK'
    BY <1>1, <1>2, <1>3, <2>1 DEF BusTyped, Bus!TypeOK
  <2> QED BY <1>1, <1>2, <2>2 DEF BusTyped
<1>5. WindowInv' /\ (~Bus!Wired' => expected' = {})
  <2>1. WindowInv /\ UNCHANGED <<seenIds, seenOrder, recorded>>
    BY <1>1, <1>2
  <2>2. WindowInv'
    BY <2>1, WindowStays
  <2>3. ~Bus!Wired' => expected' = {}
    BY <1>1, <1>2 DEF Bus!Wired
  <2> QED BY <2>2, <2>3
<1>6. ASSUME NEW x \in Events PROVE EventOK(x)'
  <2>1. Occ(handled, x)' = Occ(handled, x) /\ Occ(dispatched, x)' = Occ(dispatched, x) /\ Met' = Met
    BY <1>1, SameCopies
  <2>2. Occ(handled, x) \in Nat /\ Occ(dispatched, x) \in Nat /\ fetching[x] \in Nat /\ fetching'[x] \in Nat
    BY <1>2, <1>3, CopiesType
  <2>3. fetching'[x] <= fetching[x]
    BY <1>3, <2>2
  <2>4. Fewer(x)
    BY <1>1, <2>1, <2>2, <2>3 DEF Fewer, Gone
  <2>5. Awaited(x)'
    <3>1. CASE x = e
      BY <1>1, <3>1 DEF Awaited
    <3>2. CASE x # e
      <4>1. fetching'[x] = fetching[x]
        BY <1>3, <3>2
      <4> QED BY <1>1, <1>2, <2>1, <4>1 DEF Awaited
    <3> QED BY <3>1, <3>2
  <2> QED BY <1>2, <1>4, <2>4, <2>5, FewerKeeps
<1> QED BY <1>4, <1>5, <1>6 DEF BusInv

LEMMA NothingQueued == << >> \in Seq(Events) /\ Len(<< >>) = 0 /\ Bus!Range(<< >>) = {} /\ \A x : Occ(<< >>, x) = 0
<1>1. << >> \in Seq(Events) /\ Len(<< >>) = 0
  BY EmptySeq
<1>2. Bus!Range(<< >>) = {<< >>[i] : i \in 1 .. Len(<< >>)}
  BY <1>1, OccType
<1>3. Bus!Range(<< >>) = {}
  BY <1>1, <1>2
<1>4. \A x : Occ(<< >>, x) = 0
  BY <1>1, <1>3, OccType
<1> QED BY <1>1, <1>3, <1>4

LEMMA ConnectionLostStep == ASSUME BusInv, Bus!ConnectionLost PROVE BusInv'
<1>1. /\ faults < MaxFaults /\ faults' = faults + 1 /\ deaf' = TRUE /\ inbox' = << >> /\ lost' = lost \cup Bus!Range(inbox)
      /\ UNCHANGED <<committed, consumed, phase, fetching, seenIds, seenOrder, recorded, dispatched, claiming, handled, expected, overlapped, echoes>>
  BY DEF Bus!ConnectionLost, Bus!Faulty, Bus!seenVars, Bus!tableVars
<1>2. BusTyped /\ WindowInv /\ (~Bus!Wired => expected = {}) /\ (\A x \in Events : EventOK(x) /\ Awaited(x)) /\ fetching \in [Events -> Nat]
  BY BusState
<1>3. BusTyped'
  <2>1. faults' \in 0 .. MaxFaults
    BY <1>1, <1>2, BusConstants DEF BusTyped, Bus!TypeOK
  <2>2. Bus!TypeOK'
    BY <1>1, <1>2, <2>1, NothingQueued DEF BusTyped, Bus!TypeOK
  <2> QED BY <1>1, <1>2, <2>2, NothingQueued DEF BusTyped
<1>4. WindowInv' /\ (~Bus!Wired' => expected' = {})
  <2>1. WindowInv /\ UNCHANGED <<seenIds, seenOrder, recorded>>
    BY <1>1, <1>2
  <2>2. WindowInv'
    BY <2>1, WindowStays
  <2>3. ~Bus!Wired' => expected' = {}
    BY <1>1, <1>2 DEF Bus!Wired
  <2> QED BY <2>2, <2>3
<1>5. ASSUME NEW x \in Events PROVE EventOK(x)'
  <2>1. Occ(handled, x)' = Occ(handled, x) /\ Occ(dispatched, x)' = Occ(dispatched, x) /\ Met' = Met
    BY <1>1, SameCopies
  <2>2. Occ(handled, x) \in Nat /\ Occ(dispatched, x) \in Nat /\ fetching[x] \in Nat
    BY <1>2, CopiesType
  <2>3. Fewer(x)
    BY <1>1, <2>1, <2>2 DEF Fewer, Gone
  <2>4. Awaited(x)'
    BY <1>1, <1>2, <2>1 DEF Awaited
  <2> QED BY <1>2, <1>3, <2>3, <2>4, FewerKeeps
<1> QED BY <1>3, <1>4, <1>5 DEF BusInv

LEMMA BusCrash == ASSUME BusInv, Bus!Crash PROVE BusInv'
<1>1. /\ faults < MaxFaults /\ faults' = faults + 1 /\ phase' = "down" /\ deaf' = FALSE
      /\ inbox' = << >> /\ dispatched' = << >> /\ claiming' = << >> /\ fetching' = [e \in Events |-> 0]
      /\ seenIds' = {} /\ seenOrder' = << >> /\ recorded' = << >> /\ handled' = << >>
      /\ expected' = {} /\ lost' = {} /\ overlapped' = {} /\ UNCHANGED <<committed, consumed, echoes>>
  BY DEF Bus!Crash, Bus!Faulty, Bus!tableVars, Bus!NoTasks
<1>2. BusTyped
  BY BusState
<1>3. BusTyped'
  <2>1. faults' \in 0 .. MaxFaults /\ fetching' \in [Events -> Nat] /\ Len(seenOrder') <= Window
    BY <1>1, <1>2, BusConstants, NothingQueued DEF BusTyped, Bus!TypeOK
  <2>2. (Bus!Range(inbox) \cup Bus!Range(dispatched) \cup Bus!Range(claiming) \cup Bus!Range(handled) \subseteq committed)'
    BY <1>1, NothingQueued
  <2>3. Bus!TypeOK'
    BY <1>1, <1>2, <2>1, <2>2 DEF BusTyped, Bus!TypeOK, Bus!Phases
  <2>4. (/\ inbox \in Seq(Events) /\ dispatched \in Seq(Events) /\ claiming \in Seq(Events) /\ handled \in Seq(Events)
         /\ seenOrder \in Seq(Events) /\ recorded \in Seq(Events))'
    BY <1>1, NothingQueued
  <2> QED BY <2>3, <2>4 DEF BusTyped
<1>4. WindowInv'
  <2>1. Len(recorded') = 0 /\ Len(seenOrder') = 0 /\ Bus!Range(seenOrder') = {}
    BY <1>1, NothingQueued
  <2>2. SubSeq(recorded', IF Len(recorded') > Window THEN Len(recorded') - Window + 1 ELSE 1, Len(recorded')) = << >>
    <3>1. (IF Len(recorded') > Window THEN Len(recorded') - Window + 1 ELSE 1) = 1
      BY <2>1, BusConstants
    <3> QED BY <2>1, <3>1, SubSeqEmpty
  <2>3. Bus!WindowKept'
    BY <1>1, <2>1, <2>2 DEF Bus!WindowKept
  <2>4. \A i, j \in 1 .. Len(seenOrder') : seenOrder'[i] = seenOrder'[j] => i = j
    BY <2>1
  <2> QED BY <2>3, <2>4 DEF WindowInv
<1>5. ASSUME NEW e \in Events PROVE EventOK(e)'
  <2>1. Met' = {} /\ Occ(handled, e)' = 0 /\ Occ(dispatched, e)' = 0 /\ fetching'[e] = 0
    <3>1. Met' = {}
      BY <1>1, NothingQueued DEF Met
    <3>2. Occ(handled', e) = 0 /\ Occ(dispatched', e) = 0
      BY <1>1, NothingQueued
    <3> QED BY <1>1, <3>1, <3>2 DEF Occ
  <2> QED BY <1>1, <2>1 DEF EventOK, Awaited
<1> QED BY <1>1, <1>3, <1>4, <1>5 DEF BusInv

LEMMA BusKeeps == ASSUME BusInv, Bus!Next PROVE BusInv'
  BY publishEvent, EchoEvent, _fetch_and_enqueueStep, FetchFailsEvent, _on_notifyStep, BusDispatchStep, startStep, _wire_busStep,
     drainStep, ClaimStep, DrainedStep, ConnectionLostStep, BusCrash DEF Bus!Next

LEMMA BusStands == BusInv => Bus!TypeOK /\ Bus!WindowKept /\ Bus!OneUnlessOverlapped /\ Bus!NothingDropped
<1> SUFFICES ASSUME BusInv PROVE Bus!TypeOK /\ Bus!WindowKept /\ Bus!OneUnlessOverlapped /\ Bus!NothingDropped
  OBVIOUS
<1>1. BusTyped /\ WindowInv /\ Bus!TypeOK /\ committed \subseteq Events /\ \A x \in Events : EventOK(x) /\ Awaited(x)
  BY BusState DEF BusTyped
<1>2. Bus!WindowKept
  BY <1>1 DEF WindowInv
<1>3. ASSUME NEW e \in committed \ overlapped, Bus!Copies(e) > 1 PROVE \E i \in 1 .. Len(recorded) - Window : recorded[i] = e
  <2>1. Bus!Copies(e) = Occ(handled, e) + Occ(dispatched, e) + fetching[e]
    BY BusNames DEF Bus!Copies, Occ
  <2> QED BY <1>1, <1>3, <2>1 DEF EventOK, Gone
<1>4. ASSUME NEW e \in expected PROVE e \in Bus!Pending \cup Bus!Range(handled) \cup lost
  <2>1. e \in Events
    BY <1>1 DEF Bus!TypeOK
  <2> QED BY <1>1, <1>4, <2>1 DEF Awaited, Met, Bus!Pending
<1> QED BY <1>1, <1>2, <1>3, <1>4 DEF Bus!OneUnlessOverlapped, Bus!NothingDropped

\* An event reaches the handler once, unless two of its fetches overlapped or the window
\* forgot it, and is not dropped but by a fault or the drain (EventBus of bus/event_bus.py).
BusPart == part = "bus" => BusInv
THEOREM EventsHandledOnce == Spec => []BusSafe
<1>1. Init => BusPart
  BY BusInit DEF Init, BusPart
<1>2. BusPart /\ [Next]_vars => BusPart'
  <2> SUFFICES ASSUME BusPart, [Next]_vars, part' = "bus" PROVE BusInv'
    BY DEF BusPart
  <2>1. CASE part = "bus" /\ Bus!Next
    BY <2>1, BusKeeps DEF BusPart
  <2>2. CASE UNCHANGED vars
    <3>1. BusInv /\ UNCHANGED <<faults, busVars>>
      BY <2>2 DEF vars, handedVars, BusPart
    <3> QED BY <3>1, BusRests
  <2> QED BY <2>1, <2>2 DEF Next, Handed, Mind, Hands
<1>3. BusPart => BusSafe
  BY BusStands DEF BusPart, BusSafe
<1> QED BY <1>1, <1>2, <1>3, PTL DEF Spec

-----------------------------------------------------------------------------
(* What is said to one person: who holds what, a budget that is overdrawn   *)
(* by what is in flight and by rows that were lost, and quiet hours in which *)
(* each task finishes one delivery at most.                                 *)

Sending(k)   == saying[k].at = "sending" /\ Outbound!Budgeted(saying[k])
Rowing(k)    == saying[k].at = "recording" /\ Outbound!Budgeted(saying[k])
Intruding(k) == saying[k].at = "sending" /\ Outbound!Intrudes(saying[k])
Count(a, b)  == (IF a THEN 1 ELSE 0) + (IF b THEN 1 ELSE 0)
TasksOK ==
    /\ saying["life"].kind # "batch"
    /\ saying["life"].at # "idle" => saying["life"].texts \in Outbound!Batches
    /\ saying["flush"].at # "words"
    /\ saying["flush"].at = "last" => digest # NoEntry
    /\ saying["flush"].at \in {"asking", "sending", "recording"} =>
         saying["flush"].kind = "batch" /\ saying["flush"].texts \in Outbound!Batches
BudgetOK ==
    /\ today <= sent + unrowed + Count(Rowing("life"), Rowing("flush"))
    /\ today + Count(Sending("life"), Sending("flush")) <= Budget + 1 + unrowed
    /\ Sending("life") \/ Sending("flush") => Budget > 0
NightOK ==
    /\ quiet => tonight + Count(Intruding("life"), Intruding("flush")) <= 2
    /\ ~quiet => tonight = 0
OutboundInv == Outbound!TypeOK /\ TasksOK /\ BudgetOK /\ NightOK /\ Outbound!NothingForgotten

LEMMA OutboundConstants ==
    /\ IsFiniteSet(Texts) /\ Cardinality(Texts) \in Nat
    /\ Budget \in Nat /\ MaxSends \in Nat /\ MaxFaults \in Nat /\ NoEntry \notin Outbound!Entries
<1>1. IsFiniteSet(Texts)
  BY RecordsAssumption DEF RecordsAssumption, Outbound!OutboundAssumption, Outbound!IsFiniteSet, IsFiniteSet
<1>2. Budget \in Nat /\ MaxSends \in Nat /\ MaxFaults \in Nat /\ NoEntry \notin Outbound!Entries
  BY RecordsAssumption DEF RecordsAssumption, Outbound!OutboundAssumption
<1> QED BY <1>1, <1>2, FS_CardinalityType

LEMMA OutboundOperators ==
    /\ \A f : Outbound!Range(f) = {f[x] : x \in DOMAIN f}
    /\ \A f : Outbound!IsInjective(f) <=> \A a, b \in DOMAIN f : f[a] = f[b] => a = b
    /\ \A S : Outbound!Cardinality(S) = Cardinality(S)
  BY DEF Outbound!Range, Outbound!IsInjective, Outbound!Cardinality, Cardinality

LEMMA Batch ==
    \A q : q \in Outbound!Batches <=> \E n \in 1 .. Cardinality(Texts) :
             q \in [1 .. n -> Texts] /\ \A a, b \in 1 .. n : q[a] = q[b] => a = b
<1> TAKE q
<1>1. q \in Outbound!Batches <=> \E n \in 1 .. Cardinality(Texts) : q \in [1 .. n -> Texts] /\ Outbound!IsInjective(q)
  BY OutboundOperators DEF Outbound!Batches
<1>2. ASSUME NEW n \in 1 .. Cardinality(Texts), q \in [1 .. n -> Texts]
      PROVE  Outbound!IsInjective(q) <=> \A a, b \in 1 .. n : q[a] = q[b] => a = b
  BY <1>2, OutboundOperators
<1> QED BY <1>1, <1>2

\* What n different texts are of a finite set: at most as many as it has.
LEMMA BatchIsShort ==
    ASSUME NEW n \in Nat, NEW q \in [1 .. n -> Texts], \A a, b \in 1 .. n : q[a] = q[b] => a = b
    PROVE  n <= Cardinality(Texts)
<1>1. q \in Injection(1 .. n, Texts)
  BY DEF Injection, IsInjective
<1>2. IsFiniteSet(Texts)
  BY OutboundConstants
<1>3. Cardinality(1 .. n) <= Cardinality(Texts)
  BY <1>1, <1>2, FS_Injection
<1>4. Cardinality(1 .. n) = n
  BY FS_Interval
<1> QED BY <1>3, <1>4

LEMMA BatchRead ==
    ASSUME NEW q \in Outbound!Batches
    PROVE  q \in Seq(Texts) /\ q # << >> /\ Head(q) \in Texts /\ Outbound!Range(q) \subseteq Texts
<1>1. PICK n \in 1 .. Cardinality(Texts) : q \in [1 .. n -> Texts]
  BY Batch
<1>2. n \in Nat /\ n >= 1
  BY <1>1, OutboundConstants
<1>3. q \in Seq(Texts) /\ Len(q) = n
  BY <1>1, <1>2, SeqDef, LenProperties
<1>4. q # << >> /\ Head(q) \in Texts
  BY <1>2, <1>3, HeadTailProperties
<1>5. Outbound!Range(q) \subseteq Texts
  BY <1>1, OutboundOperators
<1> QED BY <1>3, <1>4, <1>5

LEMMA OneText == ASSUME NEW t \in Texts PROVE <<t>> \in Outbound!Batches /\ Outbound!Range(<<t>>) = {t}
<1>1. PICK q : q = <<t>>
  OBVIOUS
<1>2. q \in [1 .. 1 -> Texts] /\ \A a, b \in 1 .. 1 : q[a] = q[b] => a = b
  BY <1>1
<1>3. 1 <= Cardinality(Texts)
  BY <1>2, BatchIsShort
<1>4. 1 \in 1 .. Cardinality(Texts)
  BY <1>3, OutboundConstants
<1>5. q \in Outbound!Batches
  BY <1>2, <1>4, Batch
<1>6. Outbound!Range(q) = {t}
  BY <1>1, OutboundOperators
<1> QED BY <1>1, <1>5, <1>6

LEMMA LongerBatch ==
    ASSUME NEW q \in Outbound!Batches, NEW t \in Texts, t \notin Outbound!Range(q)
    PROVE  Append(q, t) \in Outbound!Batches /\ Outbound!Range(Append(q, t)) = Outbound!Range(q) \cup {t}
<1>1. PICK n \in 1 .. Cardinality(Texts) : q \in [1 .. n -> Texts] /\ \A a, b \in 1 .. n : q[a] = q[b] => a = b
  BY Batch
<1>2. n \in Nat
  BY <1>1, OutboundConstants
<1>3. q \in Seq(Texts) /\ Len(q) = n
  BY <1>1, <1>2, SeqDef, LenProperties
<1>4. PICK r : r = Append(q, t)
  OBVIOUS
<1>5. /\ r \in Seq(Texts) /\ Len(r) = n + 1 /\ r[n + 1] = t
      /\ \A i \in 1 .. n : r[i] = q[i]
  BY <1>3, <1>4, AppendProperties
<1>6. DOMAIN r = 1 .. n + 1 /\ DOMAIN q = 1 .. n
  BY <1>1, <1>5, LenProperties
<1>7. \A i \in 1 .. n : r[i] # t
  BY <1>5, <1>6, OutboundOperators
<1>8. \A a, b \in 1 .. n + 1 : r[a] = r[b] => a = b
  <2> TAKE a, b \in 1 .. n + 1
  <2> HAVE r[a] = r[b]
  <2>1. CASE a \in 1 .. n /\ b \in 1 .. n
    BY <1>1, <1>5, <2>1
  <2>2. CASE a = n + 1 \/ b = n + 1
    <3>1. ASSUME a \in 1 .. n, b = n + 1 PROVE FALSE
      BY <1>5, <1>7, <3>1
    <3>2. ASSUME b \in 1 .. n, a = n + 1 PROVE FALSE
      BY <1>5, <1>7, <3>2
    <3> QED BY <1>2, <2>2, <3>1, <3>2
  <2> QED BY <1>2, <2>1, <2>2
<1>9. r \in [1 .. n + 1 -> Texts]
  BY <1>5, <1>6, ElementOfSeq
<1>10. n + 1 <= Cardinality(Texts)
  BY <1>2, <1>8, <1>9, BatchIsShort
<1>11. n + 1 \in 1 .. Cardinality(Texts)
  BY <1>2, <1>10, OutboundConstants
<1>12. r \in Outbound!Batches
  BY <1>8, <1>9, <1>11, Batch
<1>13. Outbound!Range(r) = Outbound!Range(q) \cup {t}
  <2>1. Outbound!Range(r) = {r[i] : i \in 1 .. n + 1} /\ Outbound!Range(q) = {q[i] : i \in 1 .. n}
    BY <1>6, OutboundOperators
  <2>2. \A x : x \in Outbound!Range(r) => x \in Outbound!Range(q) \cup {t}
    <3> TAKE x
    <3> HAVE x \in Outbound!Range(r)
    <3>1. PICK i \in 1 .. n + 1 : x = r[i]
      BY <2>1
    <3>2. CASE i = n + 1
      BY <1>5, <3>1, <3>2
    <3>3. CASE i \in 1 .. n
      BY <1>5, <2>1, <3>1, <3>3
    <3> QED BY <1>2, <3>2, <3>3
  <2>3. \A x : x \in Outbound!Range(q) => x \in Outbound!Range(r)
    <3> TAKE x
    <3> HAVE x \in Outbound!Range(q)
    <3>1. PICK i \in 1 .. n : x = q[i]
      BY <2>1
    <3>2. i \in 1 .. n + 1 /\ x = r[i]
      BY <1>2, <1>5, <3>1
    <3> QED BY <2>1, <3>2
  <2>4. t \in Outbound!Range(r)
    <3>1. n + 1 \in 1 .. n + 1
      BY <1>2
    <3> QED BY <1>5, <2>1, <3>1
  <2> QED BY <2>2, <2>3, <2>4
<1> QED BY <1>4, <1>12, <1>13

LEMMA CountOfTasks ==
    ASSUME NEW S \in SUBSET Outbound!Tasks
    PROVE  Outbound!Cardinality(S) = Count("life" \in S, "flush" \in S)
<1>1. Outbound!Cardinality(S) = Cardinality(S)
  BY OutboundOperators
<1>2. S = {} \/ S = {"life"} \/ S = {"flush"} \/ S = {"life", "flush"}
  BY DEF Outbound!Tasks
<1>3. CASE S = {}
  BY <1>1, <1>3, FS_EmptySet DEF Count
<1>4. CASE S = {"life"}
  <2>1. Cardinality({"life"}) = 1
    BY FS_Singleton
  <2> QED BY <1>1, <1>4, <2>1 DEF Count
<1>5. CASE S = {"flush"}
  <2>1. Cardinality({"flush"}) = 1
    BY FS_Singleton
  <2> QED BY <1>1, <1>5, <2>1 DEF Count
<1>6. CASE S = {"life", "flush"}
  <2>1. IsFiniteSet({"life"}) /\ Cardinality({"life"}) = 1
    BY FS_Singleton
  <2>2. "flush" \notin {"life"}
    OBVIOUS
  <2>3. Cardinality({"life"} \cup {"flush"}) = 2
    BY <2>1, <2>2, FS_AddElement
  <2>4. S = {"life"} \cup {"flush"}
    BY <1>6
  <2> QED BY <1>1, <2>3, <2>4 DEF Count
<1> QED BY <1>2, <1>3, <1>4, <1>5, <1>6

-----------------------------------------------------------------------------
(* One task's move. *)

JobRecord == [at : Outbound!Places, texts : Outbound!Batches \cup {<< >>}, urgency : Outbound!Urgency, kind : Outbound!Kinds]

LEMMA OutboundTyped ==
    ASSUME Outbound!TypeOK
    PROVE  /\ saying \in [Outbound!Tasks -> JobRecord] /\ "life" \in Outbound!Tasks /\ "flush" \in Outbound!Tasks
           /\ \A k \in Outbound!Tasks : k = "life" \/ k = "flush"
           /\ sent \in Nat /\ today \in Nat /\ unrowed \in Nat /\ tonight \in Nat /\ quiet \in BOOLEAN
           /\ sends \in 0 .. MaxSends /\ faults \in 0 .. MaxFaults /\ digest \in Outbound!Entries \cup {NoEntry}
           /\ Outbound!Resting \in JobRecord
<1>1. "idle" \in Outbound!Places /\ "reply" \in Outbound!Kinds /\ "normal" \in Outbound!Urgency
  BY DEF Outbound!Places, Outbound!Kinds, Outbound!Urgency, Outbound!Weight
<1>2. Outbound!Resting \in JobRecord
  BY <1>1 DEF Outbound!Resting, JobRecord
<1> QED BY <1>2 DEF Outbound!TypeOK, Outbound!Tasks, JobRecord

LEMMA UrgencyIs == Outbound!Urgency = {"normal", "high", "critical"}
  BY DEF Outbound!Urgency, Outbound!Weight

LEMMA OneMoves ==
    ASSUME Outbound!TypeOK, NEW k \in Outbound!Tasks, NEW r \in JobRecord, saying' = [saying EXCEPT ![k] = r]
    PROVE  /\ saying' \in [Outbound!Tasks -> JobRecord] /\ saying'[k] = r
           /\ \A o \in Outbound!Tasks \ {k} : saying'[o] = saying[o]
  BY OutboundTyped

LEMMA WentOn ==
    ASSUME Outbound!TypeOK, NEW k \in Outbound!Tasks, NEW place \in Outbound!Places, Outbound!Goes(k, place)
    PROVE  /\ saying' \in [Outbound!Tasks -> JobRecord]
           /\ saying'[k].at = place /\ saying'[k].texts = saying[k].texts
           /\ saying'[k].urgency = saying[k].urgency /\ saying'[k].kind = saying[k].kind
           /\ \A o \in Outbound!Tasks \ {k} : saying'[o] = saying[o]
<1>1. PICK r : r = [saying[k] EXCEPT !.at = place]
  OBVIOUS
<1>2. saying[k] \in JobRecord
  BY OutboundTyped
<1>3. r \in JobRecord
  BY <1>1, <1>2 DEF JobRecord
<1>4. saying' = [saying EXCEPT ![k] = r]
  BY <1>1 DEF Outbound!Goes
<1>5. /\ saying' \in [Outbound!Tasks -> JobRecord] /\ saying'[k] = r
      /\ \A o \in Outbound!Tasks \ {k} : saying'[o] = saying[o]
  BY <1>3, <1>4, OneMoves
<1>6. r.at = place /\ r.texts = saying[k].texts /\ r.urgency = saying[k].urgency /\ r.kind = saying[k].kind
  BY <1>1, <1>2 DEF JobRecord
<1> QED BY <1>5, <1>6

LEMMA Rested ==
    ASSUME Outbound!TypeOK, NEW k \in Outbound!Tasks, Outbound!Rests(k)
    PROVE  /\ saying' \in [Outbound!Tasks -> JobRecord]
           /\ saying'[k].at = "idle" /\ saying'[k].texts = << >> /\ saying'[k].kind = "reply" /\ saying'[k].urgency = "normal"
           /\ \A o \in Outbound!Tasks \ {k} : saying'[o] = saying[o]
<1>1. PICK r : r = Outbound!Resting
  OBVIOUS
<1>2. r \in JobRecord /\ r.at = "idle" /\ r.texts = << >> /\ r.kind = "reply" /\ r.urgency = "normal"
  BY <1>1, OutboundTyped DEF Outbound!Resting
<1>3. saying' = [saying EXCEPT ![k] = r]
  BY <1>1 DEF Outbound!Rests
<1>4. /\ saying' \in [Outbound!Tasks -> JobRecord] /\ saying'[k] = r
      /\ \A o \in Outbound!Tasks \ {k} : saying'[o] = saying[o]
  BY <1>2, <1>3, OneMoves
<1> QED BY <1>2, <1>4

\* Nobody comes to a delivery that counts, none that is made loses its row, and
\* neither budget nor night is counted on: the bounds stand.
Calm ==
    /\ UNCHANGED <<sent, today, unrowed, tonight, quiet>>
    /\ \A k \in Outbound!Tasks : (Sending(k)' => Sending(k)) /\ (Rowing(k) => Rowing(k)') /\ (Intruding(k)' => Intruding(k))

LEMMA CalmKeeps == ASSUME Outbound!TypeOK, BudgetOK, NightOK, Calm PROVE BudgetOK' /\ NightOK'
<1>1. (Intruding("life")' => Intruding("life")) /\ (Intruding("flush")' => Intruding("flush"))
  BY OutboundTyped DEF Calm
<1>2. (Rowing("life") => Rowing("life")') /\ (Rowing("flush") => Rowing("flush")')
  BY OutboundTyped DEF Calm
<1>3. (Sending("life")' => Sending("life")) /\ (Sending("flush")' => Sending("flush"))
  BY OutboundTyped DEF Calm
<1>4. UNCHANGED <<sent, today, unrowed, tonight, quiet>>
  BY DEF Calm
<1>5. sent \in Nat /\ today \in Nat /\ unrowed \in Nat /\ tonight \in Nat /\ Budget \in Nat
  BY OutboundTyped, OutboundConstants
<1>6. BudgetOK'
  <2>1. Count(Rowing("life"), Rowing("flush")) <= Count(Rowing("life"), Rowing("flush"))'
    BY <1>2 DEF Count
  <2>2. Count(Sending("life"), Sending("flush"))' <= Count(Sending("life"), Sending("flush"))
    BY <1>3 DEF Count
  <2>3. PICK a, b, c, d \in Nat : /\ a = Count(Rowing("life"), Rowing("flush")) /\ b = Count(Rowing("life"), Rowing("flush"))'
                                  /\ c = Count(Sending("life"), Sending("flush")) /\ d = Count(Sending("life"), Sending("flush"))'
    BY DEF Count
  <2> QED BY <1>3, <1>4, <1>5, <2>1, <2>2, <2>3 DEF BudgetOK
<1>7. NightOK'
  <2>1. Count(Intruding("life"), Intruding("flush"))' <= Count(Intruding("life"), Intruding("flush"))
    BY <1>1 DEF Count
  <2>2. PICK a, b \in Nat : a = Count(Intruding("life"), Intruding("flush")) /\ b = Count(Intruding("life"), Intruding("flush"))'
    BY DEF Count
  <2> QED BY <1>4, <1>5, <2>1, <2>2 DEF NightOK
<1> QED BY <1>6, <1>7

LEMMA CalmMove ==
    ASSUME Outbound!TypeOK, NEW k \in Outbound!Tasks, \A o \in Outbound!Tasks \ {k} : saying'[o] = saying[o],
           saying[k].at # "recording", saying'[k].at = "sending" => saying'[k].kind = "reply",
           UNCHANGED <<sent, today, unrowed, tonight, quiet>>
    PROVE  Calm
<1>1. ~Rowing(k) /\ ~Sending(k)' /\ ~Intruding(k)'
  BY DEF Rowing, Sending, Intruding, Outbound!Budgeted, Outbound!Intrudes
<1>2. ASSUME NEW o \in Outbound!Tasks, o # k
      PROVE  (Sending(o)' <=> Sending(o)) /\ (Rowing(o)' <=> Rowing(o)) /\ (Intruding(o)' <=> Intruding(o))
  BY <1>2 DEF Rowing, Sending, Intruding
<1> QED BY <1>1, <1>2 DEF Calm

\* Of two tasks, one is the other's other.
LEMMA TheOther ==
    ASSUME NEW k \in Outbound!Tasks
    PROVE  \E o \in Outbound!Tasks :
             /\ o # k /\ \A p \in Outbound!Tasks : p = k \/ p = o
             /\ Count(Sending("life"), Sending("flush")) = Count(Sending(k), Sending(o))
             /\ Count(Rowing("life"), Rowing("flush")) = Count(Rowing(k), Rowing(o))
             /\ Count(Intruding("life"), Intruding("flush")) = Count(Intruding(k), Intruding(o))
             /\ Count(Sending("life"), Sending("flush"))' = Count(Sending(k)', Sending(o)')
             /\ Count(Rowing("life"), Rowing("flush"))' = Count(Rowing(k)', Rowing(o)')
             /\ Count(Intruding("life"), Intruding("flush"))' = Count(Intruding(k)', Intruding(o)')
<1>1. k = "life" \/ k = "flush"
  BY DEF Outbound!Tasks
<1>2. CASE k = "life"
  <2>1. "flush" \in Outbound!Tasks /\ "flush" # k /\ \A p \in Outbound!Tasks : p = k \/ p = "flush"
    BY <1>2 DEF Outbound!Tasks
  <2> QED BY <1>2, <2>1
<1>3. CASE k = "flush"
  <2>1. "life" \in Outbound!Tasks /\ "life" # k /\ \A p \in Outbound!Tasks : p = k \/ p = "life"
    BY <1>3 DEF Outbound!Tasks
  <2>2. /\ Count(Sending("life"), Sending("flush")) = Count(Sending(k), Sending("life"))
        /\ Count(Rowing("life"), Rowing("flush")) = Count(Rowing(k), Rowing("life"))
        /\ Count(Intruding("life"), Intruding("flush")) = Count(Intruding(k), Intruding("life"))
    BY <1>3 DEF Count
  <2>3. /\ Count(Sending("life"), Sending("flush"))' = Count(Sending(k)', Sending("life")')
        /\ Count(Rowing("life"), Rowing("flush"))' = Count(Rowing(k)', Rowing("life")')
        /\ Count(Intruding("life"), Intruding("flush"))' = Count(Intruding(k)', Intruding("life")')
    BY <1>3 DEF Count
  <2> QED BY <2>1, <2>2, <2>3
<1> QED BY <1>1, <1>2, <1>3

\* The digest gains texts, and owes them.
Gains ==
    /\ digest' \in Outbound!Entries \cup {NoEntry} /\ up' \in BOOLEAN /\ owed' \subseteq Texts
    /\ digest # NoEntry => digest' # NoEntry
    /\ \E T \in SUBSET Texts : Outbound!Waiting' = Outbound!Waiting \cup T /\ owed' = owed \cup T

LEMMA NothingGained == ASSUME Outbound!TypeOK, UNCHANGED <<digest, up, owed>> PROVE Gains
<1>1. Outbound!Waiting' = Outbound!Waiting \cup {} /\ owed' = owed \cup {}
  BY DEF Outbound!Waiting
<1>2. digest' \in Outbound!Entries \cup {NoEntry} /\ up' \in BOOLEAN /\ owed' \subseteq Texts
  BY DEF Outbound!TypeOK
<1>3. \E T \in SUBSET Texts : Outbound!Waiting' = Outbound!Waiting \cup T /\ owed' = owed \cup T
  BY <1>1
<1> QED BY <1>2, <1>3 DEF Gains

LEMMA Enqueued ==
    ASSUME Outbound!TypeOK, NEW k \in Outbound!Tasks, saying[k].texts \in Outbound!Batches,
           Outbound!_enqueue_digest(saying[k])
    PROVE  Gains /\ UNCHANGED <<today, unrowed, tonight>>
<1>1. saying[k] \in JobRecord
  BY OutboundTyped
<1>2. PICK t : t = Head(saying[k].texts)
  OBVIOUS
<1>3. PICK u : u = saying[k].urgency
  OBVIOUS
<1>4. PICK p : p = (saying[k].kind = "note")
  OBVIOUS
<1>5. t \in Texts /\ u \in Outbound!Urgency /\ p \in BOOLEAN
  BY <1>1, <1>2, <1>3, <1>4, BatchRead DEF JobRecord
<1>6. digest' = Outbound!Appended(t, u, p) /\ owed' = owed \cup {t} /\ up' \in BOOLEAN
  BY <1>2, <1>3, <1>4 DEF Outbound!_enqueue_digest, Outbound!TypeOK
<1>7. NoEntry \notin Outbound!Entries /\ owed \subseteq Texts /\ digest \in Outbound!Entries \cup {NoEntry}
  BY OutboundConstants DEF Outbound!TypeOK
<1>8. digest' \in Outbound!Entries /\ Outbound!Waiting' = Outbound!Waiting \cup {t}
  <2>1. CASE digest = NoEntry
    <3>1. digest' = [texts |-> <<t>>, urgency |-> u, promised |-> p]
      BY <1>6, <2>1 DEF Outbound!Appended
    <3>2. <<t>> \in Outbound!Batches /\ Outbound!Range(<<t>>) = {t}
      BY <1>5, OneText
    <3>3. digest' \in Outbound!Entries
      BY <1>5, <3>1, <3>2 DEF Outbound!Entries
    <3>4. digest' # NoEntry /\ digest'.texts = <<t>>
      BY <1>7, <3>1, <3>3
    <3>5. Outbound!Waiting' = {t} /\ Outbound!Waiting = {}
      BY <2>1, <3>2, <3>4 DEF Outbound!Waiting
    <3> QED BY <3>3, <3>5
  <2>2. CASE digest # NoEntry /\ t \in Outbound!Range(digest.texts)
    <3>1. digest' = digest /\ digest \in Outbound!Entries
      BY <1>6, <1>7, <2>2 DEF Outbound!Appended
    <3> QED BY <2>2, <3>1 DEF Outbound!Waiting
  <2>3. CASE digest # NoEntry /\ t \notin Outbound!Range(digest.texts)
    <3>1. digest \in Outbound!Entries
      BY <1>7, <2>3
    <3>2. digest.texts \in Outbound!Batches /\ digest.urgency \in Outbound!Urgency /\ digest.promised \in BOOLEAN
      BY <3>1 DEF Outbound!Entries
    <3>3. PICK q : q = Append(digest.texts, t)
      OBVIOUS
    <3>4. q \in Outbound!Batches /\ Outbound!Range(q) = Outbound!Range(digest.texts) \cup {t}
      BY <1>5, <2>3, <3>2, <3>3, LongerBatch
    <3>5. PICK v \in Outbound!Urgency : v = IF Outbound!Weight[u] > Outbound!Weight[digest.urgency] THEN u ELSE digest.urgency
      BY <1>5, <3>2
    <3>6. PICK b \in BOOLEAN : b = (digest.promised \/ p)
      BY <1>5, <3>2
    <3>7. digest' = [texts |-> q, urgency |-> v, promised |-> b]
      BY <1>6, <2>3, <3>3, <3>5, <3>6 DEF Outbound!Appended
    <3>8. digest' \in Outbound!Entries /\ digest'.texts = q
      BY <3>4, <3>7 DEF Outbound!Entries
    <3>9. digest' # NoEntry
      BY <1>7, <3>8
    <3> QED BY <2>3, <3>4, <3>8, <3>9 DEF Outbound!Waiting
  <2> QED BY <2>1, <2>2, <2>3
<1>9. UNCHANGED <<today, unrowed, tonight>>
  BY DEF Outbound!_enqueue_digest
<1>10. \E T \in SUBSET Texts : Outbound!Waiting' = Outbound!Waiting \cup T /\ owed' = owed \cup T
  BY <1>5, <1>6, <1>8
<1>11. digest' # NoEntry /\ owed' \subseteq Texts
  BY <1>5, <1>6, <1>7, <1>8
<1> QED BY <1>6, <1>8, <1>9, <1>10, <1>11 DEF Gains

-----------------------------------------------------------------------------
(* What the life loop does and the digest loop does not notice, and the     *)
(* other way round.                                                         *)

LEMMA OutboundTypes ==
    ASSUME saying' \in [Outbound!Tasks -> JobRecord], digest' \in Outbound!Entries \cup {NoEntry}, up' \in BOOLEAN,
           owed' \subseteq Texts, quiet' \in BOOLEAN, turned' \in BOOLEAN, last' \in {"none", "mine", "theirs"},
           said' \subseteq Outbound!Batches, sends' \in 0 .. MaxSends, faults' \in 0 .. MaxFaults,
           sent' \in Nat, today' \in Nat, unrowed' \in Nat, tonight' \in Nat
    PROVE  Outbound!TypeOK'
  BY DEF Outbound!TypeOK, JobRecord

LEMMA OneFault == ASSUME Outbound!TypeOK, Outbound!Faulty PROVE faults' \in 0 .. MaxFaults
  BY OutboundConstants DEF Outbound!TypeOK, Outbound!Faulty

\* A step of the life loop: what it keeps apart from the bounds.
LEMMA LifeMoves ==
    ASSUME OutboundInv, saying' \in [Outbound!Tasks -> JobRecord], saying'["flush"] = saying["flush"],
           saying'["life"].kind # "batch", saying'["life"].at # "idle" => saying'["life"].texts \in Outbound!Batches,
           Gains
    PROVE  TasksOK' /\ Outbound!NothingForgotten'
<1>1. TasksOK /\ Outbound!NothingForgotten
  BY DEF OutboundInv
<1>2. TasksOK'
  BY <1>1 DEF TasksOK, Gains
<1>3. PICK T \in SUBSET Texts : Outbound!Waiting' = Outbound!Waiting \cup T /\ owed' = owed \cup T
  BY DEF Gains
<1>4. Outbound!NothingForgotten'
  BY <1>1, <1>3 DEF Outbound!NothingForgotten
<1> QED BY <1>2, <1>4

LEMMA LifeCalm ==
    ASSUME OutboundInv, saying' \in [Outbound!Tasks -> JobRecord], saying'["flush"] = saying["flush"],
           saying'["life"].kind # "batch", saying'["life"].at # "idle" => saying'["life"].texts \in Outbound!Batches,
           Gains, saying["life"].at # "recording", saying'["life"].at = "sending" => saying'["life"].kind = "reply",
           UNCHANGED <<quiet, turned, last, sent, said, today, unrowed, tonight>>,
           sends' \in 0 .. MaxSends, faults' \in 0 .. MaxFaults
    PROVE  OutboundInv'
<1>1. Outbound!TypeOK /\ BudgetOK /\ NightOK
  BY DEF OutboundInv
<1>2. \A o \in Outbound!Tasks \ {"life"} : saying'[o] = saying[o]
  BY <1>1, OutboundTyped
<1>3. BudgetOK' /\ NightOK'
  BY <1>1, <1>2, CalmMove, CalmKeeps, OutboundTyped
<1>4. TasksOK' /\ Outbound!NothingForgotten'
  BY LifeMoves
<1>5. Outbound!TypeOK'
  <2>1. digest' \in Outbound!Entries \cup {NoEntry} /\ up' \in BOOLEAN /\ owed' \subseteq Texts
    BY DEF Gains
  <2>2. /\ quiet' \in BOOLEAN /\ turned' \in BOOLEAN /\ last' \in {"none", "mine", "theirs"}
        /\ said' \subseteq Outbound!Batches /\ sent' \in Nat /\ today' \in Nat /\ unrowed' \in Nat /\ tonight' \in Nat
    BY <1>1 DEF Outbound!TypeOK
  <2> QED BY <2>1, <2>2, OutboundTypes
<1> QED BY <1>3, <1>4, <1>5 DEF OutboundInv

LEMMA SendStep ==
    ASSUME OutboundInv, NEW t \in Texts, NEW say \in Outbound!Says, Outbound!send(t, say[1], say[2])
    PROVE  OutboundInv'
<1>1. Outbound!TypeOK
  BY DEF OutboundInv
<1>2. say[1] \in Outbound!Kinds \ {"batch"} /\ say[2] \in Outbound!Urgency
  BY UrgencyIs DEF Outbound!Says, Outbound!Kinds
<1>3. PICK r : r = [texts |-> <<t>>, kind |-> say[1], urgency |-> say[2],
                    at |-> CASE say[1] = "reply" -> "sending"
                             [] say[1] = "idea" /\ say[2] # "normal" -> "asking"
                             [] OTHER -> "words"]
  OBVIOUS
<1>4. /\ saying["life"].at = "idle" /\ saying' = [saying EXCEPT !["life"] = r]
      /\ sends < MaxSends /\ sends' = sends + 1
      /\ UNCHANGED <<quiet, turned, last, faults, sent, said, digest, up, owed, today, unrowed, tonight>>
  BY <1>3 DEF Outbound!send, Outbound!clockVars, Outbound!rowVars, Outbound!histVars
<1>5. <<t>> \in Outbound!Batches
  BY OneText
<1>6. /\ r.texts = <<t>> /\ r.kind = say[1] /\ r.urgency = say[2]
      /\ r.at \in {"sending", "asking", "words"} /\ (r.at = "sending" => r.kind = "reply")
  BY <1>3
<1>7. r \in JobRecord
  BY <1>2, <1>3, <1>5, <1>6 DEF JobRecord, Outbound!Places
<1>8. /\ saying' \in [Outbound!Tasks -> JobRecord] /\ saying'["life"] = r
      /\ \A o \in Outbound!Tasks \ {"life"} : saying'[o] = saying[o]
  BY <1>1, <1>4, <1>7, OneMoves, OutboundTyped
<1>9. saying'["flush"] = saying["flush"]
  BY <1>8 DEF Outbound!Tasks
<1>10. sends' \in 0 .. MaxSends /\ faults' \in 0 .. MaxFaults
  BY <1>1, <1>4, OutboundTyped, OutboundConstants
<1>11. Gains
  BY <1>1, <1>4, NothingGained
<1> QED BY <1>2, <1>4, <1>5, <1>6, <1>8, <1>9, <1>10, <1>11, LifeCalm

LEMMA LifeReads ==
    ASSUME OutboundInv, Outbound!recent_words \/ Outbound!_why_not_speak_first
    PROVE  OutboundInv'
<1>1. Outbound!TypeOK /\ TasksOK
  BY DEF OutboundInv
<1>2. "life" \in Outbound!Tasks /\ "flush" \in Outbound!Tasks \ {"life"}
  BY DEF Outbound!Tasks
<1>3. sends' \in 0 .. MaxSends /\ faults' \in 0 .. MaxFaults
  BY <1>1, OutboundTyped DEF Outbound!recent_words, Outbound!_why_not_speak_first
<1>4. CASE Outbound!recent_words
  <2>1. /\ saying["life"].at = "words" /\ saying["life"].texts \in Outbound!Batches
        /\ UNCHANGED <<quiet, turned, last, sent, said, digest, up, owed, today, unrowed, tonight>>
    BY <1>1, <1>4 DEF TasksOK, Outbound!recent_words, Outbound!clockVars, Outbound!rowVars, Outbound!histVars
  <2>2. Gains
    BY <1>1, <2>1, NothingGained
  <2>3. CASE Outbound!Rests("life")
    <3>1. /\ saying' \in [Outbound!Tasks -> JobRecord] /\ saying'["flush"] = saying["flush"]
          /\ saying'["life"].at = "idle" /\ saying'["life"].kind = "reply"
      BY <1>1, <1>2, <2>3, Rested
    <3> QED BY <1>3, <2>1, <2>2, <3>1, LifeCalm
  <2>4. CASE Outbound!Goes("life", "asking") \/ Outbound!Goes("life", "last")
    <3>1. "asking" \in Outbound!Places /\ "last" \in Outbound!Places
      BY DEF Outbound!Places
    <3>2. /\ saying' \in [Outbound!Tasks -> JobRecord] /\ saying'["flush"] = saying["flush"]
          /\ saying'["life"].at # "sending" /\ saying'["life"].texts = saying["life"].texts
          /\ saying'["life"].kind = saying["life"].kind
      BY <1>1, <1>2, <2>4, <3>1, WentOn
    <3> QED BY <1>1, <1>3, <2>1, <2>2, <3>2, LifeCalm DEF TasksOK
  <2> QED BY <1>4, <2>3, <2>4 DEF Outbound!recent_words
<1>5. CASE Outbound!_why_not_speak_first
  <2>1. /\ saying["life"].at = "last" /\ saying["life"].texts \in Outbound!Batches /\ Outbound!Rests("life")
        /\ UNCHANGED <<quiet, turned, last, sent, said>>
    BY <1>1, <1>5 DEF TasksOK, Outbound!_why_not_speak_first, Outbound!clockVars, Outbound!rowVars
  <2>2. Gains /\ UNCHANGED <<today, unrowed, tonight>>
    <3>1. CASE UNCHANGED <<digest, up, owed, today, unrowed, tonight>>
      BY <1>1, <3>1, NothingGained
    <3>2. CASE Outbound!_enqueue_digest(saying["life"])
      BY <1>1, <1>2, <2>1, <3>2, Enqueued
    <3> QED BY <1>5, <3>1, <3>2 DEF Outbound!_why_not_speak_first, Outbound!histVars
  <2>3. /\ saying' \in [Outbound!Tasks -> JobRecord] /\ saying'["flush"] = saying["flush"]
        /\ saying'["life"].at = "idle" /\ saying'["life"].kind = "reply"
    BY <1>1, <1>2, <2>1, Rested
  <2> QED BY <1>3, <2>1, <2>2, <2>3, LifeCalm
<1> QED BY <1>4, <1>5

LEMMA FlushCalm ==
    ASSUME OutboundInv, saying' \in [Outbound!Tasks -> JobRecord], saying'["life"] = saying["life"],
           saying["flush"].at # "recording", saying'["flush"].at \in {"idle", "last", "asking"},
           saying'["flush"].at = "last" => digest' # NoEntry,
           saying'["flush"].at = "asking" => saying'["flush"].kind = "batch" /\ saying'["flush"].texts \in Outbound!Batches,
           digest' \in Outbound!Entries \cup {NoEntry}, up' \in BOOLEAN, owed' \subseteq Texts, Outbound!NothingForgotten',
           UNCHANGED <<quiet, turned, last, sent, said, today, unrowed, tonight, sends>>, faults' \in 0 .. MaxFaults
    PROVE  OutboundInv'
<1>1. Outbound!TypeOK /\ BudgetOK /\ NightOK /\ TasksOK
  BY DEF OutboundInv
<1>2. \A o \in Outbound!Tasks \ {"flush"} : saying'[o] = saying[o]
  BY <1>1, OutboundTyped
<1>3. BudgetOK' /\ NightOK'
  BY <1>1, <1>2, CalmMove, CalmKeeps, OutboundTyped
<1>4. TasksOK'
  BY <1>1 DEF TasksOK
<1>5. Outbound!TypeOK'
  <2>1. /\ quiet' \in BOOLEAN /\ turned' \in BOOLEAN /\ last' \in {"none", "mine", "theirs"}
        /\ said' \subseteq Outbound!Batches /\ sent' \in Nat /\ today' \in Nat /\ unrowed' \in Nat /\ tonight' \in Nat
        /\ sends' \in 0 .. MaxSends
    BY <1>1 DEF Outbound!TypeOK
  <2> QED BY <2>1, OutboundTypes
<1> QED BY <1>3, <1>4, <1>5 DEF OutboundInv

LEMMA SettledOnes ==
    ASSUME OutboundInv
    PROVE  /\ Outbound!Settled("life") = owed /\ Outbound!Waiting \subseteq Texts
           /\ saying["flush"].at \in {"asking", "sending"} => Outbound!Settled("flush") = Outbound!Waiting
           /\ saying["flush"].at \notin {"asking", "sending"} => owed = Outbound!Waiting
<1>1. Outbound!Settled("life") = owed
  BY DEF Outbound!Settled
<1>2. Outbound!NothingForgotten /\ owed \subseteq Texts
  BY DEF OutboundInv, Outbound!TypeOK
<1>3. saying["flush"].at \in {"asking", "sending"} => Outbound!Settled("flush") = Outbound!Waiting
  BY <1>2 DEF Outbound!Settled, Outbound!NothingForgotten
<1>4. Outbound!Waiting \subseteq Texts /\ (saying["flush"].at \notin {"asking", "sending"} => owed = Outbound!Waiting)
  BY <1>2 DEF Outbound!NothingForgotten
<1> QED BY <1>1, <1>3, <1>4

\* The digest loop takes the batch: what was owed to it waits with the loop.
LEMMA TakesBatch ==
    ASSUME OutboundInv, Outbound!Takes, digest # NoEntry, saying["flush"].at \in {"idle", "last"}, owed' = owed
    PROVE  /\ saying' \in [Outbound!Tasks -> JobRecord] /\ saying'["life"] = saying["life"]
           /\ saying'["flush"].at = "asking" /\ saying'["flush"].kind = "batch" /\ saying'["flush"].texts \in Outbound!Batches
           /\ digest' = NoEntry /\ up' = FALSE /\ Outbound!NothingForgotten'
<1>1. Outbound!TypeOK
  BY DEF OutboundInv
<1>2. digest \in Outbound!Entries
  BY <1>1, OutboundTyped
<1>3. digest.texts \in Outbound!Batches /\ digest.urgency \in Outbound!Urgency
  BY <1>2 DEF Outbound!Entries
<1>4. PICK r : r = [at |-> "asking", texts |-> digest.texts, urgency |-> digest.urgency, kind |-> "batch"]
  OBVIOUS
<1>5. r \in JobRecord
  BY <1>3, <1>4 DEF JobRecord, Outbound!Places, Outbound!Kinds
<1>6. saying' = [saying EXCEPT !["flush"] = r] /\ digest' = NoEntry /\ up' = FALSE
  BY <1>4 DEF Outbound!Takes
<1>7. /\ saying' \in [Outbound!Tasks -> JobRecord] /\ saying'["flush"] = r
      /\ \A o \in Outbound!Tasks \ {"flush"} : saying'[o] = saying[o]
  BY <1>1, <1>5, <1>6, OneMoves, OutboundTyped
<1>8. saying'["life"] = saying["life"]
  BY <1>7 DEF Outbound!Tasks
<1>9. owed = Outbound!Range(digest.texts)
  <2>1. owed = Outbound!Waiting
    BY SettledOnes
  <2> QED BY <2>1 DEF Outbound!Waiting
<1>10. saying'["flush"].at = "asking" /\ saying'["flush"].texts = digest.texts /\ saying'["flush"].kind = "batch"
  BY <1>4, <1>7
<1>11. Outbound!NothingForgotten'
  BY <1>6, <1>9, <1>10 DEF Outbound!NothingForgotten, Outbound!Waiting
<1> QED BY <1>3, <1>6, <1>7, <1>8, <1>10, <1>11

LEMMA FlushReads == ASSUME OutboundInv, Outbound!FlushStep PROVE OutboundInv'
<1>1. Outbound!TypeOK /\ TasksOK
  BY DEF OutboundInv
<1>2. "flush" \in Outbound!Tasks /\ "life" \in Outbound!Tasks \ {"flush"}
  BY DEF Outbound!Tasks
<1>3. /\ saying["flush"].at \in {"idle", "last"} /\ digest # NoEntry
      /\ UNCHANGED <<quiet, turned, last, sends, sent, said, owed, today, unrowed, tonight>> /\ faults' \in 0 .. MaxFaults
  BY <1>1, OutboundTyped DEF TasksOK, Outbound!FlushStep, Outbound!flush_due_digests, Outbound!LastWordRead,
                             Outbound!clockVars, Outbound!rowVars, Outbound!histVars
<1>4. owed' \subseteq Texts /\ NoEntry \in Outbound!Entries \cup {NoEntry}
  BY <1>1, <1>3 DEF Outbound!TypeOK
<1>5. CASE Outbound!Takes
  BY <1>3, <1>4, <1>5, TakesBatch, FlushCalm
<1>6. CASE (Outbound!Goes("flush", "last") \/ Outbound!Rests("flush")) /\ UNCHANGED <<digest, up>>
  <2>1. "last" \in Outbound!Places
    BY DEF Outbound!Places
  <2>2. /\ saying' \in [Outbound!Tasks -> JobRecord] /\ saying'["life"] = saying["life"]
        /\ saying'["flush"].at \in {"idle", "last"}
    <3>1. CASE Outbound!Goes("flush", "last")
      BY <1>1, <1>2, <2>1, <3>1, WentOn
    <3>2. CASE Outbound!Rests("flush")
      BY <1>1, <1>2, <3>2, Rested
    <3> QED BY <1>6, <3>1, <3>2
  <2>3. digest' \in Outbound!Entries \cup {NoEntry} /\ up' \in BOOLEAN
    BY <1>1, <1>6 DEF Outbound!TypeOK
  <2>4. Outbound!NothingForgotten'
    <3>1. owed = Outbound!Waiting
      BY <1>3, SettledOnes
    <3>2. Outbound!Waiting' = Outbound!Waiting
      BY <1>6 DEF Outbound!Waiting
    <3> QED BY <1>3, <2>2, <3>1, <3>2 DEF Outbound!NothingForgotten
  <2> QED BY <1>3, <1>4, <1>6, <2>2, <2>3, <2>4, FlushCalm
<1> QED BY <1>5, <1>6 DEF Outbound!FlushStep, Outbound!flush_due_digests, Outbound!LastWordRead

\* The flush lays its batch down, its texts settled.
LEMMA FlushLaysDown ==
    ASSUME OutboundInv, saying["flush"].at \in {"asking", "sending"}, Outbound!Rests("flush"),
           owed' = Outbound!Settled("flush"), faults' \in 0 .. MaxFaults,
           UNCHANGED <<quiet, turned, last, sends, sent, said, digest, up, today, unrowed, tonight>>
    PROVE  OutboundInv'
<1>1. Outbound!TypeOK
  BY DEF OutboundInv
<1>2. "flush" \in Outbound!Tasks /\ "life" \in Outbound!Tasks \ {"flush"}
  BY DEF Outbound!Tasks
<1>3. /\ saying' \in [Outbound!Tasks -> JobRecord] /\ saying'["life"] = saying["life"] /\ saying'["flush"].at = "idle"
  BY <1>1, <1>2, Rested
<1>4. owed' = Outbound!Waiting /\ owed' \subseteq Texts
  BY SettledOnes
<1>5. Outbound!NothingForgotten'
  <2>1. Outbound!Waiting' = Outbound!Waiting
    BY DEF Outbound!Waiting
  <2> QED BY <1>3, <1>4, <2>1 DEF Outbound!NothingForgotten
<1>6. digest' \in Outbound!Entries \cup {NoEntry} /\ up' \in BOOLEAN
  BY <1>1 DEF Outbound!TypeOK
<1> QED BY <1>3, <1>4, <1>5, <1>6, FlushCalm

\* The life loop lays its text down, or puts it into the digest.
LEMMA LifeLaysDown ==
    ASSUME OutboundInv, saying["life"].at \in {"asking", "sending"}, Outbound!Rests("life"), Gains,
           faults' \in 0 .. MaxFaults, UNCHANGED <<quiet, turned, last, sends, sent, said, today, unrowed, tonight>>
    PROVE  OutboundInv'
<1>1. Outbound!TypeOK
  BY DEF OutboundInv
<1>2. "life" \in Outbound!Tasks /\ "flush" \in Outbound!Tasks \ {"life"}
  BY DEF Outbound!Tasks
<1>3. /\ saying' \in [Outbound!Tasks -> JobRecord] /\ saying'["flush"] = saying["flush"]
      /\ saying'["life"].at = "idle" /\ saying'["life"].kind = "reply"
  BY <1>1, <1>2, Rested
<1>4. sends' \in 0 .. MaxSends
  BY <1>1, OutboundTyped
<1> QED BY <1>3, <1>4, LifeCalm

LEMMA LaidDown ==
    ASSUME OutboundInv, NEW k \in Outbound!Tasks,
           Outbound!NotAdmitted(k) \/ Outbound!DeliveryFails(k) \/ Outbound!AskFails(k)
    PROVE  OutboundInv'
<1>1. Outbound!TypeOK /\ TasksOK
  BY DEF OutboundInv
<1>2. /\ saying[k].at \in {"asking", "sending"} /\ Outbound!Rests(k)
      /\ UNCHANGED <<quiet, turned, last, sends, sent, said>>
  BY DEF Outbound!NotAdmitted, Outbound!DeliveryFails, Outbound!AskFails, Outbound!clockVars, Outbound!rowVars
<1>3. faults' \in 0 .. MaxFaults
  BY <1>1, OneFault, OutboundTyped DEF Outbound!NotAdmitted, Outbound!DeliveryFails, Outbound!AskFails
<1>4. CASE k = "life"
  <2>1. Gains /\ UNCHANGED <<today, unrowed, tonight>>
    <3>1. CASE Outbound!_enqueue_digest(saying["life"])
      <4>1. saying["life"].texts \in Outbound!Batches /\ "life" \in Outbound!Tasks
        BY <1>1, <1>2, <1>4 DEF TasksOK
      <4> QED BY <1>1, <3>1, <4>1, Enqueued
    <3>2. CASE owed' = Outbound!Settled("life") /\ UNCHANGED <<digest, up, today, unrowed, tonight>>
      <4>1. owed' = owed
        BY <3>2, SettledOnes
      <4> QED BY <1>1, <3>2, <4>1, NothingGained
    <3> QED BY <1>4, <3>1, <3>2 DEF Outbound!NotAdmitted, Outbound!DeliveryFails, Outbound!AskFails
  <2> QED BY <1>2, <1>3, <1>4, <2>1, LifeLaysDown
<1>5. CASE k = "flush"
  <2>1. saying["flush"].kind # "note"
    BY <1>1, <1>2, <1>5 DEF TasksOK
  <2>2. owed' = Outbound!Settled("flush") /\ UNCHANGED <<digest, up, today, unrowed, tonight>>
    BY <1>5, <2>1 DEF Outbound!NotAdmitted, Outbound!DeliveryFails, Outbound!AskFails
  <2> QED BY <1>2, <1>3, <1>5, <2>2, FlushLaysDown
<1> QED BY <1>4, <1>5 DEF Outbound!Tasks

-----------------------------------------------------------------------------
(* The steps that the bounds are about. *)

\* A task goes on to deliver, or comes back from delivering: its text stays in hand.
LEMMA GoesOn ==
    ASSUME OutboundInv, NEW k \in Outbound!Tasks, NEW place \in {"sending", "recording"}, Outbound!Goes(k, place),
           saying[k].at \in {"asking", "sending"}, UNCHANGED <<quiet, turned, last, sends, faults, sent, said, digest, up, unrowed>>,
           owed' \subseteq Texts, today' \in Nat, tonight' \in Nat
    PROVE  Outbound!TypeOK' /\ TasksOK'
<1>1. Outbound!TypeOK /\ TasksOK
  BY DEF OutboundInv
<1>2. place \in Outbound!Places
  BY DEF Outbound!Places
<1>3. /\ saying' \in [Outbound!Tasks -> JobRecord]
      /\ saying'[k].at = place /\ saying'[k].texts = saying[k].texts /\ saying'[k].kind = saying[k].kind
      /\ \A o \in Outbound!Tasks \ {k} : saying'[o] = saying[o]
  BY <1>1, <1>2, WentOn
<1>4. Outbound!TypeOK'
  <2>1. /\ digest' \in Outbound!Entries \cup {NoEntry} /\ up' \in BOOLEAN
        /\ quiet' \in BOOLEAN /\ turned' \in BOOLEAN /\ last' \in {"none", "mine", "theirs"}
        /\ said' \subseteq Outbound!Batches /\ sends' \in 0 .. MaxSends /\ faults' \in 0 .. MaxFaults
        /\ sent' \in Nat /\ unrowed' \in Nat
    BY <1>1 DEF Outbound!TypeOK
  <2> QED BY <1>3, <2>1, OutboundTypes
<1>5. CASE k = "life"
  <2>1. saying'["flush"] = saying["flush"]
    BY <1>3, <1>5 DEF Outbound!Tasks
  <2>2. TasksOK'
    BY <1>1, <1>3, <1>5, <2>1 DEF TasksOK
  <2> QED BY <1>4, <2>2
<1>6. CASE k = "flush"
  <2>1. saying'["life"] = saying["life"]
    BY <1>3, <1>6 DEF Outbound!Tasks
  <2>2. TasksOK'
    BY <1>1, <1>3, <1>6, <2>1 DEF TasksOK
  <2> QED BY <1>4, <2>2
<1> QED BY <1>5, <1>6 DEF Outbound!Tasks

\* What a task's going on says of the three counts.
LEMMA GoesOnCounts ==
    ASSUME OutboundInv, NEW k \in Outbound!Tasks, NEW o \in Outbound!Tasks \ {k}, NEW place \in Outbound!Places,
           Outbound!Goes(k, place)
    PROVE  /\ Sending(k)' <=> place = "sending" /\ Outbound!Budgeted(saying[k])
           /\ Rowing(k)' <=> place = "recording" /\ Outbound!Budgeted(saying[k])
           /\ Intruding(k)' <=> place = "sending" /\ Outbound!Intrudes(saying[k])
           /\ (Sending(o)' <=> Sending(o)) /\ (Rowing(o)' <=> Rowing(o)) /\ (Intruding(o)' <=> Intruding(o))
<1>1. Outbound!TypeOK
  BY DEF OutboundInv
<1>2. /\ saying'[k].at = place /\ saying'[k].urgency = saying[k].urgency /\ saying'[k].kind = saying[k].kind
      /\ saying'[o] = saying[o]
  BY <1>1, WentOn
<1>3. /\ Sending(k)' <=> place = "sending" /\ Outbound!Budgeted(saying[k])
      /\ Rowing(k)' <=> place = "recording" /\ Outbound!Budgeted(saying[k])
      /\ Intruding(k)' <=> place = "sending" /\ Outbound!Intrudes(saying[k])
  BY <1>2 DEF Sending, Rowing, Intruding, Outbound!Budgeted, Outbound!Intrudes
<1>4. (Sending(o)' <=> Sending(o)) /\ (Rowing(o)' <=> Rowing(o)) /\ (Intruding(o)' <=> Intruding(o))
  BY <1>2 DEF Sending, Rowing, Intruding
<1> QED BY <1>3, <1>4

LEMMA AdmittedStep == ASSUME OutboundInv, NEW k \in Outbound!Tasks, Outbound!Admitted(k) PROVE OutboundInv'
<1>1. Outbound!TypeOK /\ TasksOK /\ BudgetOK /\ NightOK /\ Outbound!NothingForgotten
  BY DEF OutboundInv
<1>2. /\ saying[k].at = "asking" /\ Outbound!can_contact(saying[k].urgency) /\ Outbound!Goes(k, "sending")
      /\ UNCHANGED <<quiet, turned, last, sends, faults, sent, said, digest, up, owed, today, unrowed, tonight>>
  BY DEF Outbound!Admitted, Outbound!clockVars, Outbound!rowVars, Outbound!histVars
<1>3. "sending" \in Outbound!Places
  BY DEF Outbound!Places
<1>4. Outbound!TypeOK' /\ TasksOK'
  BY <1>1, <1>2, GoesOn DEF Outbound!TypeOK
<1>5. PICK o \in Outbound!Tasks : 
             /\ o # k /\ \A p \in Outbound!Tasks : p = k \/ p = o
             /\ Count(Sending("life"), Sending("flush")) = Count(Sending(k), Sending(o))
             /\ Count(Rowing("life"), Rowing("flush")) = Count(Rowing(k), Rowing(o))
             /\ Count(Intruding("life"), Intruding("flush")) = Count(Intruding(k), Intruding(o))
             /\ Count(Sending("life"), Sending("flush"))' = Count(Sending(k)', Sending(o)')
             /\ Count(Rowing("life"), Rowing("flush"))' = Count(Rowing(k)', Rowing(o)')
             /\ Count(Intruding("life"), Intruding("flush"))' = Count(Intruding(k)', Intruding(o)')
  BY TheOther
<1>6. /\ Sending(k)' <=> Outbound!Budgeted(saying[k])
      /\ ~Rowing(k)' /\ (Intruding(k)' <=> Outbound!Intrudes(saying[k]))
      /\ (Sending(o)' <=> Sending(o)) /\ (Rowing(o)' <=> Rowing(o)) /\ (Intruding(o)' <=> Intruding(o))
      /\ ~Sending(k) /\ ~Rowing(k) /\ ~Intruding(k)
  <2>1. ~Sending(k) /\ ~Rowing(k) /\ ~Intruding(k)
    BY <1>2 DEF Sending, Rowing, Intruding
  <2> QED BY <1>2, <1>3, <1>5, <2>1, GoesOnCounts
<1>7. sent \in Nat /\ today \in Nat /\ unrowed \in Nat /\ tonight \in Nat /\ Budget \in Nat
  BY <1>1, OutboundTyped, OutboundConstants
<1>8. ~(Sending(o) /\ Rowing(o))
  BY DEF Sending, Rowing
<1>9. Sending(k)' => ~quiet /\ sent < Budget
  BY <1>2, <1>6 DEF Outbound!Budgeted, Outbound!can_contact, Outbound!WithinBudget
<1>10. Intruding(k)' => ~quiet
  BY <1>2, <1>6 DEF Outbound!Intrudes, Outbound!can_contact
<1>11. BudgetOK'
  <2>1. today <= sent + unrowed + Count(FALSE, Rowing(o)) /\ today + Count(FALSE, Sending(o)) <= Budget + 1 + unrowed
    BY <1>1, <1>5, <1>6 DEF BudgetOK, Count
  <2>2. (Sending("life") \/ Sending("flush")) <=> Sending(o)
    BY <1>5, <1>6 DEF Outbound!Tasks
  <2>3. (Sending("life")' \/ Sending("flush")') <=> (Sending(k)' \/ Sending(o)')
    BY <1>5 DEF Outbound!Tasks
  <2>4. Sending(o) => Budget > 0
    BY <1>1, <2>2 DEF BudgetOK
  <2>5. today' <= sent' + unrowed' + Count(Rowing("life"), Rowing("flush"))'
    BY <1>2, <1>5, <1>6, <2>1 DEF Count
  <2>6. today' + Count(Sending("life"), Sending("flush"))' <= Budget + 1 + unrowed'
    <3>1. CASE Sending(k)'
      BY <1>2, <1>5, <1>6, <1>7, <1>8, <1>9, <2>1, <3>1 DEF Count
    <3>2. CASE ~Sending(k)'
      BY <1>2, <1>5, <1>6, <1>7, <2>1, <3>2 DEF Count
    <3> QED BY <3>1, <3>2
  <2>7. Sending("life")' \/ Sending("flush")' => Budget > 0
    BY <1>6, <1>7, <1>9, <2>3, <2>4
  <2> QED BY <2>5, <2>6, <2>7 DEF BudgetOK
<1>12. NightOK'
  <2>1. quiet => ~Intruding(k)'
    BY <1>10
  <2>2. quiet => Count(Intruding("life"), Intruding("flush"))' = Count(Intruding("life"), Intruding("flush"))
    BY <1>5, <1>6, <2>1 DEF Count
  <2> QED BY <1>1, <1>2, <2>2 DEF NightOK
<1>13. Outbound!NothingForgotten'
  <2>1. CASE k = "life"
    <3>1. saying'["flush"] = saying["flush"]
      BY <1>1, <1>2, <1>3, <2>1, WentOn DEF Outbound!Tasks
    <3> QED BY <1>1, <1>2, <3>1 DEF Outbound!NothingForgotten, Outbound!Waiting
  <2>2. CASE k = "flush"
    <3>1. saying'["flush"].at = "sending" /\ saying'["flush"].texts = saying["flush"].texts
      BY <1>1, <1>2, <1>3, <2>2, WentOn
    <3> QED BY <1>1, <1>2, <2>2, <3>1 DEF Outbound!NothingForgotten, Outbound!Waiting
  <2> QED BY <2>1, <2>2 DEF Outbound!Tasks
<1> QED BY <1>4, <1>11, <1>12, <1>13 DEF OutboundInv

LEMMA DeliveredStep == ASSUME OutboundInv, NEW k \in Outbound!Tasks, Outbound!Delivered(k) PROVE OutboundInv'
<1>1. Outbound!TypeOK /\ TasksOK /\ BudgetOK /\ NightOK /\ Outbound!NothingForgotten
  BY DEF OutboundInv
<1>2. /\ saying[k].at = "sending" /\ Outbound!Goes(k, "recording")
      /\ today' = IF Outbound!Budgeted(saying[k]) THEN today + 1 ELSE today
      /\ tonight' = IF quiet /\ Outbound!Intrudes(saying[k]) THEN tonight + 1 ELSE tonight
      /\ owed' = Outbound!Settled(k)
      /\ UNCHANGED <<quiet, turned, last, sends, faults, sent, said, digest, up, unrowed>>
  BY DEF Outbound!Delivered, Outbound!clockVars, Outbound!rowVars
<1>3. "recording" \in Outbound!Places
  BY DEF Outbound!Places
<1>4. sent \in Nat /\ today \in Nat /\ unrowed \in Nat /\ tonight \in Nat /\ Budget \in Nat /\ today' \in Nat /\ tonight' \in Nat
  BY <1>1, <1>2, OutboundTyped, OutboundConstants
<1>5. owed' \subseteq Texts
  BY <1>1, <1>2, SettledOnes DEF Outbound!TypeOK, Outbound!Tasks
<1>6. Outbound!TypeOK' /\ TasksOK'
  BY <1>2, <1>4, <1>5, GoesOn
<1>7. PICK o \in Outbound!Tasks : 
             /\ o # k /\ \A p \in Outbound!Tasks : p = k \/ p = o
             /\ Count(Sending("life"), Sending("flush")) = Count(Sending(k), Sending(o))
             /\ Count(Rowing("life"), Rowing("flush")) = Count(Rowing(k), Rowing(o))
             /\ Count(Intruding("life"), Intruding("flush")) = Count(Intruding(k), Intruding(o))
             /\ Count(Sending("life"), Sending("flush"))' = Count(Sending(k)', Sending(o)')
             /\ Count(Rowing("life"), Rowing("flush"))' = Count(Rowing(k)', Rowing(o)')
             /\ Count(Intruding("life"), Intruding("flush"))' = Count(Intruding(k)', Intruding(o)')
  BY TheOther
<1>8. /\ ~Sending(k)' /\ ~Intruding(k)' /\ (Rowing(k)' <=> Sending(k)) /\ ~Rowing(k)
      /\ (Sending(o)' <=> Sending(o)) /\ (Rowing(o)' <=> Rowing(o)) /\ (Intruding(o)' <=> Intruding(o))
  <2>1. ~Rowing(k) /\ (Sending(k) <=> Outbound!Budgeted(saying[k]))
    BY <1>2 DEF Sending, Rowing
  <2> QED BY <1>2, <1>3, <1>7, <2>1, GoesOnCounts
<1>9. today' = today + Count(Sending(k), FALSE) /\ (quiet => tonight' = tonight + Count(Intruding(k), FALSE)) /\ (~quiet => tonight' = tonight)
  BY <1>2 DEF Sending, Intruding, Count
<1>10. BudgetOK'
  <2>1. /\ today <= sent + unrowed + Count(FALSE, Rowing(o))
        /\ today + Count(Sending(k), Sending(o)) <= Budget + 1 + unrowed
    BY <1>1, <1>7, <1>8 DEF BudgetOK, Count
  <2>2. today' <= sent' + unrowed' + Count(Rowing("life"), Rowing("flush"))'
    BY <1>2, <1>4, <1>7, <1>8, <1>9, <2>1 DEF Count
  <2>3. today' + Count(Sending("life"), Sending("flush"))' <= Budget + 1 + unrowed'
    BY <1>2, <1>4, <1>7, <1>8, <1>9, <2>1 DEF Count
  <2>4. (Sending("life")' \/ Sending("flush")') <=> Sending(o)
    BY <1>7, <1>8 DEF Outbound!Tasks
  <2>5. Sending(o) => Budget > 0
    BY <1>1, <1>7 DEF BudgetOK, Outbound!Tasks
  <2> QED BY <2>2, <2>3, <2>4, <2>5 DEF BudgetOK
<1>11. NightOK'
  <2>1. quiet => tonight + Count(Intruding(k), Intruding(o)) <= 2
    BY <1>1, <1>7 DEF NightOK
  <2>2. ASSUME quiet PROVE tonight' + Count(Intruding("life"), Intruding("flush"))' <= 2
    <3>1. tonight' = tonight + Count(Intruding(k), FALSE)
      BY <1>9, <2>2
    <3>2. Count(Intruding("life"), Intruding("flush"))' = Count(FALSE, Intruding(o))
      <4>1. Count(Intruding(k)', Intruding(o)') = Count(FALSE, Intruding(o))
        BY <1>8 DEF Count
      <4> QED BY <1>7, <4>1
    <3>3. PICK a, b \in Nat : /\ a = Count(Intruding(k), FALSE) /\ b = Count(FALSE, Intruding(o))
                              /\ Count(Intruding(k), Intruding(o)) = a + b
      BY DEF Count
    <3>4. tonight + (a + b) <= 2
      BY <2>1, <2>2, <3>3
    <3>5. tonight' = tonight + a
      BY <3>1, <3>3
    <3>6. Count(Intruding("life"), Intruding("flush"))' = b
      BY <3>2, <3>3
    <3> QED BY <1>4, <3>4, <3>5, <3>6
  <2> QED BY <1>1, <1>2, <1>9, <2>2 DEF NightOK
<1>12. Outbound!NothingForgotten'
  <2>1. CASE k = "life"
    <3>1. saying'["flush"] = saying["flush"] /\ owed' = owed
      BY <1>1, <1>2, <1>3, <2>1, WentOn, SettledOnes DEF Outbound!Tasks
    <3> QED BY <1>1, <1>2, <3>1 DEF Outbound!NothingForgotten, Outbound!Waiting
  <2>2. CASE k = "flush"
    <3>1. saying'["flush"].at = "recording" /\ owed' = Outbound!Waiting
      BY <1>1, <1>2, <1>3, <2>2, WentOn, SettledOnes
    <3> QED BY <1>2, <3>1 DEF Outbound!NothingForgotten, Outbound!Waiting
  <2> QED BY <2>1, <2>2 DEF Outbound!Tasks
<1> QED BY <1>6, <1>10, <1>11, <1>12 DEF OutboundInv

-----------------------------------------------------------------------------
(* A row is written, or lost for good; the clock and the person.            *)

LEMMA Balance ==
    \A t, s, u, s1, u1, a, b, c, d, m \in Nat :
      /\ t <= s + u + (a + b) /\ t + (c + d) <= m + 1 + u /\ u1 >= u /\ s1 + u1 >= s + u + a
      => t <= s1 + u1 + b /\ t + d <= m + 1 + u1
  OBVIOUS

\* The row a task owes for a delivery that counts.
RowDue(k) == IF Rowing(k) THEN 1 ELSE 0

\* A task lays down what it holds and owes nothing for, and the rows and the
\* lost rows together account for a delivery it had made.
LEMMA RowsAccounted ==
    ASSUME OutboundInv, NEW k \in Outbound!Tasks, Outbound!Rests(k), k = "flush" => saying[k].at = "recording",
           UNCHANGED <<quiet, turned, sends, digest, up, owed, today, tonight>>,
           faults' \in 0 .. MaxFaults, last' \in {"none", "mine", "theirs"}, said' \subseteq Outbound!Batches,
           sent' \in Nat, unrowed' \in Nat, unrowed' >= unrowed,
           sent' + unrowed' >= sent + unrowed + RowDue(k)
    PROVE  OutboundInv'
<1>1. Outbound!TypeOK /\ TasksOK /\ BudgetOK /\ NightOK /\ Outbound!NothingForgotten
  BY DEF OutboundInv
<1>2. /\ saying' \in [Outbound!Tasks -> JobRecord] /\ saying'[k].at = "idle" /\ saying'[k].kind = "reply"
      /\ \A o \in Outbound!Tasks \ {k} : saying'[o] = saying[o]
  BY <1>1, Rested
<1>3. Outbound!TypeOK'
  <2>1. /\ quiet' \in BOOLEAN /\ turned' \in BOOLEAN /\ sends' \in 0 .. MaxSends /\ owed' \subseteq Texts
        /\ digest' \in Outbound!Entries \cup {NoEntry} /\ up' \in BOOLEAN /\ today' \in Nat /\ tonight' \in Nat
    BY <1>1 DEF Outbound!TypeOK
  <2> QED BY <1>2, <2>1, OutboundTypes
<1>4. Outbound!Waiting' = Outbound!Waiting
  BY DEF Outbound!Waiting
<1>5. ASSUME k = "life" PROVE TasksOK' /\ Outbound!NothingForgotten'
  <2>1. saying'["flush"] = saying["flush"] /\ saying'["life"].at = "idle" /\ saying'["life"].kind = "reply"
    BY <1>2, <1>5 DEF Outbound!Tasks
  <2>2. TasksOK'
    BY <1>1, <2>1 DEF TasksOK
  <2>3. Outbound!NothingForgotten'
    BY <1>1, <1>4, <2>1 DEF Outbound!NothingForgotten
  <2> QED BY <2>2, <2>3
<1>6. TasksOK' /\ Outbound!NothingForgotten'
  <2>1. ASSUME k = "flush" PROVE TasksOK' /\ Outbound!NothingForgotten'
    <3>1. saying'["life"] = saying["life"] /\ saying'["flush"].at = "idle" /\ saying["flush"].at = "recording"
      BY <1>2, <2>1 DEF Outbound!Tasks
    <3>2. TasksOK'
      BY <1>1, <3>1 DEF TasksOK
    <3>3. Outbound!NothingForgotten'
      BY <1>1, <1>4, <3>1 DEF Outbound!NothingForgotten
    <3> QED BY <3>2, <3>3
  <2> QED BY <1>5, <2>1 DEF Outbound!Tasks
<1>7. PICK o \in Outbound!Tasks :
             /\ o # k /\ \A p \in Outbound!Tasks : p = k \/ p = o
             /\ Count(Sending("life"), Sending("flush")) = Count(Sending(k), Sending(o))
             /\ Count(Rowing("life"), Rowing("flush")) = Count(Rowing(k), Rowing(o))
             /\ Count(Intruding("life"), Intruding("flush")) = Count(Intruding(k), Intruding(o))
             /\ Count(Sending("life"), Sending("flush"))' = Count(Sending(k)', Sending(o)')
             /\ Count(Rowing("life"), Rowing("flush"))' = Count(Rowing(k)', Rowing(o)')
             /\ Count(Intruding("life"), Intruding("flush"))' = Count(Intruding(k)', Intruding(o)')
  BY TheOther
<1>8. /\ ~Sending(k)' /\ ~Rowing(k)' /\ ~Intruding(k)'
      /\ (Sending(o)' <=> Sending(o)) /\ (Rowing(o)' <=> Rowing(o)) /\ (Intruding(o)' <=> Intruding(o))
  <2>1. saying'[o] = saying[o]
    BY <1>2, <1>7
  <2> QED BY <1>2, <2>1 DEF Sending, Rowing, Intruding
<1>9. PICK a, b, c, d \in Nat :
             /\ a = RowDue(k) /\ b = Count(FALSE, Rowing(o)) /\ Count(Rowing(k), Rowing(o)) = a + b
             /\ c = Count(Sending(k), FALSE) /\ d = Count(FALSE, Sending(o)) /\ Count(Sending(k), Sending(o)) = c + d
  BY DEF Count, RowDue
<1>10. Count(Rowing("life"), Rowing("flush"))' = b /\ Count(Sending("life"), Sending("flush"))' = d
  <2>1. Count(Rowing(k)', Rowing(o)') = Count(FALSE, Rowing(o)) /\ Count(Sending(k)', Sending(o)') = Count(FALSE, Sending(o))
    BY <1>8 DEF Count
  <2> QED BY <1>7, <1>9, <2>1
<1>11. sent \in Nat /\ today \in Nat /\ unrowed \in Nat /\ tonight \in Nat /\ Budget \in Nat
  BY <1>1, OutboundTyped, OutboundConstants
<1>12. BudgetOK'
  <2>1. today <= sent + unrowed + (a + b) /\ today + (c + d) <= Budget + 1 + unrowed
    BY <1>1, <1>7, <1>9 DEF BudgetOK
  <2>2. today' = today /\ unrowed' >= unrowed /\ sent' \in Nat /\ unrowed' \in Nat /\ sent' + unrowed' >= sent + unrowed + a
    BY <1>9
  <2>3. today' <= sent' + unrowed' + b /\ today' + d <= Budget + 1 + unrowed'
    <3>1. PICK t, s, u, s1, u1 \in Nat : t = today /\ s = sent /\ u = unrowed /\ s1 = sent' /\ u1 = unrowed'
      BY <1>11, <2>2
    <3>2. /\ t <= s + u + (a + b) /\ t + (c + d) <= Budget + 1 + u
      BY <2>1, <3>1
    <3>3. u1 >= u /\ s1 + u1 >= s + u + a
      BY <2>2, <3>1
    <3>4. t <= s1 + u1 + b /\ t + d <= Budget + 1 + u1
      BY <1>11, <3>2, <3>3, Balance
    <3> QED BY <2>2, <3>1, <3>4
  <2>4. (Sending("life")' \/ Sending("flush")') => Sending("life") \/ Sending("flush")
    BY <1>7, <1>8 DEF Outbound!Tasks
  <2>5. Sending("life")' \/ Sending("flush")' => Budget > 0
    BY <1>1, <2>4 DEF BudgetOK
  <2> QED BY <1>10, <2>3, <2>5 DEF BudgetOK
<1>13. NightOK'
  <2>1. Count(Intruding(k)', Intruding(o)') <= Count(Intruding(k), Intruding(o))
    BY <1>8 DEF Count
  <2>2. PICK e, f \in Nat : e = Count(Intruding(k), Intruding(o)) /\ f = Count(Intruding(k)', Intruding(o)')
    BY DEF Count
  <2>3. quiet => tonight + f <= 2
    BY <1>1, <1>7, <1>11, <2>1, <2>2 DEF NightOK
  <2>4. Count(Intruding("life"), Intruding("flush"))' = f
    BY <1>7, <2>2
  <2> QED BY <1>1, <2>3, <2>4 DEF NightOK
<1> QED BY <1>3, <1>6, <1>12, <1>13 DEF OutboundInv

LEMMA OneLost ==
    ASSUME OutboundInv, NEW k \in Outbound!Tasks, unrowed' = Outbound!Unrowed({k})
    PROVE  unrowed' = unrowed + RowDue(k)
<1>1. PICK S : S = {t \in {k} : saying[t].at = "recording" /\ Outbound!Budgeted(saying[t])}
  OBVIOUS
<1>2. S \in SUBSET Outbound!Tasks /\ unrowed' = unrowed + Outbound!Cardinality(S)
  BY <1>1 DEF Outbound!Unrowed
<1>3. unrowed' = unrowed + Count("life" \in S, "flush" \in S)
  BY <1>2, CountOfTasks
<1>4. CASE k = "life"
  <2>1. ("life" \in S <=> Rowing(k)) /\ "flush" \notin S
    BY <1>1, <1>4 DEF Rowing
  <2>2. Count("life" \in S, "flush" \in S) = RowDue(k)
    BY <2>1 DEF Count, RowDue
  <2> QED BY <1>3, <2>2
<1>5. CASE k = "flush"
  <2>1. ("flush" \in S <=> Rowing(k)) /\ "life" \notin S
    BY <1>1, <1>5 DEF Rowing
  <2>2. Count("life" \in S, "flush" \in S) = RowDue(k)
    BY <2>1 DEF Count, RowDue
  <2> QED BY <1>3, <2>2
<1> QED BY <1>4, <1>5 DEF Outbound!Tasks

LEMMA RowStep ==
    ASSUME OutboundInv,
           (\E k \in Outbound!Tasks : Outbound!_record(k) \/ Outbound!RecordFails(k)) \/ Outbound!CycleCut
    PROVE  OutboundInv'
<1>1. Outbound!TypeOK /\ TasksOK
  BY DEF OutboundInv
<1>2. sent \in Nat /\ unrowed \in Nat /\ faults \in 0 .. MaxFaults
  BY <1>1, OutboundTyped
<1>3. last \in {"none", "mine", "theirs"} /\ said \subseteq Outbound!Batches
  BY <1>1 DEF Outbound!TypeOK
<1>4. \A k \in Outbound!Tasks : RowDue(k) \in 0 .. 1
  BY DEF RowDue
<1>5. ASSUME NEW k \in Outbound!Tasks, Outbound!_record(k) PROVE OutboundInv'
  <2>1. /\ saying[k].at = "recording" /\ Outbound!Rests(k) /\ sent' = sent + 1 /\ last' = "mine"
        /\ said' = said \cup {saying[k].texts}
        /\ UNCHANGED <<quiet, turned, sends, faults, digest, up, owed, today, unrowed, tonight>>
    BY <1>5 DEF Outbound!_record, Outbound!histVars
  <2>2. saying[k].texts \in Outbound!Batches
    BY <1>1, <2>1 DEF TasksOK, Outbound!Tasks
  <2>3. said' \subseteq Outbound!Batches
    BY <1>3, <2>1, <2>2
  <2>4. sent' \in Nat /\ unrowed' \in Nat /\ unrowed' >= unrowed /\ sent' + unrowed' >= sent + unrowed + RowDue(k)
    BY <1>2, <1>4, <2>1
  <2> QED BY <1>2, <2>1, <2>3, <2>4, RowsAccounted
<1>6. ASSUME NEW k \in Outbound!Tasks, Outbound!Faulty, Outbound!Rests(k), k = "flush" => saying[k].at = "recording",
             unrowed' = Outbound!Unrowed({k}),
             UNCHANGED <<quiet, turned, last, sends, sent, said, digest, up, owed, today, tonight>>
      PROVE  OutboundInv'
  <2>1. unrowed' = unrowed + RowDue(k)
    BY <1>6, OneLost
  <2>2. sent' \in Nat /\ unrowed' \in Nat /\ unrowed' >= unrowed /\ sent' + unrowed' >= sent + unrowed + RowDue(k)
    BY <1>2, <1>4, <1>6, <2>1
  <2>3. faults' \in 0 .. MaxFaults
    BY <1>1, <1>6, OneFault
  <2> QED BY <1>3, <1>6, <2>2, <2>3, RowsAccounted
<1>7. ASSUME NEW k \in Outbound!Tasks, Outbound!RecordFails(k) PROVE OutboundInv'
  BY <1>6, <1>7 DEF Outbound!RecordFails, Outbound!clockVars, Outbound!rowVars
<1>8. CASE Outbound!CycleCut
  <2>1. "life" \in Outbound!Tasks
    BY DEF Outbound!Tasks
  <2> QED BY <1>6, <1>8, <2>1 DEF Outbound!CycleCut, Outbound!clockVars, Outbound!rowVars
<1> QED BY <1>5, <1>7, <1>8

LEMMA CrashStep == ASSUME OutboundInv, Outbound!Crash PROVE OutboundInv'
<1>1. Outbound!TypeOK /\ BudgetOK /\ NightOK
  BY DEF OutboundInv
<1>2. /\ Outbound!Faulty /\ digest' = NoEntry /\ up' = FALSE /\ owed' = {} /\ unrowed' = Outbound!Unrowed(Outbound!Tasks)
      /\ saying' = [k \in Outbound!Tasks |-> Outbound!Resting]
      /\ UNCHANGED <<quiet, turned, last, sends, sent, said, today, tonight>>
  BY DEF Outbound!Crash, Outbound!clockVars, Outbound!rowVars
<1>3. /\ saying' \in [Outbound!Tasks -> JobRecord]
      /\ \A k \in Outbound!Tasks : saying'[k].at = "idle" /\ saying'[k].kind = "reply"
  <2>1. PICK r \in JobRecord : r = Outbound!Resting
    BY <1>1, OutboundTyped
  <2>2. r.at = "idle" /\ r.kind = "reply"
    BY <2>1 DEF Outbound!Resting
  <2>3. saying' = [k \in Outbound!Tasks |-> r]
    BY <1>2, <2>1
  <2> QED BY <2>2, <2>3
<1>4. "life" \in Outbound!Tasks /\ "flush" \in Outbound!Tasks
  BY DEF Outbound!Tasks
<1>5. sent \in Nat /\ today \in Nat /\ unrowed \in Nat /\ tonight \in Nat /\ Budget \in Nat
  BY <1>1, OutboundTyped, OutboundConstants
<1>6. unrowed' = unrowed + Count(Rowing("life"), Rowing("flush"))
  <2>1. PICK S : S = {t \in Outbound!Tasks : saying[t].at = "recording" /\ Outbound!Budgeted(saying[t])}
    OBVIOUS
  <2>2. S \in SUBSET Outbound!Tasks /\ unrowed' = unrowed + Outbound!Cardinality(S)
    BY <1>2, <2>1 DEF Outbound!Unrowed
  <2>3. ("life" \in S <=> Rowing("life")) /\ ("flush" \in S <=> Rowing("flush"))
    BY <1>4, <2>1 DEF Rowing
  <2>4. Count("life" \in S, "flush" \in S) = Count(Rowing("life"), Rowing("flush"))
    BY <2>3 DEF Count
  <2> QED BY <2>2, <2>4, CountOfTasks
<1>7. PICK a, b \in Nat : a = Count(Rowing("life"), Rowing("flush")) /\ b = Count(Sending("life"), Sending("flush"))
  BY DEF Count
<1>8. /\ ~Rowing("life")' /\ ~Rowing("flush")' /\ ~Sending("life")' /\ ~Sending("flush")'
      /\ ~Intruding("life")' /\ ~Intruding("flush")'
  BY <1>3, <1>4 DEF Rowing, Sending, Intruding
<1>9. /\ Count(Rowing("life"), Rowing("flush"))' = 0 /\ Count(Sending("life"), Sending("flush"))' = 0
      /\ Count(Intruding("life"), Intruding("flush"))' = 0
  BY <1>8 DEF Count
<1>10. unrowed' = unrowed + a /\ unrowed' \in Nat
  BY <1>5, <1>6, <1>7
<1>11. Outbound!TypeOK'
  <2>1. /\ quiet' \in BOOLEAN /\ turned' \in BOOLEAN /\ sends' \in 0 .. MaxSends /\ owed' \subseteq Texts
        /\ last' \in {"none", "mine", "theirs"} /\ said' \subseteq Outbound!Batches
        /\ digest' \in Outbound!Entries \cup {NoEntry} /\ up' \in BOOLEAN
        /\ sent' \in Nat /\ today' \in Nat /\ tonight' \in Nat
    BY <1>1, <1>2 DEF Outbound!TypeOK
  <2>2. faults' \in 0 .. MaxFaults
    BY <1>1, <1>2, OneFault
  <2> QED BY <1>3, <1>10, <2>1, <2>2, OutboundTypes
<1>12. BudgetOK'
  <2>1. today <= sent + unrowed + a /\ today + b <= Budget + 1 + unrowed
    BY <1>1, <1>7 DEF BudgetOK
  <2>2. today' <= sent' + unrowed' + 0 /\ today' + 0 <= Budget + 1 + unrowed'
    BY <1>2, <1>5, <1>7, <1>10, <2>1
  <2> QED BY <1>8, <1>9, <2>2 DEF BudgetOK
<1>13. NightOK'
  <2>1. PICK f \in Nat : f = Count(Intruding("life"), Intruding("flush"))
    BY DEF Count
  <2>2. quiet => tonight + 0 <= 2
    BY <1>1, <1>5, <2>1 DEF NightOK
  <2> QED BY <1>1, <1>2, <1>9, <2>2 DEF NightOK
<1>14. TasksOK' /\ Outbound!NothingForgotten'
  BY <1>2, <1>3, <1>4 DEF TasksOK, Outbound!NothingForgotten, Outbound!Waiting
<1> QED BY <1>11, <1>12, <1>13, <1>14 DEF OutboundInv

\* The tasks and the digest stand: what remains is types and the two bounds.
LEMMA TasksStand ==
    ASSUME OutboundInv, UNCHANGED <<saying, digest, owed>>
    PROVE  /\ TasksOK' /\ Outbound!NothingForgotten'
           /\ Count(Rowing("life"), Rowing("flush"))' = Count(Rowing("life"), Rowing("flush"))
           /\ Count(Sending("life"), Sending("flush"))' = Count(Sending("life"), Sending("flush"))
           /\ Count(Intruding("life"), Intruding("flush"))' = Count(Intruding("life"), Intruding("flush"))
           /\ (Sending("life")' \/ Sending("flush")') <=> (Sending("life") \/ Sending("flush"))
<1>1. TasksOK' /\ Outbound!NothingForgotten'
  BY DEF OutboundInv, TasksOK, Outbound!NothingForgotten, Outbound!Waiting
<1>2. \A k : (Rowing(k)' <=> Rowing(k)) /\ (Sending(k)' <=> Sending(k)) /\ (Intruding(k)' <=> Intruding(k))
  BY DEF Rowing, Sending, Intruding
<1>3. /\ Count(Rowing("life"), Rowing("flush"))' = Count(Rowing("life"), Rowing("flush"))
      /\ Count(Sending("life"), Sending("flush"))' = Count(Sending("life"), Sending("flush"))
      /\ Count(Intruding("life"), Intruding("flush"))' = Count(Intruding("life"), Intruding("flush"))
  BY <1>2 DEF Count
<1>4. (Sending("life")' \/ Sending("flush")') <=> (Sending("life") \/ Sending("flush"))
  BY <1>2
<1> QED BY <1>1, <1>3, <1>4

LEMMA ClockStep ==
    ASSUME OutboundInv,
           \/ Outbound!QuietTurns \/ Outbound!NewDay \/ Outbound!WindowUp
           \/ Outbound!PersonWrites \/ Outbound!AwaitingLapses
    PROVE  OutboundInv'
<1>1. Outbound!TypeOK /\ BudgetOK /\ NightOK
  BY DEF OutboundInv
<1>2. /\ UNCHANGED <<sends, faults, said, digest, saying, owed>>
      /\ \/ quiet' = ~quiet /\ tonight' = 0 /\ UNCHANGED <<sent, today, unrowed>>
         \/ sent' = 0 /\ today' = 0 /\ unrowed' = 0 /\ UNCHANGED <<quiet, tonight>>
         \/ UNCHANGED <<quiet, tonight, sent, today, unrowed>>
      /\ up' \in BOOLEAN /\ turned' \in BOOLEAN /\ last' \in {"none", "mine", "theirs"}
  BY <1>1 DEF Outbound!QuietTurns, Outbound!NewDay, Outbound!WindowUp, Outbound!PersonWrites, Outbound!AwaitingLapses,
              Outbound!TypeOK, Outbound!clockVars, Outbound!rowVars, Outbound!histVars
<1>3. sent \in Nat /\ today \in Nat /\ unrowed \in Nat /\ tonight \in Nat /\ quiet \in BOOLEAN /\ Budget \in Nat
  BY <1>1, OutboundTyped, OutboundConstants
<1>4. sent' \in Nat /\ today' \in Nat /\ unrowed' \in Nat /\ tonight' \in Nat /\ quiet' \in BOOLEAN
  <2>1. sent' \in Nat /\ today' \in Nat /\ unrowed' \in Nat /\ tonight' \in Nat
    BY <1>2, <1>3
  <2>2. quiet' = quiet \/ quiet' = ~quiet
    BY <1>2
  <2> QED BY <1>3, <2>1, <2>2
<1>5. Outbound!TypeOK'
  <2>1. /\ sends' \in 0 .. MaxSends /\ faults' \in 0 .. MaxFaults /\ said' \subseteq Outbound!Batches
        /\ digest' \in Outbound!Entries \cup {NoEntry} /\ owed' \subseteq Texts /\ saying' \in [Outbound!Tasks -> JobRecord]
    BY <1>1, <1>2, OutboundTyped DEF Outbound!TypeOK
  <2> QED BY <1>2, <1>4, <2>1, OutboundTypes
<1>6. /\ TasksOK' /\ Outbound!NothingForgotten'
      /\ Count(Rowing("life"), Rowing("flush"))' = Count(Rowing("life"), Rowing("flush"))
      /\ Count(Sending("life"), Sending("flush"))' = Count(Sending("life"), Sending("flush"))
      /\ Count(Intruding("life"), Intruding("flush"))' = Count(Intruding("life"), Intruding("flush"))
      /\ (Sending("life")' \/ Sending("flush")') <=> (Sending("life") \/ Sending("flush"))
  BY <1>2, TasksStand
<1>7. PICK a, b, c \in 0 .. 2 : /\ a = Count(Rowing("life"), Rowing("flush")) /\ b = Count(Sending("life"), Sending("flush"))
                                /\ c = Count(Intruding("life"), Intruding("flush"))
                                /\ ~(Sending("life") \/ Sending("flush")) => b = 0
  BY DEF Count
<1>8. BudgetOK'
  <2>1. /\ today <= sent + unrowed + a /\ today + b <= Budget + 1 + unrowed
        /\ Sending("life") \/ Sending("flush") => Budget > 0
    BY <1>1, <1>7 DEF BudgetOK
  <2>2. b <= Budget + 1
    BY <1>3, <1>7, <2>1
  <2>3. today' <= sent' + unrowed' + a /\ today' + b <= Budget + 1 + unrowed'
    BY <1>2, <1>3, <1>7, <2>1, <2>2
  <2> QED BY <1>6, <1>7, <2>1, <2>3 DEF BudgetOK
<1>9. NightOK'
  <2>1. (quiet => tonight + c <= 2) /\ (~quiet => tonight = 0)
    BY <1>1, <1>7 DEF NightOK
  <2>2. (quiet' => tonight' + c <= 2) /\ (~quiet' => tonight' = 0)
    BY <1>2, <1>3, <1>7, <2>1
  <2> QED BY <1>6, <1>7, <2>2 DEF NightOK
<1> QED BY <1>5, <1>6, <1>8, <1>9 DEF OutboundInv

LEMMA OutboundNext == ASSUME OutboundInv, Outbound!Next PROVE OutboundInv'
<1>1. ASSUME NEW t \in Texts, NEW say \in Outbound!Says, Outbound!send(t, say[1], say[2]) PROVE OutboundInv'
  BY <1>1, SendStep
<1>2. CASE Outbound!recent_words \/ Outbound!_why_not_speak_first
  BY <1>2, LifeReads
<1>3. CASE Outbound!FlushStep
  BY <1>3, FlushReads
<1>4. ASSUME NEW k \in Outbound!Tasks, Outbound!Step(k) \/ Outbound!RecordFails(k) \/ Outbound!AskFails(k)
      PROVE  OutboundInv'
  <2>1. CASE Outbound!Admitted(k)
    BY <2>1, AdmittedStep
  <2>2. CASE Outbound!Delivered(k)
    BY <2>2, DeliveredStep
  <2>3. CASE Outbound!NotAdmitted(k) \/ Outbound!DeliveryFails(k) \/ Outbound!AskFails(k)
    BY <2>3, LaidDown
  <2>4. CASE Outbound!_record(k) \/ Outbound!RecordFails(k)
    BY <2>4, RowStep
  <2> QED BY <1>4, <2>1, <2>2, <2>3, <2>4 DEF Outbound!Step
<1>5. CASE Outbound!CycleCut
  BY <1>5, RowStep
<1>6. CASE Outbound!Crash
  BY <1>6, CrashStep
<1>7. CASE \/ Outbound!QuietTurns \/ Outbound!NewDay \/ Outbound!WindowUp
           \/ Outbound!PersonWrites \/ Outbound!AwaitingLapses
  BY <1>7, ClockStep
<1> QED BY <1>1, <1>2, <1>3, <1>4, <1>5, <1>6, <1>7 DEF Outbound!Next

LEMMA OutboundInit == ASSUME Outbound!Init PROVE OutboundInv
<1>1. /\ quiet \in BOOLEAN /\ turned = FALSE /\ up = FALSE /\ sends = 0 /\ faults = 0 /\ sent = 0 /\ last = "none"
      /\ said = {} /\ digest = NoEntry /\ owed = {} /\ today = 0 /\ unrowed = 0 /\ tonight = 0
      /\ saying = [k \in Outbound!Tasks |-> Outbound!Resting]
  BY DEF Outbound!Init
<1>2. Outbound!Resting \in JobRecord
  <2>1. "idle" \in Outbound!Places /\ "reply" \in Outbound!Kinds /\ "normal" \in Outbound!Urgency
    BY DEF Outbound!Places, Outbound!Kinds, Outbound!Urgency, Outbound!Weight
  <2> QED BY <2>1 DEF Outbound!Resting, JobRecord
<1>3. "life" \in Outbound!Tasks /\ "flush" \in Outbound!Tasks
  BY DEF Outbound!Tasks
<1>4. \A k \in Outbound!Tasks : saying[k].at = "idle" /\ saying[k].kind = "reply"
  BY <1>1 DEF Outbound!Resting
<1>5. Outbound!TypeOK
  <2>1. saying \in [Outbound!Tasks -> JobRecord]
    BY <1>1, <1>2
  <2>2. sends \in 0 .. MaxSends /\ faults \in 0 .. MaxFaults
    BY <1>1, OutboundConstants
  <2> QED BY <1>1, <2>1, <2>2 DEF Outbound!TypeOK, JobRecord
<1>6. TasksOK /\ Outbound!NothingForgotten
  BY <1>1, <1>3, <1>4 DEF TasksOK, Outbound!NothingForgotten, Outbound!Waiting
<1>7. /\ ~Rowing("life") /\ ~Rowing("flush") /\ ~Sending("life") /\ ~Sending("flush")
      /\ ~Intruding("life") /\ ~Intruding("flush")
  BY <1>3, <1>4 DEF Rowing, Sending, Intruding
<1>8. BudgetOK /\ NightOK
  BY <1>1, <1>7, OutboundConstants DEF BudgetOK, NightOK, Count
<1> QED BY <1>5, <1>6, <1>8 DEF OutboundInv

LEMMA OutboundRests == ASSUME OutboundInv, UNCHANGED <<faults, outboundVars>> PROVE OutboundInv'
<1>1. UNCHANGED <<quiet, turned, sends, faults, sent, last, said, digest, up, saying, owed, today, unrowed, tonight>>
  BY DEF outboundVars
<1>2. Outbound!TypeOK'
  BY <1>1 DEF OutboundInv, Outbound!TypeOK
<1>3. /\ TasksOK' /\ Outbound!NothingForgotten'
      /\ Count(Rowing("life"), Rowing("flush"))' = Count(Rowing("life"), Rowing("flush"))
      /\ Count(Sending("life"), Sending("flush"))' = Count(Sending("life"), Sending("flush"))
      /\ Count(Intruding("life"), Intruding("flush"))' = Count(Intruding("life"), Intruding("flush"))
      /\ (Sending("life")' \/ Sending("flush")') <=> (Sending("life") \/ Sending("flush"))
  BY <1>1, TasksStand
<1>4. BudgetOK' /\ NightOK'
  BY <1>1, <1>3 DEF OutboundInv, BudgetOK, NightOK
<1> QED BY <1>2, <1>3, <1>4 DEF OutboundInv

\* What the invariant says, as the run says it.
LEMMA OutboundStands ==
    ASSUME OutboundInv
    PROVE  Outbound!TypeOK /\ Outbound!BudgetOvershoot /\ Outbound!NightQuota /\ Outbound!NothingForgotten
<1>1. Outbound!TypeOK /\ BudgetOK /\ NightOK /\ Outbound!NothingForgotten
  BY DEF OutboundInv
<1>2. sent \in Nat /\ today \in Nat /\ unrowed \in Nat /\ tonight \in Nat /\ quiet \in BOOLEAN
  BY <1>1, OutboundTyped
<1>3. Outbound!BudgetOvershoot
  <2>1. PICK S : S = {k \in Outbound!Tasks : saying[k].at = "sending" /\ Outbound!Budgeted(saying[k])}
    OBVIOUS
  <2>2. S \in SUBSET Outbound!Tasks /\ ("life" \in S <=> Sending("life")) /\ ("flush" \in S <=> Sending("flush"))
    BY <2>1 DEF Sending, Outbound!Tasks
  <2>3. Count("life" \in S, "flush" \in S) = Count(Sending("life"), Sending("flush"))
    BY <2>2 DEF Count
  <2>4. Outbound!Cardinality(S) = Count(Sending("life"), Sending("flush"))
    BY <2>2, <2>3, CountOfTasks
  <2>5. today + Outbound!Cardinality(S) <= Budget + 1 + unrowed
    BY <1>1, <2>4 DEF BudgetOK
  <2> QED BY <2>1, <2>5 DEF Outbound!BudgetOvershoot
<1>4. Outbound!NightQuota
  <2>1. Outbound!Cardinality(Outbound!Tasks) = 2
    <3>1. Outbound!Cardinality(Outbound!Tasks) = Count("life" \in Outbound!Tasks, "flush" \in Outbound!Tasks)
      BY CountOfTasks
    <3> QED BY <3>1 DEF Count, Outbound!Tasks
  <2>2. PICK c \in Nat : c = Count(Intruding("life"), Intruding("flush"))
    BY DEF Count
  <2>3. tonight <= 2
    BY <1>1, <1>2, <2>2 DEF NightOK
  <2> QED BY <2>1, <2>3 DEF Outbound!NightQuota
<1> QED BY <1>1, <1>3, <1>4

-----------------------------------------------------------------------------
(* The way out through a door: each task's send is its own and untold, and  *)
(* the provider has heard of it what its task knows, or one piece more      *)
(* whose answer it has not read.                                            *)

PostRecord == [at : {"fetching", "issued", "posting", "answered"}, id : Delivery!Sends, of : Nat, done : Nat,
               asked : Nat, dies : Nat, granted : Nat, taken : BOOLEAN]
Busy(k)    == post[k].at # "idle"
Took(j)    == IF j.at = "answered" /\ j.taken THEN j.done + 1 ELSE j.done
\* A send in hand is known to nobody else and its caller is untold.
InHand(k)  ==
    /\ post[k] \in PostRecord /\ post[k].id <= spoken /\ report[post[k].id].result = "none"
    /\ post[k].done < post[k].of /\ Len(heard[post[k].id]) = Took(post[k])
    /\ post[k].asked <= clock
    /\ post[k].at = "issued" => post[k].dies >= post[k].asked + post[k].granted
PostsOK ==
    /\ DOMAIN post = Senders
    /\ \A k \in Senders : post[k] = Delivery!Resting \/ InHand(k)
    /\ \A k, o \in Senders : Busy(k) /\ Busy(o) /\ post[k].id = post[o].id => k = o
HeardOK ==
    /\ heard \in [Delivery!Sends -> Seq(Nat)] /\ DOMAIN report = Delivery!Sends
    /\ \A i \in Delivery!Sends : /\ report[i].result \in {"none", "sent", "failed", "unreached"}
                                 /\ i > spoken => heard[i] = << >> /\ report[i].result = "none"
    /\ Delivery!ReportIsHonest /\ Delivery!PiecesInOrder
\* The addresses one process keeps.
AddressesOK(q) ==
    /\ q \in Seq(Conversations) /\ Len(q) <= UrlLimit
    /\ \A m, n \in 1 .. Len(q) : q[m] = q[n] => m = n
UrlsOK ==
    /\ DOMAIN urls = Delivery!Processes /\ \A p \in Delivery!Processes : AddressesOK(urls[p])
    /\ IsFiniteSet(arrived) /\ arrived \subseteq Conversations /\ latest \in Conversations \cup {"nobody"}
    /\ Delivery!LastOneIsKnown
    /\ together => /\ Delivery!Range(urls["core"]) \subseteq arrived
                   /\ Cardinality(arrived) <= UrlLimit => arrived \subseteq Delivery!Range(urls["core"])
DoorOK ==
    /\ door \in Delivery!Doors /\ together \in BOOLEAN /\ clock \in 0 .. MaxClock
    /\ spoken \in 0 .. Sendings /\ faults \in 0 .. MaxFaults
TokenOK == (token # NoToken => token.dies \in Nat) /\ Delivery!TokenKeepsItsMargin
DeliveryInv ==
    DoorOK /\ PostsOK /\ HeardOK /\ UrlsOK /\ TokenOK /\ Delivery!FindsItsWayTogether

LEMMA DeliveryConstants ==
    /\ UrlLimit \in Nat /\ UrlLimit >= 2 /\ Margin \in Nat \ {0} /\ Floor \in Nat \ {0} /\ Lifetimes \subseteq Nat
    /\ MaxClock \in Nat /\ Sendings \in Nat /\ MaxPieces \in Nat /\ MaxFaults \in Nat
<1>1. Delivery!DeliveryAssumption
  BY RecordsAssumption DEF RecordsAssumption
<1>2. /\ Margin \in Nat \ {0} /\ Floor \in Nat \ {0} /\ Lifetimes \subseteq Nat
      /\ MaxClock \in Nat /\ Sendings \in Nat /\ MaxPieces \in Nat /\ MaxFaults \in Nat
  BY <1>1 DEF Delivery!DeliveryAssumption
<1>3. UrlLimit \in Nat \ {0, 1}
  BY <1>1 DEF Delivery!DeliveryAssumption
<1> QED BY <1>2, <1>3

LEMMA DeliveryOperators ==
    /\ \A f : Delivery!Range(f) = {f[x] : x \in DOMAIN f}
    /\ \A S : Delivery!Cardinality(S) = Cardinality(S)
  BY DEF Delivery!Range, Delivery!Cardinality, Cardinality

LEMMA InTheRange ==
    ASSUME NEW q \in Seq(Conversations), NEW x
    PROVE  x \in Delivery!Range(q) <=> \E i \in 1 .. Len(q) : q[i] = x
<1>1. DOMAIN q = 1 .. Len(q)
  BY LenProperties
<1> QED BY <1>1, DeliveryOperators

LEMMA NobodyKept == Delivery!Range(<< >>) = {}
<1>1. PICK q : q = << >>
  OBVIOUS
<1>2. q \in Seq(Conversations)
  BY <1>1
<1>3. Len(q) = 0
  BY <1>1
<1>4. \A x : x \notin Delivery!Range(q)
  <2> SUFFICES ASSUME NEW x, x \in Delivery!Range(q) PROVE FALSE
    OBVIOUS
  <2>1. PICK i \in 1 .. Len(q) : q[i] = x
    BY <1>2, InTheRange
  <2> QED BY <1>3, <2>1
<1> QED BY <1>1, <1>4

\* One more address, at the end.
LEMMA OneAddressMore ==
    ASSUME NEW q, AddressesOK(q), Len(q) < UrlLimit, NEW c \in Conversations, c \notin Delivery!Range(q)
    PROVE  AddressesOK(Append(q, c)) /\ \A x : x \in Delivery!Range(Append(q, c)) <=> x \in Delivery!Range(q) \/ x = c
<1>1. q \in Seq(Conversations) /\ Len(q) \in Nat /\ \A m, n \in 1 .. Len(q) : q[m] = q[n] => m = n
  BY LenProperties DEF AddressesOK
<1>2. PICK r : r = Append(q, c)
  OBVIOUS
<1>3. /\ r \in Seq(Conversations) /\ Len(r) = Len(q) + 1 /\ r[Len(q) + 1] = c
      /\ \A i \in 1 .. Len(q) : r[i] = q[i]
  BY <1>1, <1>2, AppendProperties
<1>4. \A i \in 1 .. Len(q) : q[i] # c
  BY <1>1, InTheRange
<1>5. \A m, n \in 1 .. Len(r) : r[m] = r[n] => m = n
  <2> TAKE m, n \in 1 .. Len(r)
  <2> HAVE r[m] = r[n]
  <2>1. CASE m \in 1 .. Len(q) /\ n \in 1 .. Len(q)
    BY <1>1, <1>3, <2>1
  <2>2. ASSUME m \in 1 .. Len(q), n = Len(q) + 1 PROVE FALSE
    BY <1>3, <1>4, <2>2
  <2>3. ASSUME n \in 1 .. Len(q), m = Len(q) + 1 PROVE FALSE
    BY <1>3, <1>4, <2>3
  <2> QED BY <1>1, <1>3, <2>1, <2>2, <2>3
<1>6. Len(r) <= UrlLimit
  BY <1>1, <1>3, DeliveryConstants
<1>7. \A x : x \in Delivery!Range(r) <=> x \in Delivery!Range(q) \/ x = c
  <2> TAKE x
  <2>1. ASSUME x \in Delivery!Range(r) PROVE x \in Delivery!Range(q) \/ x = c
    <3>1. PICK i \in 1 .. Len(r) : r[i] = x
      BY <1>3, <2>1, InTheRange
    <3>2. CASE i = Len(q) + 1
      BY <1>3, <3>1, <3>2
    <3>3. CASE i \in 1 .. Len(q)
      BY <1>1, <1>3, <3>1, <3>3, InTheRange
    <3> QED BY <1>1, <1>3, <3>2, <3>3
  <2>2. ASSUME x \in Delivery!Range(q) PROVE x \in Delivery!Range(r)
    <3>1. PICK i \in 1 .. Len(q) : q[i] = x
      BY <1>1, <2>2, InTheRange
    <3>2. i \in 1 .. Len(r) /\ r[i] = x
      BY <1>1, <1>3, <3>1
    <3> QED BY <1>3, <3>2, InTheRange
  <2>3. c \in Delivery!Range(r)
    <3>1. Len(q) + 1 \in 1 .. Len(r)
      BY <1>1, <1>3
    <3> QED BY <1>3, <3>1, InTheRange
  <2> QED BY <2>1, <2>2, <2>3
<1>8. AddressesOK(r)
  BY <1>3, <1>5, <1>6 DEF AddressesOK
<1> QED BY <1>2, <1>7, <1>8

\* The oldest half forgotten leaves room.
LEMMA HalfForgotten ==
    ASSUME NEW q, AddressesOK(q), Len(q) = UrlLimit, NEW s, s = SubSeq(q, UrlLimit \div 2 + 1, Len(q))
    PROVE  AddressesOK(s) /\ Len(s) < UrlLimit /\ \A x : x \in Delivery!Range(s) => x \in Delivery!Range(q)
<1>1. q \in Seq(Conversations) /\ Len(q) \in Nat /\ \A m, n \in 1 .. Len(q) : q[m] = q[n] => m = n
  BY LenProperties DEF AddressesOK
<1>2. PICK h \in Nat : h = UrlLimit \div 2 /\ h >= 1 /\ h < UrlLimit
  BY DeliveryConstants
<1>3. \A i \in h + 1 .. Len(q) : q[i] \in Conversations
  <2> TAKE i \in h + 1 .. Len(q)
  <2>1. i \in 1 .. Len(q)
    BY <1>1, <1>2
  <2> QED BY <1>1, <2>1, ElementOfSeq
<1>4. PICK a, b \in Int : a = h + 1 /\ b = Len(q)
  BY <1>1, <1>2
<1>5. /\ s \in Seq(Conversations) /\ Len(s) = IF a <= b THEN b - a + 1 ELSE 0
      /\ \A i \in 1 .. b - a + 1 : s[i] = q[a + i - 1]
  <2>1. s = SubSeq(q, a, b)
    BY <1>2, <1>4
  <2>2. \A i \in a .. b : q[i] \in Conversations
    BY <1>3, <1>4
  <2>3. /\ SubSeq(q, a, b) \in Seq(Conversations) /\ Len(SubSeq(q, a, b)) = IF a <= b THEN b - a + 1 ELSE 0
        /\ \A i \in 1 .. b - a + 1 : SubSeq(q, a, b)[i] = q[a + i - 1]
    BY <1>4, <2>2, SubSeqProperties
  <2> QED BY <2>1, <2>3
<1>6. Len(s) = UrlLimit - h /\ \A i \in 1 .. Len(s) : i + h \in 1 .. Len(q) /\ s[i] = q[i + h]
  <2>1. Len(s) = UrlLimit - h
    BY <1>2, <1>4, <1>5, DeliveryConstants
  <2>2. ASSUME NEW i \in 1 .. Len(s) PROVE i + h \in 1 .. Len(q) /\ s[i] = q[i + h]
    <3>1. i \in Nat /\ i >= 1 /\ i <= UrlLimit - h
      BY <1>2, <2>1, DeliveryConstants
    <3>2. i \in 1 .. b - a + 1 /\ a + i - 1 = i + h /\ i + h \in 1 .. Len(q)
      BY <1>2, <1>4, <3>1, DeliveryConstants
    <3> QED BY <1>5, <3>2
  <2> QED BY <2>1, <2>2
<1>7. \A m, n \in 1 .. Len(s) : s[m] = s[n] => m = n
  <2> TAKE m, n \in 1 .. Len(s)
  <2> HAVE s[m] = s[n]
  <2>1. m + h = n + h
    BY <1>1, <1>6
  <2> QED BY <1>2, <1>6, <2>1, DeliveryConstants
<1>8. Len(s) < UrlLimit /\ Len(s) <= UrlLimit
  BY <1>2, <1>6, DeliveryConstants
<1>9. \A x : x \in Delivery!Range(s) => x \in Delivery!Range(q)
  <2> TAKE x
  <2> HAVE x \in Delivery!Range(s)
  <2>1. PICK i \in 1 .. Len(s) : s[i] = x
    BY <1>5, InTheRange
  <2>2. i + h \in 1 .. Len(q) /\ q[i + h] = x
    BY <1>6, <2>1
  <2> QED BY <1>1, <2>2, InTheRange
<1>10. AddressesOK(s)
  BY <1>5, <1>7, <1>8 DEF AddressesOK
<1> QED BY <1>8, <1>9, <1>10

\* A conversation that wrote is remembered, and another forgotten only if the
\* cache was full of others.
LEMMA Remembers ==
    ASSUME NEW q, AddressesOK(q), NEW c \in Conversations, NEW r, r = Delivery!remember_service_url(q, c)
    PROVE  /\ AddressesOK(r) /\ c \in Delivery!Range(r)
           /\ \A x : x \in Delivery!Range(r) => x \in Delivery!Range(q) \/ x = c
           /\ \/ c \notin Delivery!Range(q) /\ Len(q) = UrlLimit
              \/ \A x : x \in Delivery!Range(q) => x \in Delivery!Range(r)
<1>1. q \in Seq(Conversations) /\ Len(q) \in Nat /\ Len(q) <= UrlLimit
  BY LenProperties DEF AddressesOK
<1>2. CASE c \in Delivery!Range(q)
  BY <1>2 DEF Delivery!remember_service_url
<1>3. CASE c \notin Delivery!Range(q) /\ Len(q) < UrlLimit
  <2>1. r = Append(q, c)
    BY <1>1, <1>3, DeliveryConstants DEF Delivery!remember_service_url
  <2> QED BY <1>3, <2>1, OneAddressMore
<1>4. CASE c \notin Delivery!Range(q) /\ Len(q) = UrlLimit
  <2>1. PICK s : s = SubSeq(q, UrlLimit \div 2 + 1, Len(q))
    OBVIOUS
  <2>2. AddressesOK(s) /\ Len(s) < UrlLimit /\ \A x : x \in Delivery!Range(s) => x \in Delivery!Range(q)
    BY <1>4, <2>1, HalfForgotten
  <2>3. r = Append(s, c)
    BY <1>4, <2>1, DeliveryConstants DEF Delivery!remember_service_url
  <2>4. c \notin Delivery!Range(s)
    BY <1>4, <2>2
  <2> QED BY <1>4, <2>2, <2>3, <2>4, OneAddressMore
<1> QED BY <1>1, <1>2, <1>3, <1>4, DeliveryConstants

-----------------------------------------------------------------------------
(* One task's post. *)

LEMMA PostAtWork ==
    ASSUME PostsOK, NEW k \in Senders
    PROVE  Busy(k) => InHand(k)
<1>1. post[k] = Delivery!Resting \/ InHand(k)
  BY DEF PostsOK
<1>2. post[k] = Delivery!Resting => ~Busy(k)
  BY DEF Busy, Delivery!Resting
<1> QED BY <1>1, <1>2

\* The tasks that stand still keep what they hold, whatever becomes of the others.
LEMMA OthersKeep ==
    ASSUME PostsOK, NEW o \in Senders, InHand(o), post'[o] = post[o],
           spoken' >= spoken, spoken \in Nat, spoken' \in Nat, clock' >= clock, clock \in Nat, clock' \in Nat,
           report'[post[o].id] = report[post[o].id], heard'[post[o].id] = heard[post[o].id]
    PROVE  InHand(o)'
<1>1. PICK j \in PostRecord : j = post[o] /\ post'[o] = j
  BY DEF InHand
<1>2. j.id \in Nat /\ j.asked \in Nat
  BY <1>1, DeliveryConstants DEF PostRecord, Delivery!Sends
<1>3. /\ j.id <= spoken /\ report[j.id].result = "none" /\ j.done < j.of /\ Len(heard[j.id]) = Took(j)
      /\ j.asked <= clock /\ (j.at = "issued" => j.dies >= j.asked + j.granted)
  BY <1>1 DEF InHand
<1>4. j.id <= spoken' /\ j.asked <= clock' /\ report'[j.id] = report[j.id] /\ heard'[j.id] = heard[j.id]
  BY <1>1, <1>2, <1>3
<1> QED BY <1>1, <1>3, <1>4 DEF InHand

\* A task goes on with the send it has: another record of it.
LEMMA GoesOnPosting ==
    ASSUME PostsOK, NEW k \in Senders, InHand(k), NEW r \in PostRecord, r.id = post[k].id, post' = [post EXCEPT ![k] = r],
           UNCHANGED <<clock, spoken, report>>, spoken \in Nat, clock \in Nat,
           \A i \in Delivery!Sends \ {r.id} : heard'[i] = heard[i],
           r.done < r.of, Len(heard'[r.id]) = Took(r), r.asked <= clock, r.at = "issued" => r.dies >= r.asked + r.granted
    PROVE  PostsOK'
<1>1. DOMAIN post' = Senders /\ post'[k] = r /\ \A o \in Senders \ {k} : post'[o] = post[o]
  BY DEF PostsOK
<1>2. Busy(k) /\ r.id <= spoken /\ report[r.id].result = "none"
  BY DEF Busy, InHand, PostRecord
<1>3. InHand(k)'
  BY <1>1, <1>2 DEF InHand
<1>4. ASSUME NEW o \in Senders \ {k} PROVE (Busy(o)' => Busy(o)) /\ (post[o] = Delivery!Resting \/ InHand(o)')
  <2>1. CASE post[o] = Delivery!Resting
    BY <1>1, <2>1 DEF Busy
  <2>2. CASE InHand(o)
    <3>1. Busy(o) /\ post[o].id \in Delivery!Sends
      BY <2>2 DEF Busy, InHand, PostRecord
    <3>2. post[o].id # r.id
      BY <1>2, <3>1 DEF PostsOK
    <3>3. heard'[post[o].id] = heard[post[o].id]
      BY <3>1, <3>2
    <3>4. post'[o] = post[o] /\ spoken' >= spoken /\ spoken' \in Nat /\ clock' >= clock /\ clock' \in Nat
          /\ report'[post[o].id] = report[post[o].id]
      BY <1>1
    <3> QED BY <2>2, <3>1, <3>3, <3>4, OthersKeep
  <2> QED BY <2>1, <2>2 DEF PostsOK
<1>5. \A o \in Senders : post'[o] = Delivery!Resting \/ InHand(o)'
  BY <1>1, <1>3, <1>4
<1>6. \A o, p \in Senders : Busy(o)' /\ Busy(p)' /\ post'[o].id = post'[p].id => o = p
  <2>1. \A o \in Senders : post'[o].id = post[o].id /\ (Busy(o)' => Busy(o))
    BY <1>1, <1>2, <1>4
  <2> QED BY <2>1 DEF PostsOK
<1> QED BY <1>1, <1>5, <1>6 DEF PostsOK

\* A task is through with its send, and what it tells of it is what the provider heard.
LEMMA PostEnds ==
    ASSUME PostsOK, HeardOK, NEW k \in Senders, InHand(k), NEW what, Delivery!Tells(k, post[k].id, what),
           UNCHANGED <<clock, spoken, heard>>, spoken \in Nat, clock \in Nat,
           what.result \in {"sent", "failed"},
           what.result = "sent" => Len(heard[post[k].id]) = what.of,
           what.result = "failed" => Len(heard[post[k].id]) - what.done \in 0 .. 1
    PROVE  PostsOK' /\ HeardOK' /\ (Delivery!AnswerFindsItsWay => Delivery!AnswerFindsItsWay')
<1>1. PICK i \in Delivery!Sends : i = post[k].id /\ i <= spoken /\ i \in Nat
  BY DeliveryConstants DEF InHand, PostRecord, Delivery!Sends
<1>2. /\ DOMAIN post' = Senders /\ post'[k] = Delivery!Resting /\ \A o \in Senders \ {k} : post'[o] = post[o]
      /\ DOMAIN report' = Delivery!Sends /\ report'[i] = what /\ \A n \in Delivery!Sends \ {i} : report'[n] = report[n]
  BY <1>1 DEF PostsOK, HeardOK, Delivery!Tells
<1>3. Busy(k) /\ ~Busy(k)'
  BY <1>2 DEF Busy, InHand, PostRecord, Delivery!Resting
<1>4. ASSUME NEW o \in Senders \ {k} PROVE (Busy(o)' => Busy(o)) /\ (post'[o] = Delivery!Resting \/ InHand(o)')
  <2>1. CASE post[o] = Delivery!Resting
    BY <1>2, <2>1 DEF Busy
  <2>2. CASE InHand(o)
    <3>1. Busy(o) /\ post[o].id \in Delivery!Sends
      BY <2>2 DEF Busy, InHand, PostRecord
    <3>2. post[o].id # i
      BY <1>1, <1>3, <3>1 DEF PostsOK
    <3>3. report'[post[o].id] = report[post[o].id]
      BY <1>2, <3>1, <3>2
    <3>4. post'[o] = post[o] /\ spoken' >= spoken /\ spoken' \in Nat /\ clock' >= clock /\ clock' \in Nat
          /\ heard'[post[o].id] = heard[post[o].id]
      BY <1>2
    <3> QED BY <2>2, <3>1, <3>3, <3>4, OthersKeep
  <2> QED BY <2>1, <2>2 DEF PostsOK
<1>5. PostsOK'
  <2>1. \A o \in Senders : post'[o] = Delivery!Resting \/ InHand(o)'
    BY <1>2, <1>4
  <2>2. \A o \in Senders : Busy(o)' => o # k /\ Busy(o) /\ post'[o].id = post[o].id
    BY <1>2, <1>3, <1>4
  <2>3. \A o, p \in Senders : Busy(o)' /\ Busy(p)' /\ post'[o].id = post'[p].id => o = p
    BY <2>2 DEF PostsOK
  <2> QED BY <1>2, <2>1, <2>3 DEF PostsOK
<1>6. HeardOK'
  <2>1. \A n \in Delivery!Sends : /\ report'[n].result \in {"none", "sent", "failed", "unreached"}
                                  /\ n > spoken' => heard'[n] = << >> /\ report'[n].result = "none"
    <3> TAKE n \in Delivery!Sends
    <3>1. CASE n = i
      <4>1. report'[n].result \in {"sent", "failed"} /\ ~(n > spoken')
        BY <1>1, <1>2, <3>1
      <4> QED BY <4>1
    <3>2. CASE n # i
      BY <1>2, <3>2 DEF HeardOK
    <3> QED BY <3>1, <3>2
  <2>2. Delivery!ReportIsHonest'
    <3>1. ASSUME NEW n \in Delivery!Sends
          PROVE  /\ report'[n].result = "sent" => Len(heard'[n]) = report'[n].of
                 /\ report'[n].result = "failed" => Len(heard'[n]) - report'[n].done \in 0 .. 1
      <4>1. CASE n = i
        BY <1>1, <1>2, <4>1
      <4>2. CASE n # i
        BY <1>2, <4>2 DEF HeardOK, Delivery!ReportIsHonest
      <4> QED BY <4>1, <4>2
    <3> QED BY <3>1 DEF Delivery!ReportIsHonest
  <2>3. Delivery!PiecesInOrder'
    BY DEF HeardOK, Delivery!PiecesInOrder
  <2> QED BY <1>2, <2>1, <2>2, <2>3 DEF HeardOK
<1>7. Delivery!AnswerFindsItsWay => Delivery!AnswerFindsItsWay'
  BY <1>1, <1>2 DEF Delivery!AnswerFindsItsWay
<1> QED BY <1>5, <1>6, <1>7

LEMMA DoorTyped ==
    ASSUME DeliveryInv
    PROVE  clock \in Nat /\ spoken \in Nat /\ faults \in 0 .. MaxFaults /\ together \in BOOLEAN
  BY DeliveryConstants DEF DeliveryInv, DoorOK

LEMMA AddressesStand == ASSUME UrlsOK, UNCHANGED <<together, urls, arrived, latest>> PROVE UrlsOK'
<1>1. Delivery!LastOneIsKnown'
  BY DEF UrlsOK, Delivery!LastOneIsKnown, Delivery!Listener
<1> QED BY <1>1 DEF UrlsOK

LEMMA WordsStand ==
    ASSUME HeardOK, UNCHANGED <<heard, report, spoken>>
    PROVE  HeardOK' /\ (Delivery!AnswerFindsItsWay => Delivery!AnswerFindsItsWay')
  BY DEF HeardOK, Delivery!ReportIsHonest, Delivery!PiecesInOrder, Delivery!AnswerFindsItsWay

\* What a step of the posts and the token leaves of the rest.
LEMMA RestStands ==
    ASSUME DeliveryInv, UNCHANGED <<door, together, clock, urls, arrived, latest, spoken>>, faults' \in 0 .. MaxFaults,
           PostsOK', HeardOK', Delivery!AnswerFindsItsWay => Delivery!AnswerFindsItsWay', TokenOK'
    PROVE  DeliveryInv'
<1>1. DoorOK' /\ UrlsOK'
  BY AddressesStand DEF DeliveryInv, DoorOK
<1>2. Delivery!FindsItsWayTogether'
  BY DEF DeliveryInv, Delivery!FindsItsWayTogether
<1> QED BY <1>1, <1>2 DEF DeliveryInv

LEMMA PostFailsStep ==
    ASSUME DeliveryInv, NEW k \in Senders, Delivery!Denied(k) \/ Delivery!AnswerLost(k)
    PROVE  DeliveryInv'
<1>1. PostsOK /\ HeardOK /\ clock \in Nat /\ spoken \in Nat
  BY DoorTyped DEF DeliveryInv
<1>2. /\ post[k].at \in {"fetching", "issued", "answered"} /\ Delivery!Fails(k)
      /\ UNCHANGED <<door, together, clock, urls, arrived, latest, token, spoken, heard>>
  BY DEF Delivery!Denied, Delivery!AnswerLost
<1>3. faults' \in 0 .. MaxFaults
  BY DoorTyped, DeliveryConstants DEF Delivery!Denied, Delivery!AnswerLost
<1>4. InHand(k)
  BY <1>1, <1>2, PostAtWork DEF Busy
<1>5. PICK what : what = [result |-> "failed", done |-> post[k].done, of |-> post[k].of]
  OBVIOUS
<1>6. Delivery!Tells(k, post[k].id, what)
  BY <1>2, <1>5 DEF Delivery!Fails
<1>7. what.result = "failed" /\ Len(heard[post[k].id]) - what.done \in 0 .. 1
  <2>1. post[k].done \in Nat /\ Len(heard[post[k].id]) = Took(post[k]) /\ what.done = post[k].done
    BY <1>4, <1>5 DEF InHand, PostRecord
  <2> QED BY <1>5, <2>1 DEF Took
<1>8. PostsOK' /\ HeardOK' /\ (Delivery!AnswerFindsItsWay => Delivery!AnswerFindsItsWay')
  BY <1>1, <1>2, <1>4, <1>6, <1>7, PostEnds
<1>9. TokenOK'
  BY <1>2 DEF DeliveryInv, TokenOK, Delivery!TokenKeepsItsMargin
<1> QED BY <1>2, <1>3, <1>8, <1>9, RestStands

\* The issuer grants from now on; what is kept of it counts from the question.
LEMMA TokenStep ==
    ASSUME DeliveryInv, NEW k \in Senders, Delivery!connector_token(k) \/ Delivery!access_token(k)
    PROVE  DeliveryInv'
<1>1. PostsOK /\ HeardOK /\ clock \in Nat /\ spoken \in Nat
  BY DoorTyped DEF DeliveryInv
<1>2. /\ post[k].at \in {"fetching", "issued"}
      /\ UNCHANGED <<door, together, clock, urls, arrived, latest, spoken, heard, report, faults>>
  BY DEF Delivery!connector_token, Delivery!access_token
<1>3. InHand(k) /\ post[k] \in PostRecord
  BY <1>1, <1>2, PostAtWork DEF Busy, InHand
<1>4. /\ post[k].done < post[k].of /\ Len(heard[post[k].id]) = Took(post[k]) /\ post[k].asked <= clock
      /\ post[k].asked \in Nat /\ post[k].granted \in Nat /\ post[k].dies \in Nat /\ Took(post[k]) = post[k].done
  BY <1>2, <1>3 DEF InHand, PostRecord, Took
<1>5. faults' \in 0 .. MaxFaults
  BY <1>2, DoorTyped
<1>6. CASE Delivery!connector_token(k)
  <2>1. PICK life \in Nat : post' = [post EXCEPT ![k] = [@ EXCEPT !.at = "issued", !.dies = clock + life, !.granted = life]]
    BY <1>6, DeliveryConstants DEF Delivery!connector_token
  <2>2. PICK r : r = [post[k] EXCEPT !.at = "issued", !.dies = clock + life, !.granted = life]
    OBVIOUS
  <2>3. clock + life \in Nat
    BY <1>1
  <2>4. /\ r \in PostRecord /\ r.id = post[k].id /\ r.done = post[k].done /\ r.of = post[k].of /\ r.asked = post[k].asked
        /\ r.at = "issued" /\ r.dies = clock + life /\ r.granted = life
    BY <1>3, <2>2, <2>3 DEF PostRecord
  <2>5. r.dies >= r.asked + r.granted /\ Len(heard'[r.id]) = Took(r) /\ post' = [post EXCEPT ![k] = r]
    BY <1>1, <1>2, <1>4, <2>1, <2>2, <2>4 DEF Took
  <2>6. PostsOK'
    BY <1>1, <1>2, <1>3, <1>4, <2>4, <2>5, GoesOnPosting
  <2>7. TokenOK'
    BY <1>6 DEF Delivery!connector_token, DeliveryInv, TokenOK, Delivery!TokenKeepsItsMargin
  <2> QED BY <1>1, <1>2, <1>5, <2>6, <2>7, WordsStand, RestStands
<1>7. CASE Delivery!access_token(k)
  <2>1. /\ post[k].at = "issued" /\ post' = [post EXCEPT ![k] = [@ EXCEPT !.at = "posting", !.asked = 0, !.granted = 0]]
        /\ token' = [until |-> Delivery!Until(post[k]), dies |-> post[k].dies, granted |-> post[k].granted]
    BY <1>7 DEF Delivery!access_token
  <2>2. PICK r : r = [post[k] EXCEPT !.at = "posting", !.asked = 0, !.granted = 0]
    OBVIOUS
  <2>3. /\ r \in PostRecord /\ r.id = post[k].id /\ r.done = post[k].done /\ r.of = post[k].of /\ r.asked = 0
        /\ r.at = "posting"
    BY <1>3, <2>2 DEF PostRecord
  <2>4. Len(heard'[r.id]) = Took(r) /\ post' = [post EXCEPT ![k] = r] /\ r.asked <= clock
    BY <1>1, <1>2, <1>4, <2>1, <2>2, <2>3 DEF Took
  <2>5. PostsOK'
    BY <1>1, <1>2, <1>3, <1>4, <2>3, <2>4, GoesOnPosting
  <2>6. TokenOK'
    <3>1. post[k].dies >= post[k].asked + post[k].granted
      BY <1>3, <2>1 DEF InHand
    <3>2. PICK u : u = Delivery!Until(post[k])
      OBVIOUS
    <3>3. ASSUME post[k].granted >= Floor + Margin PROVE u + Margin <= post[k].dies
      <4>1. u = post[k].asked + (post[k].granted - Margin)
        BY <1>4, <3>2, <3>3, DeliveryConstants DEF Delivery!Until
      <4> QED BY <1>4, <3>1, <4>1, DeliveryConstants
    <3>4. token'.until = u /\ token'.dies = post[k].dies /\ token'.granted = post[k].granted
      BY <2>1, <3>2
    <3> QED BY <1>4, <3>3, <3>4 DEF TokenOK, Delivery!TokenKeepsItsMargin
  <2> QED BY <1>1, <1>2, <1>5, <2>5, <2>6, WordsStand, RestStands
<1> QED BY <1>6, <1>7

LEMMA AnswerStep ==
    ASSUME DeliveryInv, NEW k \in Senders, Delivery!Accepts(k) \/ Delivery!Refuses(k)
    PROVE  DeliveryInv'
<1>1. PostsOK /\ HeardOK /\ clock \in Nat /\ spoken \in Nat
  BY DoorTyped DEF DeliveryInv
<1>2. PICK t \in BOOLEAN :
        /\ post' = [post EXCEPT ![k] = [@ EXCEPT !.at = "answered", !.taken = t]]
        /\ IF t THEN heard' = [heard EXCEPT ![post[k].id] = Append(@, post[k].done + 1)] ELSE heard' = heard
  BY DEF Delivery!Accepts, Delivery!Refuses, Delivery!Answers
<1>3. /\ post[k].at = "posting"
      /\ UNCHANGED <<door, together, clock, urls, arrived, latest, token, spoken, report, faults>>
  BY DEF Delivery!Accepts, Delivery!Refuses, Delivery!Answers
<1>4. InHand(k) /\ post[k] \in PostRecord
  BY <1>1, <1>3, PostAtWork DEF Busy, InHand
<1>5. PICK i \in Delivery!Sends : i = post[k].id /\ i <= spoken /\ report[i].result = "none"
  BY <1>4 DEF InHand, PostRecord
<1>6. PICK d \in Nat : d = post[k].done
  BY <1>4 DEF PostRecord
<1>7. Len(heard[i]) = d /\ post[k].asked <= clock /\ d < post[k].of
  BY <1>3, <1>4, <1>5, <1>6 DEF InHand, Took
<1>8. PICK r : r = [post[k] EXCEPT !.at = "answered", !.taken = t]
  OBVIOUS
<1>9. /\ r \in PostRecord /\ r.id = i /\ r.done = d /\ r.of = post[k].of /\ r.asked = post[k].asked
      /\ r.at = "answered" /\ r.taken = t
  BY <1>4, <1>5, <1>6, <1>8 DEF PostRecord
<1>10. PICK q : q = IF t THEN Append(heard[i], d + 1) ELSE heard[i]
  OBVIOUS
<1>11. heard[i] \in Seq(Nat) /\ \A n \in 1 .. d : heard[i][n] = n
  BY <1>1, <1>7 DEF HeardOK, Delivery!PiecesInOrder
<1>12. q \in Seq(Nat) /\ Len(q) = Took(r) /\ \A n \in 1 .. Len(q) : q[n] = n
  <2>1. CASE t
    <3>1. d + 1 \in Nat /\ q = Append(heard[i], d + 1)
      BY <1>10, <2>1
    <3>2. q \in Seq(Nat) /\ Len(q) = d + 1 /\ q[d + 1] = d + 1 /\ \A n \in 1 .. d : q[n] = heard[i][n]
      BY <1>7, <1>11, <3>1, AppendProperties
    <3>3. \A n \in 1 .. Len(q) : q[n] = n
      <4> TAKE n \in 1 .. Len(q)
      <4>1. CASE n = d + 1
        BY <3>2, <4>1
      <4>2. CASE n \in 1 .. d
        BY <1>11, <3>2, <4>2
      <4> QED BY <3>2, <4>1, <4>2
    <3> QED BY <1>9, <2>1, <3>2, <3>3 DEF Took
  <2>2. CASE ~t
    BY <1>7, <1>9, <1>10, <1>11, <2>2 DEF Took
  <2> QED BY <2>1, <2>2
<1>13. heard' = [heard EXCEPT ![i] = q]
  <2>1. CASE t
    BY <1>2, <1>5, <1>6, <1>10, <2>1
  <2>2. CASE ~t
    BY <1>1, <1>2, <1>10, <2>2 DEF HeardOK
  <2> QED BY <2>1, <2>2
<1>14. heard' \in [Delivery!Sends -> Seq(Nat)] /\ heard'[i] = q /\ \A n \in Delivery!Sends \ {i} : heard'[n] = heard[n]
  BY <1>1, <1>12, <1>13 DEF HeardOK
<1>15. PostsOK'
  <2>1. post' = [post EXCEPT ![k] = r]
    BY <1>2, <1>8
  <2> QED BY <1>1, <1>3, <1>4, <1>5, <1>7, <1>9, <1>12, <1>14, <2>1, GoesOnPosting
<1>16. HeardOK'
  <2>1. Delivery!PiecesInOrder'
    BY <1>1, <1>12, <1>14 DEF HeardOK, Delivery!PiecesInOrder
  <2>2. Delivery!ReportIsHonest'
    BY <1>1, <1>3, <1>5, <1>14 DEF HeardOK, Delivery!ReportIsHonest
  <2>3. \A n \in Delivery!Sends : n > spoken' => n # i
    BY <1>1, <1>3, <1>5 DEF Delivery!Sends
  <2> QED BY <1>1, <1>3, <1>14, <2>1, <2>2, <2>3 DEF HeardOK
<1>17. Delivery!AnswerFindsItsWay => Delivery!AnswerFindsItsWay'
  BY <1>3 DEF Delivery!AnswerFindsItsWay
<1>18. TokenOK' /\ faults' \in 0 .. MaxFaults
  BY <1>3, DoorTyped DEF DeliveryInv, TokenOK, Delivery!TokenKeepsItsMargin
<1> QED BY <1>3, <1>15, <1>16, <1>17, <1>18, RestStands

LEMMA ReadStep == ASSUME DeliveryInv, NEW k \in Senders, Delivery!Read(k) PROVE DeliveryInv'
<1>1. PostsOK /\ HeardOK /\ clock \in Nat /\ spoken \in Nat
  BY DoorTyped DEF DeliveryInv
<1>2. /\ post[k].at = "answered"
      /\ UNCHANGED <<door, together, clock, urls, arrived, latest, token, spoken, heard, faults>>
  BY DEF Delivery!Read
<1>3. InHand(k) /\ post[k] \in PostRecord
  BY <1>1, <1>2, PostAtWork DEF Busy, InHand
<1>4. /\ post[k].done \in Nat /\ post[k].of \in Nat /\ post[k].done < post[k].of /\ post[k].asked <= clock
      /\ Len(heard[post[k].id]) = IF post[k].taken THEN post[k].done + 1 ELSE post[k].done
  BY <1>2, <1>3 DEF InHand, PostRecord, Took
<1>5. faults' \in 0 .. MaxFaults /\ TokenOK'
  BY <1>2, DoorTyped DEF DeliveryInv, TokenOK, Delivery!TokenKeepsItsMargin
<1>6. CASE ~post[k].taken /\ Delivery!Fails(k)
  <2>1. PICK what : what = [result |-> "failed", done |-> post[k].done, of |-> post[k].of]
    OBVIOUS
  <2>2. Delivery!Tells(k, post[k].id, what) /\ what.result = "failed" /\ what.done = post[k].done
    BY <1>6, <2>1 DEF Delivery!Fails
  <2>3. Len(heard[post[k].id]) - what.done \in 0 .. 1
    BY <1>4, <1>6, <2>2
  <2>4. PostsOK' /\ HeardOK' /\ (Delivery!AnswerFindsItsWay => Delivery!AnswerFindsItsWay')
    BY <1>1, <1>2, <1>3, <2>2, <2>3, PostEnds
  <2> QED BY <1>2, <1>5, <2>4, RestStands
<1>7. CASE post[k].taken /\ ~(post[k].done + 1 < post[k].of)
           /\ Delivery!Tells(k, post[k].id, [result |-> "sent", done |-> post[k].of, of |-> post[k].of])
  <2>1. PICK what : what = [result |-> "sent", done |-> post[k].of, of |-> post[k].of]
    OBVIOUS
  <2>2. Delivery!Tells(k, post[k].id, what) /\ what.result = "sent" /\ what.of = post[k].of
    BY <1>7, <2>1
  <2>3. Len(heard[post[k].id]) = what.of
    BY <1>4, <1>7, <2>2
  <2>4. PostsOK' /\ HeardOK' /\ (Delivery!AnswerFindsItsWay => Delivery!AnswerFindsItsWay')
    BY <1>1, <1>2, <1>3, <2>2, <2>3, PostEnds
  <2> QED BY <1>2, <1>5, <2>4, RestStands
<1>8. CASE post[k].taken /\ post[k].done + 1 < post[k].of /\ Delivery!Next_piece(k)
  <2>1. PICK r : r = [post[k] EXCEPT !.at = "posting", !.done = post[k].done + 1]
    OBVIOUS
  <2>2. PICK d \in Nat : d = post[k].done + 1
    BY <1>4
  <2>3. /\ r \in PostRecord /\ r.id = post[k].id /\ r.done = d /\ r.of = post[k].of
        /\ r.asked = post[k].asked /\ r.at = "posting"
    BY <1>3, <2>1, <2>2 DEF PostRecord
  <2>4. post' = [post EXCEPT ![k] = r] /\ UNCHANGED report
    BY <1>8, <2>1 DEF Delivery!Next_piece
  <2>5. Len(heard'[r.id]) = Took(r) /\ r.done < r.of /\ r.asked <= clock
    BY <1>2, <1>4, <1>8, <2>2, <2>3 DEF Took
  <2>6. PostsOK'
    BY <1>1, <1>2, <1>3, <2>3, <2>4, <2>5, GoesOnPosting
  <2> QED BY <1>1, <1>2, <1>5, <2>4, <2>6, WordsStand, RestStands
<1> QED BY <1>6, <1>7, <1>8 DEF Delivery!Read, Delivery!Succeeded

\* What a send sets out with, and what it leaves of the rest.
LEMMA SetsOut ==
    ASSUME DeliveryInv, NEW k \in Senders, NEW c \in Conversations, Delivery!send(k, c)
    PROVE  DeliveryInv'
<1>1. PostsOK /\ HeardOK /\ clock \in Nat /\ spoken \in Nat /\ TokenOK
  BY DoorTyped DEF DeliveryInv
<1>2. /\ post[k].at = "idle" /\ spoken < Sendings /\ spoken' = spoken + 1
      /\ UNCHANGED <<door, together, clock, urls, arrived, latest, token, heard, report, faults>>
  BY DEF Delivery!send, Delivery!Speaks
<1>3. PICK n \in Delivery!_split_message :
        post' = [post EXCEPT ![k] = Delivery!Ready([at |-> "idle", id |-> spoken', of |-> n, done |-> 0,
                                                    asked |-> clock, dies |-> 0, granted |-> 0, taken |-> FALSE])]
  BY DEF Delivery!send
<1>4. PICK i \in Delivery!Sends : i = spoken' /\ i > spoken /\ i \in Nat
  BY <1>1, <1>2, DeliveryConstants DEF Delivery!Sends
<1>5. n \in Nat /\ 0 < n
  BY DeliveryConstants DEF Delivery!_split_message
<1>6. PICK j : j = [at |-> "idle", id |-> i, of |-> n, done |-> 0, asked |-> clock, dies |-> 0, granted |-> 0, taken |-> FALSE]
  OBVIOUS
<1>7. PICK r : r = Delivery!Ready(j)
  OBVIOUS
<1>8. /\ r \in PostRecord /\ r.id = i /\ r.done = 0 /\ r.of = n /\ r.asked <= clock /\ r.at \in {"posting", "fetching"}
  <2> DEFINE set(at_, asked_, dies_) ==
               [at |-> at_, id |-> i, of |-> n, done |-> 0, asked |-> asked_, dies |-> dies_, granted |-> 0, taken |-> FALSE]
  <2>1. ASSUME NEW a \in {"posting", "fetching"}, NEW q \in Nat, q <= clock, NEW d \in Nat, r = set(a, q, d)
        PROVE  r \in PostRecord /\ r.id = i /\ r.done = 0 /\ r.of = n /\ r.asked <= clock /\ r.at \in {"posting", "fetching"}
    BY <1>4, <1>5, <2>1 DEF PostRecord
  <2>2. 0 <= clock /\ clock <= clock
    BY <1>1
  <2>3. CASE r = [j EXCEPT !.at = "posting", !.asked = 0]
    <3>1. r = set("posting", 0, 0)
      BY <1>6, <2>3
    <3> QED BY <2>1, <2>2, <3>1
  <2>4. CASE token # NoToken /\ r = [j EXCEPT !.at = "posting", !.asked = 0, !.dies = token.dies]
    <3>1. token.dies \in Nat
      BY <1>1, <2>4 DEF TokenOK
    <3>2. r = set("posting", 0, token.dies)
      BY <1>6, <2>4
    <3> QED BY <2>1, <2>2, <3>1, <3>2
  <2>5. CASE r = [j EXCEPT !.at = "fetching"]
    <3>1. r = set("fetching", clock, 0)
      BY <1>6, <2>5
    <3> QED BY <1>1, <2>1, <2>2, <3>1
  <2> QED BY <1>7, <2>3, <2>4, <2>5 DEF Delivery!Ready
<1>9. /\ DOMAIN post' = Senders /\ post'[k] = r /\ \A o \in Senders \ {k} : post'[o] = post[o]
  BY <1>1, <1>3, <1>4, <1>6, <1>7 DEF PostsOK
<1>10. heard[i] = << >> /\ report[i].result = "none" /\ Len(heard[i]) = 0
  BY <1>1, <1>4 DEF HeardOK
<1>11. InHand(k)'
  <2>1. Took(r) = 0
    BY <1>8 DEF Took
  <2>2. report'[i].result = "none" /\ Len(heard'[i]) = 0 /\ i <= spoken' /\ clock' = clock
    BY <1>2, <1>4, <1>10
  <2> QED BY <1>5, <1>8, <1>9, <2>1, <2>2 DEF InHand
<1>12. ASSUME NEW o \in Senders \ {k}, Busy(o)'
       PROVE  Busy(o) /\ InHand(o)' /\ post'[o].id # i /\ post'[o].id = post[o].id
  <2>1. Busy(o) /\ InHand(o) /\ post'[o] = post[o]
    BY <1>1, <1>9, <1>12, PostAtWork DEF Busy
  <2>2. post[o].id <= spoken /\ post[o].id \in Nat
    BY <2>1, DeliveryConstants DEF InHand, PostRecord, Delivery!Sends
  <2>3. spoken' >= spoken /\ spoken' \in Nat /\ clock' >= clock /\ clock' \in Nat
        /\ report'[post[o].id] = report[post[o].id] /\ heard'[post[o].id] = heard[post[o].id]
    BY <1>1, <1>2
  <2>4. InHand(o)'
    BY <1>1, <2>1, <2>3, OthersKeep
  <2> QED BY <1>1, <1>4, <2>1, <2>2, <2>4
<1>13. PostsOK'
  <2>1. \A o \in Senders : post'[o] = Delivery!Resting \/ InHand(o)'
    <3> TAKE o \in Senders
    <3>1. CASE o = k
      BY <1>11, <3>1
    <3>2. CASE o # k /\ Busy(o)'
      BY <1>12, <3>2
    <3>3. CASE o # k /\ ~Busy(o)'
      <4>1. post'[o] = post[o] /\ ~Busy(o)
        BY <1>9, <3>3 DEF Busy
      <4>2. ~InHand(o)
        BY <4>1 DEF Busy, InHand, PostRecord
      <4> QED BY <1>1, <4>1, <4>2 DEF PostsOK
    <3> QED BY <3>1, <3>2, <3>3
  <2>2. \A o, p \in Senders : Busy(o)' /\ Busy(p)' /\ post'[o].id = post'[p].id => o = p
    <3> TAKE o, p \in Senders
    <3> HAVE Busy(o)' /\ Busy(p)' /\ post'[o].id = post'[p].id
    <3>1. CASE o = k \/ p = k
      BY <1>8, <1>9, <1>12, <3>1
    <3>2. CASE o # k /\ p # k
      BY <1>1, <1>12, <3>2 DEF PostsOK
    <3> QED BY <3>1, <3>2
  <2> QED BY <1>9, <2>1, <2>2 DEF PostsOK
<1>14. HeardOK' /\ (Delivery!AnswerFindsItsWay => Delivery!AnswerFindsItsWay')
  <2>1. \A m \in Delivery!Sends : m > spoken' => m > spoken
    BY <1>1, <1>2, DeliveryConstants DEF Delivery!Sends
  <2>2. Delivery!ReportIsHonest' /\ Delivery!PiecesInOrder' /\ (Delivery!AnswerFindsItsWay => Delivery!AnswerFindsItsWay')
    BY <1>1, <1>2 DEF HeardOK, Delivery!ReportIsHonest, Delivery!PiecesInOrder, Delivery!AnswerFindsItsWay
  <2> QED BY <1>1, <1>2, <2>1, <2>2 DEF HeardOK
<1>15. DoorOK' /\ UrlsOK'
  <2>1. spoken' \in 0 .. Sendings
    BY <1>1, <1>2, DeliveryConstants
  <2> QED BY <1>2, <2>1, AddressesStand DEF DeliveryInv, DoorOK
<1>16. TokenOK' /\ Delivery!FindsItsWayTogether'
  BY <1>2, <1>14 DEF DeliveryInv, TokenOK, Delivery!TokenKeepsItsMargin, Delivery!FindsItsWayTogether
<1> QED BY <1>13, <1>14, <1>15, <1>16 DEF DeliveryInv

\* Whoever has written to a process that speaks itself is reached, unless more
\* wrote than it remembers.
LEMMA NotReachedStep ==
    ASSUME DeliveryInv, NEW k \in Senders, NEW c \in Conversations, Delivery!NotReached(k, c)
    PROVE  DeliveryInv'
<1>1. PostsOK /\ HeardOK /\ UrlsOK /\ clock \in Nat /\ spoken \in Nat
  BY DoorTyped DEF DeliveryInv
<1>2. PICK what : what = [result |-> "unreached", written |-> c \in arrived /\ Delivery!Cardinality(arrived) <= UrlLimit]
  OBVIOUS
<1>3. /\ post[k].at = "idle" /\ spoken < Sendings /\ spoken' = spoken + 1 /\ c \notin Delivery!Range(urls["core"])
      /\ Delivery!Tells(k, spoken', what)
      /\ UNCHANGED <<door, together, clock, urls, arrived, latest, token, heard, faults>>
  BY <1>2 DEF Delivery!NotReached, Delivery!Speaks
<1>4. PICK i \in Delivery!Sends : i = spoken' /\ i > spoken /\ i \in Nat
  BY <1>1, <1>3, DeliveryConstants DEF Delivery!Sends
<1>5. /\ DOMAIN post' = Senders /\ post'[k] = Delivery!Resting /\ \A o \in Senders \ {k} : post'[o] = post[o]
      /\ DOMAIN report' = Delivery!Sends /\ report'[i] = what /\ \A m \in Delivery!Sends \ {i} : report'[m] = report[m]
  BY <1>1, <1>3, <1>4 DEF PostsOK, HeardOK, Delivery!Tells
<1>6. \A o \in Senders : post'[o] = post[o]
  <2>1. ~Busy(k) /\ (InHand(k) => Busy(k))
    BY <1>3 DEF Busy, InHand, PostRecord
  <2>2. post[k] = Delivery!Resting
    BY <1>1, <2>1 DEF PostsOK
  <2> QED BY <1>5, <2>2
<1>7. PostsOK'
  <2>1. ASSUME NEW o \in Senders PROVE post'[o] = Delivery!Resting \/ InHand(o)'
    <3>1. CASE post[o] = Delivery!Resting
      BY <1>6, <3>1
    <3>2. CASE InHand(o)
      <4>1. post[o].id <= spoken /\ post[o].id \in Delivery!Sends /\ post[o].id \in Nat
        BY <3>2, DeliveryConstants DEF InHand, PostRecord, Delivery!Sends
      <4>2. post[o].id # i
        BY <1>1, <1>4, <4>1
      <4>3. /\ report'[post[o].id] = report[post[o].id] /\ heard'[post[o].id] = heard[post[o].id] /\ post'[o] = post[o]
            /\ spoken' >= spoken /\ spoken' \in Nat /\ clock' >= clock /\ clock' \in Nat
        BY <1>1, <1>3, <1>5, <1>6, <4>1, <4>2
      <4> QED BY <1>1, <3>2, <4>3, OthersKeep
    <3> QED BY <1>1, <3>1, <3>2 DEF PostsOK
  <2>2. \A o, p \in Senders : Busy(o)' /\ Busy(p)' /\ post'[o].id = post'[p].id => o = p
    BY <1>1, <1>6 DEF PostsOK, Busy
  <2> QED BY <1>5, <2>1, <2>2 DEF PostsOK
<1>8. HeardOK'
  <2>1. ASSUME NEW m \in Delivery!Sends
        PROVE  /\ report'[m].result \in {"none", "sent", "failed", "unreached"}
               /\ m > spoken' => heard'[m] = << >> /\ report'[m].result = "none"
               /\ report'[m].result = "sent" => Len(heard'[m]) = report'[m].of
               /\ report'[m].result = "failed" => Len(heard'[m]) - report'[m].done \in 0 .. 1
    <3>1. m \in Nat
      BY DeliveryConstants DEF Delivery!Sends
    <3>2. CASE m = i
      <4>1. report'[m].result = "unreached" /\ ~(m > spoken')
        BY <1>2, <1>4, <1>5, <3>2
      <4> QED BY <4>1
    <3>3. CASE m # i
      <4>1. m > spoken' => m > spoken
        BY <1>1, <1>3, <3>1
      <4> QED BY <1>1, <1>3, <1>5, <3>3, <4>1 DEF HeardOK, Delivery!ReportIsHonest
    <3> QED BY <3>2, <3>3
  <2>2. Delivery!ReportIsHonest'
    BY <2>1 DEF Delivery!ReportIsHonest
  <2>3. Delivery!PiecesInOrder'
    BY <1>1, <1>3 DEF HeardOK, Delivery!PiecesInOrder
  <2> QED BY <1>1, <1>3, <1>5, <2>1, <2>2, <2>3 DEF HeardOK
<1>9. Delivery!FindsItsWayTogether'
  <2> SUFFICES ASSUME together PROVE Delivery!AnswerFindsItsWay'
    BY <1>3 DEF Delivery!FindsItsWayTogether
  <2>1. ~what.written
    <3>1. Cardinality(arrived) <= UrlLimit => c \notin arrived
      BY <1>1, <1>3 DEF UrlsOK
    <3> QED BY <1>2, <3>1, DeliveryOperators
  <2>2. Delivery!AnswerFindsItsWay
    BY DEF DeliveryInv, Delivery!FindsItsWayTogether
  <2>3. \A m \in Delivery!Sends : report'[m].result = "unreached" => ~report'[m].written
    BY <1>5, <2>1, <2>2 DEF Delivery!AnswerFindsItsWay
  <2> QED BY <2>3 DEF Delivery!AnswerFindsItsWay
<1>10. DoorOK' /\ UrlsOK' /\ TokenOK'
  <2>1. spoken' \in 0 .. Sendings
    BY <1>1, <1>3, DeliveryConstants
  <2>2. UrlsOK'
    BY <1>1, <1>3, AddressesStand
  <2> QED BY <1>3, <2>1, <2>2 DEF DeliveryInv, DoorOK, TokenOK, Delivery!TokenKeepsItsMargin
<1> QED BY <1>7, <1>8, <1>9, <1>10 DEF DeliveryInv

LEMMA TheListener == Delivery!Listener \in Delivery!Processes /\ (together => Delivery!Listener = "core")
  BY DEF Delivery!Listener, Delivery!Processes

\* More are remembered than the cache holds only where more wrote.
LEMMA TooManyWrote ==
    ASSUME NEW q, AddressesOK(q), Len(q) = UrlLimit, NEW S, IsFiniteSet(S), NEW c \in S, c \notin Delivery!Range(q),
           Delivery!Range(q) \subseteq S
    PROVE  Cardinality(S) > UrlLimit
<1>1. q \in Seq(Conversations) /\ Len(q) = UrlLimit /\ \A m, n \in 1 .. Len(q) : q[m] = q[n] => m = n
  BY DEF AddressesOK
<1>2. IsFiniteSet(S \ {c}) /\ Cardinality(S \ {c}) = Cardinality(S) - 1 /\ Cardinality(S) \in Nat
  BY FS_RemoveElement, FS_CardinalityType
<1>3. PICK f : f = [m \in 1 .. UrlLimit |-> q[m]]
  OBVIOUS
<1>4. \A m \in 1 .. UrlLimit : q[m] \in S \ {c}
  BY <1>1, InTheRange
<1>5. f \in Injection(1 .. UrlLimit, S \ {c})
  <2>1. f \in [1 .. UrlLimit -> S \ {c}]
    BY <1>3, <1>4
  <2>2. \A m, n \in 1 .. UrlLimit : f[m] = f[n] => m = n
    BY <1>1, <1>3
  <2> QED BY <2>1, <2>2 DEF Injection, IsInjective
<1>6. Cardinality(1 .. UrlLimit) <= Cardinality(S \ {c})
  BY <1>2, <1>5, FS_Injection
<1>7. Cardinality(1 .. UrlLimit) = UrlLimit
  BY FS_Interval, DeliveryConstants
<1> QED BY <1>2, <1>6, <1>7, DeliveryConstants

LEMMA WebhookStep == ASSUME DeliveryInv, NEW c \in Conversations, Delivery!handle_webhook(c) PROVE DeliveryInv'
<1>1. PostsOK /\ HeardOK /\ UrlsOK /\ TokenOK /\ DoorOK
  BY DEF DeliveryInv
<1>2. /\ urls' = [urls EXCEPT ![Delivery!Listener] = Delivery!remember_service_url(@, c)]
      /\ arrived' = arrived \cup {c} /\ latest' = c
      /\ UNCHANGED <<door, together, clock, token, post, spoken, heard, report, faults>>
  BY DEF Delivery!handle_webhook
<1>3. PICK l \in Delivery!Processes : l = Delivery!Listener /\ (together => l = "core")
  BY TheListener
<1>4. PICK q : q = urls[l] /\ AddressesOK(q)
  BY <1>1 DEF UrlsOK
<1>5. PICK r : r = Delivery!remember_service_url(q, c)
  OBVIOUS
<1>6. /\ AddressesOK(r) /\ c \in Delivery!Range(r)
      /\ \A x : x \in Delivery!Range(r) => x \in Delivery!Range(q) \/ x = c
      /\ \/ c \notin Delivery!Range(q) /\ Len(q) = UrlLimit
         \/ \A x : x \in Delivery!Range(q) => x \in Delivery!Range(r)
  BY <1>4, <1>5, Remembers
<1>7. DOMAIN urls' = Delivery!Processes /\ urls'[l] = r /\ \A p \in Delivery!Processes \ {l} : urls'[p] = urls[p]
  BY <1>1, <1>2, <1>3, <1>4, <1>5 DEF UrlsOK
<1>8. IsFiniteSet(arrived') /\ arrived' \subseteq Conversations
  BY <1>1, <1>2, FS_AddElement DEF UrlsOK
<1>9. Delivery!LastOneIsKnown'
  <2>1. Delivery!Listener' = Delivery!Listener
    BY <1>2 DEF Delivery!Listener
  <2>2. urls'[Delivery!Listener] = r
    BY <1>3, <1>7
  <2> QED BY <1>2, <1>6, <2>1, <2>2 DEF Delivery!LastOneIsKnown
<1>10. ASSUME together'
       PROVE  /\ Delivery!Range(urls'["core"]) \subseteq arrived'
              /\ Cardinality(arrived') <= UrlLimit => arrived' \subseteq Delivery!Range(urls'["core"])
  <2>1. q = urls["core"] /\ r = urls'["core"] /\ together
    BY <1>2, <1>3, <1>4, <1>7, <1>10
  <2>2. /\ Delivery!Range(q) \subseteq arrived
        /\ Cardinality(arrived) <= UrlLimit => arrived \subseteq Delivery!Range(q)
    BY <1>1, <2>1 DEF UrlsOK
  <2>3. Delivery!Range(r) \subseteq arrived'
    BY <1>2, <1>6, <2>2
  <2>4. ASSUME Cardinality(arrived') <= UrlLimit PROVE arrived' \subseteq Delivery!Range(r)
    <3>1. Cardinality(arrived) <= Cardinality(arrived') /\ Cardinality(arrived) \in Nat /\ Cardinality(arrived') \in Nat
      <4>1. arrived \in SUBSET arrived'
        BY <1>2
      <4>2. IsFiniteSet(arrived)
        BY <1>1 DEF UrlsOK
      <4> QED BY <1>8, <4>1, <4>2, FS_Subset, FS_CardinalityType
    <3>2. arrived \subseteq Delivery!Range(q)
      BY <2>2, <2>4, <3>1, DeliveryConstants
    <3>3. ~(c \notin Delivery!Range(q) /\ Len(q) = UrlLimit)
      <4>1. SUFFICES ASSUME c \notin Delivery!Range(q), Len(q) = UrlLimit PROVE FALSE
        OBVIOUS
      <4>2. c \in arrived' /\ Delivery!Range(q) \subseteq arrived'
        BY <1>2, <2>2
      <4>3. Cardinality(arrived') > UrlLimit
        BY <1>4, <1>8, <4>1, <4>2, TooManyWrote
      <4> QED BY <2>4, <3>1, <4>3, DeliveryConstants
    <3> QED BY <1>2, <1>6, <3>2, <3>3
  <2> QED BY <2>1, <2>3, <2>4
<1>11. UrlsOK'
  <2>1. \A p \in Delivery!Processes : AddressesOK(urls'[p])
    BY <1>1, <1>6, <1>7 DEF UrlsOK
  <2> QED BY <1>2, <1>7, <1>8, <1>9, <1>10, <2>1 DEF UrlsOK
<1>12. PostsOK'
  BY <1>1, <1>2 DEF PostsOK, InHand, Busy
<1>13. DoorOK' /\ TokenOK'
  BY <1>1, <1>2 DEF DoorOK, TokenOK, Delivery!TokenKeepsItsMargin
<1>14. HeardOK' /\ Delivery!FindsItsWayTogether'
  BY <1>1, <1>2, WordsStand DEF DeliveryInv, Delivery!FindsItsWayTogether
<1> QED BY <1>11, <1>12, <1>13, <1>14 DEF DeliveryInv

LEMMA TickStep == ASSUME DeliveryInv, Delivery!Tick PROVE DeliveryInv'
<1>1. PostsOK /\ HeardOK /\ UrlsOK /\ TokenOK /\ DoorOK /\ clock \in Nat /\ spoken \in Nat
  BY DoorTyped DEF DeliveryInv
<1>2. /\ clock < MaxClock /\ clock' = clock + 1
      /\ UNCHANGED <<door, together, urls, arrived, latest, token, post, spoken, heard, report, faults>>
  BY DEF Delivery!Tick
<1>3. PostsOK'
  <2>1. spoken' >= spoken /\ spoken' \in Nat /\ clock' >= clock /\ clock' \in Nat
    BY <1>1, <1>2
  <2>2. ASSUME NEW o \in Senders PROVE post'[o] = Delivery!Resting \/ InHand(o)'
    <3>1. CASE post[o] = Delivery!Resting
      BY <1>2, <3>1
    <3>2. CASE InHand(o)
      <4>1. post'[o] = post[o] /\ report'[post[o].id] = report[post[o].id] /\ heard'[post[o].id] = heard[post[o].id]
        BY <1>2
      <4> QED BY <1>1, <2>1, <3>2, <4>1, OthersKeep
    <3> QED BY <1>1, <3>1, <3>2 DEF PostsOK
  <2> QED BY <1>1, <1>2, <2>2 DEF PostsOK, Busy
<1>4. DoorOK'
  <2>1. clock' \in 0 .. MaxClock
    BY <1>1, <1>2, DeliveryConstants
  <2> QED BY <1>1, <1>2, <2>1 DEF DoorOK
<1>5. UrlsOK' /\ TokenOK'
  BY <1>1, <1>2, AddressesStand DEF TokenOK, Delivery!TokenKeepsItsMargin
<1>6. HeardOK' /\ Delivery!FindsItsWayTogether'
  BY <1>1, <1>2, WordsStand DEF DeliveryInv, Delivery!FindsItsWayTogether
<1> QED BY <1>3, <1>4, <1>5, <1>6 DEF DeliveryInv

\* Nothing of a process's memory survives it; where one hears and speaks, it
\* forgets both together.
LEMMA RestartStep == ASSUME DeliveryInv, NEW p \in Delivery!Processes, Delivery!Restart(p) PROVE DeliveryInv'
<1>1. PostsOK /\ HeardOK /\ UrlsOK /\ TokenOK /\ DoorOK /\ clock \in Nat /\ spoken \in Nat
  BY DoorTyped DEF DeliveryInv
<1>2. /\ together => p = "core"
      /\ urls' = [urls EXCEPT ![p] = << >>] /\ arrived' = {} /\ latest' = "nobody"
      /\ \/ token' = NoToken /\ post' = [k \in Senders |-> Delivery!Resting]
         \/ UNCHANGED <<token, post>>
      /\ UNCHANGED <<door, together, clock, spoken, heard, report>>
  BY DEF Delivery!Restart
<1>3. faults' \in 0 .. MaxFaults
  BY DoorTyped, DeliveryConstants DEF Delivery!Restart
<1>4. PostsOK'
  <2>1. CASE post' = [k \in Senders |-> Delivery!Resting]
    BY <2>1 DEF PostsOK, Busy, Delivery!Resting
  <2>2. CASE post' = post
    BY <1>1, <1>2, <2>2 DEF PostsOK, InHand, Busy
  <2> QED BY <1>2, <2>1, <2>2
<1>5. TokenOK'
  BY <1>1, <1>2 DEF TokenOK, Delivery!TokenKeepsItsMargin
<1>6. UrlsOK'
  <2>1. AddressesOK(<< >>) /\ Delivery!Range(<< >>) = {}
    <3>1. << >> \in Seq(Conversations) /\ Len(<< >>) = 0
      OBVIOUS
    <3>2. Delivery!Range(<< >>) = {}
      BY NobodyKept
    <3> QED BY <3>1, <3>2, DeliveryConstants DEF AddressesOK
  <2>2. DOMAIN urls' = Delivery!Processes /\ urls'[p] = << >> /\ \A o \in Delivery!Processes \ {p} : urls'[o] = urls[o]
    BY <1>1, <1>2 DEF UrlsOK
  <2>3. \A o \in Delivery!Processes : AddressesOK(urls'[o])
    BY <1>1, <2>1, <2>2 DEF UrlsOK
  <2>4. Delivery!LastOneIsKnown'
    BY <1>2 DEF Delivery!LastOneIsKnown
  <2>5. together' => Delivery!Range(urls'["core"]) = {}
    BY <1>2, <2>1, <2>2
  <2>6. IsFiniteSet(arrived')
    BY <1>2, FS_EmptySet
  <2> QED BY <1>2, <2>2, <2>3, <2>4, <2>5, <2>6 DEF UrlsOK
<1>7. DoorOK'
  BY <1>1, <1>2, <1>3 DEF DoorOK
<1>8. HeardOK' /\ Delivery!FindsItsWayTogether'
  BY <1>1, <1>2, WordsStand DEF DeliveryInv, Delivery!FindsItsWayTogether
<1> QED BY <1>4, <1>5, <1>6, <1>7, <1>8 DEF DeliveryInv

LEMMA DeliveryNext == ASSUME DeliveryInv, Delivery!Next PROVE DeliveryInv'
<1>1. ASSUME NEW c \in Conversations, Delivery!handle_webhook(c) PROVE DeliveryInv'
  BY <1>1, WebhookStep
<1>2. ASSUME NEW k \in Senders, NEW c \in Conversations, Delivery!send(k, c) \/ Delivery!NotReached(k, c) PROVE DeliveryInv'
  BY <1>2, SetsOut, NotReachedStep
<1>3. ASSUME NEW k \in Senders, Delivery!connector_token(k) \/ Delivery!access_token(k) PROVE DeliveryInv'
  BY <1>3, TokenStep
<1>4. ASSUME NEW k \in Senders, Delivery!Denied(k) \/ Delivery!AnswerLost(k) PROVE DeliveryInv'
  BY <1>4, PostFailsStep
<1>5. ASSUME NEW k \in Senders, Delivery!Accepts(k) \/ Delivery!Refuses(k) PROVE DeliveryInv'
  BY <1>5, AnswerStep
<1>6. ASSUME NEW k \in Senders, Delivery!Read(k) PROVE DeliveryInv'
  BY <1>6, ReadStep
<1>7. CASE Delivery!Tick
  BY <1>7, TickStep
<1>8. ASSUME NEW p \in Delivery!Processes, Delivery!Restart(p) PROVE DeliveryInv'
  BY <1>8, RestartStep
<1> QED BY <1>1, <1>2, <1>3, <1>4, <1>5, <1>6, <1>7, <1>8 DEF Delivery!Next

LEMMA DeliveryInit == ASSUME Delivery!Init PROVE DeliveryInv
<1>1. /\ door \in Delivery!Doors /\ together \in BOOLEAN /\ clock = 0 /\ arrived = {} /\ latest = "nobody"
      /\ urls = [p \in Delivery!Processes |-> << >>] /\ token = NoToken /\ spoken = 0 /\ faults = 0
      /\ post = [k \in Senders |-> Delivery!Resting]
      /\ heard = [i \in Delivery!Sends |-> << >>] /\ report = [i \in Delivery!Sends |-> Delivery!Untold]
  BY DEF Delivery!Init
<1>2. DoorOK /\ TokenOK
  BY <1>1, DeliveryConstants DEF DoorOK, TokenOK, Delivery!TokenKeepsItsMargin
<1>3. PostsOK
  BY <1>1 DEF PostsOK, Busy, Delivery!Resting
<1>4. \A i \in Delivery!Sends : report[i].result = "none" /\ heard[i] = << >> /\ Len(heard[i]) = 0
  BY <1>1 DEF Delivery!Untold
<1>5. HeardOK
  <2>1. heard \in [Delivery!Sends -> Seq(Nat)] /\ DOMAIN report = Delivery!Sends
    BY <1>1
  <2>2. Delivery!ReportIsHonest /\ Delivery!PiecesInOrder
    BY <1>4 DEF Delivery!ReportIsHonest, Delivery!PiecesInOrder
  <2> QED BY <1>4, <2>1, <2>2 DEF HeardOK
<1>6. UrlsOK
  <2>1. << >> \in Seq(Conversations) /\ Len(<< >>) = 0
    OBVIOUS
  <2>2. Delivery!Range(<< >>) = {}
    BY NobodyKept
  <2>3. \A p \in Delivery!Processes : urls[p] = << >> /\ AddressesOK(urls[p])
    BY <1>1, <2>1, DeliveryConstants DEF AddressesOK
  <2>4. urls["core"] = << >>
    BY <1>1 DEF Delivery!Processes
  <2> QED BY <1>1, <2>2, <2>3, <2>4, FS_EmptySet DEF UrlsOK, Delivery!LastOneIsKnown
<1>7. Delivery!FindsItsWayTogether
  BY <1>4 DEF Delivery!FindsItsWayTogether, Delivery!AnswerFindsItsWay
<1> QED BY <1>2, <1>3, <1>5, <1>6, <1>7 DEF DeliveryInv

LEMMA DeliveryRests == ASSUME DeliveryInv, UNCHANGED <<faults, deliveryVars>> PROVE DeliveryInv'
<1>1. UNCHANGED <<door, together, clock, urls, arrived, latest, token, post, spoken, heard, report, faults>>
  BY DEF deliveryVars
<1>2. PostsOK'
  BY <1>1 DEF DeliveryInv, PostsOK, InHand, Busy
<1>3. HeardOK' /\ (Delivery!AnswerFindsItsWay => Delivery!AnswerFindsItsWay')
  BY <1>1, WordsStand DEF DeliveryInv
<1>4. TokenOK' /\ faults' \in 0 .. MaxFaults
  BY <1>1, DoorTyped DEF DeliveryInv, TokenOK, Delivery!TokenKeepsItsMargin
<1> QED BY <1>1, <1>2, <1>3, <1>4, RestStands

\* What the invariant says, as the run says it.
LEMMA DeliveryStands ==
    ASSUME DeliveryInv
    PROVE  /\ Delivery!TypeOK /\ Delivery!ReportIsHonest /\ Delivery!PiecesInOrder
           /\ Delivery!TokenKeepsItsMargin /\ Delivery!LastOneIsKnown /\ Delivery!FindsItsWayTogether
<1>1. PostsOK /\ HeardOK /\ UrlsOK /\ TokenOK /\ DoorOK
  BY DEF DeliveryInv
<1>2. ASSUME NEW p \in Delivery!Processes
      PROVE  Delivery!Range(urls[p]) \subseteq Conversations /\ Len(urls[p]) <= UrlLimit
  <2>1. urls[p] \in Seq(Conversations) /\ Len(urls[p]) <= UrlLimit
    BY <1>1 DEF UrlsOK, AddressesOK
  <2>2. \A i \in 1 .. Len(urls[p]) : urls[p][i] \in Conversations
    BY <2>1, ElementOfSeq
  <2> QED BY <2>1, <2>2, InTheRange
<1>3. \A k \in Senders : post[k].at \in {"idle", "fetching", "issued", "posting", "answered"}
  <2> TAKE k \in Senders
  <2>1. CASE post[k] = Delivery!Resting
    BY <2>1 DEF Delivery!Resting
  <2>2. CASE InHand(k)
    BY <2>2 DEF InHand, PostRecord
  <2> QED BY <1>1, <2>1, <2>2 DEF PostsOK
<1>4. Delivery!TypeOK
  BY <1>1, <1>2, <1>3 DEF Delivery!TypeOK, DoorOK, UrlsOK, HeardOK
<1> QED BY <1>1, <1>4 DEF DeliveryInv, HeardOK, UrlsOK, TokenOK

-----------------------------------------------------------------------------

\* A day's unsolicited messages exceed their budget by one at most, plus those
\* that left no row, quiet hours let one of each task through, no text that was
\* put off is forgotten (OutboundPipeline of social/etiquette.py), and what a door
\* reports is what its provider did (the adapters' send).  The budget holds
\* because what is in flight was admitted while there was a row to spare.
SpokenPart == (part = "outbound" => OutboundInv) /\ (part = "delivery" => DeliveryInv)
THEOREM WordsGoOutAsCounted == Spec => []OutboundSafe
<1>1. Init => SpokenPart
  BY OutboundInit, DeliveryInit DEF Init, SpokenPart
<1>2. SpokenPart /\ [Next]_vars => SpokenPart'
  <2> SUFFICES ASSUME SpokenPart, [Next]_vars PROVE SpokenPart'
    OBVIOUS
  <2>1. ASSUME part' = "outbound" PROVE OutboundInv'
    <3>1. CASE part = "outbound" /\ Outbound!Next
      BY <3>1, OutboundNext DEF SpokenPart
    <3>2. CASE UNCHANGED vars
      <4>1. OutboundInv /\ UNCHANGED <<faults, outboundVars>>
        BY <2>1, <3>2 DEF vars, handsVars, SpokenPart
      <4> QED BY <4>1, OutboundRests
    <3> QED BY <2>1, <3>1, <3>2 DEF Next, Handed, Mind, Hands
  <2>2. ASSUME part' = "delivery" PROVE DeliveryInv'
    <3>1. CASE part = "delivery" /\ Delivery!Next
      BY <3>1, DeliveryNext DEF SpokenPart
    <3>2. CASE UNCHANGED vars
      <4>1. DeliveryInv /\ UNCHANGED <<faults, deliveryVars>>
        BY <2>2, <3>2 DEF vars, handsVars, SpokenPart
      <4> QED BY <4>1, DeliveryRests
    <3> QED BY <2>2, <3>1, <3>2 DEF Next, Handed, Mind, Hands
  <2> QED BY <2>1, <2>2 DEF SpokenPart
<1>3. SpokenPart => OutboundSafe
  BY OutboundStands, DeliveryStands DEF SpokenPart, OutboundSafe
<1> QED BY <1>1, <1>2, <1>3, PTL DEF Spec
=============================================================================
