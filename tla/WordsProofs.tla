---------------------------- MODULE WordsProofs ----------------------------
(***************************************************************************)
(* Proofs about what the agent remembers and what it is told, for every    *)
(* value of the constants: the thread of the loop, the consolidation of a  *)
(* night and the groups it distils, and the transcript of a sub-agent in   *)
(* the form of each family.  As in RecordsProofs, an invariant of the      *)
(* whole has the form part = "x" => ..., and a step of the whole is a step *)
(* of x or leaves its variables alone.                                     *)
(***************************************************************************)
EXTENDS Records, FiniteSetTheorems, SequenceTheorems, TLAPS

-----------------------------------------------------------------------------
(* The thread the loop carries: what a snapshot and the running thread have  *)
(* in common, and the place of every turn that was ever appended.            *)

\* What a snapshot and the running thread have in common: lines and turns of the
\* past E, each told in the order it happened.
Story(E, n, s) ==
    /\ n \in Seq(SUBSET Nat) /\ s \in Seq(Nat)
    /\ \A i \in 1 .. Len(n) : n[i] \subseteq E
    /\ \A i \in 1 .. Len(s) : s[i] \in E
    /\ \A i, j \in 1 .. Len(n) : i < j => \A t \in n[i], u \in n[j] : t < u
    /\ \A i, j \in 1 .. Len(s) : i < j => s[i] < s[j]
    /\ \A i \in 1 .. Len(n), j \in 1 .. Len(s) : \A t \in n[i] : t < s[j]
Past == 1 .. Len(kind)
Lined(n, t) == \E i \in 1 .. Len(n) : t \in n[i]
Buffered(s, t) == \E i \in 1 .. Len(s) : s[i] = t
Between(n, h, s) ==
    /\ \A i \in 1 .. Len(n) : \A t \in n[i], u \in h : t < u
    /\ \A u \in h : \A j \in 1 .. Len(s) : u < s[j]
ThreadTyped ==
    /\ kind \in Seq(DOMAIN Salience) /\ Len(kind) <= TurnBound
    /\ Len(turns) <= MaxTurns + 1 /\ Len(narrative) <= MaxLines + 1
    /\ at \in {"free", "narrating", "remembering"} /\ hand \subseteq Past
    /\ focus_roll \in BOOLEAN /\ memory \subseteq SUBSET Past /\ dropped \subseteq Past
    /\ Len(saved.narrative) <= MaxLines /\ Len(saved.turns) <= PersistTurns
    /\ Len(saved.turns) <= MaxTurns + 1
Placed(t) == Buffered(turns, t) \/ t \in hand \/ Lined(narrative, t) \/ (\E m \in memory : t \in m) \/ t \in dropped
ThreadInv ==
    /\ ThreadTyped /\ (at = "free" => hand = {})
    /\ Story(Past, narrative, turns) /\ Story(Past, saved.narrative, saved.turns)
    /\ at = "narrating" => Between(narrative, hand, turns)
    /\ \A t \in Past : Placed(t)

LEMMA ThreadConstants ==
    /\ MaxTurns \in Nat \ {0} /\ NarrateEvery \in Nat \ {0} /\ MaxLines \in Nat \ {0} /\ PersistTurns \in Nat \ {0}
    /\ NarrateEvery <= MaxTurns + 1 /\ TurnBound \in Nat
    /\ "event" \in DOMAIN Salience /\ \A k \in DOMAIN Salience : Salience[k] \in Nat
    /\ \A k \in DOMAIN Salience \cap {"thought", "event"} :
          "inbound" \in DOMAIN Salience => Salience["inbound"] >= Salience[k] + 50
  BY RecordsAssumption DEF RecordsAssumption, Thread!ContextAssumption

LEMMA ThreadRange == \A f, x : x \in Thread!Range(f) <=> \E i \in DOMAIN f : f[i] = x
  BY DEF Thread!Range

LEMMA ThreadTold == \A n, t : t \in Thread!Told(n) <=> \E i \in DOMAIN n : t \in n[i]
  BY ThreadRange DEF Thread!Told

LEMMA ThreadPast ==
    ASSUME ThreadTyped PROVE Len(kind) \in Nat /\ Thread!Ever = Past /\ Past \subseteq Nat
<1>1. Len(kind) \in Nat /\ DOMAIN kind = 1 .. Len(kind)
  BY LenProperties DEF ThreadTyped
<1> QED BY <1>1 DEF Thread!Ever, Past

\* A sequence without its first k elements.
LEMMA Behind ==
    ASSUME NEW S, NEW s \in Seq(S), NEW k \in Nat, k <= Len(s)
    PROVE  /\ SubSeq(s, k + 1, Len(s)) \in Seq(S) /\ Len(SubSeq(s, k + 1, Len(s))) = Len(s) - k
           /\ \A i \in 1 .. Len(s) - k : i + k \in 1 .. Len(s) /\ SubSeq(s, k + 1, Len(s))[i] = s[i + k]
<1>1. Len(s) \in Nat
  BY LenProperties
<1>2. PICK a, b \in Int : a = k + 1 /\ b = Len(s)
  BY <1>1
<1>3. \A i \in a .. b : s[i] \in S
  <2> TAKE i \in a .. b
  <2>1. i \in 1 .. Len(s)
    BY <1>1, <1>2
  <2> QED BY <2>1, ElementOfSeq
<1>4. /\ SubSeq(s, a, b) \in Seq(S) /\ Len(SubSeq(s, a, b)) = IF a <= b THEN b - a + 1 ELSE 0
      /\ \A i \in 1 .. b - a + 1 : SubSeq(s, a, b)[i] = s[a + i - 1]
  BY <1>2, <1>3, SubSeqProperties
<1>5. PICK r : r = SubSeq(s, a, b)
  OBVIOUS
<1>6. r = SubSeq(s, k + 1, Len(s)) /\ r \in Seq(S)
  BY <1>2, <1>4, <1>5
<1>7. Len(r) = Len(s) - k
  BY <1>1, <1>2, <1>4, <1>5
<1>8. \A i \in 1 .. Len(s) - k : i + k \in 1 .. Len(s) /\ r[i] = s[i + k]
  <2> TAKE i \in 1 .. Len(s) - k
  <2>1. i \in 1 .. b - a + 1 /\ a + i - 1 = i + k /\ i + k \in 1 .. Len(s)
    BY <1>1, <1>2
  <2> QED BY <1>4, <1>5, <2>1
<1> QED BY <1>6, <1>7, <1>8

\* The newest n elements: what is left of it without the first ones.
LEMMA RecentIsBehind ==
    ASSUME NEW S, NEW s \in Seq(S), NEW n \in Nat \ {0}
    PROVE  \E k \in Nat : k <= Len(s) /\ Len(s) - k <= n /\ Thread!Recent(s, n) = SubSeq(s, k + 1, Len(s))
<1>1. Len(s) \in Nat
  BY LenProperties
<1>2. CASE Len(s) > n
  <2>1. PICK k \in Nat : k = Len(s) - n
    BY <1>1, <1>2
  <2>2. Len(s) - n + 1 = k + 1 /\ k <= Len(s) /\ Len(s) - k <= n
    BY <1>1, <2>1
  <2> QED BY <1>2, <2>2 DEF Thread!Recent
<1>3. CASE ~(Len(s) > n)
  <2>1. 0 <= Len(s) /\ Len(s) - 0 <= n /\ 0 + 1 = 1
    BY <1>1, <1>3
  <2>2. Thread!Recent(s, n) = SubSeq(s, 0 + 1, Len(s))
    BY <1>3, <2>1 DEF Thread!Recent
  <2> QED BY <2>1, <2>2
<1> QED BY <1>2, <1>3

\* A story without its oldest lines and turns is a story.
LEMMA StoryBehind ==
    ASSUME NEW E, NEW n, NEW s, Story(E, n, s), NEW k \in Nat, k <= Len(n), NEW l \in Nat, l <= Len(s)
    PROVE  Story(E, SubSeq(n, k + 1, Len(n)), SubSeq(s, l + 1, Len(s)))
<1>1. n \in Seq(SUBSET Nat) /\ s \in Seq(Nat)
  BY DEF Story
<1>2. PICK m : m = SubSeq(n, k + 1, Len(n))
  OBVIOUS
<1>3. PICK r : r = SubSeq(s, l + 1, Len(s))
  OBVIOUS
<1>4. /\ m \in Seq(SUBSET Nat) /\ Len(m) = Len(n) - k
      /\ \A i \in 1 .. Len(n) - k : i + k \in 1 .. Len(n) /\ m[i] = n[i + k]
  BY <1>1, <1>2, Behind
<1>5. /\ r \in Seq(Nat) /\ Len(r) = Len(s) - l
      /\ \A i \in 1 .. Len(s) - l : i + l \in 1 .. Len(s) /\ r[i] = s[i + l]
  BY <1>1, <1>3, Behind
<1>6. Len(n) \in Nat /\ Len(s) \in Nat
  BY <1>1, LenProperties
<1>7. \A i \in 1 .. Len(m) : i + k \in 1 .. Len(n) /\ m[i] = n[i + k]
  BY <1>4
<1>8. \A i \in 1 .. Len(r) : i + l \in 1 .. Len(s) /\ r[i] = s[i + l]
  BY <1>5
<1>9. (\A i \in 1 .. Len(m) : m[i] \subseteq E) /\ (\A i \in 1 .. Len(r) : r[i] \in E)
  BY <1>7, <1>8 DEF Story
<1>10. \A i, j \in 1 .. Len(m) : i < j => \A t \in m[i], u \in m[j] : t < u
  <2> SUFFICES ASSUME NEW i \in 1 .. Len(m), NEW j \in 1 .. Len(m), i < j PROVE \A t \in m[i], u \in m[j] : t < u
    OBVIOUS
  <2>1. i + k < j + k
    BY <1>4, <1>6
  <2> QED BY <1>7, <2>1 DEF Story
<1>11. \A i, j \in 1 .. Len(r) : i < j => r[i] < r[j]
  <2> SUFFICES ASSUME NEW i \in 1 .. Len(r), NEW j \in 1 .. Len(r), i < j PROVE r[i] < r[j]
    OBVIOUS
  <2>1. i + l < j + l
    BY <1>5, <1>6
  <2> QED BY <1>8, <2>1 DEF Story
<1>12. \A i \in 1 .. Len(m), j \in 1 .. Len(r) : \A t \in m[i] : t < r[j]
  BY <1>7, <1>8 DEF Story
<1>13. Story(E, m, r)
  BY <1>4, <1>5, <1>9, <1>10, <1>11, <1>12 DEF Story
<1> QED BY <1>2, <1>3, <1>13

\* The first k elements of a sequence.
LEMMA Ahead ==
    ASSUME NEW S, NEW s \in Seq(S), NEW k \in Nat, k <= Len(s)
    PROVE  /\ Len(SubSeq(s, 1, k)) = k
           /\ \A i \in 1 .. k : i \in 1 .. Len(s) /\ SubSeq(s, 1, k)[i] = s[i]
<1>1. Len(s) \in Nat
  BY LenProperties
<1>2. PICK a, b \in Int : a = 1 /\ b = k
  OBVIOUS
<1>3. \A i \in a .. b : s[i] \in S
  <2> TAKE i \in a .. b
  <2>1. i \in 1 .. Len(s)
    BY <1>1, <1>2
  <2> QED BY <2>1, ElementOfSeq
<1>4. /\ Len(SubSeq(s, a, b)) = IF a <= b THEN b - a + 1 ELSE 0
      /\ \A i \in 1 .. b - a + 1 : SubSeq(s, a, b)[i] = s[a + i - 1]
  BY <1>2, <1>3, SubSeqProperties
<1>5. PICK r : r = SubSeq(s, a, b)
  OBVIOUS
<1>6. r = SubSeq(s, 1, k) /\ Len(r) = k
  BY <1>1, <1>2, <1>4, <1>5
<1>7. \A i \in 1 .. k : i \in 1 .. Len(s) /\ r[i] = s[i]
  <2> TAKE i \in 1 .. k
  <2>1. i \in 1 .. b - a + 1 /\ a + i - 1 = i /\ i \in 1 .. Len(s)
    BY <1>1, <1>2
  <2> QED BY <1>4, <1>5, <2>1
<1> QED BY <1>6, <1>7

\* The stretch that a roll takes is older than what it leaves, and nothing is
\* in neither.
LEMMA Rolled ==
    ASSUME NEW E, NEW n, NEW b, Story(E, n, b), Len(b) >= NarrateEvery,
           NEW h, h = Thread!Taken(b).hand, NEW l, l = Thread!Taken(b).left
    PROVE  /\ Story(E, n, l) /\ h \subseteq E /\ Between(n, h, l)
           /\ Len(l) = Len(b) - NarrateEvery
           /\ \A t : Buffered(b, t) => t \in h \/ Buffered(l, t)
<1>1. n \in Seq(SUBSET Nat) /\ b \in Seq(Nat) /\ Len(n) \in Nat /\ Len(b) \in Nat
  BY LenProperties DEF Story
<1>2. PICK k \in Nat : k = NarrateEvery
  BY ThreadConstants
<1>3. PICK f : f = SubSeq(b, 1, k)
  OBVIOUS
<1>4. Len(f) = k /\ \A i \in 1 .. k : i \in 1 .. Len(b) /\ f[i] = b[i]
  BY <1>1, <1>2, <1>3, Ahead
<1>5. h = {f[i] : i \in DOMAIN f}
  BY <1>2, <1>3 DEF Thread!Taken, Thread!Range
<1>6. DOMAIN f = 1 .. k
  <2>1. \A i \in 1 .. k : b[i] \in Nat
    BY <1>1, <1>4, ElementOfSeq
  <2>2. PICK m, z \in Int : m = 1 /\ z = k
    OBVIOUS
  <2>3. \A i \in m .. z : b[i] \in Nat
    BY <2>1, <2>2
  <2>4. SubSeq(b, m, z) \in Seq(Nat)
    BY <2>2, <2>3, SubSeqProperties
  <2> QED BY <1>3, <1>4, <2>2, <2>4, LenProperties
<1>7. \A t : t \in h <=> \E i \in 1 .. k : t = b[i]
  BY <1>4, <1>5, <1>6
<1>8. l = SubSeq(b, k + 1, Len(b))
  BY <1>2 DEF Thread!Taken
<1>9. /\ Len(l) = Len(b) - k
      /\ \A i \in 1 .. Len(b) - k : i + k \in 1 .. Len(b) /\ l[i] = b[i + k]
  BY <1>1, <1>2, <1>8, Behind
<1>10. Story(E, n, l)
  <2>1. Story(E, SubSeq(n, 0 + 1, Len(n)), SubSeq(b, k + 1, Len(b)))
    <3>1. 0 <= Len(n) /\ k <= Len(b)
      BY <1>1, <1>2
    <3> QED BY <3>1, StoryBehind
  <2>2. SubSeq(n, 0 + 1, Len(n)) = n
    <3>1. SubSeq(n, 1, Len(n)) = n
      BY <1>1, SubSeqFull
    <3> QED BY <3>1
  <2> QED BY <1>8, <2>1, <2>2
<1>11. h \subseteq E
  BY <1>4, <1>7 DEF Story
<1>12. Between(n, h, l)
  <2>1. \A i \in 1 .. Len(n) : \A t \in n[i], u \in h : t < u
    BY <1>4, <1>7 DEF Story
  <2>2. ASSUME NEW u \in h, NEW j \in 1 .. Len(l) PROVE u < l[j]
    <3>1. PICK i \in 1 .. k : u = b[i] /\ i \in 1 .. Len(b)
      BY <1>4, <1>7
    <3>2. j + k \in 1 .. Len(b) /\ l[j] = b[j + k]
      BY <1>9
    <3>3. i < j + k
      BY <1>9, <1>1
    <3> QED BY <3>1, <3>2, <3>3 DEF Story
  <2> QED BY <2>1, <2>2 DEF Between
<1>13. ASSUME NEW t, Buffered(b, t) PROVE t \in h \/ Buffered(l, t)
  <2>1. PICK i \in 1 .. Len(b) : b[i] = t
    BY <1>13 DEF Buffered
  <2>2. CASE i <= k
    BY <1>7, <2>1, <2>2
  <2>3. CASE i > k
    <3>1. PICK j \in 1 .. Len(b) - k : j = i - k
      BY <1>1, <2>3
    <3>2. j + k = i /\ j \in 1 .. Len(l)
      BY <1>9, <3>1
    <3> QED BY <1>9, <2>1, <3>1, <3>2 DEF Buffered
  <2> QED BY <2>2, <2>3, <1>1
<1> QED BY <1>2, <1>9, <1>10, <1>11, <1>12, <1>13

LEMMA ThreadInit == Thread!Init => ThreadInv
<1> SUFFICES ASSUME Thread!Init PROVE ThreadInv
  OBVIOUS
<1>1. kind = << >> /\ turns = << >> /\ narrative = << >> /\ saved = [narrative |-> << >>, turns |-> << >>]
  BY DEF Thread!Init
<1>2. \A S : << >> \in Seq(S) /\ Len(<< >>) = 0
  BY EmptySeq
<1>3. Past = {}
  BY <1>1, <1>2 DEF Past
<1>4. Story({}, << >>, << >>)
  BY <1>2 DEF Story
<1>5. ThreadTyped
  <2>1. kind \in Seq(DOMAIN Salience) /\ Len(kind) = 0 /\ Len(turns) = 0 /\ Len(narrative) = 0
    BY <1>1, <1>2
  <2>2. Len(saved.narrative) = 0 /\ Len(saved.turns) = 0
    BY <1>1, <1>2
  <2>3. hand \subseteq Past /\ memory \subseteq SUBSET Past /\ dropped \subseteq Past
        /\ at = "free" /\ focus_roll \in BOOLEAN
    BY DEF Thread!Init
  <2> QED BY <2>1, <2>2, <2>3, ThreadConstants DEF ThreadTyped
<1> QED BY <1>1, <1>3, <1>4, <1>5 DEF ThreadInv, Thread!Init

\* What is true of the past stays true as the past grows.
LEMMA StoryGrows == ASSUME NEW E, NEW F, E \subseteq F, NEW n, NEW s, Story(E, n, s) PROVE Story(F, n, s)
  BY DEF Story

LEMMA ThreadParts ==
    ASSUME ThreadInv
    PROVE  /\ ThreadTyped /\ Len(kind) \in Nat /\ Past \subseteq Nat
           /\ turns \in Seq(Nat) /\ Len(turns) \in Nat
           /\ narrative \in Seq(SUBSET Nat) /\ Len(narrative) \in Nat
<1>1. ThreadTyped /\ turns \in Seq(Nat) /\ narrative \in Seq(SUBSET Nat)
  BY DEF ThreadInv, Story
<1> QED BY <1>1, ThreadPast, LenProperties

\* A turn that is appended to a story is later than all of it.
LEMMA StoryGoesOn ==
    ASSUME NEW E, NEW x \in Nat, \A e \in E : e \in Nat /\ e < x,
           NEW n, NEW s, Story(E, n, s),
           NEW b \in Seq(Nat), Len(b) = Len(s) + 1, b[Len(s) + 1] = x, \A i \in 1 .. Len(s) : b[i] = s[i]
    PROVE  Story(E \cup {x}, n, b)
<1>1. s \in Seq(Nat) /\ Len(s) \in Nat
  BY LenProperties DEF Story
<1>2. /\ b \in Seq(Nat) /\ Len(b) = Len(s) + 1 /\ b[Len(s) + 1] = x
      /\ \A i \in 1 .. Len(s) : b[i] = s[i]
  OBVIOUS
<1>3. \A i \in 1 .. Len(b) : (i \in 1 .. Len(s) /\ b[i] = s[i]) \/ (i = Len(s) + 1 /\ b[i] = x)
  BY <1>1, <1>2
<1>4. \A i \in 1 .. Len(s) : s[i] \in Nat /\ s[i] < x
  BY DEF Story
<1>5. \A i \in 1 .. Len(n) : \A t \in n[i] : t \in Nat /\ t < x
  BY DEF Story
<1>6. n \in Seq(SUBSET Nat) /\ \A i \in 1 .. Len(n) : n[i] \subseteq E \cup {x}
  BY DEF Story
<1>7. \A i \in 1 .. Len(b) : b[i] \in E \cup {x}
  <2> TAKE i \in 1 .. Len(b)
  <2>1. CASE i \in 1 .. Len(s) /\ b[i] = s[i]
    BY <2>1 DEF Story
  <2> QED BY <1>3, <2>1
<1>8. \A i, j \in 1 .. Len(b) : i < j => b[i] < b[j]
  <2> SUFFICES ASSUME NEW i \in 1 .. Len(b), NEW j \in 1 .. Len(b), i < j PROVE b[i] < b[j]
    OBVIOUS
  <2>1. i \in 1 .. Len(s) /\ b[i] = s[i]
    BY <1>1, <1>2
  <2>2. CASE j \in 1 .. Len(s) /\ b[j] = s[j]
    BY <2>1, <2>2 DEF Story
  <2>3. CASE j = Len(s) + 1 /\ b[j] = x
    BY <1>4, <2>1, <2>3
  <2> QED BY <1>3, <2>2, <2>3
<1>9. \A i \in 1 .. Len(n), j \in 1 .. Len(b) : \A t \in n[i] : t < b[j]
  <2> SUFFICES ASSUME NEW i \in 1 .. Len(n), NEW j \in 1 .. Len(b), NEW t \in n[i] PROVE t < b[j]
    OBVIOUS
  <2>1. CASE j \in 1 .. Len(s) /\ b[j] = s[j]
    BY <2>1 DEF Story
  <2>2. CASE j = Len(s) + 1 /\ b[j] = x
    BY <1>5, <2>2
  <2> QED BY <1>3, <2>1, <2>2
<1>10. \A i, j \in 1 .. Len(n) : i < j => \A t \in n[i], u \in n[j] : t < u
  BY DEF Story
<1>11. Story(E \cup {x}, n, b)
  BY <1>2, <1>6, <1>7, <1>8, <1>9, <1>10 DEF Story
<1> QED BY <1>2, <1>11

LEMMA BufferGoesOn ==
    ASSUME NEW s \in Seq(Nat), NEW b, Len(b) = Len(s) + 1, \A i \in 1 .. Len(s) : b[i] = s[i]
    PROVE  Buffered(b, b[Len(s) + 1]) /\ \A t : Buffered(s, t) => Buffered(b, t)
<1>1. Len(s) \in Nat
  BY LenProperties
<1>2. ASSUME NEW t, Buffered(s, t) PROVE Buffered(b, t)
  <2>1. PICK i \in 1 .. Len(s) : s[i] = t
    BY <1>2 DEF Buffered
  <2>2. i \in 1 .. Len(b) /\ b[i] = t
    BY <1>1, <2>1
  <2> QED BY <2>2 DEF Buffered
<1>3. Len(s) + 1 \in 1 .. Len(b)
  BY <1>1
<1> QED BY <1>2, <1>3 DEF Buffered

LEMMA ThreadAppend ==
    ASSUME ThreadInv, NEW k \in DOMAIN Salience, NEW c \in BOOLEAN, Thread!append(k, c) PROVE ThreadInv'
<1>0. /\ ThreadTyped /\ Len(kind) \in Nat /\ Past \subseteq Nat
      /\ turns \in Seq(Nat) /\ Len(turns) \in Nat /\ narrative \in Seq(SUBSET Nat)
  BY ThreadParts
<1>1. PICK m \in Nat : m = Len(kind)
  BY <1>0
<1>2. PICK b : b = Append(turns, m + 1)
  OBVIOUS
<1>3. /\ at = "free" /\ Len(kind) < TurnBound /\ kind' = Append(kind, k) /\ focus_roll' = c
      /\ UNCHANGED <<narrative, memory, saved, dropped>>
      /\ IF Len(b) > MaxTurns /\ Len(b) >= NarrateEvery
         THEN at' = "narrating" /\ hand' = Thread!Taken(b).hand /\ turns' = Thread!Taken(b).left
         ELSE turns' = b /\ UNCHANGED <<at, hand>>
  BY <1>1, <1>2 DEF Thread!append, Thread!roll
<1>4. kind' \in Seq(DOMAIN Salience) /\ Len(kind') = m + 1
  BY <1>0, <1>1, <1>3, AppendProperties DEF ThreadTyped
<1>5. Past = 1 .. m /\ Past' = 1 .. m + 1 /\ Past \subseteq Past'
  BY <1>1, <1>4 DEF Past
<1>6. /\ Story(Past', narrative, b) /\ Len(b) = Len(turns) + 1
      /\ Buffered(b, m + 1) /\ \A t : Buffered(turns, t) => Buffered(b, t)
  <2>1. PICK o \in Nat : o = m + 1
    BY <1>1
  <2>2. Past' = Past \cup {o} /\ \A e \in Past : e \in Nat /\ e < o
    BY <1>5, <2>1
  <2>3. /\ Story(Past, narrative, turns) /\ b \in Seq(Nat)
        /\ Len(b) = Len(turns) + 1 /\ b[Len(turns) + 1] = o /\ \A i \in 1 .. Len(turns) : b[i] = turns[i]
    BY <1>0, <1>2, <2>1, AppendProperties DEF ThreadInv
  <2>4. Story(Past \cup {o}, narrative, b)
    BY <2>2, <2>3, StoryGoesOn
  <2>6. Buffered(b, o) /\ \A t : Buffered(turns, t) => Buffered(b, t)
    BY <1>0, <2>3, BufferGoesOn
  <2>5. Story(Past', narrative, b)
    BY <2>2, <2>4
  <2> QED BY <2>1, <2>3, <2>5, <2>6
<1>7. Story(Past', saved'.narrative, saved'.turns)
  BY <1>3, <1>5, StoryGrows DEF ThreadInv
<1>8. hand = {} /\ \A t \in Past : Placed(t)
  BY <1>3 DEF ThreadInv
<1>9. Len(kind') <= TurnBound /\ MaxTurns \in Nat /\ NarrateEvery \in Nat /\ NarrateEvery <= MaxTurns + 1 /\ NarrateEvery >= 1
  BY <1>1, <1>3, <1>4, ThreadConstants
<1>10. /\ Len(narrative') <= MaxLines + 1 /\ memory' \subseteq SUBSET Past' /\ dropped' \subseteq Past'
       /\ Len(saved'.narrative) <= MaxLines /\ Len(saved'.turns) <= PersistTurns /\ Len(saved'.turns) <= MaxTurns + 1
       /\ focus_roll' \in BOOLEAN /\ Len(turns) <= MaxTurns + 1
  BY <1>0, <1>3, <1>5 DEF ThreadTyped
<1>11. \A t \in Past' : t \in Past \/ Buffered(b, t)
  BY <1>5, <1>6
<1>12. CASE Len(b) > MaxTurns /\ Len(b) >= NarrateEvery
  <2>1. at' = "narrating" /\ hand' = Thread!Taken(b).hand /\ turns' = Thread!Taken(b).left
    BY <1>3, <1>12
  <2>2. /\ Story(Past', narrative, turns') /\ hand' \subseteq Past' /\ Between(narrative, hand', turns')
        /\ Len(turns') = Len(b) - NarrateEvery
        /\ \A t : Buffered(b, t) => t \in hand' \/ Buffered(turns', t)
    BY <1>6, <1>12, <2>1, Rolled
  <2>3. Len(turns') <= MaxTurns + 1
    BY <1>0, <1>6, <1>9, <1>10, <2>2
  <2>4. ThreadTyped'
    BY <1>4, <1>9, <1>10, <2>1, <2>2, <2>3 DEF ThreadTyped
  <2>5. ASSUME NEW t \in Past' PROVE Placed(t)'
    <3>1. CASE Buffered(b, t)
      BY <2>2, <3>1 DEF Placed
    <3>2. CASE ~Buffered(b, t)
      <4>1. Placed(t) /\ ~Buffered(turns, t) /\ t \notin hand
        BY <1>6, <1>8, <1>11, <3>2
      <4> QED BY <1>3, <4>1 DEF Placed
    <3> QED BY <3>1, <3>2
  <2> QED BY <1>3, <1>7, <2>1, <2>2, <2>4, <2>5 DEF ThreadInv
<1>13. CASE ~(Len(b) > MaxTurns /\ Len(b) >= NarrateEvery)
  <2>1. turns' = b /\ at' = "free" /\ hand' = {}
    BY <1>3, <1>8, <1>13
  <2>2. Len(turns') <= MaxTurns + 1
    BY <1>0, <1>6, <1>9, <1>13, <2>1
  <2>3. ThreadTyped'
    BY <1>4, <1>9, <1>10, <2>1, <2>2 DEF ThreadTyped
  <2>4. ASSUME NEW t \in Past' PROVE Placed(t)'
    <3>1. CASE Buffered(b, t)
      BY <2>1, <3>1 DEF Placed
    <3>2. CASE ~Buffered(b, t)
      <4>1. Placed(t) /\ ~Buffered(turns, t) /\ t \notin hand
        BY <1>6, <1>8, <1>11, <3>2
      <4> QED BY <1>3, <4>1 DEF Placed
    <3> QED BY <3>1, <3>2
  <2> QED BY <1>3, <1>6, <1>7, <2>1, <2>3, <2>4 DEF ThreadInv
<1> QED BY <1>12, <1>13

LEMMA ThreadRoll == ASSUME ThreadInv, Thread!_roll_on_focus_change PROVE ThreadInv'
<1>0. /\ ThreadTyped /\ Len(kind) \in Nat /\ Past \subseteq Nat
      /\ turns \in Seq(Nat) /\ Len(turns) \in Nat /\ narrative \in Seq(SUBSET Nat)
  BY ThreadParts
<1>1. /\ at = "free" /\ focus_roll' = FALSE /\ UNCHANGED <<kind, narrative, memory, saved, dropped>>
      /\ IF Len(turns) >= NarrateEvery
         THEN at' = "narrating" /\ hand' = Thread!Taken(turns).hand /\ turns' = Thread!Taken(turns).left
         ELSE UNCHANGED <<at, hand, turns>>
  BY DEF Thread!_roll_on_focus_change, Thread!roll
<1>2. Past' = Past /\ hand = {}
  BY <1>1 DEF Past, ThreadInv
<1>3. CASE Len(turns) >= NarrateEvery
  <2>1. at' = "narrating" /\ hand' = Thread!Taken(turns).hand /\ turns' = Thread!Taken(turns).left
    BY <1>1, <1>3
  <2>2. /\ Story(Past, narrative, turns') /\ hand' \subseteq Past /\ Between(narrative, hand', turns')
        /\ Len(turns') = Len(turns) - NarrateEvery
        /\ \A t : Buffered(turns, t) => t \in hand' \/ Buffered(turns', t)
    BY <1>3, <2>1, Rolled DEF ThreadInv
  <2>3. Len(turns') <= MaxTurns + 1
    BY <1>0, <2>2, ThreadConstants DEF ThreadTyped
  <2>4. ThreadTyped'
    BY <1>0, <1>1, <1>2, <2>1, <2>2, <2>3 DEF ThreadTyped
  <2>5. \A t \in Past : Placed(t)'
    BY <1>1, <1>2, <2>2 DEF ThreadInv, Placed
  <2> QED BY <1>1, <1>2, <2>1, <2>2, <2>4, <2>5 DEF ThreadInv
<1>4. CASE ~(Len(turns) >= NarrateEvery)
  <2>1. UNCHANGED <<at, hand, turns>>
    BY <1>1, <1>4
  <2>2. ThreadTyped'
    BY <1>0, <1>1, <1>2, <2>1 DEF ThreadTyped
  <2>3. \A t \in Past : Placed(t)'
    BY <1>1, <2>1 DEF ThreadInv, Placed
  <2> QED BY <1>1, <1>2, <2>1, <2>2, <2>3 DEF ThreadInv
<1> QED BY <1>3, <1>4

\* A stretch that was told becomes the newest line.
LEMMA StoryIsTold ==
    ASSUME NEW E \in SUBSET Nat, NEW n, NEW s, Story(E, n, s), NEW h \in SUBSET E, Between(n, h, s),
           NEW l \in Seq(SUBSET Nat), Len(l) = Len(n) + 1, l[Len(n) + 1] = h, \A i \in 1 .. Len(n) : l[i] = n[i]
    PROVE  Story(E, l, s)
<1>1. Len(n) \in Nat
  BY LenProperties DEF Story
<1>2. \A i \in 1 .. Len(l) : (i \in 1 .. Len(n) /\ l[i] = n[i]) \/ (i = Len(n) + 1 /\ l[i] = h)
  BY <1>1
<1>3. \A i \in 1 .. Len(l) : l[i] \subseteq E
  <2> TAKE i \in 1 .. Len(l)
  <2>1. CASE i \in 1 .. Len(n) /\ l[i] = n[i]
    BY <2>1 DEF Story
  <2> QED BY <1>2, <2>1
<1>4. \A i, j \in 1 .. Len(l) : i < j => \A t \in l[i], u \in l[j] : t < u
  <2> SUFFICES ASSUME NEW i \in 1 .. Len(l), NEW j \in 1 .. Len(l), i < j PROVE \A t \in l[i], u \in l[j] : t < u
    OBVIOUS
  <2>1. i \in 1 .. Len(n) /\ l[i] = n[i]
    BY <1>1
  <2>2. CASE j \in 1 .. Len(n) /\ l[j] = n[j]
    BY <2>1, <2>2 DEF Story
  <2>3. CASE j = Len(n) + 1 /\ l[j] = h
    BY <2>1, <2>3 DEF Between
  <2> QED BY <1>2, <2>2, <2>3
<1>5. \A i \in 1 .. Len(l), j \in 1 .. Len(s) : \A t \in l[i] : t < s[j]
  <2> SUFFICES ASSUME NEW i \in 1 .. Len(l), NEW j \in 1 .. Len(s) PROVE \A t \in l[i] : t < s[j]
    OBVIOUS
  <2>1. CASE i \in 1 .. Len(n) /\ l[i] = n[i]
    BY <2>1 DEF Story
  <2>2. CASE i = Len(n) + 1 /\ l[i] = h
    BY <2>2 DEF Between
  <2> QED BY <1>2, <2>1, <2>2
<1> QED BY <1>3, <1>4, <1>5 DEF Story

LEMMA ThreadNarrate == ASSUME ThreadInv, Thread!_narrate PROVE ThreadInv'
<1>0. /\ ThreadTyped /\ Len(kind) \in Nat /\ Past \subseteq Nat /\ hand \subseteq Past
      /\ turns \in Seq(Nat) /\ narrative \in Seq(SUBSET Nat) /\ Len(narrative) \in Nat
  BY ThreadParts DEF ThreadTyped
<1>1. PICK l : l = Append(narrative, hand)
  OBVIOUS
<1>2. /\ at = "narrating" /\ UNCHANGED <<kind, turns, focus_roll, memory, saved, dropped>>
      /\ IF Len(l) > MaxLines
         THEN narrative' = Tail(l) /\ hand' = Head(l) /\ at' = "remembering"
         ELSE narrative' = l /\ hand' = {} /\ at' = "free"
  BY <1>1 DEF Thread!_narrate
<1>3. /\ l \in Seq(SUBSET Nat) /\ Len(l) = Len(narrative) + 1 /\ l[Len(narrative) + 1] = hand
      /\ \A i \in 1 .. Len(narrative) : l[i] = narrative[i]
  <2>1. hand \in SUBSET Nat
    BY <1>0
  <2> QED BY <1>0, <1>1, <2>1, AppendProperties
<1>4. Past' = Past
  BY <1>2 DEF Past
<1>5. Story(Past, l, turns)
  <2>1. Story(Past, narrative, turns) /\ Between(narrative, hand, turns) /\ Past \in SUBSET Nat /\ hand \in SUBSET Past
    BY <1>0, <1>2 DEF ThreadInv
  <2> QED BY <1>3, <2>1, StoryIsTold
<1>6. \A t : Lined(narrative, t) \/ t \in hand => Lined(l, t)
  <2> TAKE t
  <2>1. ASSUME Lined(narrative, t) PROVE Lined(l, t)
    <3>1. PICK i \in 1 .. Len(narrative) : t \in narrative[i]
      BY <2>1 DEF Lined
    <3>2. i \in 1 .. Len(l) /\ t \in l[i]
      BY <1>0, <1>3, <3>1
    <3> QED BY <3>2 DEF Lined
  <2>2. Len(narrative) + 1 \in 1 .. Len(l) /\ l[Len(narrative) + 1] = hand
    BY <1>0, <1>3
  <2> QED BY <2>1, <2>2 DEF Lined
<1>7. Story(Past, saved.narrative, saved.turns) /\ \A t \in Past : Placed(t)
  BY DEF ThreadInv
<1>8. CASE Len(l) > MaxLines
  <2>1. narrative' = Tail(l) /\ hand' = Head(l) /\ at' = "remembering"
    BY <1>2, <1>8
  <2>2. PICK n : n = SubSeq(l, 1 + 1, Len(l))
    OBVIOUS
  <2>3. l # << >>
    BY <1>0, <1>3, EmptySeq
  <2>4. narrative' = n
    <3>1. Tail(l) = SubSeq(l, 2, Len(l))
      BY <1>3, <2>3, TailIsSubSeq
    <3> QED BY <2>1, <2>2, <3>1
  <2>5. hand' = l[1] /\ 1 \in 1 .. Len(l)
    <3>1. Head(l) = l[1]
      BY <1>3, <2>3, HeadTailProperties
    <3> QED BY <1>0, <1>3, <2>1, <3>1
  <2>6. Story(Past, n, turns)
    <3>1. PICK q : q = SubSeq(turns, 0 + 1, Len(turns))
      OBVIOUS
    <3>2. q = turns
      BY <1>0, <3>1, SubSeqFull
    <3>3. 0 \in Nat /\ 1 \in Nat /\ 1 <= Len(l) /\ 0 <= Len(turns)
      BY <1>0, <1>3, LenProperties
    <3>4. Story(Past, n, q)
      BY <1>5, <2>2, <3>1, <3>3, StoryBehind
    <3> QED BY <3>2, <3>4
  <2>7. /\ Len(n) = Len(l) - 1
        /\ \A i \in 1 .. Len(l) - 1 : i + 1 \in 1 .. Len(l) /\ n[i] = l[i + 1]
    <3>1. 1 \in Nat /\ 1 <= Len(l)
      BY <1>0, <1>3
    <3> QED BY <1>3, <2>2, <3>1, Behind
  <2>8. \A t : Lined(l, t) => t \in hand' \/ Lined(n, t)
    <3> SUFFICES ASSUME NEW t, Lined(l, t) PROVE t \in hand' \/ Lined(n, t)
      OBVIOUS
    <3>1. PICK i \in 1 .. Len(l) : t \in l[i]
      BY DEF Lined
    <3>2. CASE i = 1
      BY <2>5, <3>1, <3>2
    <3>3. CASE i # 1
      <4>1. PICK j \in 1 .. Len(l) - 1 : j = i - 1
        BY <1>0, <1>3, <3>3
      <4>2. n[j] = l[i] /\ j \in 1 .. Len(n)
        BY <1>0, <1>3, <2>7, <4>1
      <4> QED BY <3>1, <4>2 DEF Lined
    <3> QED BY <3>2, <3>3
  <2>9. hand' \subseteq Past
    BY <1>5, <2>5 DEF Story
  <2>10. Len(narrative') <= MaxLines + 1
    BY <1>0, <1>3, <2>4, <2>7, ThreadConstants DEF ThreadTyped
  <2>11. ThreadTyped'
    BY <1>0, <1>2, <1>4, <2>1, <2>9, <2>10 DEF ThreadTyped
  <2>12. \A t \in Past : Placed(t)'
    <3> TAKE t \in Past
    <3>1. Lined(narrative, t) \/ t \in hand => t \in hand' \/ Lined(narrative', t)
      BY <1>6, <2>4, <2>8
    <3> QED BY <1>2, <1>7, <3>1 DEF Placed
  <2> QED BY <1>2, <1>4, <1>7, <2>1, <2>4, <2>6, <2>11, <2>12 DEF ThreadInv
<1>9. CASE ~(Len(l) > MaxLines)
  <2>1. narrative' = l /\ hand' = {} /\ at' = "free"
    BY <1>2, <1>9
  <2>2. Len(narrative') <= MaxLines + 1
    BY <1>0, <1>3, <1>9, <2>1, ThreadConstants
  <2>3. ThreadTyped'
    BY <1>0, <1>2, <1>4, <2>1, <2>2 DEF ThreadTyped
  <2>4. \A t \in Past : Placed(t)'
    BY <1>2, <1>6, <1>7, <2>1 DEF Placed
  <2> QED BY <1>2, <1>4, <1>5, <1>7, <2>1, <2>3, <2>4 DEF ThreadInv
<1> QED BY <1>8, <1>9

LEMMA ThreadRemember ==
    ASSUME ThreadInv, NEW written \in BOOLEAN, Thread!_remember_narrative(written) PROVE ThreadInv'
<1>1. /\ at = "remembering" /\ at' = "free" /\ hand' = {}
      /\ memory' = IF written THEN memory \cup {hand} ELSE memory
      /\ dropped' = IF written THEN dropped ELSE dropped \cup hand
      /\ UNCHANGED <<kind, turns, narrative, focus_roll, saved>>
  BY DEF Thread!_remember_narrative
<1>2. Past' = Past /\ ThreadTyped
  BY <1>1 DEF Past, ThreadInv
<1>3. memory' \subseteq SUBSET Past /\ dropped' \subseteq Past
  BY <1>1, <1>2 DEF ThreadTyped
<1>4. ThreadTyped'
  BY <1>1, <1>2, <1>3 DEF ThreadTyped
<1>5. ASSUME NEW t \in Past PROVE Placed(t)'
  <2>1. Placed(t)
    BY DEF ThreadInv
  <2>2. t \in hand => (\E m \in memory' : t \in m) \/ t \in dropped'
    BY <1>1
  <2>3. (\E m \in memory : t \in m) => \E m \in memory' : t \in m
    BY <1>1
  <2>4. t \in dropped => t \in dropped'
    BY <1>1
  <2> QED BY <1>1, <2>1, <2>2, <2>3, <2>4 DEF Placed
<1> QED BY <1>1, <1>2, <1>4, <1>5 DEF ThreadInv

LEMMA ThreadSave == ASSUME ThreadInv, Thread!save PROVE ThreadInv'
<1>0. /\ ThreadTyped /\ turns \in Seq(Nat) /\ Len(turns) \in Nat
      /\ narrative \in Seq(SUBSET Nat) /\ Len(narrative) \in Nat
  BY ThreadParts
<1>1. /\ saved' = [narrative |-> Thread!Recent(narrative, MaxLines), turns |-> Thread!Recent(turns, PersistTurns)]
      /\ UNCHANGED <<kind, turns, narrative, at, hand, focus_roll, memory, dropped>>
  BY DEF Thread!save, Thread!Snapshot
<1>2. PICK k \in Nat : k <= Len(narrative) /\ Len(narrative) - k <= MaxLines
                       /\ Thread!Recent(narrative, MaxLines) = SubSeq(narrative, k + 1, Len(narrative))
  BY <1>0, ThreadConstants, RecentIsBehind
<1>3. PICK l \in Nat : l <= Len(turns) /\ Len(turns) - l <= PersistTurns
                       /\ Thread!Recent(turns, PersistTurns) = SubSeq(turns, l + 1, Len(turns))
  BY <1>0, ThreadConstants, RecentIsBehind
<1>4. PICK n : n = SubSeq(narrative, k + 1, Len(narrative))
  OBVIOUS
<1>5. PICK s : s = SubSeq(turns, l + 1, Len(turns))
  OBVIOUS
<1>6. saved'.narrative = n /\ saved'.turns = s
  BY <1>1, <1>2, <1>3, <1>4, <1>5
<1>7. Story(Past, n, s)
  BY <1>2, <1>3, <1>4, <1>5, StoryBehind DEF ThreadInv
<1>8. Len(n) = Len(narrative) - k
  BY <1>0, <1>2, <1>4, Behind
<1>9. Len(s) = Len(turns) - l
  BY <1>0, <1>3, <1>5, Behind
<1>10. Len(n) <= MaxLines /\ Len(s) <= PersistTurns /\ Len(s) <= MaxTurns + 1
  BY <1>0, <1>2, <1>3, <1>8, <1>9, ThreadConstants DEF ThreadTyped
<1>11. Past' = Past
  BY <1>1 DEF Past
<1>12. ThreadTyped'
  BY <1>0, <1>1, <1>6, <1>10, <1>11 DEF ThreadTyped
<1>13. \A t \in Past : Placed(t)'
  BY <1>1 DEF ThreadInv, Placed
<1>14. Story(Past', saved'.narrative, saved'.turns)
  BY <1>6, <1>7, <1>11
<1> QED BY <1>1, <1>11, <1>12, <1>13, <1>14 DEF ThreadInv

LEMMA ThreadRestart == ASSUME ThreadInv, Thread!Restart PROVE ThreadInv'
<1>0. ThreadTyped /\ Len(kind) \in Nat /\ Thread!Ever = Past
  BY ThreadPast DEF ThreadInv
<1>1. /\ turns' = saved.turns /\ narrative' = saved.narrative
      /\ at' = "free" /\ hand' = {} /\ focus_roll' = FALSE
      /\ dropped' = Past \ (Thread!Range(saved.turns) \cup Thread!Told(saved.narrative) \cup UNION memory)
      /\ UNCHANGED <<kind, memory, saved>>
  BY <1>0 DEF Thread!Restart
<1>2. Past' = Past
  BY <1>1 DEF Past
<1>3. Story(Past, saved.narrative, saved.turns)
  BY DEF ThreadInv
<1>4. DOMAIN saved.turns = 1 .. Len(saved.turns) /\ DOMAIN saved.narrative = 1 .. Len(saved.narrative)
  BY <1>3, LenProperties DEF Story
<1>5. /\ \A t : t \in Thread!Range(saved.turns) => Buffered(saved.turns, t)
      /\ \A t : t \in Thread!Told(saved.narrative) => Lined(saved.narrative, t)
  BY <1>4, ThreadRange, ThreadTold DEF Buffered, Lined
<1>6. ASSUME NEW t \in Past PROVE Placed(t)'
  <2>1. \/ t \in dropped' \/ Buffered(turns', t) \/ Lined(narrative', t) \/ \E m \in memory' : t \in m
    BY <1>1, <1>5
  <2> QED BY <2>1 DEF Placed
<1>7. Len(narrative') <= MaxLines + 1
  <2>1. Len(saved.narrative) \in Nat /\ Len(saved.narrative) <= MaxLines
    BY <1>0, <1>3, LenProperties DEF Story, ThreadTyped
  <2> QED BY <1>1, <2>1, ThreadConstants
<1>8. ThreadTyped'
  <2>1. dropped' \subseteq Past
    BY <1>1
  <2> QED BY <1>0, <1>1, <1>2, <1>7, <2>1 DEF ThreadTyped
<1> QED BY <1>1, <1>2, <1>3, <1>6, <1>8 DEF ThreadInv

LEMMA ThreadKeeps == ASSUME ThreadInv, Thread!Next PROVE ThreadInv'
<1>1. \A k \in DOMAIN Salience : Thread!append(k, FALSE) => ThreadInv'
  BY ThreadAppend
<1>2. Thread!append("event", TRUE) => ThreadInv'
  BY ThreadAppend, ThreadConstants
<1> QED BY <1>1, <1>2, ThreadRoll, ThreadNarrate, ThreadRemember, ThreadSave, ThreadRestart DEF Thread!Next

LEMMA ThreadRests == ASSUME ThreadInv, UNCHANGED threadVars PROVE ThreadInv'
<1>1. UNCHANGED <<kind, turns, narrative, at, hand, focus_roll, memory, saved, dropped>>
  BY DEF threadVars
<1>2. Past' = Past
  BY <1>1 DEF Past
<1>3. ThreadTyped' /\ \A t \in Past : Placed(t)'
  BY <1>1, <1>2 DEF ThreadInv, ThreadTyped, Placed
<1> QED BY <1>1, <1>2, <1>3 DEF ThreadInv

LEMMA Outweighs ==
    ASSUME NEW a \in Nat, NEW b \in Nat, a >= b + 50, NEW l \in Nat, NEW i \in 1 .. l, NEW j \in 1 .. l
    PROVE  100 * i + a * 2 * l > 100 * j + b * 2 * l
<1>1. PICK d \in Nat : a = b + 50 + d
  <2>1. a - b - 50 \in Nat /\ a = b + 50 + (a - b - 50)
    OBVIOUS
  <2> QED BY <2>1
<1>2. PICK v \in Nat : v = b * 2 * l
  OBVIOUS
<1>3. PICK w \in Nat : w = d * 2 * l
  OBVIOUS
<1>4. (b + 50 + d) * 2 * l = b * 2 * l + 100 * l + d * 2 * l
  OBVIOUS
<1>5. a * 2 * l = v + 100 * l + w
  BY <1>1, <1>2, <1>3, <1>4
<1>6. PICK x \in Nat : x = a * 2 * l
  OBVIOUS
<1>7. 100 * i + x > 100 * j + v
  BY <1>5, <1>6
<1> QED BY <1>2, <1>6, <1>7

LEMMA StoryIsToldInOrder == ThreadInv => Thread!ThreadInOrder
<1> SUFFICES ASSUME ThreadInv PROVE Thread!ThreadInOrder
  OBVIOUS
<1>0. /\ turns \in Seq(Nat) /\ Len(turns) \in Nat /\ DOMAIN turns = 1 .. Len(turns)
      /\ narrative \in Seq(SUBSET Nat) /\ Len(narrative) \in Nat
      /\ hand \in SUBSET Nat /\ Story(Past, narrative, turns)
      /\ at = "narrating" => Between(narrative, hand, turns)
  BY ThreadParts, LenProperties DEF ThreadInv, ThreadTyped
<1>1. PICK x : x = IF at = "narrating" THEN <<hand>> ELSE << >>
  OBVIOUS
<1>2. /\ x \in Seq(SUBSET Nat) /\ Len(x) \in Nat
      /\ \A i \in 1 .. Len(x) : at = "narrating" /\ i = 1 /\ x[i] = hand
  <2>1. CASE at = "narrating"
    <3>1. x = <<hand>>
      BY <1>1, <2>1
    <3>2. x \in Seq(SUBSET Nat) /\ Len(x) = 1 /\ x[1] = hand
      BY <1>0, <3>1
    <3>3. \A i \in 1 .. Len(x) : i = 1
      BY <3>2
    <3> QED BY <2>1, <3>2, <3>3
  <2>2. CASE at # "narrating"
    <3>1. x = << >>
      BY <1>1, <2>2
    <3>2. x \in Seq(SUBSET Nat) /\ Len(x) = 0
      BY <3>1
    <3> QED BY <3>2
  <2> QED BY <2>1, <2>2
<1>3. PICK y : y = [i \in DOMAIN turns |-> {turns[i]}]
  OBVIOUS
<1>4. y \in Seq(SUBSET Nat) /\ Len(y) = Len(turns) /\ \A i \in 1 .. Len(turns) : y[i] = {turns[i]}
  <2>1. \A i \in 1 .. Len(turns) : {turns[i]} \in SUBSET Nat
    BY <1>0, ElementOfSeq
  <2>2. y \in [1 .. Len(turns) -> SUBSET Nat]
    BY <1>0, <1>3, <2>1
  <2>3. y \in Seq(SUBSET Nat)
    BY <1>0, <2>2, SeqDef
  <2>4. Len(y) \in Nat /\ DOMAIN y = 1 .. Len(y) /\ DOMAIN y = 1 .. Len(turns)
    BY <2>2, <2>3, LenProperties
  <2> QED BY <1>0, <1>3, <2>3, <2>4
<1>5. PICK z : z = narrative \o x
  OBVIOUS
<1>6. /\ z \in Seq(SUBSET Nat) /\ Len(z) = Len(narrative) + Len(x)
      /\ \A i \in 1 .. Len(narrative) + Len(x) :
           z[i] = IF i <= Len(narrative) THEN narrative[i] ELSE x[i - Len(narrative)]
  BY <1>0, <1>2, <1>5, ConcatProperties
<1>7. PICK told : told = z \o y
  OBVIOUS
<1>8. /\ told \in Seq(SUBSET Nat) /\ Len(told) = Len(z) + Len(y)
      /\ \A i \in 1 .. Len(z) + Len(y) : told[i] = IF i <= Len(z) THEN z[i] ELSE y[i - Len(z)]
  <2>1. z \in Seq(SUBSET Nat) /\ y \in Seq(SUBSET Nat)
    BY <1>4, <1>6
  <2> QED BY <1>7, <2>1, ConcatProperties
<1>9. PICK n, k \in Nat : n = Len(narrative) /\ k = Len(x)
  BY <1>0, <1>2
<1>10. DOMAIN told = 1 .. n + k + Len(turns)
  <2>1. DOMAIN told = 1 .. Len(told)
    BY <1>8, LenProperties
  <2> QED BY <1>4, <1>6, <1>8, <1>9, <2>1
<1>11. ASSUME NEW i \in DOMAIN told
       PROVE  \/ i \in 1 .. n /\ told[i] = narrative[i]
              \/ i = n + 1 /\ k >= 1 /\ at = "narrating" /\ told[i] = hand
              \/ i > n + k /\ i - n - k \in 1 .. Len(turns) /\ told[i] = {turns[i - n - k]}
  <2>0. i \in Nat /\ i >= 1 /\ i <= n + k + Len(turns) /\ Len(z) = n + k
    BY <1>0, <1>6, <1>9, <1>10
  <2>1. CASE i <= n
    <3>1. i \in 1 .. n /\ i \in 1 .. Len(z) + Len(y) /\ i <= Len(z) /\ i \in 1 .. Len(narrative) + Len(x)
      BY <1>0, <1>4, <1>9, <2>0, <2>1
    <3>2. told[i] = z[i] /\ z[i] = narrative[i]
      BY <1>6, <1>8, <1>9, <2>1, <3>1
    <3> QED BY <3>1, <3>2
  <2>2. CASE i > n /\ i <= n + k
    <3>1. /\ i \in 1 .. Len(z) + Len(y) /\ i <= Len(z) /\ i \in 1 .. Len(narrative) + Len(x)
          /\ ~(i <= Len(narrative)) /\ i - Len(narrative) \in 1 .. Len(x)
      BY <1>0, <1>4, <1>9, <2>0, <2>2
    <3>2. told[i] = z[i] /\ z[i] = x[i - Len(narrative)]
      BY <1>6, <1>8, <3>1
    <3>3. at = "narrating" /\ i - Len(narrative) = 1 /\ x[i - Len(narrative)] = hand
      BY <1>2, <3>1
    <3>4. i = n + 1 /\ k >= 1
      BY <1>9, <2>0, <2>2, <3>3
    <3> QED BY <3>2, <3>3, <3>4
  <2>3. CASE i > n + k
    <3>1. /\ i \in 1 .. Len(z) + Len(y) /\ ~(i <= Len(z)) /\ i - Len(z) = i - n - k
          /\ i - n - k \in 1 .. Len(turns)
      BY <1>0, <1>4, <1>9, <2>0, <2>3
    <3>2. told[i] = y[i - n - k]
      BY <1>8, <3>1
    <3> QED BY <1>4, <2>3, <3>1, <3>2
  <2> QED BY <2>0, <2>1, <2>2, <2>3
<1>12. ASSUME NEW i \in DOMAIN told, NEW j \in DOMAIN told, i < j PROVE \A t \in told[i], u \in told[j] : t < u
  <2>0. i \in Nat /\ j \in Nat
    BY <1>0, <1>10
  <2>1. CASE i \in 1 .. n /\ told[i] = narrative[i]
    <3>1. CASE j \in 1 .. n /\ told[j] = narrative[j]
      BY <1>0, <1>9, <1>12, <2>1, <3>1 DEF Story
    <3>2. CASE j = n + 1 /\ at = "narrating" /\ told[j] = hand
      BY <1>0, <1>9, <2>1, <3>2 DEF Between
    <3>3. CASE j - n - k \in 1 .. Len(turns) /\ told[j] = {turns[j - n - k]}
      BY <1>0, <1>9, <2>1, <3>3 DEF Story
    <3> QED BY <1>11, <3>1, <3>2, <3>3
  <2>2. CASE i = n + 1 /\ k >= 1 /\ at = "narrating" /\ told[i] = hand
    <3>1. j \notin 1 .. n /\ j # n + 1
      BY <1>12, <2>0, <2>2
    <3>2. j - n - k \in 1 .. Len(turns) /\ told[j] = {turns[j - n - k]}
      BY <1>11, <3>1
    <3> QED BY <1>0, <2>2, <3>2 DEF Between
  <2>3. CASE i > n + k /\ i - n - k \in 1 .. Len(turns) /\ told[i] = {turns[i - n - k]}
    <3>2. j > n + k /\ j \notin 1 .. n
      BY <1>9, <1>12, <2>0, <2>3
    <3>3. ~(j = n + 1 /\ k >= 1)
      BY <1>9, <3>2
    <3>4. j - n - k \in 1 .. Len(turns) /\ told[j] = {turns[j - n - k]}
      BY <1>11, <3>2, <3>3
    <3>5. i - n - k < j - n - k
      BY <1>9, <1>12, <2>0
    <3>6. turns[i - n - k] < turns[j - n - k]
      BY <1>0, <2>3, <3>4, <3>5 DEF Story
    <3> QED BY <2>3, <3>4, <3>6
  <2> QED BY <1>11, <2>1, <2>2, <2>3
<1>13. told = narrative \o (IF at = "narrating" THEN <<hand>> ELSE << >>) \o [i \in DOMAIN turns |-> {turns[i]}]
  BY <1>1, <1>3, <1>5, <1>7
<1> QED BY <1>12, <1>13 DEF Thread!ThreadInOrder

LEMMA MessageStaysInSight == ThreadInv => Thread!MessageNotBuried
<1> SUFFICES ASSUME ThreadInv, NEW i \in DOMAIN turns, NEW j \in DOMAIN turns,
                    kind[turns[i]] = "inbound", kind[turns[j]] \in {"thought", "event"}
             PROVE  Thread!Weight(i) > Thread!Weight(j)
  BY DEF Thread!MessageNotBuried
<1>0. turns \in Seq(Nat) /\ DOMAIN turns = 1 .. Len(turns) /\ Len(turns) \in Nat /\ Len(kind) \in Nat
      /\ kind \in Seq(DOMAIN Salience)
  BY ThreadParts, LenProperties DEF ThreadTyped
<1>1. turns[i] \in 1 .. Len(kind) /\ turns[j] \in 1 .. Len(kind)
  BY <1>0 DEF ThreadInv, Story, Past
<1>2. kind[turns[i]] \in DOMAIN Salience /\ kind[turns[j]] \in DOMAIN Salience
  BY <1>0, <1>1, ElementOfSeq
<1>3. PICK a, b \in Nat : a = Salience[kind[turns[i]]] /\ b = Salience[kind[turns[j]]]
  BY <1>2, ThreadConstants
<1>4. a >= b + 50
  BY <1>2, <1>3, ThreadConstants
<1>5. 100 * i + a * 2 * Len(turns) > 100 * j + b * 2 * Len(turns)
  BY <1>0, <1>4, Outweighs
<1> QED BY <1>3, <1>5 DEF Thread!Weight

LEMMA ThreadStands ==
    ThreadInv => /\ Thread!TypeOK /\ Thread!TurnsAccountedFor
                 /\ Thread!ThreadInOrder /\ Thread!MessageNotBuried
<1> SUFFICES ASSUME ThreadInv PROVE Thread!TypeOK /\ Thread!TurnsAccountedFor
  BY StoryIsToldInOrder, MessageStaysInSight
<1>0. /\ ThreadTyped /\ Thread!Ever = Past
      /\ DOMAIN turns = 1 .. Len(turns) /\ DOMAIN narrative = 1 .. Len(narrative)
  BY ThreadPast, ThreadParts, LenProperties DEF ThreadInv
<1>1. \A t : t \in Thread!Range(turns) <=> \E i \in 1 .. Len(turns) : turns[i] = t
  BY <1>0, ThreadRange
<1>2. \A t : t \in Thread!Told(narrative) <=> \E i \in 1 .. Len(narrative) : t \in narrative[i]
  BY <1>0, ThreadTold
<1>3. Thread!Range(turns) \subseteq Past
  BY <1>1 DEF ThreadInv, Story
<1>4. Thread!Told(narrative) \subseteq Past
  BY <1>2 DEF ThreadInv, Story
<1>5. hand \subseteq Past /\ UNION memory \subseteq Past /\ dropped \subseteq Past
  BY <1>0 DEF ThreadTyped
<1>6. Thread!TypeOK
  <2>1. memory \subseteq SUBSET Past /\ (at = "free" => hand = {})
    BY <1>0 DEF ThreadTyped, ThreadInv
  <2> QED BY <1>0, <1>3, <1>4, <2>1 DEF Thread!TypeOK, ThreadTyped
<1>7. PICK b, l, m : b = Thread!Range(turns) /\ l = Thread!Told(narrative) /\ m = UNION memory
  OBVIOUS
<1>8. \A t \in Past : t \in b \cup hand \cup l \cup dropped \cup m
  <2> TAKE t \in Past
  <2>1. Placed(t)
    BY DEF ThreadInv
  <2>2. Buffered(turns, t) => t \in b
    BY <1>1, <1>7 DEF Buffered
  <2>3. Lined(narrative, t) => t \in l
    BY <1>2, <1>7 DEF Lined
  <2>4. (\E x \in memory : t \in x) => t \in m
    BY <1>7
  <2> QED BY <2>1, <2>2, <2>3, <2>4 DEF Placed
<1>9. b \subseteq Past /\ l \subseteq Past /\ m \subseteq Past
  BY <1>3, <1>4, <1>5, <1>7
<1>10. Past = b \cup hand \cup l \cup dropped \cup m
  BY <1>5, <1>8, <1>9
<1>11. Past = Thread!Range(turns) \cup hand \cup Thread!Told(narrative) \cup dropped \cup UNION memory
  BY <1>7, <1>10, Zenon
<1>12. Thread!Ever = Past
  BY <1>0
<1>13. Thread!TurnsAccountedFor
  BY <1>11, <1>12, Zenon DEF Thread!TurnsAccountedFor
<1> QED BY <1>6, <1>13

-----------------------------------------------------------------------------
(* The consolidation: facts that supersede each other, the counts of a day,  *)
(* and the episodes on their way to a file.                                  *)

\* What the consolidation and the tools it races leave well-formed: the rows, the
\* calls in hand, and where the night is.
FactRecord == [by : 0 .. FactBound, valid : BOOLEAN]
NightRecord == [at : Night!Stages \cup {"idle", "insert"}, began : 0 .. Nights, list : SUBSET Nat,
                asked : SUBSET SUBSET Nat, pair : SUBSET Nat, found : (SUBSET Nat) \cup SUBSET DOMAIN Old]
RowsTyped ==
    /\ facts \in Seq(FactRecord) /\ Len(facts) <= FactBound
    /\ call \in [Callers -> [at : {"new", "found", "done"}, found : SUBSET (1 .. FactBound)]]
    /\ night \in NightRecord /\ night.list \subseteq 1 .. Len(facts)
\* As long as no two recordings overlap and nothing is merged, there is one
\* current fact at most, whoever is about to supersede facts has found it, and
\* nobody else is about to.
OneIsCurrent ==
    /\ \A f, g \in Night!Current : f = g
    /\ \A f \in Night!Current : facts[f].valid
    /\ \A c, d \in Night!Under : c = d
    /\ \A c \in Night!Under : call[c].found = Night!Current /\ night.at # "insert"
    /\ night.at = "insert" => night.found = Night!Current
    /\ night.at # "merge" /\ \A f, g \in night.list : f = g
Superseding == tangled \in BOOLEAN /\ (~tangled => OneIsCurrent)
\* A pass more than there were troubles is the one that has booked the day, and a
\* decay more is that of a pass which goes on or has booked the day.
Booked == night.at = "idle" /\ booked = day
Decayed == night.at \in {"archive", "mark", "autobiography", "plan", "record"}
Counted ==
    /\ day \in 1 .. Nights /\ due \in BOOLEAN /\ booked \in 0 .. Nights
    /\ passes \in Nat /\ decays \in Nat /\ troubles \in 0 .. Troubles
    /\ passes <= troubles \/ (Booked /\ passes <= troubles + 1)
    /\ decays <= troubles \/ ((Decayed \/ Booked) /\ decays <= troubles + 1)
\* Whatever is marked, or about to be, has been written to a file.
Filed(e) == e \in rewritten \/ \E m \in Night!Months : e \in file[m]
Filing ==
    /\ archived \subseteq DOMAIN Old /\ file \in [Night!Months -> SUBSET DOMAIN Old]
    /\ \A e \in archived : Filed(e)
    /\ night.at = "mark" => night.found \subseteq DOMAIN Old /\ \A e \in night.found : Filed(e)
NightInv == RowsTyped /\ Superseding /\ Counted /\ Filing

LEMMA NightConstants == FactBound \in Nat /\ Nights \in Nat \ {0} /\ Troubles \in Nat \ {0}
  BY RecordsAssumption DEF RecordsAssumption, Night!NightAssumption

LEMMA NumbersOfFacts ==
    ASSUME RowsTyped
    PROVE  /\ Len(facts) \in Nat /\ DOMAIN facts = 1 .. Len(facts)
           /\ \A f \in 1 .. Len(facts) : facts[f] \in FactRecord
  BY LenProperties, ElementOfSeq DEF RowsTyped

\* A fact is inserted: it is current, and what was found is superseded by it.
LEMMA RecordedIs ==
    ASSUME RowsTyped, Len(facts) < FactBound, NEW found, NEW r, r = Night!Recorded(found)
    PROVE  /\ r \in Seq(FactRecord) /\ Len(r) = Len(facts) + 1
           /\ \A f \in 1 .. Len(facts) : f \in found => r[f].by = Len(facts) + 1
           /\ \A f \in 1 .. Len(facts) : f \notin found => r[f] = facts[f]
           /\ r[Len(facts) + 1].valid
<1>0. /\ Len(facts) \in Nat /\ DOMAIN facts = 1 .. Len(facts) /\ FactBound \in Nat
      /\ \A f \in 1 .. Len(facts) : facts[f] \in FactRecord
  BY NumbersOfFacts, NightConstants
<1>1. [by |-> Len(facts) + 1, valid |-> FALSE] \in FactRecord /\ [by |-> 0, valid |-> TRUE] \in FactRecord
  BY <1>0 DEF FactRecord
<1>2. PICK s : s = [f \in DOMAIN facts |-> IF f \in found THEN [by |-> Len(facts) + 1, valid |-> FALSE] ELSE facts[f]]
  OBVIOUS
<1>3. s \in [1 .. Len(facts) -> FactRecord]
  BY <1>0, <1>1, <1>2
<1>4. s \in Seq(FactRecord)
  BY <1>0, <1>3, SeqDef
<1>5. Len(s) = Len(facts)
  <2>1. Len(s) \in Nat /\ DOMAIN s = 1 .. Len(s) /\ DOMAIN s = 1 .. Len(facts)
    BY <1>3, <1>4, LenProperties
  <2>2. PICK m, n \in Nat : m = Len(s) /\ n = Len(facts) /\ 1 .. m = 1 .. n
    BY <1>0, <2>1
  <2>3. (m >= 1 => m \in 1 .. n) /\ (n >= 1 => n \in 1 .. m)
    BY <2>2
  <2> QED BY <2>2, <2>3
<1>6. r = Append(s, [by |-> 0, valid |-> TRUE])
  BY <1>2 DEF Night!Recorded
<1>7. /\ r \in Seq(FactRecord) /\ Len(r) = Len(s) + 1 /\ r[Len(s) + 1] = [by |-> 0, valid |-> TRUE]
      /\ \A f \in 1 .. Len(s) : r[f] = s[f]
  BY <1>1, <1>4, <1>6, AppendProperties
<1>8. \A f \in 1 .. Len(facts) : s[f] = IF f \in found THEN [by |-> Len(facts) + 1, valid |-> FALSE] ELSE facts[f]
  BY <1>0, <1>2
<1>9. /\ \A f \in 1 .. Len(facts) : f \in found => r[f].by = Len(facts) + 1
      /\ \A f \in 1 .. Len(facts) : f \notin found => r[f] = facts[f]
  BY <1>0, <1>5, <1>7, <1>8
<1>10. r[Len(facts) + 1].valid
  BY <1>5, <1>7
<1> QED BY <1>5, <1>7, <1>9, <1>10

LEMMA CurrentIs == \A f : f \in Night!Current <=> f \in DOMAIN facts /\ facts[f].by = 0
  BY DEF Night!Current

\* Nobody can tell them apart while only what is current is valid.
LEMMA SimilarIsCurrent ==
    ASSUME \A f \in Night!Current : facts[f].valid PROVE Night!Similar = Night!Current
  BY DEF Night!Similar, Night!Current

\* The night goes on to another stage.
LEMMA GoesTo ==
    ASSUME night \in NightRecord, NEW s \in Night!Stages \cup {"idle", "insert"}, night' = [night EXCEPT !.at = s, !.found = {}]
    PROVE  /\ night' \in NightRecord /\ night'.at = s /\ night'.found = {}
           /\ night'.list = night.list /\ night'.began = night.began
  BY DEF NightRecord

LEMMA IdleIs == Night!Idle \in NightRecord /\ Night!Idle.at = "idle" /\ Night!Idle.list = {}
  BY NightConstants DEF Night!Idle, NightRecord

\* Every step keeps the rows well-formed.
LEMMA RowsStayTyped == ASSUME RowsTyped, day \in 1 .. Nights, Night!Next PROVE RowsTyped'
<1>0. /\ Len(facts) \in Nat /\ DOMAIN facts = 1 .. Len(facts) /\ Len(facts) <= FactBound
      /\ \A f \in 1 .. Len(facts) : facts[f] \in FactRecord
      /\ facts \in Seq(FactRecord) /\ night \in NightRecord /\ night.list \subseteq 1 .. Len(facts)
      /\ call \in [Callers -> [at : {"new", "found", "done"}, found : SUBSET (1 .. FactBound)]]
      /\ FactBound \in Nat /\ Nights \in Nat
  BY NumbersOfFacts, NightConstants DEF RowsTyped
<1>1. Night!Similar \subseteq 1 .. FactBound /\ Night!Current \subseteq 1 .. Len(facts)
      /\ Night!Similar \in SUBSET Nat
  BY <1>0 DEF Night!Similar, Night!Current
<1>2. ASSUME UNCHANGED facts, night' \in NightRecord, night'.list \in {night.list, {}, Night!Current}, UNCHANGED call
      PROVE  RowsTyped'
  BY <1>0, <1>1, <1>2 DEF RowsTyped
<1>3. ASSUME NEW found, Len(facts) < FactBound, facts' = Night!Recorded(found), night' \in NightRecord,
             night'.list = night.list,
             call' \in [Callers -> [at : {"new", "found", "done"}, found : SUBSET (1 .. FactBound)]]
      PROVE  RowsTyped'
  <2>1. facts' \in Seq(FactRecord) /\ Len(facts') = Len(facts) + 1
    BY <1>3, RecordedIs
  <2>2. Len(facts') <= FactBound /\ night'.list \subseteq 1 .. Len(facts')
    BY <1>0, <1>3, <2>1
  <2> QED BY <1>3, <2>1, <2>2 DEF RowsTyped
<1>4. ASSUME NEW s \in Night!Stages, Night!Go(s), UNCHANGED <<facts, call>> PROVE RowsTyped'
  <2>1. night' \in NightRecord /\ night'.list = night.list
    BY <1>0, <1>4, GoesTo DEF Night!Go
  <2> QED BY <1>2, <1>4, <2>1
<1>5. ASSUME night' = Night!Idle, UNCHANGED facts,
             call' \in [Callers -> [at : {"new", "found", "done"}, found : SUBSET (1 .. FactBound)]]
      PROVE  RowsTyped'
  <2>1. night' \in NightRecord /\ night'.list = {}
    BY <1>5, IdleIs
  <2> QED BY <1>0, <1>5, <2>1 DEF RowsTyped
<1>6. ASSUME NEW c \in Callers, Night!remember_fact(c) PROVE RowsTyped'
  <2>1. call' \in [Callers -> [at : {"new", "found", "done"}, found : SUBSET (1 .. FactBound)]]
    BY <1>0, <1>1, <1>6 DEF Night!remember_fact
  <2>2. UNCHANGED <<facts, night>>
    BY <1>6 DEF Night!remember_fact
  <2> QED BY <1>0, <2>1, <2>2 DEF RowsTyped
<1>7. ASSUME NEW c \in Callers, Night!FactInserted(c) PROVE RowsTyped'
  <2>1. call' \in [Callers -> [at : {"new", "found", "done"}, found : SUBSET (1 .. FactBound)]]
    BY <1>0, <1>7 DEF Night!FactInserted
  <2>2. PICK found : found = call[c].found
    OBVIOUS
  <2>3. Len(facts) < FactBound /\ facts' = Night!Recorded(found) /\ night' = night
    BY <1>7, <2>2 DEF Night!FactInserted
  <2> QED BY <1>0, <1>3, <2>1, <2>3
<1>8. ASSUME NEW episodes \in BOOLEAN, Night!_maybe_consolidate(episodes) PROVE RowsTyped'
  <2>1. PICK s \in Night!Stages : s = IF episodes THEN "distill" ELSE "knowhow"
    BY DEF Night!Stages
  <2>2. night' = [at |-> s, began |-> day, list |-> {}, asked |-> {}, pair |-> {}, found |-> {}]
    BY <1>8, <2>1 DEF Night!_maybe_consolidate, Night!Idle
  <2>3. day \in 0 .. Nights
    BY <1>0
  <2>4. night' \in NightRecord /\ night'.list = {}
    BY <2>2, <2>3 DEF NightRecord
  <2> QED BY <1>2, <1>8, <2>4 DEF Night!_maybe_consolidate, Night!rows
<1>9. ASSUME Night!_distill_cluster PROVE RowsTyped'
  <2>1. CASE Night!Go("resolve")
    BY <1>4, <1>9, <2>1 DEF Night!_distill_cluster, Night!Stages
  <2>2. CASE night' = [night EXCEPT !.at = "insert", !.found = Night!Similar]
    <3>1. night' \in NightRecord /\ night'.list = night.list
      BY <1>0, <1>1, <2>2 DEF NightRecord
    <3> QED BY <1>2, <1>9, <3>1 DEF Night!_distill_cluster
  <2> QED BY <1>9, <2>1, <2>2 DEF Night!_distill_cluster
<1>10. ASSUME Night!DistilledInserted PROVE RowsTyped'
  <2>1. PICK found : found = night.found
    OBVIOUS
  <2>2. Len(facts) < FactBound /\ facts' = Night!Recorded(found) /\ call' = call /\ Night!Go("distill")
    BY <1>10, <2>1 DEF Night!DistilledInserted
  <2>3. night' \in NightRecord /\ night'.list = night.list
    BY <1>0, <2>2, GoesTo DEF Night!Go, Night!Stages
  <2> QED BY <1>0, <1>3, <2>2, <2>3
<1>11. ASSUME Night!ReadFacts PROVE RowsTyped'
  <2>1. PICK l \in SUBSET Nat : l = Night!Current
    BY <1>0, <1>1
  <2>2. night' = [at |-> "pairs", began |-> night.began, list |-> l, asked |-> {}, pair |-> night.pair, found |-> night.found]
    BY <1>0, <1>11, <2>1 DEF Night!ReadFacts, NightRecord
  <2>3. night' \in NightRecord /\ night'.list = Night!Current
    BY <1>0, <2>1, <2>2 DEF NightRecord, Night!Stages
  <2> QED BY <1>2, <1>11, <2>3 DEF Night!ReadFacts, Night!rows
<1>12. ASSUME Night!_resolve_contradictions PROVE RowsTyped'
  <2>1. CASE Night!Go("knowhow") /\ UNCHANGED Night!rows
    BY <1>4, <2>1 DEF Night!Stages, Night!rows
  <2>2. ASSUME NEW p \in Night!Pairs PROVE p \in SUBSET Nat /\ p \subseteq 1 .. Len(facts)
    BY <1>0 DEF Night!Pairs
  <2>3. ASSUME NEW p \in Night!Pairs, night' = [night EXCEPT !.asked = @ \cup {p}], UNCHANGED Night!rows PROVE RowsTyped'
    <3>1. night' \in NightRecord /\ night'.list = night.list
      <4>1. night.asked \in SUBSET SUBSET Nat /\ p \in SUBSET Nat
        BY <1>0, <2>2 DEF NightRecord
      <4>2. PICK a \in SUBSET SUBSET Nat : a = night.asked \cup {p}
        BY <4>1
      <4>3. night' = [night EXCEPT !.asked = a]
        BY <2>3, <4>2
      <4> QED BY <1>0, <4>3 DEF NightRecord
    <3> QED BY <1>2, <2>3, <3>1 DEF Night!rows
  <2>4. ASSUME NEW p \in Night!Pairs, UNCHANGED <<facts, call>>,
               night' = [night EXCEPT !.at = "merge", !.asked = @ \cup {p}, !.pair = p, !.found = Night!Similar]
        PROVE  RowsTyped'
    <3>1. PICK a, f : a = night.asked \cup {p} /\ f = Night!Similar
      OBVIOUS
    <3>2. a \in SUBSET SUBSET Nat /\ f \in SUBSET Nat
      <4>1. night.asked \in SUBSET SUBSET Nat
        BY <1>0 DEF NightRecord
      <4>2. p \in SUBSET Nat
        BY <2>2
      <4>3. a \in SUBSET SUBSET Nat
        BY <3>1, <4>1, <4>2
      <4>4. f \in SUBSET Nat
        BY <1>0, <1>1, <3>1
      <4> QED BY <4>3, <4>4
    <3>3. night' = [at |-> "merge", began |-> night.began, list |-> night.list, asked |-> a, pair |-> p, found |-> f]
      BY <1>0, <2>4, <3>1 DEF NightRecord
    <3>4. night' \in NightRecord /\ night'.list = night.list
      BY <1>0, <2>2, <3>2, <3>3 DEF NightRecord, Night!Stages
    <3> QED BY <1>2, <2>4, <3>4
  <2>5. ASSUME NEW p \in Night!Pairs, NEW keep \in p, NEW lose \in p, UNCHANGED call,
               facts' = [facts EXCEPT ![lose] = [by |-> keep, valid |-> FALSE]],
               night' = [night EXCEPT !.asked = @ \cup {p}]
        PROVE  RowsTyped'
    <3>1. night' \in NightRecord /\ night'.list = night.list
      <4>1. night.asked \in SUBSET SUBSET Nat /\ p \in SUBSET Nat
        BY <1>0, <2>2 DEF NightRecord
      <4>2. PICK a \in SUBSET SUBSET Nat : a = night.asked \cup {p}
        BY <4>1
      <4>3. night' = [night EXCEPT !.asked = a]
        BY <2>5, <4>2
      <4> QED BY <1>0, <4>3 DEF NightRecord
    <3>2. [by |-> keep, valid |-> FALSE] \in FactRecord
      BY <1>0, <2>2 DEF FactRecord
    <3>3. facts' \in Seq(FactRecord) /\ Len(facts') = Len(facts)
      BY <1>0, <2>2, <2>5, <3>2, ExceptSeq
    <3> QED BY <1>0, <2>5, <3>1, <3>3 DEF RowsTyped
  <2> QED BY <1>12, <2>1, <2>3, <2>4, <2>5 DEF Night!_resolve_contradictions
<1>13. ASSUME Night!MergedInserted PROVE RowsTyped'
  <2>1. PICK r : r = Night!Recorded(night.found)
    OBVIOUS
  <2>2. /\ r \in Seq(FactRecord) /\ Len(r) = Len(facts) + 1 /\ Len(facts) < FactBound
    BY <1>13, <2>1, RecordedIs DEF Night!MergedInserted
  <2>3. \A f \in 1 .. Len(facts) + 1 : r[f] \in FactRecord
    BY <2>2, ElementOfSeq
  <2>4. [by |-> 0, valid |-> FALSE] \in FactRecord
    BY <1>0 DEF FactRecord
  <2>5. facts' \in [1 .. Len(facts) + 1 -> FactRecord]
    BY <1>13, <2>1, <2>3, <2>4 DEF Night!MergedInserted
  <2>6. facts' \in Seq(FactRecord) /\ Len(facts') = Len(facts) + 1
    <3>1. facts' \in Seq(FactRecord)
      BY <1>0, <2>5, SeqDef
    <3>2. Len(facts') \in Nat /\ DOMAIN facts' = 1 .. Len(facts') /\ DOMAIN facts' = 1 .. Len(facts) + 1
      BY <2>5, <3>1, LenProperties
    <3>3. PICK n \in Nat : n = Len(facts) + 1
      BY <1>0
    <3>4. PICK m \in Nat : m = Len(facts')
      BY <3>2
    <3>5. 1 .. m = 1 .. n
      BY <3>2, <3>3, <3>4
    <3>6. m = n
      <4>1. (m >= 1 => m \in 1 .. n) /\ (n >= 1 => n \in 1 .. m)
        BY <3>5
      <4> QED BY <4>1
    <3> QED BY <3>1, <3>3, <3>4, <3>6
  <2>7. night' \in NightRecord /\ night'.list = night.list
    BY <1>0, <1>13 DEF Night!MergedInserted, NightRecord, Night!Stages
  <2>8. Len(facts') <= FactBound /\ night'.list \subseteq 1 .. Len(facts')
    BY <1>0, <2>2, <2>6, <2>7
  <2> QED BY <1>0, <1>13, <2>6, <2>7, <2>8 DEF RowsTyped, Night!MergedInserted
<1>14. ASSUME Night!_extract_knowhow \/ Night!decay_pass \/ Night!NothingOld \/ Night!MarkArchived
               \/ Night!_autobiography \/ Night!_plan_next_day
       PROVE  RowsTyped'
  BY <1>4, <1>14 DEF Night!_extract_knowhow, Night!decay_pass, Night!NothingOld, Night!MarkArchived,
         Night!_autobiography, Night!_plan_next_day, Night!rows, Night!Stages
<1>15. ASSUME NEW m \in Night!Months, Night!archive_pass(m) PROVE RowsTyped'
  <2>1. PICK f : f = Night!PastCutoff
    OBVIOUS
  <2>2. f \in SUBSET DOMAIN Old
    BY <2>1 DEF Night!PastCutoff
  <2>3. night' = [at |-> "mark", began |-> night.began, list |-> night.list, asked |-> night.asked, pair |-> night.pair, found |-> f]
    BY <1>0, <1>15, <2>1 DEF Night!archive_pass, NightRecord
  <2>4. night' \in NightRecord /\ night'.list = night.list
    BY <1>0, <2>2, <2>3 DEF NightRecord, Night!Stages
  <2> QED BY <1>2, <1>15, <2>4 DEF Night!archive_pass, Night!rows
<1>16. ASSUME Night!NightEnds \/ Night!NightFails PROVE RowsTyped'
  BY <1>0, <1>5, <1>16 DEF Night!NightEnds, Night!NightFails, Night!rows
<1>17. ASSUME Night!Restart PROVE RowsTyped'
  <2>1. call' \in [Callers -> [at : {"new", "found", "done"}, found : SUBSET (1 .. FactBound)]]
    BY <1>0, <1>17 DEF Night!Restart
  <2> QED BY <1>5, <1>17, <2>1 DEF Night!Restart
<1>18. ASSUME Night!RunAt \/ Night!Midnight PROVE RowsTyped'
  BY <1>0, <1>2, <1>18 DEF Night!RunAt, Night!Midnight, Night!rows
<1> QED BY <1>6, <1>7, <1>8, <1>9, <1>10, <1>11, <1>12, <1>13, <1>14, <1>15, <1>16, <1>17, <1>18 DEF Night!Next

\* Whoever supersedes all there is leaves its own fact the only current one.
LEMMA NewIsCurrent ==
    ASSUME RowsTyped, Len(facts) < FactBound, facts' = Night!Recorded(Night!Current)
    PROVE  \A f \in Night!Current' : f = Len(facts) + 1 /\ facts'[f].valid
<1>0. Len(facts) \in Nat /\ DOMAIN facts = 1 .. Len(facts)
  BY NumbersOfFacts
<1>1. /\ facts' \in Seq(FactRecord) /\ Len(facts') = Len(facts) + 1 /\ facts'[Len(facts) + 1].valid
      /\ \A f \in 1 .. Len(facts) : f \in Night!Current => facts'[f].by = Len(facts) + 1
      /\ \A f \in 1 .. Len(facts) : f \notin Night!Current => facts'[f] = facts[f]
  BY RecordedIs
<1>2. DOMAIN facts' = 1 .. Len(facts) + 1
  BY <1>1, LenProperties
<1> SUFFICES ASSUME NEW f \in Night!Current' PROVE f = Len(facts) + 1 /\ facts'[f].valid
  OBVIOUS
<1>3. f \in 1 .. Len(facts) + 1 /\ facts'[f].by = 0
  BY <1>2 DEF Night!Current
<1>4. CASE f \in 1 .. Len(facts)
  <2>1. CASE f \in Night!Current
    <3>1. facts'[f].by = Len(facts) + 1
      BY <1>1, <1>4, <2>1
    <3> QED BY <1>0, <1>3, <3>1
  <2>2. CASE f \notin Night!Current
    <3>1. facts'[f] = facts[f]
      BY <1>1, <1>4, <2>2
    <3> QED BY <1>0, <1>3, <1>4, <2>2, <3>1 DEF Night!Current
  <2> QED BY <2>1, <2>2
<1>5. CASE f = Len(facts) + 1
  BY <1>1, <1>5
<1> QED BY <1>0, <1>3, <1>4, <1>5

\* While nothing is tangled, every step leaves one current fact at most.
LEMMA StaysSuperseding == ASSUME RowsTyped, Superseding, Night!Next PROVE Superseding'
<1>0. tangled \in BOOLEAN /\ night \in NightRecord
  BY DEF Superseding, RowsTyped
<1>1. tangled' \in BOOLEAN /\ (tangled => tangled')
  BY <1>0 DEF Night!Next, Night!remember_fact, Night!FactInserted, Night!_maybe_consolidate, Night!_distill_cluster,
     Night!DistilledInserted, Night!ReadFacts, Night!_resolve_contradictions, Night!MergedInserted,
     Night!_extract_knowhow, Night!decay_pass, Night!archive_pass, Night!NothingOld, Night!MarkArchived,
     Night!_autobiography, Night!_plan_next_day, Night!NightEnds, Night!NightFails, Night!Restart, Night!RunAt,
     Night!Midnight, Night!rows
<1> SUFFICES ASSUME ~tangled, ~tangled', OneIsCurrent PROVE OneIsCurrent'
  BY <1>1 DEF Superseding
<1>2. Night!Similar = Night!Current
  BY SimilarIsCurrent DEF OneIsCurrent
<1>3. ASSUME UNCHANGED <<facts, call>>, night'.at \notin {"insert", "merge"},
             \A f, g \in night'.list : f = g
      PROVE  OneIsCurrent'
  <2>1. Night!Current' = Night!Current /\ Night!Under' = Night!Under
    BY <1>3 DEF Night!Current, Night!Under
  <2> QED BY <1>3, <2>1 DEF OneIsCurrent
<1>4. ASSUME NEW s \in Night!Stages \ {"merge"}, Night!Go(s), UNCHANGED <<facts, call>> PROVE OneIsCurrent'
  <2>1. night'.at = s /\ night'.list = night.list /\ s \notin {"insert", "merge"}
    BY <1>0, <1>4, GoesTo DEF Night!Go, Night!Stages
  <2> QED BY <1>3, <1>4, <2>1 DEF OneIsCurrent
<1>5. ASSUME NEW c \in Callers, Night!remember_fact(c) PROVE OneIsCurrent'
  <2>1. /\ Night!Under = {} /\ night.at \notin {"insert", "merge"} /\ UNCHANGED <<facts, night>>
        /\ call' = [call EXCEPT ![c] = [at |-> "found", found |-> Night!Current]]
    BY <1>0, <1>2, <1>5 DEF Night!remember_fact, Night!Nightly
  <2>2. \A d \in Night!Under' : d = c /\ call'[d].found = Night!Current
    BY <2>1 DEF Night!Under, RowsTyped
  <2>3. Night!Current' = Night!Current
    BY <2>1 DEF Night!Current
  <2> QED BY <2>1, <2>2, <2>3 DEF OneIsCurrent
<1>6. ASSUME NEW c \in Callers, Night!FactInserted(c) PROVE OneIsCurrent'
  <2>1. c \in Night!Under
    BY <1>6 DEF Night!FactInserted, Night!Under
  <2>2. call[c].found = Night!Current /\ night.at # "insert" /\ UNCHANGED night
    BY <1>6, <2>1 DEF OneIsCurrent, Night!FactInserted
  <2>3. \A f \in Night!Current' : f = Len(facts) + 1 /\ facts'[f].valid
    BY <1>6, <2>2, NewIsCurrent DEF Night!FactInserted
  <2>4. \A d \in Callers : call'[d].at # "found"
    BY <1>6, <2>1 DEF Night!FactInserted, OneIsCurrent, Night!Under, RowsTyped
  <2>5. Night!Under' = {}
    BY <2>4 DEF Night!Under
  <2> QED BY <2>2, <2>3, <2>5 DEF OneIsCurrent
<1>7. ASSUME NEW episodes \in BOOLEAN, Night!_maybe_consolidate(episodes) PROVE OneIsCurrent'
  <2>1. UNCHANGED <<facts, call>> /\ night'.at \notin {"insert", "merge"} /\ night'.list = {}
    BY <1>7 DEF Night!_maybe_consolidate, Night!rows, Night!Idle
  <2> QED BY <1>3, <2>1
<1>8. ASSUME Night!_distill_cluster PROVE OneIsCurrent'
  <2>1. CASE Night!Go("resolve")
    BY <1>4, <1>8, <2>1 DEF Night!_distill_cluster, Night!Stages
  <2>2. CASE night' = [night EXCEPT !.at = "insert", !.found = Night!Similar] /\ tangled' = (tangled \/ Night!Under # {})
    <3>1. /\ night'.at = "insert" /\ night'.found = Night!Current /\ night'.list = night.list
          /\ Night!Under = {} /\ UNCHANGED <<facts, call>>
      BY <1>0, <1>2, <1>8, <2>2 DEF Night!_distill_cluster, NightRecord
    <3>2. Night!Current' = Night!Current /\ Night!Under' = {}
      BY <3>1 DEF Night!Current, Night!Under
    <3> QED BY <3>1, <3>2 DEF OneIsCurrent
  <2> QED BY <1>8, <2>1, <2>2 DEF Night!_distill_cluster
<1>9. ASSUME Night!DistilledInserted PROVE OneIsCurrent'
  <2>1. night.at = "insert" /\ night.found = Night!Current /\ Night!Under = {} /\ call' = call
    BY <1>9 DEF OneIsCurrent, Night!DistilledInserted
  <2>2. \A f \in Night!Current' : f = Len(facts) + 1 /\ facts'[f].valid
    BY <1>9, <2>1, NewIsCurrent DEF Night!DistilledInserted
  <2>3. night'.at = "distill" /\ night'.list = night.list
    BY <1>0, <1>9, GoesTo DEF Night!Go, Night!Stages, Night!DistilledInserted
  <2>4. Night!Under' = {}
    BY <2>1 DEF Night!Under
  <2> QED BY <2>2, <2>3, <2>4 DEF OneIsCurrent
<1>10. ASSUME Night!ReadFacts PROVE OneIsCurrent'
  <2>1. UNCHANGED <<facts, call>> /\ night'.at \notin {"insert", "merge"} /\ night'.list = Night!Current
    BY <1>0, <1>10 DEF Night!ReadFacts, Night!rows, NightRecord
  <2> QED BY <1>3, <2>1 DEF OneIsCurrent
<1>11. ASSUME Night!_resolve_contradictions PROVE OneIsCurrent'
  <2>1. CASE Night!Go("knowhow") /\ UNCHANGED Night!rows
    BY <1>4, <2>1 DEF Night!Stages, Night!rows
  <2>2. ASSUME NEW p \in Night!Pairs, night.at = "pairs", night' = [night EXCEPT !.asked = @ \cup {p}], UNCHANGED Night!rows
        PROVE  OneIsCurrent'
    <3>1. night'.at = "pairs" /\ night'.list = night.list
      BY <1>0, <2>2 DEF NightRecord
    <3> QED BY <1>3, <2>2, <3>1 DEF Night!rows, OneIsCurrent
  <2>3. ASSUME NEW p \in Night!Pairs, NEW keep \in p, NEW lose \in p, keep # lose PROVE FALSE
    <3>1. keep \in night.list /\ lose \in night.list
      BY DEF Night!Pairs
    <3> QED BY <2>3, <3>1 DEF OneIsCurrent
  <2> QED BY <1>11, <2>1, <2>2, <2>3 DEF Night!_resolve_contradictions
<1>12. ~Night!MergedInserted
  BY DEF Night!MergedInserted, OneIsCurrent
<1>13. ASSUME Night!_extract_knowhow \/ Night!decay_pass \/ Night!NothingOld \/ Night!MarkArchived
               \/ Night!_autobiography \/ Night!_plan_next_day
       PROVE  OneIsCurrent'
  BY <1>4, <1>13 DEF Night!_extract_knowhow, Night!decay_pass, Night!NothingOld, Night!MarkArchived,
         Night!_autobiography, Night!_plan_next_day, Night!rows, Night!Stages
<1>14. ASSUME NEW m \in Night!Months, Night!archive_pass(m) PROVE OneIsCurrent'
  <2>1. UNCHANGED <<facts, call>> /\ night'.at = "mark" /\ night'.list = night.list
    BY <1>0, <1>14 DEF Night!archive_pass, Night!rows, NightRecord
  <2> QED BY <1>3, <2>1 DEF OneIsCurrent
<1>15. ASSUME Night!NightEnds \/ Night!NightFails PROVE OneIsCurrent'
  <2>1. UNCHANGED <<facts, call>> /\ night' = Night!Idle
    BY <1>15 DEF Night!NightEnds, Night!NightFails, Night!rows
  <2>2. night'.at = "idle" /\ night'.list = {}
    BY <2>1, IdleIs
  <2> QED BY <1>3, <2>1, <2>2
<1>16. ASSUME Night!Restart PROVE OneIsCurrent'
  <2>1. night'.at = "idle" /\ night'.list = {} /\ UNCHANGED facts
    BY <1>16, IdleIs DEF Night!Restart
  <2>2. \A c \in Callers : call'[c].at # "found"
    BY <1>16 DEF Night!Restart
  <2>3. Night!Under' = {} /\ Night!Current' = Night!Current
    BY <2>1, <2>2 DEF Night!Under, Night!Current
  <2> QED BY <2>1, <2>3 DEF OneIsCurrent
<1>17. ASSUME Night!RunAt \/ Night!Midnight PROVE OneIsCurrent'
  <2>1. UNCHANGED <<facts, call, night>>
    BY <1>17 DEF Night!RunAt, Night!Midnight, Night!rows
  <2>2. Night!Current' = Night!Current /\ Night!Under' = Night!Under
    BY <2>1 DEF Night!Current, Night!Under
  <2> QED BY <2>1, <2>2 DEF OneIsCurrent
<1> QED BY <1>5, <1>6, <1>7, <1>8, <1>9, <1>10, <1>11, <1>12, <1>13, <1>14, <1>15, <1>16, <1>17 DEF Night!Next

\* Every step of the night, or of the clock, keeps the day's counts.
LEMMA StaysCounted == ASSUME RowsTyped, Counted, Night!Next PROVE Counted'
<1>0. /\ night \in NightRecord /\ Nights \in Nat /\ Troubles \in Nat /\ Troubles >= 1
      /\ day \in 1 .. Nights /\ day \in Nat /\ due \in BOOLEAN /\ booked \in 0 .. Nights
      /\ passes \in Nat /\ decays \in Nat /\ troubles \in Nat /\ troubles \in 0 .. Troubles
      /\ passes <= troubles \/ (Booked /\ passes <= troubles + 1)
      /\ decays <= troubles \/ ((Decayed \/ Booked) /\ decays <= troubles + 1)
  BY NightConstants DEF Counted, RowsTyped
<1>1. ASSUME UNCHANGED Night!clock, night.at # "idle", Decayed => Decayed' PROVE Counted'
  <2>1. ~Booked /\ (Booked' => night'.at = "idle")
    BY <1>1 DEF Booked
  <2> QED BY <1>0, <1>1, <2>1 DEF Counted, Night!clock
<1>2. ASSUME UNCHANGED Night!clock, UNCHANGED night PROVE Counted'
  BY <1>0, <1>2 DEF Counted, Night!clock, Booked, Decayed
<1>3. ASSUME NEW s \in Night!Stages, night.at # "idle", Night!Go(s), UNCHANGED Night!clock, ~Decayed \/ s \in {"autobiography", "plan", "record"}
      PROVE  Counted'
  <2>1. night'.at = s
    BY <1>0, <1>3, GoesTo DEF Night!Go
  <2> QED BY <1>1, <1>3, <2>1 DEF Decayed
<1>4. ASSUME NEW c \in Callers, Night!remember_fact(c) \/ Night!FactInserted(c) PROVE Counted'
  BY <1>2, <1>4 DEF Night!remember_fact, Night!FactInserted
<1>5. ASSUME NEW episodes \in BOOLEAN, Night!_maybe_consolidate(episodes) PROVE Counted'
  <2>1. ~Booked /\ ~Decayed /\ UNCHANGED Night!clock
    BY <1>5 DEF Night!_maybe_consolidate, Booked, Decayed
  <2> QED BY <1>0, <2>1 DEF Counted, Night!clock
<1>6. ASSUME Night!_distill_cluster PROVE Counted'
  <2>1. night.at = "distill" /\ UNCHANGED Night!clock
    BY <1>6 DEF Night!_distill_cluster
  <2> QED BY <1>1, <2>1 DEF Decayed
<1>7. ASSUME Night!DistilledInserted PROVE Counted'
  <2>1. night.at = "insert" /\ UNCHANGED Night!clock
    BY <1>7 DEF Night!DistilledInserted
  <2> QED BY <1>1, <2>1 DEF Decayed
<1>8. ASSUME Night!ReadFacts \/ Night!_resolve_contradictions \/ Night!MergedInserted PROVE Counted'
  <2>1. night.at \in {"resolve", "pairs", "merge"} /\ UNCHANGED Night!clock
    BY <1>8 DEF Night!ReadFacts, Night!_resolve_contradictions, Night!MergedInserted
  <2> QED BY <1>1, <2>1 DEF Decayed
<1>9. ASSUME Night!_extract_knowhow PROVE Counted'
  BY <1>3, <1>9 DEF Night!_extract_knowhow, Night!Stages, Decayed
<1>10. ASSUME Night!decay_pass PROVE Counted'
  <2>1. night'.at = "archive" /\ night.at = "decay"
    BY <1>0, <1>10, GoesTo DEF Night!decay_pass, Night!Go, Night!Stages
  <2>2. ~Booked /\ ~Decayed /\ Decayed'
    BY <2>1 DEF Booked, Decayed
  <2> QED BY <1>0, <1>10, <2>2 DEF Counted, Night!decay_pass
<1>11. ASSUME NEW m \in Night!Months, Night!archive_pass(m) PROVE Counted'
  <2>1. night'.at = "mark" /\ night.at = "archive" /\ UNCHANGED Night!clock
    BY <1>0, <1>11 DEF Night!archive_pass, NightRecord
  <2> QED BY <1>1, <2>1 DEF Decayed
<1>12. ASSUME Night!NothingOld \/ Night!MarkArchived \/ Night!_autobiography \/ Night!_plan_next_day PROVE Counted'
  BY <1>3, <1>12 DEF Night!NothingOld, Night!MarkArchived, Night!_autobiography, Night!_plan_next_day, Night!Stages
<1>13. ASSUME Night!NightEnds PROVE Counted'
  <2>1. night'.at = "idle" /\ night.at = "record" /\ booked' = day /\ passes' = passes + 1
        /\ UNCHANGED <<day, due, decays, troubles>>
    BY <1>13, IdleIs DEF Night!NightEnds, Night!Booking
  <2>2. ~Booked /\ Booked'
    BY <2>1 DEF Booked
  <2> QED BY <1>0, <2>1, <2>2 DEF Counted
<1>14. ASSUME Night!NightFails \/ Night!Restart PROVE Counted'
  <2>1. /\ troubles < Troubles /\ troubles' = troubles + 1 /\ UNCHANGED <<day, due, passes, decays>>
        /\ booked' \in {booked, 0}
    BY <1>14 DEF Night!NightFails, Night!Restart, Night!Trouble
  <2>2. passes' <= troubles' /\ decays' <= troubles' /\ troubles' \in 0 .. Troubles /\ booked' \in 0 .. Nights
    BY <1>0, <2>1
  <2> QED BY <1>0, <2>1, <2>2 DEF Counted
<1>15. ASSUME Night!RunAt PROVE Counted'
  BY <1>0, <1>15 DEF Counted, Night!RunAt, Booked, Decayed
<1>16. ASSUME Night!Midnight PROVE Counted'
  <2>1. /\ day < Nights /\ day' = day + 1 /\ due' = FALSE /\ passes' = 0 /\ decays' = 0 /\ booked' = booked
        /\ troubles' = 0 \/ troubles' = 1
    BY <1>16 DEF Night!Midnight
  <2>2. day' \in 1 .. Nights /\ troubles' \in 0 .. Troubles /\ troubles' >= 0
    BY <1>0, <2>1
  <2>3. passes' <= troubles' /\ decays' <= troubles' /\ passes' \in Nat /\ decays' \in Nat
    BY <2>1, <2>2
  <2> QED BY <1>0, <2>1, <2>2, <2>3 DEF Counted
<1> QED BY <1>4, <1>5, <1>6, <1>7, <1>8, <1>9, <1>10, <1>11, <1>12, <1>13, <1>14, <1>15, <1>16 DEF Night!Next

\* Every step keeps what is marked on file.
LEMMA StaysFiled == ASSUME RowsTyped, Filing, Night!Next PROVE Filing'
<1>0. /\ night \in NightRecord /\ archived \subseteq DOMAIN Old /\ file \in [Night!Months -> SUBSET DOMAIN Old]
      /\ \A e \in archived : Filed(e)
      /\ night.at = "mark" => night.found \subseteq DOMAIN Old /\ \A e \in night.found : Filed(e)
  BY DEF Filing, RowsTyped
<1>1. ASSUME UNCHANGED Night!store, night'.at # "mark" PROVE Filing'
  BY <1>0, <1>1 DEF Filing, Filed, Night!store
<1>2. ASSUME UNCHANGED Night!store, UNCHANGED night PROVE Filing'
  BY <1>0, <1>2 DEF Filing, Filed, Night!store
<1>3. ASSUME NEW s \in Night!Stages, s # "mark", Night!Go(s), UNCHANGED Night!store PROVE Filing'
  <2>1. night'.at = s
    BY <1>0, <1>3, GoesTo DEF Night!Go
  <2> QED BY <1>1, <1>3, <2>1
<1>4. ASSUME NEW c \in Callers, Night!remember_fact(c) \/ Night!FactInserted(c) PROVE Filing'
  BY <1>2, <1>4 DEF Night!remember_fact, Night!FactInserted
<1>5. ASSUME NEW episodes \in BOOLEAN, Night!_maybe_consolidate(episodes) PROVE Filing'
  BY <1>1, <1>5 DEF Night!_maybe_consolidate, Night!Idle
<1>6. ASSUME Night!_distill_cluster PROVE Filing'
  <2>1. CASE Night!Go("resolve")
    BY <1>3, <1>6, <2>1 DEF Night!_distill_cluster, Night!Stages
  <2>2. CASE night' = [night EXCEPT !.at = "insert", !.found = Night!Similar]
    <3>1. night'.at = "insert"
      BY <1>0, <2>2 DEF NightRecord
    <3> QED BY <1>1, <1>6, <3>1 DEF Night!_distill_cluster
  <2> QED BY <1>6, <2>1, <2>2 DEF Night!_distill_cluster
<1>7. ASSUME Night!DistilledInserted \/ Night!_extract_knowhow \/ Night!decay_pass PROVE Filing'
  <2>1. CASE Night!DistilledInserted
    BY <1>3, <2>1 DEF Night!DistilledInserted, Night!Stages
  <2>2. CASE Night!_extract_knowhow
    BY <1>3, <2>2 DEF Night!_extract_knowhow, Night!Stages
  <2>3. CASE Night!decay_pass
    BY <1>3, <2>3 DEF Night!decay_pass, Night!Stages
  <2> QED BY <1>7, <2>1, <2>2, <2>3
<1>8. ASSUME Night!ReadFacts \/ Night!MergedInserted PROVE Filing'
  <2>1. night'.at = "pairs" /\ UNCHANGED Night!store
    BY <1>0, <1>8 DEF Night!ReadFacts, Night!MergedInserted, NightRecord
  <2> QED BY <1>1, <2>1
<1>9. ASSUME Night!_resolve_contradictions PROVE Filing'
  <2>1. night'.at \in {"pairs", "knowhow", "merge"} /\ UNCHANGED Night!store
    BY <1>0, <1>9 DEF Night!_resolve_contradictions, NightRecord, Night!Go
  <2> QED BY <1>1, <2>1
<1>10. ASSUME NEW m \in Night!Months, Night!archive_pass(m) PROVE Filing'
  <2>1. PICK f : f = Night!PastCutoff
    OBVIOUS
  <2>2. f \subseteq DOMAIN Old
    BY <2>1 DEF Night!PastCutoff
  <2>3. /\ file' = [file EXCEPT ![m] = f] /\ rewritten' = rewritten \cup (file[m] \ f) /\ UNCHANGED archived
        /\ night'.at = "mark" /\ night'.found = f
    BY <1>0, <1>10, <2>1 DEF Night!archive_pass, NightRecord
  <2>4. \A e : Filed(e) => Filed(e)'
    BY <1>0, <2>3 DEF Filed
  <2>5. \A e \in f : Filed(e)'
    BY <1>0, <2>3 DEF Filed
  <2>6. file' \in [Night!Months -> SUBSET DOMAIN Old]
    BY <1>0, <2>2, <2>3
  <2> QED BY <1>0, <2>2, <2>3, <2>4, <2>5, <2>6 DEF Filing
<1>11. ASSUME Night!MarkArchived PROVE Filing'
  <2>1. night'.at = "autobiography"
    BY <1>0, <1>11, GoesTo DEF Night!MarkArchived, Night!Go, Night!Stages
  <2>2. night.at = "mark" /\ archived' = archived \cup night.found /\ UNCHANGED <<file, rewritten>>
    BY <1>11 DEF Night!MarkArchived
  <2> QED BY <1>0, <2>1, <2>2 DEF Filing, Filed
<1>12. ASSUME Night!NothingOld \/ Night!_autobiography \/ Night!_plan_next_day PROVE Filing'
  BY <1>3, <1>12 DEF Night!NothingOld, Night!_autobiography, Night!_plan_next_day, Night!Stages
<1>13. ASSUME Night!NightEnds \/ Night!NightFails \/ Night!Restart PROVE Filing'
  BY <1>1, <1>13, IdleIs DEF Night!NightEnds, Night!NightFails, Night!Restart
<1>14. ASSUME Night!RunAt \/ Night!Midnight PROVE Filing'
  BY <1>2, <1>14 DEF Night!RunAt, Night!Midnight
<1> QED BY <1>4, <1>5, <1>6, <1>7, <1>8, <1>9, <1>10, <1>11, <1>12, <1>13, <1>14 DEF Night!Next

LEMMA NightNext == ASSUME NightInv, Night!Next PROVE NightInv'
<1>1. RowsTyped'
  BY RowsStayTyped DEF NightInv, Counted
<1> QED BY <1>1, StaysSuperseding, StaysCounted, StaysFiled DEF NightInv

LEMMA NightRests == ASSUME NightInv, UNCHANGED nightVars PROVE NightInv'
<1>1. Night!Current' = Night!Current /\ Night!Under' = Night!Under
  BY DEF nightVars, Night!vars, Night!Current, Night!Under
<1>2. RowsTyped' /\ Counted'
  BY DEF NightInv, RowsTyped, Counted, Booked, Decayed, nightVars, Night!vars
<1>3. Superseding'
  BY <1>1 DEF NightInv, Superseding, OneIsCurrent, nightVars, Night!vars
<1>4. Filing'
  BY DEF NightInv, Filing, Filed, nightVars, Night!vars
<1> QED BY <1>2, <1>3, <1>4 DEF NightInv

LEMMA NightInit == ASSUME Night!Init PROVE NightInv
<1>1. RowsTyped
  <2>1. /\ facts = << >> /\ night = Night!Idle /\ call = [c \in Callers |-> [at |-> "new", found |-> {}]]
        /\ FactBound \in Nat
    BY NightConstants DEF Night!Init
  <2>2. facts \in Seq(FactRecord) /\ Len(facts) = 0
    BY <2>1
  <2> QED BY <2>1, <2>2, IdleIs DEF RowsTyped
<1>2. Superseding
  <2>1. Night!Current = {} /\ Night!Under = {}
    BY DEF Night!Current, Night!Under, Night!Init
  <2> QED BY <2>1, IdleIs DEF Superseding, OneIsCurrent, Night!Init
<1>3. Counted
  <2>1. day = 1 /\ due = FALSE /\ booked = 0 /\ passes = 0 /\ decays = 0 /\ troubles = 0
    BY DEF Night!Init
  <2>2. day \in 1 .. Nights /\ booked \in 0 .. Nights /\ troubles \in 0 .. Troubles /\ passes <= troubles
        /\ decays <= troubles
    BY <2>1, NightConstants
  <2> QED BY <2>1, <2>2 DEF Counted
<1>4. Filing
  BY IdleIs DEF Filing, Filed, Night!Init
<1> QED BY <1>1, <1>2, <1>3, <1>4 DEF NightInv

LEMMA NightCounts == Night!Cardinality({}) = 0 /\ \A x : Night!Cardinality({x}) = 1
<1>1. \A S : Night!IsFiniteSet(S) <=> IsFiniteSet(S)
  BY DEF Night!IsFiniteSet, IsFiniteSet
<1>2. \A S : Night!Cardinality(S) = Cardinality(S)
  BY <1>1 DEF Night!Cardinality, Cardinality
<1> QED BY <1>2, FS_EmptySet, FS_Singleton

\* What the invariant says, as the run says it.
LEMMA NightStands ==
    ASSUME NightInv
    PROVE  /\ Night!TypeOK /\ Night!OneCurrentUnlessTangled
           /\ Night!DecayedOncePerNight /\ Night!ArchivedIsOnFile
<1>0. RowsTyped /\ Superseding /\ Counted /\ Filing
  BY DEF NightInv
<1>1. /\ DOMAIN facts = 1 .. Len(facts) /\ \A f \in DOMAIN facts : facts[f] \in [by : 0 .. FactBound, valid : BOOLEAN]
  BY <1>0, NumbersOfFacts DEF FactRecord
<1>2. passes \in 0 .. Troubles + 1 /\ passes <= 1 + troubles /\ decays <= 1 + troubles
  BY <1>0, NightConstants DEF Counted
<1>3. Night!TypeOK
  BY <1>0, <1>1, <1>2 DEF Night!TypeOK, RowsTyped, NightRecord, Superseding, Counted, Filing
<1>4. Night!OneCurrentUnlessTangled
  <2> SUFFICES ASSUME ~tangled PROVE Night!Cardinality(Night!Current) <= 1
    BY DEF Night!OneCurrentUnlessTangled
  <2>1. \A f, g \in Night!Current : f = g
    BY <1>0 DEF Superseding, OneIsCurrent
  <2>2. PICK all : all = Night!Current
    OBVIOUS
  <2>3. CASE all = {}
    BY <2>2, <2>3, NightCounts
  <2>4. CASE all # {}
    <3>1. PICK f : f \in all
      BY <2>4
    <3>2. all = {f}
      BY <2>1, <2>2, <3>1
    <3>3. Night!Cardinality(all) = 1
      BY <3>2, NightCounts
    <3> QED BY <2>2, <3>3
  <2> QED BY <2>3, <2>4
<1>5. Night!DecayedOncePerNight
  BY <1>2 DEF Night!DecayedOncePerNight
<1>6. Night!ArchivedIsOnFile
  <2>1. \A e \in archived : e \in rewritten \cup UNION {file[m] : m \in Night!Months}
    BY <1>0 DEF Filing, Filed
  <2> QED BY <2>1 DEF Night!ArchivedIsOnFile
<1> QED BY <1>3, <1>4, <1>5, <1>6

-----------------------------------------------------------------------------
(* Induction over the numbers up to one: a set that lacks one lacks a least.*)

\* Of finitely many there is one that none is above, whatever above means.
LEMMA NoneAbove ==
    ASSUME NEW S, IsFiniteSet(S), S # {}, NEW A, \A x \in S : A[x] \in SUBSET S,
           \A x, y \in S : y \in A[x] => A[y] \subseteq A[x] /\ y \notin A[y]
    PROVE  \E x \in S : A[x] = {}
<1>1. PICK R : R = StrictSubsetOrdering(S)
  OBVIOUS
<1>2. IsWellFoundedOn(R, SUBSET S)
  <2>1. IsWellFoundedOn(R, FiniteSubsetsOf(S))
    BY <1>1, FS_StrictSubsetOrderingWellFounded
  <2>2. FiniteSubsetsOf(S) = SUBSET S
    BY FS_FiniteSubsetsOfFinite
  <2> QED BY <2>1, <2>2
<1>3. PICK T : T = {A[x] : x \in S}
  OBVIOUS
<1>4. T \subseteq SUBSET S /\ T # {}
  BY <1>3
<1>5. PICK u \in T : \A v \in T : ~ (<<v, u>> \in R)
  BY <1>2, <1>4, WFMin
<1>6. PICK x \in S : u = A[x]
  BY <1>3, <1>5
<1>7. ASSUME NEW y \in S, y \in A[x] PROVE FALSE
  <2>1. A[y] \in T /\ A[y] \in SUBSET S /\ A[x] \in SUBSET S
    BY <1>3
  <2>2. A[y] \subseteq A[x] /\ A[y] # A[x]
    BY <1>7
  <2>3. <<A[y], A[x]>> \in R
    <3>1. <<A[y], A[x]>> \in (SUBSET S) \X (SUBSET S)
      BY <2>1
    <3> QED BY <1>1, <2>2, <3>1 DEF StrictSubsetOrdering
  <2> QED BY <1>5, <1>6, <2>1, <2>3
<1>8. A[x] = {}
  BY <1>7
<1> QED BY <1>8

LEMMA Greatest == ASSUME NEW S, S \subseteq Int, IsFiniteSet(S), S # {} PROVE \E x \in S : \A y \in S : x >= y
<1>1. PICK A : A = [x \in S |-> {y \in S : y > x}]
  OBVIOUS
<1>2. \A x \in S : A[x] \in SUBSET S
  BY <1>1
<1>3. \A x, y \in S : y \in A[x] => A[y] \subseteq A[x] /\ y \notin A[y]
  <2> SUFFICES ASSUME NEW x \in S, NEW y \in S, y \in A[x] PROVE A[y] \subseteq A[x] /\ y \notin A[y]
    OBVIOUS
  <2>1. y > x
    BY <1>1
  <2>2. ASSUME NEW z \in A[y] PROVE z \in A[x]
    <3>1. z \in S /\ z > y
      BY <1>1
    <3> QED BY <1>1, <2>1, <3>1
  <2>3. y \notin A[y]
    BY <1>1
  <2> QED BY <2>2, <2>3
<1>4. PICK x \in S : A[x] = {}
  BY <1>2, <1>3, NoneAbove
<1> QED BY <1>1, <1>4

LEMMA Least == ASSUME NEW S, S \subseteq Int, IsFiniteSet(S), S # {} PROVE \E x \in S : \A y \in S : x <= y
<1>1. PICK A : A = [x \in S |-> {y \in S : y < x}]
  OBVIOUS
<1>2. \A x \in S : A[x] \in SUBSET S
  BY <1>1
<1>3. \A x, y \in S : y \in A[x] => A[y] \subseteq A[x] /\ y \notin A[y]
  <2> SUFFICES ASSUME NEW x \in S, NEW y \in S, y \in A[x] PROVE A[y] \subseteq A[x] /\ y \notin A[y]
    OBVIOUS
  <2>1. y < x
    BY <1>1
  <2>2. ASSUME NEW z \in A[y] PROVE z \in A[x]
    <3>1. z \in S /\ z < y
      BY <1>1
    <3> QED BY <1>1, <2>1, <3>1
  <2>3. y \notin A[y]
    BY <1>1
  <2> QED BY <2>2, <2>3
<1>4. PICK x \in S : A[x] = {}
  BY <1>2, <1>3, NoneAbove
<1> QED BY <1>1, <1>4

LEMMA LeastNat == ASSUME NEW S, S \subseteq Nat, S # {} PROVE \E x \in S : \A y \in S : x <= y
<1>1. PICK m \in S : TRUE
  OBVIOUS
<1>0. m \in Nat
  OBVIOUS
<1>2. PICK T : T = {x \in S : x <= m}
  OBVIOUS
<1>3. \A x : x \in T <=> x \in S /\ x <= m
  BY <1>2
<1>4. ASSUME NEW x \in T PROVE x \in Nat /\ x \in Int /\ x \in 0 .. m
  <2>1. x \in S /\ x <= m
    BY <1>3
  <2>2. x \in Nat
    BY <2>1
  <2> QED BY <1>0, <2>1, <2>2
<1>5. m \in T
  <2>1. m <= m
    BY <1>0
  <2> QED BY <1>2, <2>1
<1>6. IsFiniteSet(T)
  <2>1. IsFiniteSet(0 .. m)
    BY <1>0, FS_Interval
  <2>2. T \subseteq 0 .. m
    BY <1>4
  <2> QED BY <2>1, <2>2, FS_Subset
<1>7. T \subseteq Int /\ T # {}
  BY <1>4, <1>5
<1>8. PICK x \in T : \A y \in T : x <= y
  BY <1>6, <1>7, Least
<1>9. ASSUME NEW y \in S PROVE x <= y
  <2>1. CASE y <= m
    BY <1>3, <1>8, <1>9, <2>1
  <2>2. CASE ~(y <= m)
    <3>1. x <= m /\ x \in Nat /\ y \in Nat
      BY <1>3, <1>4, <1>8, <1>9
    <3> QED BY <1>0, <2>2, <3>1
  <2> QED BY <2>1, <2>2
<1> QED BY <1>3, <1>8, <1>9

\* Induction, as the absence of a least counterexample.
LEMMA Inductively ==
    ASSUME NEW n \in Nat, NEW S, 0 \in S, \A i \in Nat : i \in S /\ i < n => i + 1 \in S
    PROVE  \A i \in 0 .. n : i \in S
<1> SUFFICES ASSUME NEW i \in 0 .. n, i \notin S PROVE FALSE
  OBVIOUS
<1>1. PICK T : T = {j \in Nat : j <= n /\ j \notin S}
  OBVIOUS
<1>2. T \subseteq Nat
  BY <1>1
<1>3. i \in T
  BY <1>1
<1>4. PICK x \in T : \A y \in T : x <= y
  BY <1>2, <1>3, LeastNat
<1>5. x \in Nat /\ x <= n /\ x \notin S /\ x # 0
  BY <1>1, <1>4
<1>6. x - 1 \in Nat /\ (x - 1) + 1 = x /\ x - 1 < n
  BY <1>5
<1>7. x - 1 \notin S
  BY <1>5, <1>6
<1>8. x - 1 \in T
  BY <1>1, <1>6, <1>7
<1>9. x <= x - 1
  BY <1>4, <1>8
<1> QED BY <1>5, <1>9

-----------------------------------------------------------------------------
(* Clustering, first as graphs: the sets that no edge of F leads out of, the *)
(* sets that are w apart from the rest, and an edge set whose light edges    *)
(* tie what the weights bring near.                                          *)

Joined(F, S)    == \A e \in F : e.a \in S <=> e.b \in S
Shut(V, F)      == {S \in SUBSET V : Joined(F, S)}
Light(E, w)     == {e \in E : e.w < w}
Apart(V, W, w)  == {S \in SUBSET V : \A i \in S, j \in V \ S : W[i][j] >= w}
Tied(V, F, a, b) == \A S \in Shut(V, F) : a \in S => b \in S
Weighs(V, W)    == \A i, j \in V : W[i][j] \in Nat /\ W[i][j] = W[j][i]
Edge(V)         == [w : Nat, a : V, b : V]
Drawn(V, W, E)  == E \subseteq Edge(V) /\ \A e \in E : e.w = W[e.a][e.b]

LEMMA OtherSide == ASSUME NEW V, NEW F, F \subseteq Edge(V), NEW S \in Shut(V, F) PROVE V \ S \in Shut(V, F)
<1>1. S \subseteq V /\ \A e \in F : e.a \in S <=> e.b \in S
  BY DEF Shut, Joined
<1>2. ASSUME NEW e \in F PROVE e.a \in V \ S <=> e.b \in V \ S
  <2>1. e.a \in V /\ e.b \in V
    BY DEF Edge
  <2> QED BY <1>1, <2>1
<1> QED BY <1>2 DEF Shut, Joined

LEMMA TiedIsMutual ==
    ASSUME NEW V, NEW F, F \subseteq Edge(V), NEW a \in V, NEW b \in V, Tied(V, F, a, b)
    PROVE  Tied(V, F, b, a)
<1> SUFFICES ASSUME NEW S \in Shut(V, F), b \in S, a \notin S PROVE FALSE
  BY DEF Tied
<1>1. V \ S \in Shut(V, F)
  BY OtherSide
<1> QED BY <1>1 DEF Tied

LEMMA TiedGrows ==
    ASSUME NEW V, NEW F, NEW G, F \subseteq G, NEW a, NEW b, Tied(V, F, a, b)
    PROVE  Tied(V, G, a, b)
<1> SUFFICES ASSUME NEW S \in Shut(V, G), a \in S PROVE b \in S
  BY DEF Tied
<1>1. S \in Shut(V, F)
  BY DEF Shut, Joined
<1> QED BY <1>1 DEF Tied

LEMMA TiedOn ==
    ASSUME NEW V, NEW F, NEW a, NEW b, NEW c, Tied(V, F, a, b), Tied(V, F, b, c)
    PROVE  Tied(V, F, a, c)
  BY DEF Tied

LEMMA TiedByEdge == ASSUME NEW V, NEW F, NEW e \in F PROVE Tied(V, F, e.a, e.b)
  BY DEF Tied, Shut, Joined

LEMMA LightEdges == ASSUME NEW V, NEW E, E \subseteq Edge(V), NEW w PROVE Light(E, w) \subseteq Edge(V)
  BY DEF Light

\* What Prim keeps of the tree T and its edges E: near points of the tree are
\* tied by light edges, and so are those of the tree from which one that is
\* outside is near.
Knit(V, W, T, E, w)  == \A a, b \in T : W[a][b] < w => Tied(V, Light(E, w), a, b)
Front(V, W, T, E, w) ==
    \A a, b \in T : \A x, y \in V \ T : W[a][x] < w /\ W[b][y] < w => Tied(V, Light(E, w), a, b)

LEMMA PrimTakes ==
    ASSUME NEW V, NEW W, Weighs(V, W), NEW T, T \subseteq V, NEW E, Drawn(V, W, E),
           NEW s \in T, NEW u \in V \ T, \A a \in T, x \in V \ T : W[s][u] <= W[a][x],
           NEW e, e = [w |-> W[s][u], a |-> s, b |-> u], NEW w \in Nat,
           Knit(V, W, T, E, w), Front(V, W, T, E, w)
    PROVE  Knit(V, W, T \cup {u}, E \cup {e}, w) /\ Front(V, W, T \cup {u}, E \cup {e}, w)
<1> DEFINE G == Light(E \cup {e}, w)
<1>1. Light(E, w) \subseteq G
  BY DEF Light
<1>0. \A i, j \in V : W[i][j] \in Nat /\ W[i][j] = W[j][i]
  BY DEF Weighs
<1>2. e \in Edge(V) /\ e.a = s /\ e.b = u /\ e.w = W[s][u]
  BY <1>0 DEF Edge
<1>3. G \subseteq Edge(V)
  <2>1. E \cup {e} \subseteq Edge(V)
    BY <1>2 DEF Drawn
  <2> QED BY <2>1, LightEdges
<1>4. W[s][u] < w => Tied(V, G, s, u) /\ Tied(V, G, u, s)
  <2> SUFFICES ASSUME W[s][u] < w PROVE Tied(V, G, s, u) /\ Tied(V, G, u, s)
    OBVIOUS
  <2>1. e \in G
    BY <1>2 DEF Light
  <2>2. Tied(V, G, s, u)
    BY <1>2, <2>1, TiedByEdge
  <2>3. s \in V /\ u \in V
    OBVIOUS
  <2> HIDE DEF G
  <2> QED BY <1>3, <2>2, <2>3, TiedIsMutual
<1> HIDE DEF G
<1>5. ASSUME NEW a \in T, NEW x \in V \ T, W[a][x] < w PROVE Tied(V, G, a, u) /\ Tied(V, G, u, a)
  <2>0. s \in V /\ u \in V /\ a \in V /\ x \in V
    OBVIOUS
  <2>1. W[s][u] < w
    <3>1. W[s][u] <= W[a][x]
      OBVIOUS
    <3>2. W[s][u] \in Nat /\ W[a][x] \in Nat
      BY <1>0, <2>0
    <3> QED BY <1>5, <3>1, <3>2
  <2>2. Tied(V, Light(E, w), a, s) 
    BY <1>5, <2>1 DEF Front
  <2>3. Tied(V, G, a, s)
    BY <1>1, <2>2, TiedGrows
  <2>4. Tied(V, G, a, u)
    BY <1>4, <2>1, <2>3, TiedOn
  <2> QED BY <1>3, <2>0, <2>4, TiedIsMutual
<1>6. ASSUME NEW a \in T, NEW b \in T, W[a][b] < w PROVE Tied(V, G, a, b)
  BY <1>1, <1>6, TiedGrows DEF Knit
<1>7. Tied(V, G, u, u)
  BY DEF Tied
<1>8. Knit(V, W, T \cup {u}, E \cup {e}, w)
  <2> SUFFICES ASSUME NEW a \in T \cup {u}, NEW b \in T \cup {u}, W[a][b] < w PROVE Tied(V, G, a, b)
    BY DEF Knit, G
  <2>1. CASE a \in T /\ b \in T
    BY <1>6, <2>1
  <2>2. CASE a \in T /\ b = u
    BY <1>5, <2>2
  <2>3. CASE a = u /\ b \in T
    <3>1. u \in V /\ b \in V
      BY <2>3
    <3>2. W[b][u] < w
      BY <1>0, <2>3, <3>1
    <3> QED BY <1>5, <2>3, <3>2
  <2>4. CASE a = u /\ b = u
    BY <1>7, <2>4
  <2> QED BY <2>1, <2>2, <2>3, <2>4
<1>9. Front(V, W, T \cup {u}, E \cup {e}, w)
  <2> SUFFICES ASSUME NEW a \in T \cup {u}, NEW b \in T \cup {u}, NEW x \in V \ (T \cup {u}), NEW y \in V \ (T \cup {u}),
                      W[a][x] < w, W[b][y] < w
               PROVE  Tied(V, G, a, b)
    BY DEF Front, G
  <2>0. x \in V \ T /\ y \in V \ T
    OBVIOUS
  <2>1. CASE a \in T /\ b \in T
    <3>1. Tied(V, Light(E, w), a, b)
      BY <2>0, <2>1 DEF Front
    <3> QED BY <1>1, <3>1, TiedGrows
  <2>2. CASE a \in T /\ b = u
    BY <1>5, <2>0, <2>2
  <2>3. CASE a = u /\ b \in T
    BY <1>5, <2>0, <2>3
  <2>4. CASE a = u /\ b = u
    BY <1>7, <2>4
  <2> QED BY <2>1, <2>2, <2>3, <2>4
<1> QED BY <1>8, <1>9

\* A tree that has grown over all: its light edges lead wherever near pairs do.
LEMMA GrownOver ==
    ASSUME NEW V, NEW W, Weighs(V, W), NEW E, Drawn(V, W, E), NEW w \in Nat, Knit(V, W, V, E, w)
    PROVE  Shut(V, Light(E, w)) = Apart(V, W, w)
<1>0. \A i, j \in V : W[i][j] \in Nat /\ W[i][j] = W[j][i]
  BY DEF Weighs
<1>1. ASSUME NEW S \in Shut(V, Light(E, w)) PROVE S \in Apart(V, W, w)
  <2>1. S \subseteq V
    BY DEF Shut
  <2>2. ASSUME NEW i \in S, NEW j \in V \ S PROVE W[i][j] >= w
    <3>1. i \in V /\ j \in V
      BY <2>1
    <3>2. ~ Tied(V, Light(E, w), i, j)
      BY <1>1 DEF Tied
    <3>3. ~ (W[i][j] < w)
      BY <3>1, <3>2 DEF Knit
    <3> QED BY <1>0, <3>1, <3>3
  <2> QED BY <2>1, <2>2 DEF Apart
<1>2. ASSUME NEW S \in Apart(V, W, w) PROVE S \in Shut(V, Light(E, w))
  <2>1. S \subseteq V /\ \A i \in S, j \in V \ S : W[i][j] >= w
    BY DEF Apart
  <2>2. ASSUME NEW e \in Light(E, w) PROVE e.a \in S <=> e.b \in S
    <3>1. e.a \in V /\ e.b \in V /\ W[e.a][e.b] < w
      BY DEF Light, Drawn, Edge
    <3>2. W[e.b][e.a] < w /\ W[e.a][e.b] \in Nat /\ W[e.b][e.a] \in Nat
      BY <1>0, <3>1
    <3> QED BY <2>1, <3>1, <3>2
  <2> QED BY <2>1, <2>2 DEF Shut, Joined
<1> QED BY <1>1, <1>2

-----------------------------------------------------------------------------
(* Partitions: the least of the sets of a family are the blocks of one at   *)
(* most, and uniting the blocks at the ends of an edge keeps them the least.*)

Atoms(C, V, P) ==
    /\ P \subseteq C /\ {} \notin P /\ UNION P = V
    /\ \A S \in C, c \in P : c \cap S # {} => c \subseteq S

LEMMA SameAtoms ==
    ASSUME NEW C, NEW V, NEW P, NEW Q, Atoms(C, V, P), Atoms(C, V, Q)
    PROVE  P \subseteq Q
<1> SUFFICES ASSUME NEW c \in P PROVE c \in Q
  OBVIOUS
<1>1. PICK x \in c : TRUE
  BY DEF Atoms
<1>2. PICK d \in Q : x \in d
  BY <1>1 DEF Atoms
<1>3. c \in C /\ d \in C
  BY DEF Atoms
<1>4. c \subseteq d /\ d \subseteq c
  BY <1>1, <1>2, <1>3 DEF Atoms
<1> QED BY <1>4

LEMMA Disjoint ==
    ASSUME NEW C, NEW V, NEW P, Atoms(C, V, P), NEW c \in P, NEW d \in P, c \cap d # {}
    PROVE  c = d
  BY DEF Atoms

LEMMA SingleAtoms == ASSUME NEW V PROVE Atoms(Shut(V, {}), V, {{i} : i \in V})
  BY DEF Atoms, Shut, Joined

LEMMA UnitedAre ==
    ASSUME NEW V, NEW F, F \subseteq Edge(V), NEW e \in Edge(V), NEW P, Atoms(Shut(V, F), V, P)
    PROVE  \E c, d \in P :
              /\ e.a \in c /\ e.b \in d /\ Groups!United(P, e) = (P \ {c, d}) \cup {c \cup d}
              /\ c \cup d \notin P \ {c, d}
<1>1. e.a \in V /\ e.b \in V
  BY DEF Edge
<1>2. PICK c \in P : e.a \in c
  BY <1>1 DEF Atoms
<1>3. PICK d \in P : e.b \in d
  BY <1>1 DEF Atoms
<1>4. PICK J : J = {x \in P : e.a \in x \/ e.b \in x}
  OBVIOUS
<1>5. J = {c, d}
  <2>1. ASSUME NEW x \in J PROVE x \in {c, d}
    <3>1. x \in P /\ (x \cap c # {} \/ x \cap d # {})
      BY <1>2, <1>3, <1>4
    <3> QED BY <3>1, Disjoint
  <2> QED BY <1>2, <1>3, <1>4, <2>1
<1>6. UNION J = c \cup d
  BY <1>5
<1>7. Groups!United(P, e) = (P \ {c, d}) \cup {c \cup d}
  BY <1>4, <1>5, <1>6 DEF Groups!United
<1>8. c \cup d \notin P \ {c, d}
  <2> SUFFICES ASSUME c \cup d \in P, c \cup d # c PROVE FALSE
    OBVIOUS
  <2>1. (c \cup d) \cap c # {}
    BY <1>2
  <2> QED BY <2>1, Disjoint
<1> QED BY <1>2, <1>3, <1>7, <1>8

LEMMA UnitedAtoms ==
    ASSUME NEW V, NEW F, F \subseteq Edge(V), NEW e \in Edge(V), NEW P, Atoms(Shut(V, F), V, P)
    PROVE  Atoms(Shut(V, F \cup {e}), V, Groups!United(P, e))
<1>1. PICK c \in P, d \in P :
         /\ e.a \in c /\ e.b \in d /\ Groups!United(P, e) = (P \ {c, d}) \cup {c \cup d}
         /\ c \cup d \notin P \ {c, d}
  BY UnitedAre
<1>2. PICK Q : Q = (P \ {c, d}) \cup {c \cup d}
  OBVIOUS
<1>0. P \subseteq Shut(V, F) /\ {} \notin P /\ UNION P = V
  BY DEF Atoms
<1>3. ASSUME NEW x \in Q PROVE x \in Shut(V, F \cup {e})
  <2>1. CASE x = c \cup d
    <3>1. \A y \in {c, d} : y \subseteq V /\ \A f \in F : f.a \in y <=> f.b \in y
      BY <1>0 DEF Shut, Joined
    <3>2. c \cup d \subseteq V /\ (\A f \in F : f.a \in c \cup d <=> f.b \in c \cup d)
      BY <3>1
    <3>3. e.a \in c \cup d /\ e.b \in c \cup d
      BY <1>1
    <3> QED BY <2>1, <3>2, <3>3 DEF Shut, Joined
  <2>2. CASE x \in P \ {c, d}
    <3>1. x \subseteq V /\ \A f \in F : f.a \in x <=> f.b \in x
      BY <1>0, <2>2 DEF Shut, Joined
    <3>2. e.a \notin x
      <4> SUFFICES ASSUME e.a \in x PROVE FALSE
        OBVIOUS
      <4>1. x \cap c # {} /\ x \in P
        BY <1>1, <2>2
      <4> QED BY <2>2, <4>1, Disjoint
    <3>3. e.b \notin x
      <4> SUFFICES ASSUME e.b \in x PROVE FALSE
        OBVIOUS
      <4>1. x \cap d # {} /\ x \in P
        BY <1>1, <2>2
      <4> QED BY <2>2, <4>1, Disjoint
    <3> QED BY <3>1, <3>2, <3>3 DEF Shut, Joined
  <2> QED BY <1>2, <2>1, <2>2
<1>4. {} \notin Q /\ UNION Q = V
  <2>1. {} \notin Q
    BY <1>0, <1>1, <1>2
  <2>2. ASSUME NEW x \in V PROVE x \in UNION Q
    <3>1. PICK y \in P : x \in y
      BY <1>0
    <3>2. CASE y \in {c, d}
      <4>1. x \in c \cup d /\ c \cup d \in Q
        BY <1>2, <3>1, <3>2
      <4> QED BY <4>1
    <3>3. CASE y \notin {c, d}
      BY <1>2, <3>1, <3>3
    <3> QED BY <3>2, <3>3
  <2>3. ASSUME NEW y \in Q, NEW x \in y PROVE x \in V
    BY <1>0, <1>2
  <2>4. UNION Q = V
    BY <2>2, <2>3
  <2> QED BY <2>1, <2>4
<1>5. ASSUME NEW S \in Shut(V, F \cup {e}), NEW x \in Q, x \cap S # {} PROVE x \subseteq S
  <2>1. S \in Shut(V, F) /\ (e.a \in S <=> e.b \in S)
    BY DEF Shut, Joined
  <2>2. \A y \in P : y \cap S # {} => y \subseteq S
    BY <2>1 DEF Atoms
  <2>3. CASE x = c \cup d
    <3>1. CASE c \cap S # {}
      <4>1. c \subseteq S
        BY <2>2, <3>1
      <4>2. d \cap S # {}
        BY <1>1, <2>1, <4>1
      <4> QED BY <2>2, <2>3, <4>1, <4>2
    <3>2. CASE d \cap S # {}
      <4>1. d \subseteq S
        BY <2>2, <3>2
      <4>2. c \cap S # {}
        BY <1>1, <2>1, <4>1
      <4> QED BY <2>2, <2>3, <4>1, <4>2
    <3> QED BY <1>5, <2>3, <3>1, <3>2
  <2>4. CASE x \in P \ {c, d}
    BY <1>5, <2>2, <2>4
  <2> QED BY <1>2, <2>3, <2>4
<1>6. Q \subseteq Shut(V, F \cup {e})
  BY <1>3
<1>7. Atoms(Shut(V, F \cup {e}), V, Q)
  BY <1>4, <1>5, <1>6 DEF Atoms
<1> QED BY <1>1, <1>2, <1>7

\* Each edge makes one block less, at most.
LEMMA UnitedCount ==
    ASSUME NEW V, NEW F, F \subseteq Edge(V), NEW e \in Edge(V), NEW P, Atoms(Shut(V, F), V, P), IsFiniteSet(P)
    PROVE  /\ IsFiniteSet(Groups!United(P, e))
           /\ Cardinality(Groups!United(P, e)) >= Cardinality(P) - 1
<1>1. PICK c \in P, d \in P :
         /\ e.a \in c /\ e.b \in d /\ Groups!United(P, e) = (P \ {c, d}) \cup {c \cup d}
         /\ c \cup d \notin P \ {c, d}
  BY UnitedAre
<1>2. IsFiniteSet(P \ {c}) /\ Cardinality(P \ {c}) = Cardinality(P) - 1
  BY FS_RemoveElement
<1>3. /\ IsFiniteSet((P \ {c}) \ {d}) /\ Cardinality((P \ {c}) \ {d}) \in {Cardinality(P) - 1, Cardinality(P) - 2}
  <2>1. Cardinality(P) \in Nat
    BY FS_CardinalityType
  <2> QED BY <1>2, <2>1, FS_RemoveElement
<1>4. (P \ {c}) \ {d} = P \ {c, d}
  OBVIOUS
<1>5. PICK R : R = P \ {c, d}
  OBVIOUS
<1>6. IsFiniteSet(R) /\ Cardinality(R) \in {Cardinality(P) - 1, Cardinality(P) - 2} /\ c \cup d \notin R
  BY <1>1, <1>3, <1>4, <1>5
<1>7. IsFiniteSet(R \cup {c \cup d}) /\ Cardinality(R \cup {c \cup d}) = Cardinality(R) + 1
  BY <1>6, FS_AddElement
<1>8. Groups!United(P, e) = R \cup {c \cup d}
  BY <1>1, <1>5
<1>9. Cardinality(P) \in Nat
  BY FS_CardinalityType
<1> QED BY <1>6, <1>7, <1>8, <1>9

-----------------------------------------------------------------------------
(* The union-find, edge by edge.                                            *)

Unites(g, es, n) == g = [m \in 0 .. n |-> IF m = 0 THEN {{i} : i \in Groups!Nodes} ELSE Groups!United(g[m - 1], es[m])]

LEMMA UnitesExists == ASSUME NEW es, NEW N \in Nat PROVE \E g : Unites(g, es, N)
<1>1. PICK S : S = {n \in Nat : \E g : Unites(g, es, n)}
  OBVIOUS
<1>2. 0 \in S
  <2>1. PICK g : g = [m \in 0 .. 0 |-> {{i} : i \in Groups!Nodes}]
    OBVIOUS
  <2>2. Unites(g, es, 0)
    BY <2>1 DEF Unites
  <2>3. \E f : Unites(f, es, 0)
    BY <2>2
  <2> QED BY <1>1, <2>3
<1>3. ASSUME NEW n \in Nat, n \in S PROVE n + 1 \in S
  <2>1. PICK g : Unites(g, es, n)
    BY <1>1, <1>3
  <2>2. PICK h : h = [m \in 0 .. n + 1 |-> IF m = n + 1 THEN Groups!United(g[n], es[n + 1]) ELSE g[m]]
    OBVIOUS
  <2>3. ASSUME NEW m \in 0 .. n + 1
        PROVE  h[m] = IF m = 0 THEN {{i} : i \in Groups!Nodes} ELSE Groups!United(h[m - 1], es[m])
    <3>1. CASE m = n + 1
      <4>1. m # 0 /\ m - 1 = n /\ n \in 0 .. n + 1 /\ n # n + 1
        BY <3>1
      <4>2. h[n] = g[n]
        BY <2>2, <4>1
      <4>3. h[m] = Groups!United(g[n], es[n + 1])
        BY <2>2, <3>1
      <4>4. h[m] = Groups!United(h[m - 1], es[m])
        BY <3>1, <4>1, <4>2, <4>3
      <4> QED BY <4>1, <4>4
    <3>2. CASE m # n + 1
      <4>1. m \in 0 .. n /\ (m # 0 => m - 1 \in 0 .. n + 1 /\ m - 1 # n + 1)
        BY <3>2
      <4>2. h[m] = g[m] /\ (m # 0 => h[m - 1] = g[m - 1])
        BY <2>2, <3>2, <4>1
      <4>3. g[m] = IF m = 0 THEN {{i} : i \in Groups!Nodes} ELSE Groups!United(g[m - 1], es[m])
        BY <2>1, <4>1 DEF Unites
      <4> QED BY <4>2, <4>3
    <3> QED BY <3>1, <3>2
  <2>4. h = [m \in 0 .. n + 1 |-> h[m]]
    BY <2>2
  <2>5. Unites(h, es, n + 1)
    BY <2>3, <2>4 DEF Unites
  <2>6. \E f : Unites(f, es, n + 1)
    BY <2>5
  <2>7. n + 1 \in Nat
    OBVIOUS
  <2> QED BY <1>1, <2>6, <2>7
<1>4. \A i \in 0 .. N : i \in S
  BY <1>2, <1>3, Inductively
<1>5. N \in S
  <2>1. N \in 0 .. N
    OBVIOUS
  <2> QED BY <1>4, <2>1
<1> QED BY <1>1, <1>5

LEMMA GroupsIs == ASSUME NEW es, NEW n \in Nat PROVE \E g : Unites(g, es, n) /\ Groups!Groups(es, n) = g[n]
<1>1. \E g : g = [m \in 0 .. n |-> IF m = 0 THEN {{i} : i \in Groups!Nodes} ELSE Groups!United(g[m - 1], es[m])]
  BY UnitesExists DEF Unites
<1>2. PICK g : /\ g = [m \in 0 .. n |-> IF m = 0 THEN {{i} : i \in Groups!Nodes} ELSE Groups!United(g[m - 1], es[m])]
               /\ Groups!Groups(es, n) = g[n]
  BY <1>1 DEF Groups!Groups
<1> QED BY <1>2 DEF Unites

LEMMA GroupsNext ==
    ASSUME NEW es, NEW n \in Nat
    PROVE  /\ Groups!Groups(es, 0) = {{i} : i \in Groups!Nodes}
           /\ Groups!Groups(es, n + 1) = Groups!United(Groups!Groups(es, n), es[n + 1])
<1>1. PICK a : Unites(a, es, 0) /\ Groups!Groups(es, 0) = a[0]
  BY GroupsIs
<1>2. PICK g : Unites(g, es, n) /\ Groups!Groups(es, n) = g[n]
  BY GroupsIs
<1>3. n + 1 \in Nat
  OBVIOUS
<1>4. PICK h : Unites(h, es, n + 1) /\ Groups!Groups(es, n + 1) = h[n + 1]
  BY <1>3, GroupsIs
<1>5. PICK S : S = {m \in Nat : g[m] = h[m]}
  OBVIOUS
<1>6. g[0] = {{i} : i \in Groups!Nodes} /\ h[0] = {{i} : i \in Groups!Nodes} /\ a[0] = {{i} : i \in Groups!Nodes}
  <2>1. 0 \in 0 .. n /\ 0 \in 0 .. n + 1 /\ 0 \in 0 .. 0
    OBVIOUS
  <2> QED BY <1>1, <1>2, <1>4, <2>1 DEF Unites
<1>7. ASSUME NEW m \in Nat, m \in S, m < n PROVE m + 1 \in S
  <2>1. m + 1 \in 0 .. n /\ m + 1 \in 0 .. n + 1 /\ m + 1 # 0 /\ (m + 1) - 1 = m /\ m + 1 \in Nat
    BY <1>7
  <2>2. g[m + 1] = Groups!United(g[m], es[m + 1])
    BY <1>2, <2>1 DEF Unites
  <2>3. h[m + 1] = Groups!United(h[m], es[m + 1])
    BY <1>4, <2>1 DEF Unites
  <2> QED BY <1>5, <1>7, <2>1, <2>2, <2>3
<1>8. 0 \in S
  BY <1>5, <1>6
<1>9. \A m \in 0 .. n : m \in S
  BY <1>7, <1>8, Inductively
<1>10. g[n] = h[n]
  <2>1. n \in 0 .. n
    OBVIOUS
  <2> QED BY <1>5, <1>9, <2>1
<1>11. h[n + 1] = Groups!United(h[n], es[n + 1])
  <2>1. n + 1 \in 0 .. n + 1 /\ n + 1 # 0 /\ (n + 1) - 1 = n
    OBVIOUS
  <2> QED BY <1>4, <2>1 DEF Unites
<1> QED BY <1>1, <1>2, <1>4, <1>6, <1>10, <1>11

\* After n edges the blocks are the least sets that none of the n leads out of.
First(es, n) == {es[i] : i \in 1 .. n}

LEMMA GroupsAre ==
    ASSUME NEW es, NEW N \in Nat, \A i \in 1 .. N : es[i] \in Edge(Groups!Nodes), IsFiniteSet(Groups!Nodes)
    PROVE  \A n \in 0 .. N :
             /\ Atoms(Shut(Groups!Nodes, First(es, n)), Groups!Nodes, Groups!Groups(es, n))
             /\ IsFiniteSet(Groups!Groups(es, n))
             /\ n # 0 => Cardinality(Groups!Groups(es, n)) >= Cardinality(Groups!Groups(es, n - 1)) - 1
<1>. PICK V : V = Groups!Nodes
  OBVIOUS
<1>0. \A n \in 0 .. N : First(es, n) \subseteq Edge(V)
  BY DEF First
<1> DEFINE OK(n) ==
             /\ Atoms(Shut(V, First(es, n)), V, Groups!Groups(es, n))
             /\ IsFiniteSet(Groups!Groups(es, n))
             /\ n # 0 => Cardinality(Groups!Groups(es, n)) >= Cardinality(Groups!Groups(es, n - 1)) - 1
<1>1. PICK S : S = {n \in Nat : OK(n)}
  OBVIOUS
<1>2. OK(0)
  <2>1. First(es, 0) = {}
    BY DEF First
  <2>2. Groups!Groups(es, 0) = {{i} : i \in V}
    BY GroupsNext
  <2>3. Atoms(Shut(V, {}), V, {{i} : i \in V})
    BY SingleAtoms
  <2>4. IsFiniteSet({{i} : i \in V})
    <3>1. {{i} : i \in V} \subseteq SUBSET V
      OBVIOUS
    <3>2. IsFiniteSet(SUBSET V)
      BY FS_SUBSET
    <3> QED BY <3>1, <3>2, FS_Subset
  <2> QED BY <2>1, <2>2, <2>3, <2>4
<1>3. ASSUME NEW n \in Nat, OK(n), n < N PROVE OK(n + 1)
  <2>1. n + 1 \in 1 .. N /\ n + 1 \in 0 .. N /\ n \in 0 .. N /\ (n + 1) - 1 = n
    BY <1>3
  <2>2. PICK e : e = es[n + 1]
    OBVIOUS
  <2>3. e \in Edge(V) /\ First(es, n) \subseteq Edge(V)
    BY <1>0, <2>1, <2>2
  <2>4. First(es, n + 1) = First(es, n) \cup {e}
    <3>1. \A i : i \in 1 .. n + 1 <=> i \in 1 .. n \/ i = n + 1
      OBVIOUS
    <3> QED BY <2>2, <3>1 DEF First
  <2>5. PICK P : P = Groups!Groups(es, n)
    OBVIOUS
  <2>6. Groups!Groups(es, n + 1) = Groups!United(P, e)
    BY <2>2, <2>5, GroupsNext
  <2>7. Atoms(Shut(V, First(es, n)), V, P) /\ IsFiniteSet(P)
    BY <1>3, <2>5
  <2>8. Atoms(Shut(V, First(es, n + 1)), V, Groups!United(P, e))
    BY <2>3, <2>4, <2>7, UnitedAtoms
  <2>9. IsFiniteSet(Groups!United(P, e)) /\ Cardinality(Groups!United(P, e)) >= Cardinality(P) - 1
    BY <2>3, <2>7, UnitedCount
  <2> QED BY <2>1, <2>5, <2>6, <2>8, <2>9
<1> HIDE DEF OK
<1>4. \A n \in Nat : n \in S /\ n < N => n + 1 \in S
  <2> SUFFICES ASSUME NEW n \in Nat, n \in S, n < N PROVE n + 1 \in S
    OBVIOUS
  <2>1. OK(n + 1) /\ n + 1 \in Nat
    BY <1>1, <1>3
  <2> QED BY <1>1, <2>1
<1>5. \A n \in 0 .. N : n \in S
  BY <1>1, <1>2, <1>4, Inductively
<1>6. \A n \in 0 .. N : OK(n)
  BY <1>1, <1>5
<1> QED BY <1>6 DEF OK

-----------------------------------------------------------------------------
(* The components of a threshold graph.                                     *)

Spreads(g, near, N) ==
    g = [n \in 0 .. N |-> IF n = 0 THEN [i \in Groups!Nodes |-> {i}] ELSE Groups!Further(near, g[n - 1])]

LEMMA SpreadsExists == ASSUME NEW near, NEW N \in Nat PROVE \E g : Spreads(g, near, N)
<1>1. PICK S : S = {n \in Nat : \E g : Spreads(g, near, n)}
  OBVIOUS
<1>2. 0 \in S
  <2>1. PICK g : g = [n \in 0 .. 0 |-> [i \in Groups!Nodes |-> {i}]]
    OBVIOUS
  <2>2. Spreads(g, near, 0)
    BY <2>1 DEF Spreads
  <2>3. \E f : Spreads(f, near, 0)
    BY <2>2
  <2> QED BY <1>1, <2>3
<1>3. ASSUME NEW n \in Nat, n \in S PROVE n + 1 \in S
  <2>1. PICK g : Spreads(g, near, n)
    BY <1>1, <1>3
  <2>2. PICK h : h = [m \in 0 .. n + 1 |-> IF m = n + 1 THEN Groups!Further(near, g[n]) ELSE g[m]]
    OBVIOUS
  <2>3. ASSUME NEW m \in 0 .. n + 1
        PROVE  h[m] = IF m = 0 THEN [i \in Groups!Nodes |-> {i}] ELSE Groups!Further(near, h[m - 1])
    <3>1. CASE m = n + 1
      <4>1. m # 0 /\ m - 1 = n /\ n \in 0 .. n + 1 /\ n # n + 1
        BY <3>1
      <4>2. h[n] = g[n]
        BY <2>2, <4>1
      <4>3. h[m] = Groups!Further(near, g[n])
        BY <2>2, <3>1
      <4>4. h[m] = Groups!Further(near, h[m - 1])
        BY <4>1, <4>2, <4>3
      <4> QED BY <4>1, <4>4
    <3>2. CASE m # n + 1
      <4>1. m \in 0 .. n /\ (m # 0 => m - 1 \in 0 .. n + 1 /\ m - 1 # n + 1)
        BY <3>2
      <4>2. h[m] = g[m] /\ (m # 0 => h[m - 1] = g[m - 1])
        BY <2>2, <3>2, <4>1
      <4>3. g[m] = IF m = 0 THEN [i \in Groups!Nodes |-> {i}] ELSE Groups!Further(near, g[m - 1])
        BY <2>1, <4>1 DEF Spreads
      <4> QED BY <4>2, <4>3
    <3> QED BY <3>1, <3>2
  <2>4. h = [m \in 0 .. n + 1 |-> h[m]]
    BY <2>2
  <2>5. Spreads(h, near, n + 1)
    BY <2>3, <2>4 DEF Spreads
  <2>6. \E f : Spreads(f, near, n + 1)
    BY <2>5
  <2>7. n + 1 \in Nat
    OBVIOUS
  <2> QED BY <1>1, <2>6, <2>7
<1>4. \A i \in 0 .. N : i \in S
  BY <1>2, <1>3, Inductively
<1>5. N \in S
  <2>1. N \in 0 .. N
    OBVIOUS
  <2> QED BY <1>4, <2>1
<1> QED BY <1>1, <1>5

\* From one node: what is reached is closed, or is one more at every step.
Reaches(V, W, w, i, R, n) ==
    /\ R \subseteq V /\ i \in R
    /\ \A S \in Apart(V, W, w) : i \in S => R \subseteq S
    /\ R \in Apart(V, W, w) \/ Cardinality(R) >= n + 1

LEMMA ReachesOn ==
    ASSUME NEW V, IsFiniteSet(V), NEW W, Weighs(V, W), NEW w \in Nat, NEW i \in V, NEW R, NEW n \in Nat,
           Reaches(V, W, w, i, R, n),
           NEW Q, Q = UNION {{j} \cup {x \in V : W[j][x] < w} : j \in R}
    PROVE  Reaches(V, W, w, i, Q, n + 1)
<1>0. R \subseteq V /\ i \in R /\ (\A S \in Apart(V, W, w) : i \in S => R \subseteq S)
  BY DEF Reaches
<1>1. \A x : x \in Q <=> \E j \in R : x = j \/ (x \in V /\ W[j][x] < w)
  OBVIOUS
<1>2. Q \subseteq V /\ R \subseteq Q
  BY <1>0, <1>1
<1>3. ASSUME NEW S \in Apart(V, W, w), i \in S PROVE Q \subseteq S
  <2>1. R \subseteq S
    BY <1>0, <1>3
  <2>2. ASSUME NEW x \in Q, x \notin S PROVE FALSE
    <3>1. PICK j \in R : x = j \/ (x \in V /\ W[j][x] < w)
      BY <1>1
    <3>2. j \in S /\ j \in V /\ x \in V /\ x \notin S /\ W[j][x] < w
      BY <1>0, <1>2, <2>1, <2>2, <3>1
    <3>3. W[j][x] >= w /\ W[j][x] \in Nat
      BY <3>2 DEF Apart, Weighs
    <3> QED BY <3>2, <3>3
  <2> QED BY <2>2
<1>4. Q \in Apart(V, W, w) \/ Cardinality(Q) >= (n + 1) + 1
  <2>1. CASE R \in Apart(V, W, w)
    <3>1. Q = R
      BY <1>0, <1>2, <1>3, <2>1
    <3> QED BY <2>1, <3>1
  <2>2. CASE R \notin Apart(V, W, w)
    <3>1. PICK j \in R, x \in V \ R : ~ (W[j][x] >= w)
      BY <1>0, <2>2 DEF Apart
    <3>2. W[j][x] < w
      BY <1>0, <3>1 DEF Weighs
    <3>3. x \in Q /\ x \notin R
      BY <1>1, <3>1, <3>2
    <3>4. IsFiniteSet(Q) /\ IsFiniteSet(R)
      BY <1>0, <1>2, FS_Subset
    <3>5. Cardinality(R) \in Nat /\ Cardinality(Q) \in Nat
      BY <3>4, FS_CardinalityType
    <3>6. Cardinality(R) <= Cardinality(Q) /\ (Cardinality(Q) = Cardinality(R) => Q = R)
      BY <1>2, <3>4, FS_Subset
    <3>7. Cardinality(R) >= n + 1
      BY <2>2 DEF Reaches
    <3> QED BY <3>3, <3>5, <3>6, <3>7
  <2> QED BY <2>1, <2>2
<1> QED BY <1>0, <1>2, <1>3, <1>4 DEF Reaches

LEMMA OtherSideApart ==
    ASSUME NEW V, NEW W, Weighs(V, W), NEW w \in Nat, NEW S \in Apart(V, W, w)
    PROVE  V \ S \in Apart(V, W, w)
<1>1. S \subseteq V /\ \A i \in S, j \in V \ S : W[i][j] >= w
  BY DEF Apart
<1>2. ASSUME NEW i \in V \ S, NEW j \in V \ (V \ S) PROVE W[i][j] >= w
  <2>1. j \in S /\ i \in V /\ j \in V
    OBVIOUS
  <2>2. W[j][i] >= w
    BY <1>1, <2>1
  <2> QED BY <2>1, <2>2 DEF Weighs
<1> QED BY <1>2 DEF Apart

LEMMA BelowAre ==
    ASSUME Len(points) \in Nat, NEW W, Weighs(Groups!Nodes, W), NEW w \in Nat
    PROVE  Atoms(Apart(Groups!Nodes, W, w), Groups!Nodes, Groups!Below(W, w))
<1>. PICK V : V = Groups!Nodes
  OBVIOUS
<1>. PICK N : N = Len(points)
  OBVIOUS
<1>0. V = 1 .. N /\ N \in Nat /\ IsFiniteSet(V) /\ Cardinality(V) = N
  <2>1. V = 1 .. N
    BY DEF Groups!Nodes
  <2>2. 1 \in Int /\ N \in Int /\ N \in Nat
    OBVIOUS
  <2>3. IsFiniteSet(1 .. N) /\ Cardinality(1 .. N) = IF 1 > N THEN 0 ELSE N - 1 + 1
    BY <2>2, FS_Interval
  <2> QED BY <2>1, <2>2, <2>3
<1>20. PICK near : near = [i \in Groups!Nodes |-> {i} \cup {j \in Groups!Nodes : W[i][j] < w}]
  OBVIOUS
<1>1. PICK g : Spreads(g, near, N) /\ Groups!Below(W, w) = {g[N][i] : i \in V}
  <2>1. \E g : Spreads(g, [i \in Groups!Nodes |-> {i} \cup {j \in Groups!Nodes : W[i][j] < w}], Len(points))
    BY SpreadsExists
  <2>2. \E g : g = [n \in 0 .. Len(points) |-> IF n = 0 THEN [i \in Groups!Nodes |-> {i}]
                     ELSE Groups!Further([i \in Groups!Nodes |-> {i} \cup {j \in Groups!Nodes : W[i][j] < w}], g[n - 1])]
    BY <2>1 DEF Spreads
  <2>3. PICK g : /\ g = [n \in 0 .. Len(points) |-> IF n = 0 THEN [i \in Groups!Nodes |-> {i}]
                          ELSE Groups!Further([i \in Groups!Nodes |-> {i} \cup {j \in Groups!Nodes : W[i][j] < w}], g[n - 1])]
                 /\ Groups!Below(W, w) = {g[Len(points)][i] : i \in Groups!Nodes}
    BY <2>2 DEF Groups!Below
  <2>4. Spreads(g, near, N)
    BY <1>20, <2>3 DEF Spreads
  <2>5. Groups!Below(W, w) = {g[N][i] : i \in V}
    BY <2>3
  <2> QED BY <2>4, <2>5
<1>2. Spreads(g, near, N) /\ Groups!Below(W, w) = {g[N][i] : i \in V}
  BY <1>1
<1>3. \A i \in V : g[0][i] = {i}
  <2>1. 0 \in 0 .. N
    BY <1>0
  <2> QED BY <1>2, <2>1 DEF Spreads
<1>4. ASSUME NEW n \in Nat, n < N, NEW i \in V, NEW R, R = g[n][i], R \subseteq V
      PROVE  g[n + 1][i] = UNION {{j} \cup {x \in V : W[j][x] < w} : j \in R}
  <2>1. n + 1 \in 0 .. N /\ n + 1 # 0 /\ (n + 1) - 1 = n
    BY <1>0, <1>4
  <2>2. g[n + 1] = Groups!Further(near, g[n])
    BY <1>2, <2>1 DEF Spreads
  <2>3. g[n + 1][i] = UNION {near[j] : j \in R}
    BY <1>4, <2>2 DEF Groups!Further
  <2>4. \A j \in R : near[j] = {j} \cup {x \in V : W[j][x] < w}
    BY <1>4, <1>20
  <2>5. {near[j] : j \in R} = {{j} \cup {x \in V : W[j][x] < w} : j \in R}
    BY <2>4
  <2> QED BY <2>3, <2>5
<1>5. ASSUME NEW i \in V PROVE Reaches(V, W, w, i, g[N][i], N)
  <2>1. PICK S : S = {n \in Nat : Reaches(V, W, w, i, g[n][i], n)}
    OBVIOUS
  <2>2. 0 \in S
    <3>1. g[0][i] = {i}
      BY <1>3
    <3>2. Cardinality({i}) = 1
      BY FS_Singleton
    <3>3. Reaches(V, W, w, i, {i}, 0)
      BY <3>2 DEF Reaches
    <3> QED BY <2>1, <3>1, <3>3
  <2>3. ASSUME NEW n \in Nat, n \in S, n < N PROVE n + 1 \in S
    <3>1. PICK R : R = g[n][i]
      OBVIOUS
    <3>2. Reaches(V, W, w, i, R, n) /\ R \subseteq V
      BY <2>1, <2>3, <3>1 DEF Reaches
    <3>3. PICK Q : Q = UNION {{j} \cup {x \in V : W[j][x] < w} : j \in R}
      OBVIOUS
    <3>4. g[n + 1][i] = Q
      BY <1>4, <2>3, <3>1, <3>2, <3>3
    <3>5. Reaches(V, W, w, i, Q, n + 1)
      BY <1>0, <3>2, <3>3, ReachesOn
    <3> QED BY <2>1, <3>4, <3>5
  <2>4. \A n \in 0 .. N : n \in S
    BY <1>0, <2>2, <2>3, Inductively
  <2>5. N \in 0 .. N
    BY <1>0
  <2> QED BY <2>1, <2>4, <2>5
<1>6. ASSUME NEW i \in V
      PROVE  g[N][i] \in Apart(V, W, w) /\ i \in g[N][i] /\ \A S \in Apart(V, W, w) : i \in S => g[N][i] \subseteq S
  <2>1. PICK R : R = g[N][i]
    OBVIOUS
  <2>2. Reaches(V, W, w, i, R, N)
    BY <1>5, <2>1
  <2>3. ~ (Cardinality(R) >= N + 1)
    <3>1. R \subseteq V
      BY <2>2 DEF Reaches
    <3>2. Cardinality(R) <= N /\ Cardinality(R) \in Nat
      BY <1>0, <3>1, FS_Subset, FS_CardinalityType
    <3> QED BY <1>0, <3>2
  <2> QED BY <2>1, <2>2, <2>3 DEF Reaches
<1>7. PICK B : B = {g[N][i] : i \in V}
  OBVIOUS
<1>8. B \subseteq Apart(V, W, w) /\ {} \notin B
  BY <1>6, <1>7
<1>9. UNION B = V
  <2>1. \A c \in B : c \subseteq V
    BY <1>8 DEF Apart
  <2>2. ASSUME NEW i \in V PROVE i \in UNION B
    BY <1>6, <1>7
  <2> QED BY <2>1, <2>2
<1>10. ASSUME NEW S \in Apart(V, W, w), NEW c \in B, c \cap S # {} PROVE c \subseteq S
  <2>1. PICK i \in V : c = g[N][i]
    BY <1>7
  <2>2. CASE i \in S
    BY <1>6, <2>1, <2>2
  <2>3. CASE i \notin S
    <3>1. V \ S \in Apart(V, W, w)
      BY OtherSideApart
    <3>2. c \subseteq V \ S
      BY <1>6, <2>1, <2>3, <3>1
    <3> QED BY <1>10, <3>2
  <2> QED BY <2>2, <2>3
<1> QED BY <1>2, <1>7, <1>8, <1>9, <1>10 DEF Atoms

-----------------------------------------------------------------------------
(* The edges by their weight: the places are told apart, so each is taken.  *)

LEMMA GroupsOperators ==
    /\ \A S : Groups!IsFiniteSet(S) <=> IsFiniteSet(S)
    /\ \A S : Groups!Cardinality(S) = Cardinality(S)
<1>1. \A S : Groups!IsFiniteSet(S) <=> IsFiniteSet(S)
  BY DEF Groups!IsFiniteSet, IsFiniteSet
<1> QED BY <1>1 DEF Groups!Cardinality, Cardinality

LEMMA ByWeightIs ==
    ASSUME NEW V, NEW L \in Nat, NEW es, DOMAIN es = 1 .. L, Len(es) = L, \A i \in 1 .. L : es[i] \in Edge(V),
           NEW s, s = Groups!ByWeight(es)
    PROVE  /\ DOMAIN s = 1 .. L /\ Len(s) = L /\ First(s, L) = First(es, L)
           /\ \A n, m \in 1 .. L : n <= m => s[n].w <= s[m].w
<1>1. PICK A : A = [e \in 1 .. L |-> {i \in 1 .. L : es[i].w < es[e].w \/ (es[i].w = es[e].w /\ i <= e)}]
  OBVIOUS
<1>2. PICK f : f = [e \in 1 .. L |-> Cardinality(A[e])]
  OBVIOUS
<1>3. ASSUME NEW e \in 1 .. L PROVE Groups!Place(es, e) = f[e]
  <2>1. Groups!Place(es, e) = Groups!Cardinality(A[e])
    BY <1>1 DEF Groups!Place
  <2> QED BY <1>2, <2>1, GroupsOperators
<1>4. ASSUME NEW e \in 1 .. L PROVE es[e].w \in Nat /\ e \in Nat
  BY DEF Edge
<1>5. ASSUME NEW e \in 1 .. L PROVE A[e] \subseteq 1 .. L /\ e \in A[e] /\ IsFiniteSet(A[e])
  <2>1. A[e] \subseteq 1 .. L
    BY <1>1
  <2>2. e \in A[e]
    BY <1>1, <1>4
  <2>3. IsFiniteSet(1 .. L)
    BY FS_Interval
  <2> QED BY <2>1, <2>2, <2>3, FS_Subset
<1>6. ASSUME NEW e \in 1 .. L PROVE f[e] \in 1 .. L
  <2>1. Cardinality(1 .. L) = L /\ IsFiniteSet(1 .. L)
    <3>1. 1 \in Int /\ L \in Int
      OBVIOUS
    <3>2. Cardinality(1 .. L) = IF 1 > L THEN 0 ELSE L - 1 + 1
      BY <3>1, FS_Interval
    <3>3. IsFiniteSet(1 .. L)
      BY <3>1, FS_Interval
    <3> QED BY <3>2, <3>3
  <2>2. Cardinality(A[e]) <= L
    BY <1>5, <2>1, FS_Subset
  <2>3. Cardinality(A[e]) # 0 /\ Cardinality(A[e]) \in Nat
    BY <1>5, FS_EmptySet, FS_CardinalityType
  <2> QED BY <1>2, <2>2, <2>3
<1>7. ASSUME NEW e \in 1 .. L, NEW d \in 1 .. L, d \in A[e], d # e PROVE f[d] < f[e]
  <2>1. es[d].w < es[e].w \/ (es[d].w = es[e].w /\ d < e)
    BY <1>1, <1>4, <1>7
  <2>2. A[d] \subseteq A[e]
    <3> SUFFICES ASSUME NEW i \in A[d] PROVE i \in A[e]
      OBVIOUS
    <3>1. i \in 1 .. L /\ (es[i].w < es[d].w \/ (es[i].w = es[d].w /\ i <= d))
      BY <1>1
    <3>2. es[i].w < es[e].w \/ (es[i].w = es[e].w /\ i <= e)
      BY <1>4, <2>1, <3>1
    <3> QED BY <1>1, <3>1, <3>2
  <2>3. e \notin A[d]
    BY <1>1, <1>4, <2>1
  <2>4. Cardinality(A[d]) <= Cardinality(A[e]) /\ Cardinality(A[d]) # Cardinality(A[e])
    BY <1>5, <2>2, <2>3, FS_Subset
  <2>5. Cardinality(A[d]) \in Nat /\ Cardinality(A[e]) \in Nat
    BY <1>5, FS_CardinalityType
  <2> QED BY <1>2, <2>4, <2>5
<1>8. ASSUME NEW e \in 1 .. L, NEW d \in 1 .. L, d # e PROVE d \in A[e] \/ e \in A[d]
  BY <1>1, <1>4, <1>8
<1>9. ASSUME NEW e \in 1 .. L, NEW d \in 1 .. L, f[d] = f[e] PROVE d = e
  BY <1>6, <1>7, <1>8, <1>9
<1>10. \A n \in 1 .. L : \E e \in 1 .. L : f[e] = n
  <2>1. f \in [1 .. L -> 1 .. L]
    BY <1>2, <1>6
  <2>2. f \in Injection(1 .. L, 1 .. L)
    BY <1>9, <2>1 DEF Injection, IsInjective
  <2>3. IsFiniteSet(1 .. L)
    BY FS_Interval
  <2>4. f \in Surjection(1 .. L, 1 .. L)
    BY <2>2, <2>3, FS_Injection
  <2> QED BY <2>4 DEF Surjection
<1>11. ASSUME NEW n \in 1 .. L PROVE \E e \in 1 .. L : f[e] = n /\ s[n] = es[e]
  <2>1. PICK e : e = CHOOSE x \in 1 .. L : Groups!Place(es, x) = n
    OBVIOUS
  <2>4. \E x \in 1 .. L : Groups!Place(es, x) = n
    BY <1>3, <1>10
  <2>5. e \in 1 .. L /\ Groups!Place(es, e) = n
    BY <2>1, <2>4
  <2>2. e \in 1 .. L /\ f[e] = n
    BY <1>3, <2>5
  <2>3. s[n] = es[e]
    BY <2>1 DEF Groups!ByWeight
  <2> QED BY <2>2, <2>3
<1>12. DOMAIN s = 1 .. L /\ Len(s) = L
  <2>1. s = [n \in 1 .. L |-> s[n]]
    BY DEF Groups!ByWeight
  <2>2. ASSUME NEW n \in 1 .. L PROVE s[n] \in Edge(V)
    BY <1>11
  <2>3. s \in Seq(Edge(V))
    BY <2>1, <2>2
  <2> QED BY <2>1, <2>3, LenProperties
<1>13. First(s, L) = First(es, L)
  <2>1. ASSUME NEW n \in 1 .. L PROVE s[n] \in First(es, L)
    BY <1>11 DEF First
  <2>2. ASSUME NEW e \in 1 .. L PROVE es[e] \in First(s, L)
    <3>1. PICK n \in 1 .. L : f[e] = n
      BY <1>6
    <3>2. PICK d \in 1 .. L : f[d] = n /\ s[n] = es[d]
      BY <1>11
    <3>3. s[n] = es[e]
      BY <1>9, <3>1, <3>2
    <3> QED BY <3>3 DEF First
  <2>3. First(s, L) \subseteq First(es, L)
    BY <2>1 DEF First
  <2>4. First(es, L) \subseteq First(s, L)
    BY <2>2 DEF First
  <2> QED BY <2>3, <2>4
<1>14. ASSUME NEW n \in 1 .. L, NEW m \in 1 .. L, n <= m PROVE s[n].w <= s[m].w
  <2>1. PICK d \in 1 .. L : f[d] = n /\ s[n] = es[d]
    BY <1>11
  <2>2. PICK e \in 1 .. L : f[e] = m /\ s[m] = es[e]
    BY <1>11
  <2>3. es[d].w \in Nat /\ es[e].w \in Nat
    BY <1>4
  <2>4. CASE es[e].w < es[d].w
    <3>1. e \in A[d] /\ e # d
      BY <1>1, <2>3, <2>4
    <3>2. f[e] < f[d]
      BY <1>7, <3>1
    <3> QED BY <1>14, <2>1, <2>2, <3>2
  <2> QED BY <2>1, <2>2, <2>3, <2>4
<1> QED BY <1>12, <1>13, <1>14

-----------------------------------------------------------------------------
(* Prim's tree.                                                             *)

LEMMA NearestIs ==
    ASSUME NEW t, NEW O, O = Groups!Nodes \ t.tree, IsFiniteSet(O), O # {}, O \subseteq Nat,
           \A j \in O : t.best[j] \in Nat
    PROVE  Groups!Nearest(t) \in O /\ \A j \in O : t.best[Groups!Nearest(t)] <= t.best[j]
<1>1. PICK A : A = [u \in O |-> {j \in O : t.best[j] < t.best[u] \/ (t.best[j] = t.best[u] /\ j < u)}]
  OBVIOUS
<1>2. \A u \in O : A[u] \in SUBSET O
  BY <1>1
<1>3. \A x, y \in O : y \in A[x] => A[y] \subseteq A[x] /\ y \notin A[y]
  <2> SUFFICES ASSUME NEW x \in O, NEW y \in O, y \in A[x] PROVE A[y] \subseteq A[x] /\ y \notin A[y]
    OBVIOUS
  <2>1. t.best[y] < t.best[x] \/ (t.best[y] = t.best[x] /\ y < x)
    BY <1>1
  <2>2. ASSUME NEW z \in A[y] PROVE z \in A[x]
    <3>1. z \in O /\ (t.best[z] < t.best[y] \/ (t.best[z] = t.best[y] /\ z < y))
      BY <1>1
    <3>2. x \in Nat /\ y \in Nat /\ z \in Nat /\ t.best[x] \in Nat /\ t.best[y] \in Nat /\ t.best[z] \in Nat
      BY <3>1
    <3>3. t.best[z] < t.best[x] \/ (t.best[z] = t.best[x] /\ z < x)
      BY <2>1, <3>1, <3>2
    <3> QED BY <1>1, <3>1, <3>3
  <2>3. y \notin A[y]
    <3>1. y \in Nat /\ t.best[y] \in Nat
      OBVIOUS
    <3> QED BY <1>1, <3>1
  <2> QED BY <2>2, <2>3
<1>4. PICK u \in O : A[u] = {}
  <2>1. IsFiniteSet(O) /\ O # {}
    OBVIOUS
  <2> QED BY ONLY <1>2, <1>3, <2>1, NoneAbove
<1>5. \A j \in O : t.best[u] < t.best[j] \/ (t.best[u] = t.best[j] /\ u <= j)
  <2> SUFFICES ASSUME NEW j \in O PROVE t.best[u] < t.best[j] \/ (t.best[u] = t.best[j] /\ u <= j)
    OBVIOUS
  <2>1. ~ (t.best[j] < t.best[u] \/ (t.best[j] = t.best[u] /\ j < u))
    BY <1>1, <1>4
  <2>2. u \in Nat /\ j \in Nat /\ t.best[u] \in Nat /\ t.best[j] \in Nat
    OBVIOUS
  <2> QED BY <2>1, <2>2
<1>6. PICK v : v = Groups!Nearest(t)
  OBVIOUS
<1>7. v \in O /\ \A j \in O : t.best[v] < t.best[j] \/ (t.best[v] = t.best[j] /\ v <= j)
  BY <1>5, <1>6 DEF Groups!Nearest
<1>8. \A j \in O : t.best[v] <= t.best[j]
  <2> SUFFICES ASSUME NEW j \in O PROVE t.best[v] <= t.best[j]
    OBVIOUS
  <2>1. t.best[v] \in Nat /\ t.best[j] \in Nat
    BY <1>7
  <2> QED BY <1>7, <2>1
<1> QED BY <1>6, <1>7, <1>8

\* A tree of n + 1 points: what is kept of its edges, and the cheapest way to
\* each of the points that are outside.
Ways(V, W, t)   == \A j \in V \ t.tree : /\ t.src[j] \in t.tree /\ t.best[j] = W[t.src[j]][j]
                                         /\ \A a \in t.tree : t.best[j] <= W[a][j]
Grown(V, W, t, n) ==
    /\ t.tree \subseteq V /\ IsFiniteSet(t.tree) /\ Cardinality(t.tree) = n + 1
    /\ DOMAIN t.edges = 1 .. n /\ Len(t.edges) = n /\ t.edges \in Seq(Edge(V))
    /\ Drawn(V, W, First(t.edges, n))
    /\ \A w \in Nat : Knit(V, W, t.tree, First(t.edges, n), w) /\ Front(V, W, t.tree, First(t.edges, n), w)
    /\ Ways(V, W, t)

LEMMA PlantedIsGrown ==
    ASSUME NEW V, V = Groups!Nodes, 1 \in V, NEW W, Weighs(V, W)
    PROVE  Grown(V, W, Groups!Planted(W), 0)
<1>1. PICK t : t = Groups!Planted(W)
  OBVIOUS
<1>2. t.tree = {1} /\ t.edges = << >> /\ (\A j \in V : t.best[j] = W[1][j] /\ t.src[j] = 1)
  BY <1>1 DEF Groups!Planted
<1>3. IsFiniteSet({1}) /\ Cardinality({1}) = 1
  BY FS_Singleton
<1>4. DOMAIN t.edges = 1 .. 0 /\ Len(t.edges) = 0 /\ t.edges \in Seq(Edge(V))
  BY <1>2
<1>5. First(t.edges, 0) = {}
  BY DEF First
<1>6. Drawn(V, W, {})
  BY DEF Drawn
<1>7. ASSUME NEW w \in Nat PROVE Knit(V, W, {1}, {}, w) /\ Front(V, W, {1}, {}, w)
  BY DEF Knit, Front, Tied
<1>8. Ways(V, W, t)
  <2>1. \A j \in V : W[1][j] \in Nat
    BY DEF Weighs
  <2> QED BY <1>2, <2>1 DEF Ways
<1>9. \A w \in Nat : Knit(V, W, t.tree, First(t.edges, 0), w) /\ Front(V, W, t.tree, First(t.edges, 0), w)
  BY <1>2, <1>5, <1>7
<1>10. t.tree \subseteq V /\ IsFiniteSet(t.tree) /\ Cardinality(t.tree) = 0 + 1
  BY <1>2, <1>3
<1>11. Drawn(V, W, First(t.edges, 0))
  BY <1>5, <1>6
<1>12. Grown(V, W, t, 0)
  BY <1>4, <1>8, <1>9, <1>10, <1>11 DEF Grown
<1> QED BY <1>1, <1>12

LEMMA TakenIsGrown ==
    ASSUME NEW N \in Nat, NEW V, V = Groups!Nodes, V = 1 .. N, NEW W, Weighs(V, W),
           NEW n \in Nat, n + 1 < N, NEW t, Grown(V, W, t, n)
    PROVE  Grown(V, W, Groups!Taken(W, t, Groups!Nearest(t)), n + 1)
<1>0. /\ t.tree \subseteq V /\ IsFiniteSet(t.tree) /\ Cardinality(t.tree) = n + 1
      /\ DOMAIN t.edges = 1 .. n /\ Len(t.edges) = n /\ t.edges \in Seq(Edge(V))
      /\ Drawn(V, W, First(t.edges, n))
      /\ Ways(V, W, t)
  BY DEF Grown
<1>1. PICK O : O = V \ t.tree
  OBVIOUS
<1>2. IsFiniteSet(V) /\ Cardinality(V) = N
  <2>1. 1 \in Int /\ N \in Int
    OBVIOUS
  <2>2. IsFiniteSet(1 .. N) /\ Cardinality(1 .. N) = IF 1 > N THEN 0 ELSE N - 1 + 1
    BY <2>1, FS_Interval
  <2> QED BY <2>2
<1>3. IsFiniteSet(O) /\ O # {} /\ O \subseteq Nat
  <2>1. IsFiniteSet(O)
    BY <1>1, <1>2, FS_Difference
  <2>2. O # {}
    <3> SUFFICES ASSUME t.tree = V PROVE FALSE
      BY <1>0, <1>1
    <3> QED BY <1>0, <1>2
  <2> QED BY <1>1, <2>1, <2>2
<1>4. \A j \in O : /\ t.src[j] \in t.tree /\ t.best[j] = W[t.src[j]][j] /\ t.best[j] \in Nat
                   /\ \A a \in t.tree : t.best[j] <= W[a][j]
  BY <1>0, <1>1 DEF Ways, Weighs
<1>5. PICK u : u = Groups!Nearest(t)
  OBVIOUS
<1>6. u \in O /\ \A j \in O : t.best[u] <= t.best[j]
  BY <1>1, <1>3, <1>4, <1>5, NearestIs
<1>7. PICK s : s = t.src[u]
  OBVIOUS
<1>8. s \in t.tree /\ u \in V \ t.tree /\ t.best[u] = W[s][u]
  BY <1>1, <1>4, <1>6, <1>7
<1>9. \A a \in t.tree, x \in V \ t.tree : W[s][u] <= W[a][x]
  <2> SUFFICES ASSUME NEW a \in t.tree, NEW x \in V \ t.tree PROVE W[s][u] <= W[a][x]
    OBVIOUS
  <2>1. t.best[u] <= t.best[x] /\ t.best[x] <= W[a][x] /\ t.best[u] \in Nat /\ t.best[x] \in Nat /\ W[a][x] \in Nat
    BY <1>0, <1>1, <1>4, <1>6 DEF Weighs
  <2> QED BY <1>8, <2>1
<1>10. PICK e : e = [w |-> W[s][u], a |-> s, b |-> u]
  OBVIOUS
<1>11. e \in Edge(V) /\ e.w = W[e.a][e.b]
  <2>1. W[s][u] \in Nat /\ s \in V /\ u \in V
    BY <1>0, <1>8 DEF Weighs
  <2> QED BY <1>10, <2>1 DEF Edge
<1>12. PICK r : r = Groups!Taken(W, t, u)
  OBVIOUS
<1>13. /\ r.tree = t.tree \cup {u} /\ r.edges = Append(t.edges, e)
       /\ \A j \in V : /\ r.best[j] = IF j \in O /\ j # u /\ W[u][j] < t.best[j] THEN W[u][j] ELSE t.best[j]
                       /\ r.src[j] = IF j \in O /\ j # u /\ W[u][j] < t.best[j] THEN u ELSE t.src[j]
  <2>1. PICK X : X = {j \in Groups!Nodes \ (t.tree \cup {u}) : W[u][j] < t.best[j]}
    OBVIOUS
  <2>2. r = [tree |-> t.tree \cup {u},
             best |-> [j \in Groups!Nodes |-> IF j \in X THEN W[u][j] ELSE t.best[j]],
             src |-> [j \in Groups!Nodes |-> IF j \in X THEN u ELSE t.src[j]],
             edges |-> Append(t.edges, [w |-> t.best[u], a |-> t.src[u], b |-> u])]
    BY <1>12, <2>1 DEF Groups!Taken
  <2>3. \A j \in V : j \in X <=> j \in O /\ j # u /\ W[u][j] < t.best[j]
    BY <1>1, <2>1
  <2>4. r.tree = t.tree \cup {u} /\ r.edges = Append(t.edges, e)
    BY <1>7, <1>8, <1>10, <2>2
  <2>5. \A j \in V : /\ r.best[j] = IF j \in X THEN W[u][j] ELSE t.best[j]
                     /\ r.src[j] = IF j \in X THEN u ELSE t.src[j]
    BY <2>2
  <2> QED BY <2>3, <2>4, <2>5
<1>14. IsFiniteSet(r.tree) /\ Cardinality(r.tree) = n + 2 /\ r.tree \subseteq V
  <2>1. r.tree = t.tree \cup {u} /\ u \notin t.tree /\ u \in V
    BY <1>8, <1>13
  <2>2. IsFiniteSet(t.tree \cup {u}) /\ Cardinality(t.tree \cup {u}) = Cardinality(t.tree) + 1
    BY <1>0, <2>1, FS_AddElement
  <2> QED BY <1>0, <2>1, <2>2
<1>15. /\ DOMAIN r.edges = 1 .. n + 1 /\ Len(r.edges) = n + 1 /\ r.edges \in Seq(Edge(V))
       /\ r.edges[n + 1] = e /\ \A i \in 1 .. n : r.edges[i] = t.edges[i]
  BY <1>0, <1>11, <1>13, AppendProperties
<1>16. First(r.edges, n + 1) = First(t.edges, n) \cup {e}
  <2>1. \A i : i \in 1 .. n + 1 <=> i \in 1 .. n \/ i = n + 1
    OBVIOUS
  <2> QED BY <1>15, <2>1 DEF First
<1>17. Drawn(V, W, First(r.edges, n + 1))
  BY <1>0, <1>11, <1>16 DEF Drawn
<1>18. ASSUME NEW w \in Nat
       PROVE  Knit(V, W, r.tree, First(r.edges, n + 1), w) /\ Front(V, W, r.tree, First(r.edges, n + 1), w)
  <2>1. Knit(V, W, t.tree, First(t.edges, n), w) /\ Front(V, W, t.tree, First(t.edges, n), w)
    BY DEF Grown
  <2>2. PICK T : T = t.tree
    OBVIOUS
  <2>3. PICK E : E = First(t.edges, n)
    OBVIOUS
  <2>4. /\ T \subseteq V /\ Drawn(V, W, E) /\ s \in T /\ u \in V \ T
        /\ (\A a \in T, x \in V \ T : W[s][u] <= W[a][x])
        /\ Knit(V, W, T, E, w) /\ Front(V, W, T, E, w)
    BY <1>0, <1>8, <1>9, <2>1, <2>2, <2>3
  <2>5. Knit(V, W, T \cup {u}, E \cup {e}, w) /\ Front(V, W, T \cup {u}, E \cup {e}, w)
    BY <1>10, <2>4, PrimTakes
  <2> QED BY <1>13, <1>16, <2>2, <2>3, <2>5
<1>19. Ways(V, W, r)
  <2> SUFFICES ASSUME NEW j \in V \ r.tree
               PROVE  /\ r.src[j] \in r.tree /\ r.best[j] = W[r.src[j]][j]
                      /\ \A a \in r.tree : r.best[j] <= W[a][j]
    BY DEF Ways
  <2>1. j \in O /\ j # u /\ j \in V
    BY <1>1, <1>13
  <2>2. W[u][j] \in Nat /\ t.best[j] \in Nat
    BY <1>4, <1>8, <2>1 DEF Weighs
  <2>3. CASE W[u][j] < t.best[j]
    <3>1. r.best[j] = W[u][j] /\ r.src[j] = u
      BY <1>13, <2>1, <2>3
    <3>2. ASSUME NEW a \in r.tree PROVE W[u][j] <= W[a][j]
      <4>1. CASE a = u
        BY <2>2, <4>1
      <4>2. CASE a \in t.tree
        <5>1. t.best[j] <= W[a][j] /\ W[a][j] \in Nat
          BY <1>0, <1>4, <2>1, <4>2 DEF Weighs
        <5> QED BY <2>2, <2>3, <5>1
      <4> QED BY <1>13, <4>1, <4>2
    <3> QED BY <1>13, <3>1, <3>2
  <2>4. CASE ~ (W[u][j] < t.best[j])
    <3>1. r.best[j] = t.best[j] /\ r.src[j] = t.src[j]
      BY <1>13, <2>1, <2>4
    <3>2. ASSUME NEW a \in r.tree PROVE t.best[j] <= W[a][j]
      <4>1. CASE a = u
        BY <2>2, <2>4, <4>1
      <4>2. CASE a \in t.tree
        BY <1>4, <2>1, <4>2
      <4> QED BY <1>13, <4>1, <4>2
    <3> QED BY <1>4, <1>13, <2>1, <3>1, <3>2
  <2> QED BY <2>3, <2>4
<1>20. (n + 1) + 1 = n + 2
  OBVIOUS
<1> QED BY <1>5, <1>12, <1>14, <1>15, <1>17, <1>18, <1>19, <1>20 DEF Grown


Grows(g, W, N) ==
    g = [n \in 0 .. N |-> IF n = 0 THEN Groups!Planted(W) ELSE Groups!Taken(W, g[n - 1], Groups!Nearest(g[n - 1]))]

LEMMA GrowsExists == ASSUME NEW W, NEW N \in Nat PROVE \E g : Grows(g, W, N)
<1>1. PICK S : S = {n \in Nat : \E g : Grows(g, W, n)}
  OBVIOUS
<1>2. 0 \in S
  <2>1. PICK g : g = [n \in 0 .. 0 |-> Groups!Planted(W)]
    OBVIOUS
  <2>2. Grows(g, W, 0)
    BY <2>1 DEF Grows
  <2>3. \E f : Grows(f, W, 0)
    BY <2>2
  <2> QED BY <1>1, <2>3
<1>3. ASSUME NEW n \in Nat, n \in S PROVE n + 1 \in S
  <2>1. PICK g : Grows(g, W, n)
    BY <1>1, <1>3
  <2>2. PICK h : h = [m \in 0 .. n + 1 |-> IF m = n + 1 THEN Groups!Taken(W, g[n], Groups!Nearest(g[n])) ELSE g[m]]
    OBVIOUS
  <2>3. ASSUME NEW m \in 0 .. n + 1
        PROVE  h[m] = IF m = 0 THEN Groups!Planted(W) ELSE Groups!Taken(W, h[m - 1], Groups!Nearest(h[m - 1]))
    <3>1. CASE m = n + 1
      <4>1. m # 0 /\ m - 1 = n /\ n \in 0 .. n + 1 /\ n # n + 1
        BY <3>1
      <4>2. h[n] = g[n]
        BY <2>2, <4>1
      <4>3. h[m] = Groups!Taken(W, g[n], Groups!Nearest(g[n]))
        BY <2>2, <3>1
      <4>4. h[m] = Groups!Taken(W, h[m - 1], Groups!Nearest(h[m - 1]))
        BY <4>1, <4>2, <4>3
      <4> QED BY <4>1, <4>4
    <3>2. CASE m # n + 1
      <4>1. m \in 0 .. n /\ (m # 0 => m - 1 \in 0 .. n + 1 /\ m - 1 # n + 1)
        BY <3>2
      <4>2. h[m] = g[m] /\ (m # 0 => h[m - 1] = g[m - 1])
        BY <2>2, <3>2, <4>1
      <4>3. g[m] = IF m = 0 THEN Groups!Planted(W) ELSE Groups!Taken(W, g[m - 1], Groups!Nearest(g[m - 1]))
        BY <2>1, <4>1 DEF Grows
      <4> QED BY <4>2, <4>3
    <3> QED BY <3>1, <3>2
  <2>4. h = [m \in 0 .. n + 1 |-> h[m]]
    BY <2>2
  <2>5. Grows(h, W, n + 1)
    BY <2>3, <2>4 DEF Grows
  <2>6. \E f : Grows(f, W, n + 1)
    BY <2>5
  <2>7. n + 1 \in Nat
    OBVIOUS
  <2> QED BY <1>1, <2>6, <2>7
<1>4. \A i \in 0 .. N : i \in S
  BY <1>2, <1>3, Inductively
<1>5. N \in S
  <2>1. N \in 0 .. N
    OBVIOUS
  <2> QED BY <1>4, <2>1
<1> QED BY <1>1, <1>5

LEMMA TreeIs ==
    ASSUME NEW N \in Nat, N # 0, N = Len(points), NEW V, V = Groups!Nodes, V = 1 .. N, NEW W, Weighs(V, W),
           NEW es, es = Groups!Grown(W)
    PROVE  /\ DOMAIN es = 1 .. N - 1 /\ Len(es) = N - 1 /\ es \in Seq(Edge(V))
           /\ Drawn(V, W, First(es, N - 1))
           /\ \A w \in Nat : Shut(V, Light(First(es, N - 1), w)) = Apart(V, W, w)
<1>0. N - 1 \in Nat /\ 1 \in V
  OBVIOUS
<1>1. PICK g : Grows(g, W, N - 1) /\ es = g[N - 1].edges
  <2>1. \E g : Grows(g, W, Len(points) - 1)
    BY <1>0, GrowsExists
  <2>2. \E g : g = [n \in 0 .. Len(points) - 1 |-> IF n = 0 THEN Groups!Planted(W)
                     ELSE Groups!Taken(W, g[n - 1], Groups!Nearest(g[n - 1]))]
    BY <2>1 DEF Grows
  <2>3. PICK g : /\ g = [n \in 0 .. Len(points) - 1 |-> IF n = 0 THEN Groups!Planted(W)
                           ELSE Groups!Taken(W, g[n - 1], Groups!Nearest(g[n - 1]))]
                 /\ Groups!Grown(W) = g[Len(points) - 1].edges
    BY <2>2 DEF Groups!Grown
  <2>4. Grows(g, W, N - 1)
    BY <2>3 DEF Grows
  <2>5. es = g[N - 1].edges
    BY <2>3
  <2> QED BY <2>4, <2>5
<1>2. PICK S : S = {n \in Nat : Grown(V, W, g[n], n)}
  OBVIOUS
<1>3. 0 \in S
  <2>1. 0 \in 0 .. N - 1
    BY <1>0
  <2>2. g[0] = Groups!Planted(W)
    BY <1>1, <2>1 DEF Grows
  <2>3. Grown(V, W, Groups!Planted(W), 0)
    BY <1>0, PlantedIsGrown
  <2> QED BY <1>2, <2>2, <2>3
<1>4. ASSUME NEW n \in Nat, n \in S, n < N - 1 PROVE n + 1 \in S
  <2>1. n + 1 \in 0 .. N - 1 /\ n + 1 # 0 /\ (n + 1) - 1 = n /\ n + 1 < N /\ n + 1 \in Nat
    BY <1>0, <1>4
  <2>2. PICK t : t = g[n]
    OBVIOUS
  <2>3. g[n + 1] = Groups!Taken(W, t, Groups!Nearest(t))
    BY <1>1, <2>1, <2>2 DEF Grows
  <2>4. Grown(V, W, t, n)
    BY <1>2, <1>4, <2>2
  <2>5. Grown(V, W, Groups!Taken(W, t, Groups!Nearest(t)), n + 1)
    BY <2>1, <2>4, TakenIsGrown
  <2> QED BY <1>2, <2>1, <2>3, <2>5
<1>5. \A n \in 0 .. N - 1 : n \in S
  BY <1>0, <1>3, <1>4, Inductively
<1>6. PICK t : t = g[N - 1]
  OBVIOUS
<1>7. Grown(V, W, t, N - 1) /\ es = t.edges
  <2>1. N - 1 \in 0 .. N - 1
    BY <1>0
  <2> QED BY <1>1, <1>2, <1>5, <1>6, <2>1
<1>8. t.tree = V
  <2>1. 1 \in Int /\ N \in Int
    OBVIOUS
  <2>2. IsFiniteSet(1 .. N) /\ Cardinality(1 .. N) = IF 1 > N THEN 0 ELSE N - 1 + 1
    BY <2>1, FS_Interval
  <2>3. t.tree \subseteq V /\ Cardinality(t.tree) = (N - 1) + 1
    BY <1>7 DEF Grown
  <2>4. IsFiniteSet(V) /\ Cardinality(V) = Cardinality(t.tree)
    BY <2>2, <2>3
  <2> QED BY <2>3, <2>4, FS_Subset
<1>9. DOMAIN es = 1 .. N - 1 /\ Len(es) = N - 1 /\ es \in Seq(Edge(V)) /\ Drawn(V, W, First(es, N - 1))
  BY <1>7 DEF Grown
<1>10. ASSUME NEW w \in Nat PROVE Shut(V, Light(First(es, N - 1), w)) = Apart(V, W, w)
  <2>1. Knit(V, W, V, First(es, N - 1), w)
    BY <1>7, <1>8 DEF Grown
  <2> QED BY <1>9, <2>1, GrownOver
<1> QED BY <1>9, <1>10

-----------------------------------------------------------------------------
(* The groups of a prefix are the components below a height.                *)

Spanning(V, W, s, L) ==
    /\ DOMAIN s = 1 .. L /\ Len(s) = L
    /\ \A i \in 1 .. L : s[i] \in Edge(V)
    /\ \A i, j \in 1 .. L : i <= j => s[i].w <= s[j].w
    /\ Drawn(V, W, First(s, L))
    /\ \A w \in Nat : Shut(V, Light(First(s, L), w)) = Apart(V, W, w)

LEMMA SortedTree ==
    ASSUME NEW N \in Nat, N # 0, N = Len(points), NEW V, V = Groups!Nodes, V = 1 .. N, NEW W, Weighs(V, W)
    PROVE  Spanning(V, W, Groups!ByWeight(Groups!Grown(W)), N - 1)
<1>1. PICK es : es = Groups!Grown(W)
  OBVIOUS
<1>2. PICK L : L = N - 1
  OBVIOUS
<1>3. L \in Nat
  BY <1>2
<1>4. /\ DOMAIN es = 1 .. L /\ Len(es) = L /\ es \in Seq(Edge(V))
      /\ Drawn(V, W, First(es, L))
      /\ \A w \in Nat : Shut(V, Light(First(es, L), w)) = Apart(V, W, w)
  BY <1>1, <1>2, TreeIs
<1>5. \A i \in 1 .. L : es[i] \in Edge(V)
  BY <1>4, ElementOfSeq
<1>6. PICK s : s = Groups!ByWeight(es)
  OBVIOUS
<1>7. /\ DOMAIN s = 1 .. L /\ Len(s) = L /\ First(s, L) = First(es, L)
      /\ \A n, m \in 1 .. L : n <= m => s[n].w <= s[m].w
  BY <1>3, <1>4, <1>5, <1>6, ByWeightIs
<1>8. ASSUME NEW i \in 1 .. L PROVE s[i] \in Edge(V)
  <2>1. s[i] \in First(es, L)
    BY <1>7 DEF First
  <2> QED BY <1>5, <2>1 DEF First
<1>9. Spanning(V, W, s, L)
  BY <1>4, <1>7, <1>8 DEF Spanning
<1> QED BY <1>1, <1>2, <1>6, <1>9

\* What the lemmas below start from: N points, their weights, the sorted tree.
Setting(N, V, W, M, s, L) ==
    /\ N \in Nat /\ N # 0 /\ N = Len(points) /\ V = Groups!Nodes /\ V = 1 .. N /\ IsFiniteSet(V)
    /\ Weighs(V, W) /\ M \in Nat /\ (\A i, j \in V : W[i][j] <= M)
    /\ L \in Nat /\ L = N - 1 /\ Spanning(V, W, s, L)

\* One group to begin with for every point, one in the end: every edge unites two.
LEMMA CountIs ==
    ASSUME NEW N, NEW V, NEW W, NEW M, NEW s, NEW L, Setting(N, V, W, M, s, L)
    PROVE  /\ \A n \in 0 .. L : Cardinality(Groups!Groups(s, n)) = N - n
           /\ Groups!Groups(s, L) = {V}
<1>a. /\ N \in Nat /\ N # 0 /\ V = Groups!Nodes /\ V = 1 .. N /\ Weighs(V, W)
      /\ M \in Nat /\ (\A i, j \in V : W[i][j] <= M) /\ L \in Nat /\ L = N - 1 /\ Spanning(V, W, s, L)
  BY DEF Setting
<1> USE <1>a
<1>0. IsFiniteSet(V) /\ Cardinality(V) = N
  <2>1. 1 \in Int /\ N \in Int
    OBVIOUS
  <2>2. IsFiniteSet(1 .. N) /\ Cardinality(1 .. N) = IF 1 > N THEN 0 ELSE N - 1 + 1
    BY <2>1, FS_Interval
  <2> QED BY <2>2
<1>1. PICK c : c = [n \in 0 .. L |-> Cardinality(Groups!Groups(s, n))]
  OBVIOUS
<1>2. \A n \in 0 .. L :
         /\ Atoms(Shut(V, First(s, n)), V, Groups!Groups(s, n)) /\ IsFiniteSet(Groups!Groups(s, n))
         /\ n # 0 => Cardinality(Groups!Groups(s, n)) >= Cardinality(Groups!Groups(s, n - 1)) - 1
  BY <1>0, GroupsAre DEF Spanning
<1>3. \A n \in 0 .. L : c[n] \in Nat
  BY <1>1, <1>2, FS_CardinalityType
<1>4. \A n \in 1 .. L : c[n] >= c[n - 1] - 1
  <2> SUFFICES ASSUME NEW n \in 1 .. L PROVE c[n] >= c[n - 1] - 1
    OBVIOUS
  <2>1. n \in 0 .. L /\ n - 1 \in 0 .. L /\ n # 0
    OBVIOUS
  <2> QED BY <1>1, <1>2, <2>1
<1>5. Groups!Groups(s, L) = {V}
  <2>1. L \in 0 .. L /\ M + 1 \in Nat
    OBVIOUS
  <2>2. Light(First(s, L), M + 1) = First(s, L)
    <3>1. ASSUME NEW e \in First(s, L) PROVE e.w < M + 1
      <4>1. e.w = W[e.a][e.b] /\ e.a \in V /\ e.b \in V
        BY DEF Spanning, Drawn, Edge
      <4>2. W[e.a][e.b] <= M /\ W[e.a][e.b] \in Nat
        BY <4>1 DEF Weighs
      <4> QED BY <4>1, <4>2
    <3> QED BY <3>1 DEF Light
  <2>3. Shut(V, First(s, L)) = Apart(V, W, M + 1)
    BY <2>1, <2>2 DEF Spanning
  <2>4. PICK P : P = Groups!Groups(s, L)
    OBVIOUS
  <2>5. Atoms(Apart(V, W, M + 1), V, P)
    BY <1>2, <2>1, <2>3, <2>4
  <2>6. ASSUME NEW x \in P PROVE x = V
    <3>1. x \subseteq V /\ x # {} /\ \A i \in x, j \in V \ x : W[i][j] >= M + 1
      BY <2>5 DEF Atoms, Apart
    <3>2. ASSUME NEW i \in x, NEW j \in V \ x PROVE FALSE
      <4>1. W[i][j] >= M + 1 /\ W[i][j] <= M /\ W[i][j] \in Nat
        BY <3>1 DEF Weighs
      <4> QED BY <4>1
    <3> QED BY <3>1, <3>2
  <2>7. P # {}
    <3>1. 1 \in V /\ UNION P = V
      BY <2>5 DEF Atoms
    <3> QED BY <3>1
  <2> QED BY <2>4, <2>6, <2>7
<1>6. c[L] = 1
  <2>1. \A x : Cardinality({x}) = 1
    BY FS_Singleton
  <2>2. L \in 0 .. L
    OBVIOUS
  <2>3. c[L] = Cardinality({V})
    BY <1>1, <1>5, <2>2
  <2> QED BY <2>1, <2>3
<1>7. c[0] = N
  <2>1. Groups!Groups(s, 0) = {{i} : i \in V}
    BY GroupsNext
  <2>2. Cardinality({{i} : i \in V}) = Cardinality(V)
    <3>1. PICK f : f = [i \in V |-> {i}]
      OBVIOUS
    <3>2. f \in Bijection(V, {{i} : i \in V})
      <4>1. f \in [V -> {{i} : i \in V}]
        BY <3>1
      <4>2. \A a, b \in V : f[a] = f[b] => a = b
        BY <3>1
      <4>3. f \in Injection(V, {{i} : i \in V})
        BY <4>1, <4>2 DEF Injection, IsInjective
      <4>4. f \in Surjection(V, {{i} : i \in V})
        BY <3>1, <4>1 DEF Surjection
      <4> QED BY <4>3, <4>4 DEF Bijection
    <3>3. ExistsBijection(V, {{i} : i \in V})
      BY <3>2 DEF ExistsBijection
    <3> QED BY <1>0, <3>3, FS_Bijection
  <2>3. 0 \in 0 .. L
    OBVIOUS
  <2> QED BY <1>0, <1>1, <2>1, <2>2, <2>3
<1>8. \A n \in 0 .. L : c[n] >= N - n
  <2>1. PICK S : S = {n \in Nat : c[n] >= N - n}
    OBVIOUS
  <2>2. 0 \in S
    BY <1>7, <2>1
  <2>3. ASSUME NEW n \in Nat, n \in S, n < L PROVE n + 1 \in S
    <3>1. n + 1 \in 1 .. L /\ (n + 1) - 1 = n /\ n + 1 \in 0 .. L /\ n \in 0 .. L /\ n + 1 \in Nat
      BY <2>3
    <3>2. c[n + 1] >= c[n] - 1 /\ c[n] \in Nat /\ c[n + 1] \in Nat
      BY <1>3, <1>4, <3>1
    <3>3. c[n] >= N - n
      BY <2>1, <2>3
    <3>4. c[n + 1] >= N - (n + 1)
      BY <3>2, <3>3
    <3> QED BY <2>1, <3>1, <3>4
  <2>4. \A n \in 0 .. L : n \in S
    BY <2>2, <2>3, Inductively
  <2> QED BY <2>1, <2>4
<1>9. \A n \in 0 .. L : c[L - n] <= n + 1
  <2>1. PICK S : S = {n \in Nat : c[L - n] <= n + 1}
    OBVIOUS
  <2>2. 0 \in S
    <3>1. L - 0 = L
      OBVIOUS
    <3> QED BY <1>6, <2>1, <3>1
  <2>3. ASSUME NEW n \in Nat, n \in S, n < L PROVE n + 1 \in S
    <3>1. PICK m : m = L - n
      OBVIOUS
    <3>2. m \in 1 .. L /\ m \in 0 .. L /\ m - 1 \in 0 .. L /\ m - 1 = L - (n + 1)
      BY <2>3, <3>1
    <3>3. c[m] >= c[m - 1] - 1 /\ c[m] \in Nat /\ c[m - 1] \in Nat
      BY <1>3, <1>4, <3>2
    <3>4. c[m] <= n + 1
      BY <2>1, <2>3, <3>1
    <3>5. c[L - (n + 1)] <= (n + 1) + 1
      BY <3>2, <3>3, <3>4
    <3> QED BY <2>1, <3>5
  <2>4. \A n \in 0 .. L : n \in S
    BY <2>2, <2>3, Inductively
  <2> QED BY <2>1, <2>4
<1>10. ASSUME NEW n \in 0 .. L PROVE Cardinality(Groups!Groups(s, n)) = N - n
  <2>1. L - n \in 0 .. L /\ L - (L - n) = n
    OBVIOUS
  <2>2. c[n] <= (L - n) + 1
    BY <1>9, <2>1
  <2>3. c[n] >= N - n /\ c[n] \in Nat
    BY <1>3, <1>8
  <2>4. c[n] = N - n
    BY <2>2, <2>3
  <2> QED BY <1>1, <2>4
<1> QED BY <1>5, <1>10

\* The edges lighter than w are a prefix, and its groups are the components.
Prefix(s, L, w, m) == m \in 0 .. L /\ \A i \in 1 .. L : i <= m <=> s[i].w < w

LEMMA LevelIs ==
    ASSUME NEW L \in Nat, NEW V, V = Groups!Nodes, IsFiniteSet(V), Len(points) \in Nat, NEW W, Weighs(V, W),
           NEW s, Spanning(V, W, s, L), NEW w \in Nat
    PROVE  /\ \E m : Prefix(s, L, w, m)
           /\ \A m : Prefix(s, L, w, m) => Groups!Below(W, w) = Groups!Groups(s, m)
<1>0. /\ \A i \in 1 .. L : s[i] \in Edge(V) /\ s[i].w \in Nat
      /\ \A i, j \in 1 .. L : i <= j => s[i].w <= s[j].w
  BY DEF Spanning, Edge
<1>1. \E m : Prefix(s, L, w, m)
  <2>1. PICK A : A = {i \in 1 .. L : s[i].w < w}
    OBVIOUS
  <2>2. CASE A = {}
    <3>1. Prefix(s, L, w, 0)
      BY <2>1, <2>2 DEF Prefix
    <3> QED BY <3>1
  <2>3. CASE A # {}
    <3>1. IsFiniteSet(A) /\ A \subseteq Int
      <4>1. A \subseteq 1 .. L
        BY <2>1
      <4>2. IsFiniteSet(1 .. L)
        BY FS_Interval
      <4>3. IsFiniteSet(A)
        BY <4>1, <4>2, FS_Subset
      <4> QED BY <4>1, <4>3
    <3>2. PICK m \in A : \A y \in A : m >= y
      BY <2>3, <3>1, Greatest
    <3>3. m \in 1 .. L /\ s[m].w < w
      BY <2>1
    <3>4. ASSUME NEW i \in 1 .. L PROVE i <= m <=> s[i].w < w
      <4>1. CASE i <= m
        <5>1. s[i].w <= s[m].w /\ s[i].w \in Nat /\ s[m].w \in Nat
          BY <1>0, <3>3, <4>1
        <5> QED BY <3>3, <4>1, <5>1
      <4>2. CASE ~ (i <= m)
        <5>1. i \notin A
          BY <3>2, <3>3, <4>2
        <5> QED BY <2>1, <4>2, <5>1
      <4> QED BY <4>1, <4>2
    <3>5. Prefix(s, L, w, m)
      BY <3>3, <3>4 DEF Prefix
    <3> QED BY <3>5
  <2> QED BY <2>2, <2>3
<1>2. ASSUME NEW m, Prefix(s, L, w, m) PROVE Groups!Below(W, w) = Groups!Groups(s, m)
  <2>1. m \in 0 .. L /\ \A i \in 1 .. L : i <= m <=> s[i].w < w
    BY <1>2 DEF Prefix
  <2>2. First(s, m) = Light(First(s, L), w)
    <3>1. ASSUME NEW i \in 1 .. m PROVE s[i] \in First(s, L) /\ s[i].w < w
      BY <2>1 DEF First
    <3>2. ASSUME NEW i \in 1 .. L, s[i].w < w PROVE i \in 1 .. m
      BY <2>1, <3>2
    <3> QED BY <3>1, <3>2 DEF First, Light
  <2>3. Shut(V, First(s, m)) = Apart(V, W, w)
    BY <2>2 DEF Spanning
  <2>4. Atoms(Apart(V, W, w), V, Groups!Groups(s, m))
    BY <1>0, <2>1, <2>3, GroupsAre
  <2>5. Atoms(Apart(V, W, w), V, Groups!Below(W, w))
    BY BelowAre
  <2> QED BY <2>4, <2>5, SameAtoms
<1> QED BY <1>1, <1>2

-----------------------------------------------------------------------------
(* The weights: whole numbers, the same both ways, and none above the       *)
(* highest position.                                                        *)

LEMMA GreatestOne ==
    /\ \A S : S \subseteq Int /\ IsFiniteSet(S) /\ S # {} => Groups!Max(S) \in S /\ \A y \in S : Groups!Max(S) >= y
    /\ \A S, x : S \subseteq Int /\ x \in S /\ (\A y \in S : x >= y) => Groups!Max(S) = x
    /\ \A S : S \subseteq Nat /\ S # {} => Groups!Min(S) \in S /\ \A y \in S : Groups!Min(S) <= y
    /\ \A S, x : S \subseteq Int /\ x \in S /\ (\A y \in S : x <= y) => Groups!Min(S) = x
<1>1. ASSUME NEW S, S \subseteq Int, IsFiniteSet(S), S # {} PROVE Groups!Max(S) \in S /\ \A y \in S : Groups!Max(S) >= y
  <2>1. \E x \in S : \A y \in S : x >= y
    BY <1>1, Greatest
  <2> QED BY <2>1 DEF Groups!Max
<1>2. ASSUME NEW S, NEW x, S \subseteq Int, x \in S, \A y \in S : x >= y PROVE Groups!Max(S) = x
  <2>1. PICK z : z = Groups!Max(S)
    OBVIOUS
  <2>2. z \in S /\ \A y \in S : z >= y
    BY <1>2, <2>1 DEF Groups!Max
  <2>3. z \in Int /\ x \in Int /\ z >= x /\ x >= z
    BY <1>2, <2>2
  <2> QED BY <2>1, <2>3
<1>3. ASSUME NEW S, S \subseteq Nat, S # {} PROVE Groups!Min(S) \in S /\ \A y \in S : Groups!Min(S) <= y
  <2>1. \E x \in S : \A y \in S : x <= y
    BY <1>3, LeastNat
  <2> QED BY <2>1 DEF Groups!Min
<1>4. ASSUME NEW S, NEW x, S \subseteq Int, x \in S, \A y \in S : x <= y PROVE Groups!Min(S) = x
  <2>1. PICK z : z = Groups!Min(S)
    OBVIOUS
  <2>2. z \in S /\ \A y \in S : z <= y
    BY <1>4, <2>1 DEF Groups!Min
  <2>3. z \in Int /\ x \in Int /\ z <= x /\ x <= z
    BY <1>4, <2>2
  <2> QED BY <2>1, <2>3
<1> QED BY <1>1, <1>2, <1>3, <1>4

LEMMA ThreeAreFinite == \A a, b, c : IsFiniteSet({a, b, c})
<1> TAKE a, b, c
<1>1. IsFiniteSet({a})
  BY FS_Singleton
<1>2. IsFiniteSet({a} \cup {b})
  BY <1>1, FS_AddElement
<1>3. IsFiniteSet(({a} \cup {b}) \cup {c})
  BY <1>2, FS_AddElement
<1>4. ({a} \cup {b}) \cup {c} = {a, b, c}
  OBVIOUS
<1> QED BY <1>3, <1>4

LEMMA Neighbours ==
    ASSUME NEW N \in Nat, N # 0, N = Len(points)
    PROVE  Groups!k \in 1 .. N
<1>0. min_cluster_size \in Int
  BY RecordsAssumption DEF RecordsAssumption, Groups!ClusteringAssumption
<1>1. PICK S : S = {5, min_cluster_size - 1, N - 1}
  OBVIOUS
<1>2. S \subseteq Int /\ S # {} /\ IsFiniteSet(S) /\ N - 1 \in S
  <2>1. IsFiniteSet({5, min_cluster_size - 1, N - 1})
    BY ThreeAreFinite
  <2>2. S \subseteq Int /\ S # {} /\ N - 1 \in S
    BY <1>0, <1>1
  <2> QED BY <1>1, <2>1, <2>2
<1>3. PICK m : m = Groups!Min(S)
  OBVIOUS
<1>4. m \in Int /\ m <= N - 1
  <2>1. \E x \in S : \A y \in S : x <= y
    BY <1>2, Least
  <2>2. m \in S /\ \A y \in S : m <= y
    BY <1>3, <2>1 DEF Groups!Min
  <2> QED BY <1>2, <2>2
<1>5. PICK k : k = Groups!Max({1, m})
  OBVIOUS
<1>6. k = Groups!k
  BY <1>1, <1>3, <1>5 DEF Groups!k
<1>7. k \in {1, m} /\ k >= 1
  <2>1. IsFiniteSet({1, m, m})
    BY ThreeAreFinite
  <2>2. {1, m} = {1, m, m}
    OBVIOUS
  <2>3. IsFiniteSet({1, m})
    BY <2>1, <2>2
  <2>4. {1, m} \subseteq Int /\ {1, m} # {}
    BY <1>4
  <2>5. k \in {1, m} /\ \A y \in {1, m} : k >= y
    BY <1>5, <2>3, <2>4, GreatestOne
  <2> QED BY <2>5
<1> QED BY <1>4, <1>6, <1>7

LEMMA WeightsAre ==
    ASSUME NEW N \in Nat, N # 0, N = Len(points), points \in Seq(Positions), NEW V, V = Groups!Nodes, V = 1 .. N,
           NEW W, W = Groups!mr, NEW M, M = Groups!Max(Positions)
    PROVE  M \in Nat /\ Weighs(V, W) /\ \A i, j \in V : W[i][j] <= M
<1>0. Positions \subseteq Nat /\ IsFiniteSet(Positions)
  <2>1. Positions \subseteq Nat /\ Groups!IsFiniteSet(Positions)
    BY RecordsAssumption DEF RecordsAssumption, Groups!ClusteringAssumption
  <2> QED BY <2>1, GroupsOperators
<1>1. \A i \in V : points[i] \in Positions /\ points[i] \in Nat
  BY <1>0, ElementOfSeq
<1>2. M \in Nat /\ \A p \in Positions : p <= M
  <2>1. 1 \in V
    OBVIOUS
  <2>2. Positions # {} /\ Positions \subseteq Int
    BY <1>0, <1>1, <2>1
  <2>3. M \in Positions /\ \A p \in Positions : M >= p
    BY <1>0, <2>2, GreatestOne
  <2> QED BY <1>0, <2>3
<1>3. ASSUME NEW i \in V, NEW j \in V
      PROVE  Groups!Dist(i, j) \in 0 .. M /\ Groups!Dist(i, j) = Groups!Dist(j, i)
  <2>1. points[i] \in Nat /\ points[j] \in Nat /\ points[i] <= M /\ points[j] <= M
    BY <1>1, <1>2
  <2> QED BY <1>2, <2>1 DEF Groups!Dist
<1>4. PICK kd : kd = Groups!Kdist
  OBVIOUS
<1>5. ASSUME NEW i \in V PROVE kd[i] \in 0 .. M
  <2>1. PICK R : R = Groups!Row(i)
    OBVIOUS
  <2>2. R = {Groups!Dist(i, j) : j \in V}
    BY <2>1 DEF Groups!Row
  <2>3. R \subseteq 0 .. M /\ R # {}
    BY <1>3, <2>2
  <2>4. R \subseteq Int /\ IsFiniteSet(R)
    <3>1. IsFiniteSet(0 .. M)
      <4>1. 0 \in Int /\ M \in Int
        BY <1>2
      <4> QED BY <4>1, FS_Interval
    <3>2. IsFiniteSet(R)
      BY <2>3, <3>1, FS_Subset
    <3>3. R \subseteq Int
      BY <1>2, <2>3
    <3> QED BY <3>2, <3>3
  <2>5. PICK d \in R : \A y \in R : d >= y
    BY <2>3, <2>4, Greatest
  <2>6. PICK X : X = {x \in R : Groups!Cardinality({j \in V : Groups!Dist(i, j) <= x}) >= Groups!k}
    OBVIOUS
  <2>7. d \in X
    <3>1. {j \in V : Groups!Dist(i, j) <= d} = V
      <4>1. ASSUME NEW j \in V PROVE Groups!Dist(i, j) <= d
        <5>1. Groups!Dist(i, j) \in R /\ d \in Int /\ Groups!Dist(i, j) \in Int
          BY <2>2, <2>4
        <5> QED BY <2>5, <5>1
      <4> QED BY <4>1
    <3>2. Groups!Cardinality(V) = N
      <4>1. 1 \in Int /\ N \in Int
        OBVIOUS
      <4>2. Cardinality(1 .. N) = IF 1 > N THEN 0 ELSE N - 1 + 1
        BY <4>1, FS_Interval
      <4>3. Cardinality(1 .. N) = N
        BY <4>2
      <4> QED BY <4>3, GroupsOperators
    <3>3. Groups!k \in 1 .. N
      BY Neighbours
    <3>4. Groups!Cardinality(V) >= Groups!k
      BY <3>2, <3>3
    <3> QED BY <2>6, <3>1, <3>4
  <2>8. kd[i] = Groups!Min(X)
    BY <1>4, <2>1, <2>6 DEF Groups!Kdist
  <2>9. X \subseteq Nat /\ X # {}
    <3>1. X \subseteq 0 .. M
      BY <2>3, <2>6
    <3>2. X \subseteq Nat
      BY <1>2, <3>1
    <3> QED BY <2>7, <3>2
  <2>10. kd[i] \in X
    BY <2>8, <2>9, GreatestOne
  <2> QED BY <2>3, <2>6, <2>10
<1>6. \A i, j \in V : W[i][j] = IF i = j THEN 0 ELSE Groups!Max({Groups!Dist(i, j), kd[i], kd[j]})
  <2>1. (CHOOSE f \in {kd} : f = f) = kd
    OBVIOUS
  <2> QED BY <1>4, <2>1 DEF Groups!mr
<1>7. ASSUME NEW i \in V, NEW j \in V PROVE W[i][j] \in 0 .. M /\ W[i][j] = W[j][i]
  <2>1. CASE i = j
    <3>1. W[i][j] = 0 /\ W[j][i] = 0
      BY <1>6, <2>1
    <3> QED BY <1>2, <3>1
  <2>2. CASE i # j
    <3>1. PICK d : d = Groups!Dist(i, j) /\ d = Groups!Dist(j, i)
      BY <1>3
    <3>2. {d, kd[i], kd[j]} = {d, kd[j], kd[i]}
      OBVIOUS
    <3>3. {d, kd[i], kd[j]} \subseteq 0 .. M
      BY <1>3, <1>5, <3>1
    <3>4. {d, kd[i], kd[j]} \subseteq Int /\ {d, kd[i], kd[j]} # {} /\ IsFiniteSet({d, kd[i], kd[j]})
      <4>1. IsFiniteSet({d, kd[i], kd[j]})
        BY ThreeAreFinite
      <4>2. {d, kd[i], kd[j]} \subseteq Int
        BY <1>2, <3>3
      <4> QED BY <4>1, <4>2
    <3>5. Groups!Max({d, kd[i], kd[j]}) \in {d, kd[i], kd[j]}
      BY <3>4, GreatestOne
    <3>6. W[i][j] = Groups!Max({d, kd[i], kd[j]}) /\ W[j][i] = Groups!Max({d, kd[j], kd[i]})
      BY <1>6, <2>2, <3>1
    <3> QED BY <3>2, <3>3, <3>5, <3>6
  <2> QED BY <2>1, <2>2
<1>8. ASSUME NEW i \in V, NEW j \in V PROVE W[i][j] \in Nat /\ W[i][j] <= M
  BY <1>2, <1>7
<1> QED BY <1>2, <1>7, <1>8 DEF Weighs

-----------------------------------------------------------------------------
(* The cuts before an edge and the cuts at a height.                        *)

Before(s, i)      == IF i = 1 THEN 0 ELSE s[i - 1].w
HeightsOf(W, M)   == {w \in 1 .. M : Groups!Below(W, w) # Groups!Below(W, w + 1)}
LowCuts(W, M)     == {w \in HeightsOf(W, M) : /\ Groups!Cardinality(Groups!Below(W, w)) > 2
                                              /\ Groups!Cardinality(Groups!Big(Groups!Below(W, w))) >= 2}
GapOf(W, M, w)    == w - Groups!Max({0} \cup {h \in HeightsOf(W, M) : h < w})

LEMMA EdgesAreLight ==
    ASSUME NEW N, NEW V, NEW W, NEW M, NEW s, NEW L, Setting(N, V, W, M, s, L)
    PROVE  /\ \A i \in 1 .. L : s[i].w \in 0 .. M
           /\ \A i, j \in 1 .. L : i <= j => s[i].w <= s[j].w
<1>1. ASSUME NEW i \in 1 .. L PROVE s[i].w \in 0 .. M
  <2>1. s[i] \in First(s, L)
    BY DEF First
  <2>2. s[i].w = W[s[i].a][s[i].b] /\ s[i].a \in V /\ s[i].b \in V
    BY <2>1 DEF Setting, Spanning, Drawn, Edge
  <2> QED BY <2>2 DEF Setting, Weighs
<1> QED BY <1>1 DEF Setting, Spanning

LEMMA HeightsAre ==
    ASSUME NEW N, NEW V, NEW W, NEW M, NEW s, NEW L, Setting(N, V, W, M, s, L), NEW w \in 1 .. M
    PROVE  w \in HeightsOf(W, M) <=> \E i \in 1 .. L : s[i].w = w
<1>0. w \in Nat /\ w + 1 \in Nat /\ N \in Nat /\ L \in Nat /\ L = N - 1
  BY DEF Setting
<1>1. \A i \in 1 .. L : s[i].w \in Nat
  BY EdgesAreLight
<1>2. PICK m : Prefix(s, L, w, m) /\ Groups!Below(W, w) = Groups!Groups(s, m)
  BY <1>0, LevelIs DEF Setting
<1>3. PICK n : Prefix(s, L, w + 1, n) /\ Groups!Below(W, w + 1) = Groups!Groups(s, n)
  BY <1>0, LevelIs DEF Setting
<1>4. /\ m \in 0 .. L /\ \A i \in 1 .. L : i <= m <=> s[i].w < w
      /\ n \in 0 .. L /\ \A i \in 1 .. L : i <= n <=> s[i].w < w + 1
  BY <1>2, <1>3 DEF Prefix
<1>5. Cardinality(Groups!Groups(s, m)) = N - m /\ Cardinality(Groups!Groups(s, n)) = N - n
  BY <1>4, CountIs
<1>6. ASSUME NEW i \in 1 .. L, s[i].w = w PROVE m # n
  <2>1. ~ (i <= m) /\ i <= n
    BY <1>0, <1>4, <1>6
  <2> QED BY <2>1
<1>7. ASSUME \A i \in 1 .. L : s[i].w # w PROVE m = n
  <2>1. \A i \in 1 .. L : i <= m <=> i <= n
    BY <1>0, <1>1, <1>4, <1>7
  <2>2. CASE m < n
    <3>1. n \in 1 .. L /\ n <= n /\ ~ (n <= m)
      BY <1>0, <1>4, <2>2
    <3> QED BY <2>1, <3>1
  <2>3. CASE n < m
    <3>1. m \in 1 .. L /\ m <= m /\ ~ (m <= n)
      BY <1>0, <1>4, <2>3
    <3> QED BY <2>1, <3>1
  <2> QED BY <1>0, <1>4, <2>2, <2>3
<1>8. Groups!Groups(s, m) = Groups!Groups(s, n) <=> m = n
  <2>1. ASSUME Groups!Groups(s, m) = Groups!Groups(s, n) PROVE m = n
    <3>1. N - m = N - n
      BY <1>5, <2>1
    <3> QED BY <1>0, <1>4, <3>1
  <2> QED BY <2>1
<1> QED BY <1>2, <1>3, <1>6, <1>7, <1>8 DEF HeightsOf

\* A cut before an edge is a cut at its weight, of the same groups and as deep.
LEMMA CutIsLow ==
    ASSUME NEW N, NEW V, NEW W, NEW M, NEW s, NEW L, Setting(N, V, W, M, s, L), NEW i \in Groups!Cuts(s)
    PROVE  /\ i \in 1 .. L /\ s[i].w > Before(s, i)
           /\ Prefix(s, L, s[i].w, i - 1) /\ Groups!Below(W, s[i].w) = Groups!Groups(s, i - 1)
           /\ s[i].w \in LowCuts(W, M) /\ GapOf(W, M, s[i].w) = s[i].w - Before(s, i)
<1>0. /\ N \in Nat /\ L \in Nat /\ L = N - 1 /\ Len(s) = L
      /\ (\A j \in 1 .. L : s[j].w \in 0 .. M /\ s[j].w \in Nat)
      /\ (\A i0, j \in 1 .. L : i0 <= j => s[i0].w <= s[j].w)
      /\ M \in Nat
  <2>1. N \in Nat /\ L \in Nat /\ L = N - 1 /\ M \in Nat /\ Len(s) = L
    BY DEF Setting, Spanning
  <2>2. \A j \in 1 .. L : s[j].w \in 0 .. M
    BY EdgesAreLight
  <2>3. \A i0, j \in 1 .. L : i0 <= j => s[i0].w <= s[j].w
    BY EdgesAreLight
  <2> QED BY <2>1, <2>2, <2>3
<1>1. /\ i \in 1 .. L - 1 /\ i \in 1 .. L /\ s[i].w > Before(s, i)
      /\ Groups!Cardinality(Groups!Big(Groups!Groups(s, i - 1))) >= 2
  BY <1>0 DEF Groups!Cuts, Before
<1>2. PICK w : w = s[i].w
  OBVIOUS
<1>3. w \in 1 .. M /\ w \in Nat
  <2>1. Before(s, i) >= 0
    <3>1. i # 1 => i - 1 \in 1 .. L
      BY <1>0, <1>1
    <3> QED BY <1>0, <3>1 DEF Before
  <2>2. Before(s, i) \in Int /\ w \in 0 .. M
    <3>1. i # 1 => i - 1 \in 1 .. L
      BY <1>0, <1>1
    <3> QED BY <1>0, <1>1, <1>2, <3>1 DEF Before
  <2> QED BY <1>0, <1>1, <1>2, <2>1, <2>2
<1>4. Prefix(s, L, w, i - 1)
  <2>1. i - 1 \in 0 .. L
    BY <1>0, <1>1
  <2>2. ASSUME NEW j \in 1 .. L PROVE j <= i - 1 <=> s[j].w < w
    <3>1. CASE j <= i - 1
      <4>1. i # 1 /\ i - 1 \in 1 .. L
        BY <1>0, <1>1, <3>1
      <4>2. s[j].w <= s[i - 1].w /\ s[i - 1].w < w /\ s[j].w \in Nat /\ s[i - 1].w \in Nat
        BY <1>0, <1>1, <1>2, <3>1, <4>1 DEF Before
      <4> QED BY <1>3, <3>1, <4>2
    <3>2. CASE ~ (j <= i - 1)
      <4>1. i <= j
        BY <1>1, <3>2
      <4>2. w <= s[j].w /\ s[j].w \in Nat
        BY <1>0, <1>1, <1>2, <4>1
      <4> QED BY <1>3, <3>2, <4>2
    <3> QED BY <3>1, <3>2
  <2> QED BY <2>1, <2>2 DEF Prefix
<1>5. Groups!Below(W, w) = Groups!Groups(s, i - 1)
  BY <1>3, <1>4, LevelIs DEF Setting
<1>6. w \in LowCuts(W, M)
  <2>1. w \in HeightsOf(W, M)
    BY <1>1, <1>2, <1>3, HeightsAre
  <2>2. i - 1 \in 0 .. L
    BY <1>0, <1>1
  <2>3. Cardinality(Groups!Groups(s, i - 1)) = N - (i - 1)
    BY <2>2, CountIs
  <2>4. N - (i - 1) > 2
    BY <1>0, <1>1
  <2>5. Groups!Cardinality(Groups!Below(W, w)) > 2
    BY <1>5, <2>3, <2>4, GroupsOperators
  <2> QED BY <1>1, <1>5, <2>1, <2>5 DEF LowCuts
<1>7. GapOf(W, M, w) = w - Before(s, i)
  <2>1. PICK H : H = {0} \cup {h \in HeightsOf(W, M) : h < w}
    OBVIOUS
  <2>2. H \subseteq Nat
    BY <1>0, <2>1 DEF HeightsOf
  <2>3. Before(s, i) \in H
    <3>1. CASE i = 1
      BY <2>1, <3>1 DEF Before
    <3>2. CASE i # 1
      <4>1. i - 1 \in 1 .. L /\ Before(s, i) = s[i - 1].w /\ s[i - 1].w < w /\ s[i - 1].w \in 0 .. M
        <5>1. i - 1 \in 1 .. L
          BY <1>0, <1>1, <3>2
        <5> QED BY <1>0, <1>1, <1>2, <1>3, <3>2, <5>1 DEF Before
      <4>2. CASE s[i - 1].w = 0
        BY <2>1, <4>1, <4>2
      <4>3. CASE s[i - 1].w # 0
        <5>1. s[i - 1].w \in 1 .. M
          BY <1>0, <4>1, <4>3
        <5>2. s[i - 1].w \in HeightsOf(W, M)
          BY <4>1, <5>1, HeightsAre
        <5> QED BY <2>1, <4>1, <5>2
      <4> QED BY <4>2, <4>3
    <3> QED BY <3>1, <3>2
  <2>4. ASSUME NEW h \in H PROVE Before(s, i) >= h
    <3>1. CASE h = 0
      <4>1. Before(s, i) \in Nat
        BY <2>2, <2>3
      <4> QED BY <3>1, <4>1
    <3>2. CASE h # 0
      <4>1. h \in HeightsOf(W, M) /\ h < w /\ h \in 1 .. M
        BY <2>1, <3>2 DEF HeightsOf
      <4>2. PICK j \in 1 .. L : s[j].w = h
        BY <4>1, HeightsAre
      <4>3. j <= i - 1
        BY <1>4, <4>1, <4>2 DEF Prefix
      <4>4. i # 1 /\ i - 1 \in 1 .. L
        BY <1>0, <1>1, <4>2, <4>3
      <4>5. s[j].w <= s[i - 1].w
        BY <1>0, <4>3, <4>4
      <4> QED BY <1>0, <4>2, <4>4, <4>5 DEF Before
    <3> QED BY <3>1, <3>2
  <2>5. Groups!Max(H) = Before(s, i)
    <3>1. H \subseteq Int
      BY <2>2
    <3> QED BY <2>3, <2>4, <3>1, GreatestOne
  <2> QED BY <2>1, <2>5 DEF GapOf
<1> QED BY <1>1, <1>2, <1>4, <1>5, <1>6, <1>7

LEMMA LowIsCut ==
    ASSUME NEW N, NEW V, NEW W, NEW M, NEW s, NEW L, Setting(N, V, W, M, s, L), NEW w \in LowCuts(W, M)
    PROVE  \E i \in Groups!Cuts(s) : s[i].w = w
<1>0. /\ N \in Nat /\ L \in Nat /\ L = N - 1 /\ Len(s) = L
      /\ (\A j \in 1 .. L : s[j].w \in Nat)
      /\ M \in Nat
  <2>1. N \in Nat /\ L \in Nat /\ L = N - 1 /\ M \in Nat /\ Len(s) = L
    BY DEF Setting, Spanning
  <2>2. \A j \in 1 .. L : s[j].w \in 0 .. M
    BY EdgesAreLight
  <2> QED BY <2>1, <2>2
<1>1. /\ w \in HeightsOf(W, M) /\ w \in 1 .. M /\ w \in Nat
      /\ Groups!Cardinality(Groups!Below(W, w)) > 2
      /\ Groups!Cardinality(Groups!Big(Groups!Below(W, w))) >= 2
  BY <1>0 DEF LowCuts, HeightsOf
<1>2. PICK m : Prefix(s, L, w, m) /\ Groups!Below(W, w) = Groups!Groups(s, m)
  BY <1>1, LevelIs DEF Setting
<1>3. m \in 0 .. L /\ \A i \in 1 .. L : i <= m <=> s[i].w < w
  BY <1>2 DEF Prefix
<1>4. Cardinality(Groups!Groups(s, m)) = N - m
  BY <1>3, CountIs
<1>5. N - m > 2
  BY <1>1, <1>2, <1>4, GroupsOperators
<1>6. PICK i : i = m + 1
  OBVIOUS
<1>7. i \in 1 .. L - 1 /\ i \in 1 .. L /\ i - 1 = m
  BY <1>0, <1>3, <1>5, <1>6
<1>8. s[i].w = w
  <2>1. PICK j \in 1 .. L : s[j].w = w
    BY <1>1, HeightsAre
  <2>2. ~ (j <= m)
    BY <1>1, <1>3, <2>1
  <2>3. i <= j
    BY <1>3, <1>6, <2>2
  <2>4. s[i].w <= w
    BY <1>7, <2>1, <2>3, EdgesAreLight
  <2>5. ~ (s[i].w < w)
    BY <1>3, <1>6, <1>7
  <2> QED BY <1>0, <1>1, <1>7, <2>4, <2>5
<1>9. s[i].w > Before(s, i)
  <2>1. CASE i = 1
    BY <1>1, <1>8, <2>1 DEF Before
  <2>2. CASE i # 1
    <3>1. i - 1 \in 1 .. L /\ i - 1 <= m
      BY <1>3, <1>7, <2>2
    <3>2. s[i - 1].w < w /\ s[i - 1].w \in Nat
      BY <1>0, <1>3, <3>1
    <3> QED BY <1>1, <1>8, <2>2, <3>2 DEF Before
  <2> QED BY <2>1, <2>2
<1>10. i \in Groups!Cuts(s)
  BY <1>0, <1>1, <1>2, <1>7, <1>9 DEF Groups!Cuts, Before
<1> QED BY <1>8, <1>10

DeepCuts(s) ==
    {i \in Groups!Cuts(s) : \A j \in Groups!Cuts(s) : s[i].w - Before(s, i) >= s[j].w - Before(s, j)}
DeepHeights(W, M) == {w \in LowCuts(W, M) : \A v \in LowCuts(W, M) : GapOf(W, M, w) >= GapOf(W, M, v)}

\* So the deepest cuts, and the first of them, are the same.
LEMMA DeepestCuts ==
    ASSUME NEW N, NEW V, NEW W, NEW M, NEW s, NEW L, Setting(N, V, W, M, s, L)
    PROVE  /\ DeepCuts(s) = {} <=> DeepHeights(W, M) = {}
           /\ DeepCuts(s) # {} =>
                Groups!Below(W, Groups!Min(DeepHeights(W, M))) = Groups!Groups(s, Groups!Min(DeepCuts(s)) - 1)
<1>a. PICK A : A = DeepCuts(s)
  OBVIOUS
<1>b. PICK B : B = DeepHeights(W, M)
  OBVIOUS
<1>c. /\ A = {i \in Groups!Cuts(s) : \A j \in Groups!Cuts(s) : s[i].w - Before(s, i) >= s[j].w - Before(s, j)}
      /\ B = {w \in LowCuts(W, M) : \A v \in LowCuts(W, M) : GapOf(W, M, w) >= GapOf(W, M, v)}
  BY <1>a, <1>b DEF DeepCuts, DeepHeights
<1> USE <1>c
<1>0. L \in Nat /\ \A i \in 1 .. L : s[i].w \in Nat
  <2>1. L \in Nat
    BY DEF Setting
  <2>2. \A j \in 1 .. L : s[j].w \in 0 .. M
    BY EdgesAreLight
  <2> QED BY <2>1, <2>2
<1>1. ASSUME NEW i \in A PROVE s[i].w \in B
  <2>1. s[i].w \in LowCuts(W, M) /\ GapOf(W, M, s[i].w) = s[i].w - Before(s, i)
    BY CutIsLow
  <2>2. ASSUME NEW v \in LowCuts(W, M) PROVE GapOf(W, M, s[i].w) >= GapOf(W, M, v)
    <3>1. PICK j \in Groups!Cuts(s) : s[j].w = v
      BY LowIsCut
    <3>2. GapOf(W, M, v) = s[j].w - Before(s, j)
      BY <3>1, CutIsLow
    <3> QED BY <2>1, <3>2
  <2> QED BY <2>1, <2>2
<1>2. ASSUME NEW w \in B PROVE \E i \in A : s[i].w = w
  <2>1. PICK i \in Groups!Cuts(s) : s[i].w = w
    BY LowIsCut
  <2>2. GapOf(W, M, w) = s[i].w - Before(s, i)
    BY <2>1, CutIsLow
  <2>3. ASSUME NEW j \in Groups!Cuts(s) PROVE s[i].w - Before(s, i) >= s[j].w - Before(s, j)
    <3>1. s[j].w \in LowCuts(W, M) /\ GapOf(W, M, s[j].w) = s[j].w - Before(s, j)
      BY CutIsLow
    <3> QED BY <2>2, <3>1
  <2> QED BY <2>1, <2>3
<1>3. A = {} <=> B = {}
  BY <1>1, <1>2
<1>4. ASSUME A # {} PROVE Groups!Below(W, Groups!Min(B)) = Groups!Groups(s, Groups!Min(A) - 1)
  <2>1. A \subseteq 1 .. L
    BY CutIsLow
  <2>2. A \subseteq Nat
    BY <1>0, <2>1
  <2>3. PICK i : i = Groups!Min(A)
    OBVIOUS
  <2>4. i \in A /\ \A j \in A : i <= j
    BY <1>4, <2>2, <2>3, GreatestOne
  <2>5. i \in 1 .. L /\ s[i].w \in B
    BY <1>1, <2>1, <2>4
  <2>6. ASSUME NEW v \in B PROVE s[i].w <= v
    <3>1. PICK j \in A : s[j].w = v
      BY <1>2
    <3> QED BY <2>1, <2>4, <2>5, <3>1, EdgesAreLight
  <2>7. B \subseteq Int
    <3>1. ASSUME NEW v \in B PROVE v \in Int
      <4>1. PICK j \in A : s[j].w = v
        BY <1>2
      <4> QED BY <1>0, <2>1, <4>1
    <3> QED BY <3>1
  <2>8. Groups!Min(B) = s[i].w
    BY <2>5, <2>6, <2>7, GreatestOne
  <2>9. Groups!Below(W, s[i].w) = Groups!Groups(s, i - 1)
    BY <2>4, CutIsLow
  <2> QED BY <2>3, <2>8, <2>9
<1> QED BY <1>3, <1>4, <1>a, <1>b

-----------------------------------------------------------------------------
(* Both sides, written out.                                                 *)

LEMMA ClustersAre ==
    ASSUME NEW s, s = Groups!ByWeight(Groups!Grown(Groups!mr))
    PROVE  Groups!Clusters =
             IF Len(points) < Groups!Max({2, min_cluster_size}) THEN {}
             ELSE Groups!Big(Groups!Groups(s, IF DeepCuts(s) = {} THEN Len(s) ELSE Groups!Min(DeepCuts(s)) - 1))
<1>1. DeepCuts(s) =
        {i \in Groups!Cuts(s) :
           \A j \in Groups!Cuts(s) : s[i].w - (IF i = 1 THEN 0 ELSE s[i - 1].w) >= s[j].w - (IF j = 1 THEN 0 ELSE s[j - 1].w)}
  BY DEF DeepCuts, Before
<1> QED BY <1>1 DEF Groups!Clusters

LEMMA ExpectedIs ==
    ASSUME NEW W, W = Groups!mr, NEW M, M = Groups!Max(Positions), M \in Nat
    PROVE  Groups!Expected =
             IF Len(points) < Groups!Max({2, min_cluster_size}) THEN {}
             ELSE IF DeepHeights(W, M) = {} THEN {Groups!Nodes}
             ELSE Groups!Big(Groups!Below(W, Groups!Min(DeepHeights(W, M))))
<1>1. PICK below : below = [w \in 1 .. M + 1 |-> Groups!Below(W, w)]
  OBVIOUS
<1>2. HeightsOf(W, M) = {w \in 1 .. M : below[w] # below[w + 1]}
  <2>1. ASSUME NEW w \in 1 .. M PROVE below[w] = Groups!Below(W, w) /\ below[w + 1] = Groups!Below(W, w + 1)
    BY <1>1
  <2> QED BY <2>1 DEF HeightsOf
<1>3. PICK heights : heights = {w \in 1 .. M : below[w] # below[w + 1]}
  OBVIOUS
<1>4. LowCuts(W, M) =
        {w \in heights : Groups!Cardinality(below[w]) > 2 /\ Groups!Cardinality(Groups!Big(below[w])) >= 2}
  <2>1. ASSUME NEW w \in heights PROVE below[w] = Groups!Below(W, w)
    BY <1>1, <1>3
  <2> QED BY <1>2, <1>3, <2>1 DEF LowCuts
<1>5. PICK cuts : cuts = {w \in heights : Groups!Cardinality(below[w]) > 2 /\ Groups!Cardinality(Groups!Big(below[w])) >= 2}
  OBVIOUS
<1>6. \A w : GapOf(W, M, w) = w - Groups!Max({0} \cup {h \in heights : h < w})
  BY <1>2, <1>3 DEF GapOf
<1>7. DeepHeights(W, M) =
        {w \in cuts : \A v \in cuts : w - Groups!Max({0} \cup {h \in heights : h < w})
                                        >= v - Groups!Max({0} \cup {h \in heights : h < v})}
  <2>1. LowCuts(W, M) = cuts
    BY <1>4, <1>5
  <2>2. DeepHeights(W, M) = {w \in cuts : \A v \in cuts : GapOf(W, M, w) >= GapOf(W, M, v)}
    BY <2>1 DEF DeepHeights
  <2>3. \A w, v : GapOf(W, M, w) >= GapOf(W, M, v)
                   <=> w - Groups!Max({0} \cup {h \in heights : h < w})
                         >= v - Groups!Max({0} \cup {h \in heights : h < v})
    BY <1>6
  <2> QED BY <2>2, <2>3
<1>8. PICK best : best = {w \in cuts : \A v \in cuts : w - Groups!Max({0} \cup {h \in heights : h < w})
                                                         >= v - Groups!Max({0} \cup {h \in heights : h < v})}
  OBVIOUS
<1>9. Groups!Expected =
        IF Len(points) < Groups!Max({2, min_cluster_size}) THEN {}
        ELSE IF best = {} THEN {Groups!Nodes} ELSE Groups!Big(below[Groups!Min(best)])
  BY <1>1, <1>3, <1>5, <1>8 DEF Groups!Expected
<1>10. best # {} => below[Groups!Min(best)] = Groups!Below(W, Groups!Min(best))
  <2>1. best \subseteq 1 .. M
    BY <1>3, <1>5, <1>8
  <2>2. best \subseteq Nat
    BY <2>1
  <2>3. best # {} => Groups!Min(best) \in best
    BY <2>2, GreatestOne
  <2>4. best # {} => Groups!Min(best) \in 1 .. M + 1
    <3>1. best # {} => Groups!Min(best) \in 1 .. M
      BY <2>1, <2>3
    <3> QED BY <3>1
  <2> QED BY <1>1, <2>4
<1> QED BY <1>7, <1>8, <1>9, <1>10

LEMMA ComponentsAre == ASSUME points \in Seq(Positions) PROVE Groups!ClustersAreComponents
<1>1. PICK N : N = Len(points)
  OBVIOUS
<1>2. PICK V : V = Groups!Nodes
  OBVIOUS
<1>3. N \in Nat /\ V = 1 .. N
  BY <1>1, <1>2, LenProperties DEF Groups!Nodes
<1>4. CASE N < Groups!Max({2, min_cluster_size})
  <2>1. Groups!Clusters = {}
    BY <1>1, <1>4, ClustersAre
  <2>2. Groups!Expected = {}
    BY <1>1, <1>4 DEF Groups!Expected
  <2> QED BY <2>1, <2>2 DEF Groups!ClustersAreComponents
<1>5. CASE ~ (N < Groups!Max({2, min_cluster_size}))
  <2>1. N >= 2 /\ N >= min_cluster_size /\ min_cluster_size \in Int
    <3>1. min_cluster_size \in Int
      BY RecordsAssumption DEF RecordsAssumption, Groups!ClusteringAssumption
    <3>2. IsFiniteSet({2, min_cluster_size})
      <4>1. IsFiniteSet({2, min_cluster_size, min_cluster_size})
        BY ThreeAreFinite
      <4>2. {2, min_cluster_size, min_cluster_size} = {2, min_cluster_size}
        OBVIOUS
      <4> QED BY <4>1, <4>2
    <3>3. {2, min_cluster_size} \subseteq Int /\ {2, min_cluster_size} # {}
      BY <3>1
    <3>4. PICK m : m = Groups!Max({2, min_cluster_size})
      OBVIOUS
    <3>5. m \in {2, min_cluster_size} /\ m >= 2 /\ m >= min_cluster_size
      BY <3>2, <3>3, <3>4, GreatestOne
    <3> QED BY <1>3, <1>5, <3>1, <3>4, <3>5
  <2>2. PICK W : W = Groups!mr
    OBVIOUS
  <2>3. PICK M : M = Groups!Max(Positions)
    OBVIOUS
  <2>4. N # 0
    BY <1>3, <2>1
  <2>5. M \in Nat /\ Weighs(V, W) /\ \A i, j \in V : W[i][j] <= M
    BY <1>1, <1>2, <1>3, <2>2, <2>3, <2>4, WeightsAre
  <2>6. PICK s : s = Groups!ByWeight(Groups!Grown(W))
    OBVIOUS
  <2>7. PICK L : L = N - 1
    OBVIOUS
  <2>8. L \in Nat
    BY <1>3, <2>4, <2>7
  <2>9. IsFiniteSet(V)
    <3>1. 1 \in Int /\ N \in Int
      BY <1>3
    <3> QED BY <1>3, <3>1, FS_Interval
  <2>10. Spanning(V, W, s, L)
    BY <1>1, <1>2, <1>3, <2>4, <2>5, <2>6, <2>7, SortedTree
  <2>11. Setting(N, V, W, M, s, L)
    BY <1>1, <1>2, <1>3, <2>4, <2>5, <2>7, <2>8, <2>9, <2>10 DEF Setting
  <2>12. /\ DeepCuts(s) = {} <=> DeepHeights(W, M) = {}
         /\ DeepCuts(s) # {} => Groups!Below(W, Groups!Min(DeepHeights(W, M))) = Groups!Groups(s, Groups!Min(DeepCuts(s)) - 1)
    BY <2>11, DeepestCuts
  <2>13. Groups!Clusters = Groups!Big(Groups!Groups(s, IF DeepCuts(s) = {} THEN Len(s) ELSE Groups!Min(DeepCuts(s)) - 1))
    BY <1>1, <1>5, <2>2, <2>6, ClustersAre
  <2>14. Groups!Expected =
           IF DeepHeights(W, M) = {} THEN {Groups!Nodes} ELSE Groups!Big(Groups!Below(W, Groups!Min(DeepHeights(W, M))))
    BY <1>1, <1>5, <2>2, <2>3, <2>5, ExpectedIs
  <2>15. Groups!Big(Groups!Groups(s, Len(s))) = {V}
    <3>1. Len(s) = L
      BY <2>10 DEF Spanning
    <3>2. Groups!Groups(s, L) = {V}
      BY <2>11, CountIs
    <3>3. Groups!Cardinality(V) = N
      <4>1. 1 \in Int /\ N \in Int
        BY <1>3
      <4>2. Cardinality(1 .. N) = IF 1 > N THEN 0 ELSE N - 1 + 1
        BY <4>1, FS_Interval
      <4>3. Cardinality(V) = N
        BY <1>3, <2>1, <4>2
      <4> QED BY <4>3, GroupsOperators
    <3> QED BY <2>1, <3>1, <3>2, <3>3 DEF Groups!Big
  <2>16. Groups!Clusters = Groups!Expected
    <3>1. CASE DeepCuts(s) = {}
      BY <1>2, <2>12, <2>13, <2>14, <2>15, <3>1
    <3>2. CASE DeepCuts(s) # {}
      BY <2>12, <2>13, <2>14, <3>2
    <3> QED BY <3>1, <3>2
  <2> QED BY <2>16 DEF Groups!ClustersAreComponents
<1> QED BY <1>4, <1>5

LEMMA GroupsKept ==
    /\ Groups!Init => Groups!TypeOK
    /\ Groups!TypeOK /\ [Groups!Next]_points => Groups!TypeOK'
<1>0. MaxPoints \in Nat
  BY RecordsAssumption DEF RecordsAssumption, Groups!ClusteringAssumption
<1>1. ASSUME Groups!Init PROVE Groups!TypeOK
  <2>1. Len(points) = 0 /\ points \in Seq(Positions)
    BY <1>1, EmptySeq DEF Groups!Init
  <2> QED BY <1>0, <2>1 DEF Groups!TypeOK
<1>2. ASSUME Groups!TypeOK, [Groups!Next]_points PROVE Groups!TypeOK'
  <2>1. CASE UNCHANGED points
    BY <1>2, <2>1 DEF Groups!TypeOK
  <2>2. CASE Groups!Next
    <3>1. PICK p \in Positions : Len(points) < MaxPoints /\ points' = Append(points, p)
      BY <2>2 DEF Groups!Next, Groups!Arrive
    <3>2. points' \in Seq(Positions) /\ Len(points') = Len(points) + 1 /\ Len(points) \in Nat
      BY <1>2, <3>1, AppendProperties, LenProperties DEF Groups!TypeOK
    <3> QED BY <1>0, <3>1, <3>2 DEF Groups!TypeOK
  <2> QED BY <1>2, <2>1, <2>2
<1> QED BY <1>1, <1>2

-----------------------------------------------------------------------------

\* No turn of the thread is lost but by a restart or a failed write, the thread
\* is one story, and a person's message is not read after the loop's own notes
\* (ContextLayer); of a subject one fact is current unless recordings overlapped
\* or the night merged two, strength decays once a night, and what is archived is
\* on file (run_nightly, record_fact); and the groups a night distils together are
\* the components of a threshold graph, whatever edges its tree took where
\* distances tie (hdbscan_like_cluster).
Remembered == (part = "thread" => ThreadInv) /\ (part = "night" => NightInv) /\ (part = "groups" => Groups!TypeOK)
THEOREM MemoryIsKept == Spec => []MemorySafe
<1>1. Init => Remembered
  BY ThreadInit, NightInit, GroupsKept DEF Init, Remembered
<1>2. Remembered /\ [Next]_vars => Remembered'
  <2> SUFFICES ASSUME Remembered, [Next]_vars PROVE Remembered'
    OBVIOUS
  <2>1. ASSUME part' = "thread" PROVE ThreadInv'
    <3>1. CASE part = "thread" /\ Thread!Next
      BY <3>1, ThreadKeeps DEF Remembered
    <3>2. CASE UNCHANGED vars
      <4>1. ThreadInv /\ UNCHANGED threadVars
        BY <2>1, <3>2 DEF vars, mindVars, Remembered
      <4> QED BY <4>1, ThreadRests
    <3> QED BY <2>1, <3>1, <3>2 DEF Next, Handed, Mind, Hands
  <2>2. ASSUME part' = "night" PROVE NightInv'
    <3>1. CASE part = "night" /\ Night!Next
      BY <3>1, NightNext DEF Remembered
    <3>2. CASE UNCHANGED vars
      <4>1. NightInv /\ UNCHANGED nightVars
        BY <2>2, <3>2 DEF vars, mindVars, Remembered
      <4> QED BY <4>1, NightRests
    <3> QED BY <2>2, <3>1, <3>2 DEF Next, Handed, Mind, Hands
  <2>3. ASSUME part' = "groups" PROVE Groups!TypeOK'
    <3>1. CASE part = "groups" /\ Groups!Next
      BY <3>1, GroupsKept DEF Remembered
    <3>2. CASE UNCHANGED vars
      <4>1. Groups!TypeOK /\ UNCHANGED points
        BY <2>3, <3>2 DEF vars, mindVars, Remembered
      <4> QED BY <4>1, GroupsKept
    <3> QED BY <2>3, <3>1, <3>2 DEF Next, Handed, Mind, Hands
  <2> QED BY <2>1, <2>2, <2>3 DEF Remembered
<1>3. Remembered => MemorySafe
  <2>1. Groups!TypeOK => Groups!ClustersAreComponents
    BY ComponentsAre DEF Groups!TypeOK
  <2> QED BY <2>1, ThreadStands, NightStands DEF Remembered, MemorySafe
<1> QED BY <1>1, <1>2, <1>3, PTL DEF Spec

-----------------------------------------------------------------------------
(* What FlattenSeq computes.                                               *)

Flattens(g, ss) == g = [i \in 1 .. Len(ss) |-> IF i = 1 THEN ss[i] ELSE g[i - 1] \o ss[i]]

LEMMA FlattenExists == ASSUME NEW X, NEW ss \in Seq(Seq(X)) PROVE \E g : Flattens(g, ss)
<1> DEFINE R(g, n) == g = [i \in 1 .. n |-> IF i = 1 THEN ss[i] ELSE g[i - 1] \o ss[i]]
<1>0. Len(ss) \in Nat
  BY LenProperties
<1>1. PICK S : S = {n \in Nat : \E g : R(g, n)}
  OBVIOUS
<1>2. 0 \in S
  <2>1. PICK g : g = [i \in 1 .. 0 |-> ss[i]]
    OBVIOUS
  <2>2. R(g, 0)
    BY <2>1
  <2> HIDE DEF R
  <2>3. \E f : R(f, 0)
    BY <2>2
  <2> QED BY <1>1, <2>3
<1>3. ASSUME NEW n \in Nat, n \in S PROVE n + 1 \in S
  <2> HIDE DEF R
  <2>1. PICK g : R(g, n)
    BY <1>1, <1>3
  <2>2. PICK h : h = [i \in 1 .. n + 1 |-> IF i = n + 1 THEN (IF i = 1 THEN ss[i] ELSE g[n] \o ss[i]) ELSE g[i]]
    OBVIOUS
  <2>3. ASSUME NEW i \in 1 .. n + 1 PROVE h[i] = IF i = 1 THEN ss[i] ELSE h[i - 1] \o ss[i]
    <3>1. CASE i = n + 1
      <4>1. CASE i = 1
        BY <2>2, <3>1, <4>1
      <4>2. CASE i # 1
        <5>1. i - 1 = n /\ n \in 1 .. n + 1 /\ n # n + 1
          BY <3>1, <4>2
        <5>2. h[n] = g[n] /\ h[i] = g[n] \o ss[i]
          BY <2>2, <3>1, <4>2, <5>1
        <5> QED BY <4>2, <5>1, <5>2
      <4> QED BY <4>1, <4>2
    <3>2. CASE i # n + 1
      <4>1. i \in 1 .. n /\ (i # 1 => i - 1 \in 1 .. n + 1 /\ i - 1 # n + 1)
        BY <3>2
      <4>2. h[i] = g[i] /\ (i # 1 => h[i - 1] = g[i - 1])
        BY <2>2, <3>2, <4>1
      <4>3. g[i] = IF i = 1 THEN ss[i] ELSE g[i - 1] \o ss[i]
        BY <2>1, <4>1 DEF R
      <4> QED BY <4>2, <4>3
    <3> QED BY <3>1, <3>2
  <2>4. h = [i \in 1 .. n + 1 |-> h[i]]
    BY <2>2
  <2>5. R(h, n + 1)
    BY <2>3, <2>4 DEF R
  <2>6. \E f : R(f, n + 1)
    BY <2>5
  <2>7. n + 1 \in Nat
    OBVIOUS
  <2> QED BY <1>1, <2>6, <2>7
<1>4. Len(ss) \in 0 .. Len(ss)
  BY <1>0
<1>5. Len(ss) \in S
  BY <1>0, <1>2, <1>3, <1>4, Inductively
<1> QED BY <1>1, <1>5 DEF Flattens

\* Its parts: each begins the next, and the last is the whole.
Builds(g, X, ss, N) ==
    /\ Wire!FlattenSeq(ss) = g[N] /\ g[1] = ss[1]
    /\ \A n \in 1 .. N : g[n] \in Seq(X)
    /\ \A n \in 1 .. N : n # 1 => g[n] = g[n - 1] \o ss[n]

LEMMA FlattenIs == ASSUME NEW X, NEW ss \in Seq(Seq(X)), ss # << >> PROVE \E g : Builds(g, X, ss, Len(ss))
<1>1. \E g : g = [i \in 1 .. Len(ss) |-> IF i = 1 THEN ss[i] ELSE g[i - 1] \o ss[i]]
  BY FlattenExists DEF Flattens
<1>2. Len(ss) # 0 /\ Len(ss) \in Nat
  BY LenProperties, EmptySeq
<1>3. PICK g : Flattens(g, ss) /\ Wire!FlattenSeq(ss) = g[Len(ss)]
  BY <1>1, <1>2 DEF Wire!FlattenSeq, Flattens
<1>4. \A i \in 1 .. Len(ss) : g[i] = IF i = 1 THEN ss[i] ELSE g[i - 1] \o ss[i]
  BY <1>3 DEF Flattens
<1>5. g[1] = ss[1] /\ \A i \in 1 .. Len(ss) : i # 1 => g[i] = g[i - 1] \o ss[i]
  <2>1. 1 \in 1 .. Len(ss)
    BY <1>2
  <2> QED BY <1>4, <2>1
<1>6. PICK S : S = {n \in Nat : n = 0 \/ g[n] \in Seq(X)}
  OBVIOUS
<1>7. 0 \in S
  BY <1>6
<1>8. ASSUME NEW n \in Nat, n \in S, n < Len(ss) PROVE n + 1 \in S
  <2>1. n + 1 \in 1 .. Len(ss) /\ n + 1 \in Nat
    BY <1>2, <1>8
  <2>2. ss[n + 1] \in Seq(X)
    BY <2>1, ElementOfSeq
  <2>3. g[n + 1] \in Seq(X)
    <3>1. CASE n = 0
      <4>1. n + 1 = 1
        BY <3>1
      <4> QED BY <1>5, <2>2, <4>1
    <3>2. CASE n # 0
      <4>1. n + 1 # 1 /\ (n + 1) - 1 = n
        BY <3>2
      <4>2. g[n + 1] = g[n] \o ss[n + 1]
        BY <1>5, <2>1, <4>1
      <4>3. g[n] \in Seq(X)
        BY <1>6, <1>8, <3>2
      <4> QED BY <2>2, <4>2, <4>3, ConcatProperties
    <3> QED BY <3>1, <3>2
  <2> QED BY <1>6, <2>1, <2>3
<1>9. \A i \in 0 .. Len(ss) : i \in S
  BY <1>2, <1>7, <1>8, Inductively
<1>10. ASSUME NEW n \in 1 .. Len(ss) PROVE g[n] \in Seq(X)
  <2>1. n \in 0 .. Len(ss) /\ n # 0
    BY <1>2
  <2>2. n \in S
    BY <1>9, <2>1
  <2> QED BY <1>6, <2>1, <2>2
<1>11. Builds(g, X, ss, Len(ss))
  BY <1>3, <1>5, <1>10 DEF Builds
<1> QED BY <1>11

LEMMA FlattenNone == Wire!FlattenSeq(<< >>) = << >>
  BY DEF Wire!FlattenSeq

LEMMA FlattenTyped == ASSUME NEW X, NEW ss \in Seq(Seq(X)) PROVE Wire!FlattenSeq(ss) \in Seq(X)
<1>1. CASE ss = << >>
  <2>1. Wire!FlattenSeq(ss) = << >>
    BY <1>1, FlattenNone
  <2> QED BY <2>1, EmptySeq
<1>2. CASE ss # << >>
  <2>0. PICK g : Builds(g, X, ss, Len(ss))
    BY <1>2, FlattenIs
  <2>1. Wire!FlattenSeq(ss) = g[Len(ss)] /\ \A n \in 1 .. Len(ss) : g[n] \in Seq(X)
    BY <2>0 DEF Builds
  <2>2. Len(ss) \in 1 .. Len(ss)
    <3>1. Len(ss) # 0 /\ Len(ss) \in Nat
      BY <1>2, LenProperties, EmptySeq
    <3> QED BY <3>1
  <2> QED BY <2>1, <2>2
<1> QED BY <1>1, <1>2

\* What begins a sequence of sequences is put together alike whatever follows.
Joins(f, a, N) == f[1] = a[1] /\ \A n \in 1 .. N : n # 1 => f[n] = f[n - 1] \o a[n]
Agree(a, b, N) == \A n \in 1 .. N : a[n] = b[n]
LEMMA FlattenBegins ==
    ASSUME NEW N \in Nat, N # 0, NEW a, NEW b, NEW f, NEW g, Joins(f, a, N), Joins(g, b, N), Agree(a, b, N)
    PROVE  f[N] = g[N]
<1>0. /\ f[1] = a[1] /\ \A n \in 1 .. N : n # 1 => f[n] = f[n - 1] \o a[n]
      /\ g[1] = b[1] /\ \A n \in 1 .. N : n # 1 => g[n] = g[n - 1] \o b[n]
      /\ \A n \in 1 .. N : a[n] = b[n]
  BY DEF Joins, Agree
<1>1. PICK S : S = {n \in Nat : n = 0 \/ f[n] = g[n]}
  OBVIOUS
<1>2. 0 \in S
  BY <1>1
<1>3. ASSUME NEW n \in Nat, n \in S, n < N PROVE n + 1 \in S
  <2>1. n + 1 \in 1 .. N /\ n + 1 \in Nat
    BY <1>3
  <2>2. f[n + 1] = g[n + 1]
    <3>1. CASE n = 0
      <4>1. n + 1 = 1 /\ 1 \in 1 .. N
        BY <3>1
      <4>2. f[1] = g[1]
        BY <1>0, <4>1
      <4> QED BY <4>1, <4>2
    <3>2. CASE n # 0
      <4>1. n + 1 # 1 /\ (n + 1) - 1 = n
        BY <3>2
      <4>2. f[n] = g[n]
        BY <1>1, <1>3, <3>2
      <4>3. f[n + 1] = f[n] \o a[n + 1] /\ g[n + 1] = g[n] \o b[n + 1] /\ a[n + 1] = b[n + 1]
        BY <1>0, <2>1, <4>1
      <4> QED BY <4>2, <4>3
    <3> QED BY <3>1, <3>2
  <2> QED BY <1>1, <2>1, <2>2
<1>4. \A i \in 0 .. N : i \in S
  BY <1>2, <1>3, Inductively
<1>5. N \in 0 .. N
  OBVIOUS
<1>6. N \in S
  BY <1>4, <1>5
<1> QED BY <1>1, <1>6

LEMMA Associates == ASSUME NEW X, NEW p \in Seq(X), NEW q \in Seq(X), NEW r \in Seq(X) PROVE (p \o q) \o r = p \o (q \o r)
  BY ConcatAssociative

\* Two sequences of sequences, put together, are put together in turn.
LEMMA FlattenConcat ==
    ASSUME NEW X, NEW ss \in Seq(Seq(X)), NEW tt \in Seq(Seq(X))
    PROVE  Wire!FlattenSeq(ss \o tt) = Wire!FlattenSeq(ss) \o Wire!FlattenSeq(tt)
<1>0. ss \o tt \in Seq(Seq(X)) /\ Len(ss \o tt) = Len(ss) + Len(tt) /\ Len(ss) \in Nat /\ Len(tt) \in Nat
  BY ConcatProperties, LenProperties
<1>1. CASE ss = << >>
  <2>1. ss \o tt = tt /\ Wire!FlattenSeq(ss) = << >>
    BY <1>1, FlattenNone, ConcatEmptySeq
  <2>2. << >> \o Wire!FlattenSeq(tt) = Wire!FlattenSeq(tt)
    BY FlattenTyped, ConcatEmptySeq
  <2> QED BY <2>1, <2>2
<1>2. CASE tt = << >>
  <2>1. ss \o tt = ss /\ Wire!FlattenSeq(tt) = << >>
    BY <1>2, FlattenNone, ConcatEmptySeq
  <2>2. Wire!FlattenSeq(ss) \o << >> = Wire!FlattenSeq(ss)
    BY FlattenTyped, ConcatEmptySeq
  <2> QED BY <2>1, <2>2
<1>3. CASE ss # << >> /\ tt # << >>
  <2>. PICK uu : uu = ss \o tt
    OBVIOUS
  <2>. PICK M, N : M = Len(ss) /\ N = Len(tt)
    OBVIOUS
  <2>1. M \in Nat \ {0} /\ N \in Nat \ {0} /\ uu \in Seq(Seq(X)) /\ Len(uu) = M + N /\ uu # << >>
    BY <1>0, <1>3, EmptySeq
  <2>2. /\ \A n \in 1 .. M : uu[n] = ss[n]
        /\ \A n \in 1 .. N : uu[M + n] = tt[n]
    <3>1. \A i \in 1 .. M + N : uu[i] = IF i <= M THEN ss[i] ELSE tt[i - M]
      BY ConcatProperties
    <3>2. ASSUME NEW n \in 1 .. M PROVE uu[n] = ss[n]
      <4>1. n \in 1 .. M + N /\ n <= M
        BY <2>1
      <4> QED BY <3>1, <4>1
    <3>3. ASSUME NEW n \in 1 .. N PROVE uu[M + n] = tt[n]
      <4>1. M + n \in 1 .. M + N /\ ~(M + n <= M) /\ (M + n) - M = n
        BY <2>1
      <4> QED BY <3>1, <4>1
    <3> QED BY <3>2, <3>3
  <2>31. PICK g : Builds(g, X, uu, Len(uu))
    BY <2>1, FlattenIs
  <2>3. /\ Wire!FlattenSeq(uu) = g[M + N] /\ g[1] = uu[1]
        /\ \A n \in 1 .. M + N : n # 1 => g[n] = g[n - 1] \o uu[n]
    BY <2>1, <2>31 DEF Builds
  <2>41. PICK a : Builds(a, X, ss, Len(ss))
    BY <1>3, FlattenIs
  <2>4. /\ Wire!FlattenSeq(ss) = a[M] /\ a[1] = ss[1]
        /\ \A n \in 1 .. M : a[n] \in Seq(X)
        /\ \A n \in 1 .. M : n # 1 => a[n] = a[n - 1] \o ss[n]
    BY <2>41 DEF Builds
  <2>51. PICK b : Builds(b, X, tt, Len(tt))
    BY <1>3, FlattenIs
  <2>5. /\ Wire!FlattenSeq(tt) = b[N] /\ b[1] = tt[1]
        /\ \A n \in 1 .. N : b[n] \in Seq(X)
        /\ \A n \in 1 .. N : n # 1 => b[n] = b[n - 1] \o tt[n]
    BY <2>51 DEF Builds
  <2>6. g[M] = a[M]
    <3>1. \A n \in 1 .. M : n \in 1 .. M + N
      BY <2>1
    <3>2. M # 0 /\ M \in Nat
      BY <2>1
    <3>3. \A n \in 1 .. M : n # 1 => g[n] = g[n - 1] \o uu[n]
      BY <2>3, <3>1
    <3>4. Joins(g, uu, M) /\ Joins(a, ss, M)
      BY <2>3, <2>4, <3>3 DEF Joins
    <3>5. Agree(uu, ss, M)
      BY <2>2 DEF Agree
    <3> QED BY <3>2, <3>4, <3>5, FlattenBegins
  <2>7. a[M] \in Seq(X)
    <3>1. M \in 1 .. M
      BY <2>1
    <3> QED BY <2>4, <3>1
  <2>8. PICK S : S = {n \in Nat : n = 0 \/ g[M + n] = a[M] \o b[n]}
    OBVIOUS
  <2>9. 0 \in S
    BY <2>8
  <2>10. ASSUME NEW n \in Nat, n \in S, n < N PROVE n + 1 \in S
    <3>1. n + 1 \in 1 .. N /\ n + 1 \in Nat /\ M + (n + 1) \in 1 .. M + N /\ M + (n + 1) # 1 /\ (M + (n + 1)) - 1 = M + n
      BY <2>1, <2>10
    <3>2. g[M + (n + 1)] = g[M + n] \o tt[n + 1]
      BY <2>2, <2>3, <3>1
    <3>3. g[M + (n + 1)] = a[M] \o b[n + 1]
      <4>1. CASE n = 0
        <5>1. M + n = M /\ n + 1 = 1
          BY <2>1, <4>1
        <5> QED BY <2>5, <2>6, <3>2, <5>1
      <4>2. CASE n # 0
        <5>1. n + 1 # 1 /\ (n + 1) - 1 = n /\ n \in 1 .. N
          BY <2>1, <2>10, <4>2
        <5>2. b[n + 1] = b[n] \o tt[n + 1] /\ b[n] \in Seq(X)
          BY <2>5, <3>1, <5>1
        <5>3. g[M + n] = a[M] \o b[n]
          BY <2>8, <2>10, <4>2
        <5>4. tt[n + 1] \in Seq(X)
          BY <3>1, ElementOfSeq
        <5>5. (a[M] \o b[n]) \o tt[n + 1] = a[M] \o (b[n] \o tt[n + 1])
          <6>1. PICK p, q, r : p = a[M] /\ q = b[n] /\ r = tt[n + 1]
            OBVIOUS
          <6>2. p \in Seq(X) /\ q \in Seq(X) /\ r \in Seq(X)
            BY <2>7, <5>2, <5>4, <6>1
          <6>3. (p \o q) \o r = p \o (q \o r)
            BY ONLY <6>2, Associates
          <6> QED BY <6>1, <6>3
        <5> QED BY <3>2, <5>2, <5>3, <5>5
      <4> QED BY <4>1, <4>2
    <3> QED BY <2>8, <3>1, <3>3
  <2>11. \A i \in 0 .. N : i \in S
    BY <2>1, <2>9, <2>10, Inductively
  <2>12. N \in 0 .. N /\ N # 0
    BY <2>1
  <2>13. N \in S
    BY <2>11, <2>12
  <2>14. g[M + N] = a[M] \o b[N]
    BY <2>8, <2>12, <2>13
  <2> QED BY <2>3, <2>4, <2>5, <2>14
<1> QED BY <1>1, <1>2, <1>3

LEMMA FlattenOne == ASSUME NEW X, NEW s \in Seq(X) PROVE Wire!FlattenSeq(<<s>>) = s
<1>1. <<s>> \in Seq(Seq(X)) /\ Len(<<s>>) = 1 /\ <<s>>[1] = s /\ <<s>> # << >>
  OBVIOUS
<1>2. PICK g : Builds(g, X, <<s>>, Len(<<s>>))
  BY <1>1, FlattenIs
<1> QED BY <1>1, <1>2 DEF Builds

\* Of singletons, one place each; of pairs, two.
LEMMA FlattenSingles ==
    ASSUME NEW X, NEW ss \in Seq(Seq(X)), \A i \in 1 .. Len(ss) : Len(ss[i]) = 1
    PROVE  /\ Len(Wire!FlattenSeq(ss)) = Len(ss)
           /\ \A i \in 1 .. Len(ss) : Wire!FlattenSeq(ss)[i] = ss[i][1]
<1>. PICK N : N = Len(ss)
  OBVIOUS
<1>0. N \in Nat /\ \A i \in 1 .. N : ss[i] \in Seq(X) /\ Len(ss[i]) = 1
  BY LenProperties, ElementOfSeq
<1>1. CASE ss = << >>
  <2>1. N = 0 /\ Wire!FlattenSeq(ss) = << >> /\ Len(<< >>) = 0
    BY <1>1, FlattenNone, EmptySeq
  <2> QED BY <2>1
<1>2. CASE ss # << >>
  <2>1. N # 0
    BY <1>2, EmptySeq
  <2>21. PICK g : Builds(g, X, ss, Len(ss))
    BY <1>2, FlattenIs
  <2>2. /\ Wire!FlattenSeq(ss) = g[N] /\ g[1] = ss[1]
        /\ \A n \in 1 .. N : g[n] \in Seq(X)
        /\ \A n \in 1 .. N : n # 1 => g[n] = g[n - 1] \o ss[n]
    BY <2>21 DEF Builds
  <2>3. PICK S : S = {n \in Nat : n = 0 \/ (Len(g[n]) = n /\ \A i \in 1 .. n : g[n][i] = ss[i][1])}
    OBVIOUS
  <2>4. 0 \in S
    BY <2>3
  <2>5. ASSUME NEW n \in Nat, n \in S, n < N PROVE n + 1 \in S
    <3>1. n + 1 \in 1 .. N /\ n + 1 \in Nat
      BY <1>0, <2>5
    <3>2. ss[n + 1] \in Seq(X) /\ Len(ss[n + 1]) = 1
      BY <1>0, <3>1
    <3>3. Len(g[n + 1]) = n + 1 /\ \A i \in 1 .. n + 1 : g[n + 1][i] = ss[i][1]
      <4>1. CASE n = 0
        <5>1. n + 1 = 1 /\ \A i \in 1 .. 1 : i = 1
          BY <4>1
        <5>2. g[1] = ss[1] /\ Len(ss[1]) = 1
          BY <2>2, <3>2, <5>1
        <5> QED BY <5>1, <5>2
      <4>2. CASE n # 0
        <5>1. n + 1 # 1 /\ (n + 1) - 1 = n /\ n \in 1 .. N
          BY <1>0, <2>5, <4>2
        <5>2. g[n + 1] = g[n] \o ss[n + 1] /\ g[n] \in Seq(X)
          BY <2>2, <3>1, <5>1
        <5>3. Len(g[n]) = n /\ \A i \in 1 .. n : g[n][i] = ss[i][1]
          BY <2>3, <2>5, <4>2
        <5>40. PICK p, q, r : p = g[n] /\ q = ss[n + 1] /\ r = p \o q
          OBVIOUS
        <5>41. p \in Seq(X) /\ q \in Seq(X) /\ Len(p) = n /\ Len(q) = 1
          BY <3>2, <5>2, <5>3, <5>40
        <5>42. Len(r) = n + 1 /\ \A i \in 1 .. n + 1 : r[i] = IF i <= n THEN p[i] ELSE q[i - n]
          <6>1. /\ Len(p \o q) = Len(p) + Len(q)
                /\ \A i \in 1 .. Len(p) + Len(q) : (p \o q)[i] = IF i <= Len(p) THEN p[i] ELSE q[i - Len(p)]
            BY <5>41, ConcatProperties
          <6> QED BY <5>40, <5>41, <6>1
        <5>4. /\ Len(g[n + 1]) = n + 1
              /\ \A i \in 1 .. n + 1 : g[n + 1][i] = IF i <= n THEN g[n][i] ELSE ss[n + 1][i - n]
          BY <5>2, <5>40, <5>42
        <5>5. ASSUME NEW i \in 1 .. n + 1 PROVE g[n + 1][i] = ss[i][1]
          <6>1. CASE i <= n
            <7>1. i \in 1 .. n
              BY <6>1
            <7> QED BY <5>3, <5>4, <6>1, <7>1
          <6>2. CASE ~(i <= n)
            <7>1. i = n + 1 /\ i - n = 1
              BY <6>2
            <7> QED BY <5>4, <6>2, <7>1
          <6> QED BY <6>1, <6>2
        <5> QED BY <5>4, <5>5
      <4> QED BY <4>1, <4>2
    <3> QED BY <2>3, <3>1, <3>3
  <2>6. \A i \in 0 .. N : i \in S
    BY <1>0, <2>4, <2>5, Inductively
  <2>7. N \in 0 .. N /\ N # 0
    BY <1>0, <2>1
  <2>8. N \in S
    BY <2>6, <2>7
  <2>9. Len(g[N]) = N /\ \A i \in 1 .. N : g[N][i] = ss[i][1]
    BY <2>3, <2>7, <2>8
  <2> QED BY <2>2, <2>9
<1> QED BY <1>1, <1>2

LEMMA FlattenPairs ==
    ASSUME NEW X, NEW ss \in Seq(Seq(X)), \A i \in 1 .. Len(ss) : Len(ss[i]) = 2
    PROVE  /\ Len(Wire!FlattenSeq(ss)) = 2 * Len(ss)
           /\ \A i \in 1 .. Len(ss) : Wire!FlattenSeq(ss)[2 * i - 1] = ss[i][1] /\ Wire!FlattenSeq(ss)[2 * i] = ss[i][2]
<1>. PICK N : N = Len(ss)
  OBVIOUS
<1>0. N \in Nat /\ \A i \in 1 .. N : ss[i] \in Seq(X) /\ Len(ss[i]) = 2
  BY LenProperties, ElementOfSeq
<1>1. CASE ss = << >>
  <2>1. N = 0 /\ Wire!FlattenSeq(ss) = << >> /\ Len(<< >>) = 0
    BY <1>1, FlattenNone, EmptySeq
  <2> QED BY <2>1
<1>2. CASE ss # << >>
  <2>1. N # 0
    BY <1>2, EmptySeq
  <2>21. PICK g : Builds(g, X, ss, Len(ss))
    BY <1>2, FlattenIs
  <2>2. /\ Wire!FlattenSeq(ss) = g[N] /\ g[1] = ss[1]
        /\ \A n \in 1 .. N : g[n] \in Seq(X)
        /\ \A n \in 1 .. N : n # 1 => g[n] = g[n - 1] \o ss[n]
    BY <2>21 DEF Builds
  <2>3. PICK S : S = {n \in Nat : n = 0 \/ (Len(g[n]) = 2 * n /\ \A i \in 1 .. n : g[n][2 * i - 1] = ss[i][1] /\ g[n][2 * i] = ss[i][2])}
    OBVIOUS
  <2>4. 0 \in S
    BY <2>3
  <2>5. ASSUME NEW n \in Nat, n \in S, n < N PROVE n + 1 \in S
    <3>1. n + 1 \in 1 .. N /\ n + 1 \in Nat
      BY <1>0, <2>5
    <3>2. ss[n + 1] \in Seq(X) /\ Len(ss[n + 1]) = 2
      BY <1>0, <3>1
    <3>3. Len(g[n + 1]) = 2 * (n + 1) /\ \A i \in 1 .. n + 1 : g[n + 1][2 * i - 1] = ss[i][1] /\ g[n + 1][2 * i] = ss[i][2]
      <4>1. CASE n = 0
        <5>1. n + 1 = 1 /\ \A i \in 1 .. 1 : i = 1 /\ 2 * i = 2 /\ 2 * i - 1 = 1
          BY <4>1
        <5>2. g[n + 1] = ss[1] /\ Len(ss[1]) = 2 /\ 2 * (n + 1) = 2
          BY <2>2, <3>2, <5>1
        <5>3. ASSUME NEW i \in 1 .. n + 1 PROVE g[n + 1][2 * i - 1] = ss[i][1] /\ g[n + 1][2 * i] = ss[i][2]
          <6>1. i = 1 /\ 2 * i = 2 /\ 2 * i - 1 = 1
            BY <5>1
          <6>2. g[n + 1][1] = ss[1][1] /\ g[n + 1][2] = ss[1][2]
            BY <5>2
          <6> QED BY <6>1, <6>2
        <5> QED BY <5>2, <5>3
      <4>2. CASE n # 0
        <5>1. n + 1 # 1 /\ (n + 1) - 1 = n /\ n \in 1 .. N
          BY <1>0, <2>5, <4>2
        <5>2. g[n + 1] = g[n] \o ss[n + 1] /\ g[n] \in Seq(X)
          BY <2>2, <3>1, <5>1
        <5>3. Len(g[n]) = 2 * n /\ \A i \in 1 .. n : g[n][2 * i - 1] = ss[i][1] /\ g[n][2 * i] = ss[i][2]
          BY <2>3, <2>5, <4>2
        <5>40. PICK p, q, r : p = g[n] /\ q = ss[n + 1] /\ r = p \o q
          OBVIOUS
        <5>41. p \in Seq(X) /\ q \in Seq(X) /\ Len(p) = 2 * n /\ Len(q) = 2
          BY <3>2, <5>2, <5>3, <5>40
        <5>42. Len(r) = 2 * n + 2 /\ \A i \in 1 .. 2 * n + 2 : r[i] = IF i <= 2 * n THEN p[i] ELSE q[i - 2 * n]
          <6>1. /\ Len(p \o q) = Len(p) + Len(q)
                /\ \A i \in 1 .. Len(p) + Len(q) : (p \o q)[i] = IF i <= Len(p) THEN p[i] ELSE q[i - Len(p)]
            BY <5>41, ConcatProperties
          <6> QED BY <5>40, <5>41, <6>1
        <5>4. /\ Len(g[n + 1]) = 2 * n + 2
              /\ \A i \in 1 .. 2 * n + 2 : g[n + 1][i] = IF i <= 2 * n THEN g[n][i] ELSE ss[n + 1][i - 2 * n]
          BY <5>2, <5>40, <5>42
        <5>5. ASSUME NEW i \in 1 .. n + 1 PROVE g[n + 1][2 * i - 1] = ss[i][1] /\ g[n + 1][2 * i] = ss[i][2]
          <6>0. 2 * i - 1 \in 1 .. 2 * n + 2 /\ 2 * i \in 1 .. 2 * n + 2
            OBVIOUS
          <6>1. CASE i <= n
            <7>1. i \in 1 .. n /\ 2 * i <= 2 * n /\ 2 * i - 1 <= 2 * n
              BY <6>1
            <7> QED BY <5>3, <5>4, <6>0, <7>1
          <6>2. CASE ~(i <= n)
            <7>1. i = n + 1 /\ ~(2 * i - 1 <= 2 * n) /\ ~(2 * i <= 2 * n) /\ (2 * i - 1) - 2 * n = 1 /\ 2 * i - 2 * n = 2
              BY <6>2
            <7> QED BY <5>4, <6>0, <7>1
          <6> QED BY <6>1, <6>2
        <5>6. 2 * n + 2 = 2 * (n + 1)
          OBVIOUS
        <5> QED BY <5>4, <5>5, <5>6
      <4> QED BY <4>1, <4>2
    <3> QED BY <2>3, <3>1, <3>3
  <2>6. \A i \in 0 .. N : i \in S
    BY <1>0, <2>4, <2>5, Inductively
  <2>7. N \in 0 .. N /\ N # 0
    BY <1>0, <2>1
  <2>8. N \in S
    BY <2>6, <2>7
  <2>9. Len(g[N]) = 2 * N /\ \A i \in 1 .. N : g[N][2 * i - 1] = ss[i][1] /\ g[N][2 * i] = ss[i][2]
    BY <2>3, <2>7, <2>8
  <2> QED BY <2>2, <2>9
<1> QED BY <1>1, <1>2

-----------------------------------------------------------------------------
(* The transcript and its form.                                            *)

IdsOfCalls == {Wire!NoId} \cup ({"toolu", "call_id", "gcall", "id", "uuid", "call"} \X Int)
Asks == [id : IdsOfCalls, name : Wire!Range(Tools), serial : Int]
Answers == [id : IdsOfCalls, serial : Int]
Lines == [role : {"user", "assistant", "tool"}, calls : Seq(Asks), attachments : Seq(Answers)]
WireNames == {Sanitized[name] : name \in Wire!Range(Tools)} \cup {""}
Blocks == [kind : {"call", "result"}, id : IdsOfCalls, name : WireNames, serial : Int]

\* A call and a result as a family's form carries them.
AskOf(x) == [kind |-> "call", id |-> x.id, name |-> Sanitized[x.name], serial |-> x.serial]
LEMMA AskTyped == ASSUME NEW x \in Asks PROVE AskOf(x) \in Blocks
<1>1. x.id \in IdsOfCalls /\ x.name \in Wire!Range(Tools) /\ x.serial \in Int
  BY DEF Asks
<1>2. Sanitized[x.name] \in WireNames
  BY <1>1 DEF WireNames
<1> QED BY <1>1, <1>2 DEF Blocks, AskOf
LEMMA AskedEach ==
    ASSUME NEW m, m.calls \in Seq(Asks)
    PROVE  /\ Wire!Asked(m) \in Seq(Blocks) /\ Len(Wire!Asked(m)) = Len(m.calls)
           /\ \A i \in 1 .. Len(m.calls) : Wire!Asked(m)[i] = AskOf(m.calls[i])
<1>. PICK p, M : p = m.calls /\ M = Len(p)
  OBVIOUS
<1>1. M \in Nat /\ DOMAIN p = 1 .. M /\ \A i \in 1 .. M : p[i] \in Asks
  BY LenProperties, ElementOfSeq
<1>. PICK u : u = [i \in 1 .. M |-> AskOf(p[i])]
  OBVIOUS
<1>2. Wire!Asked(m) = u
  BY <1>1 DEF Wire!Asked, AskOf
<1>3. \A i \in 1 .. M : u[i] = AskOf(p[i]) /\ u[i] \in Blocks
  BY <1>1, AskTyped
<1>4. u \in [1 .. M -> Blocks] /\ DOMAIN u = 1 .. M
  BY <1>3
<1>5. u \in Seq(Blocks)
  BY <1>1, <1>4, SeqDef
<1>6. Len(u) = M
  BY <1>1, <1>4, <1>5, LenProperties
<1> QED BY <1>2, <1>3, <1>5, <1>6

ResultOf(x) == [kind |-> "result", id |-> x.id, name |-> "", serial |-> x.serial]
LEMMA ResultTyped == ASSUME NEW x \in Answers PROVE ResultOf(x) \in Blocks
  BY DEF Answers, Blocks, WireNames, ResultOf
LEMMA ResultsEach ==
    ASSUME NEW m, m.attachments \in Seq(Answers)
    PROVE  /\ Wire!Results(m) \in Seq(Blocks) /\ Len(Wire!Results(m)) = Len(m.attachments)
           /\ \A i \in 1 .. Len(m.attachments) : Wire!Results(m)[i] = ResultOf(m.attachments[i])
<1>. PICK p, M : p = m.attachments /\ M = Len(p)
  OBVIOUS
<1>1. M \in Nat /\ DOMAIN p = 1 .. M /\ \A i \in 1 .. M : p[i] \in Answers
  BY LenProperties, ElementOfSeq
<1>. PICK u : u = [i \in 1 .. M |-> ResultOf(p[i])]
  OBVIOUS
<1>2. Wire!Results(m) = u
  BY <1>1 DEF Wire!Results, ResultOf
<1>3. \A i \in 1 .. M : u[i] = ResultOf(p[i]) /\ u[i] \in Blocks
  BY <1>1, ResultTyped
<1>4. u \in [1 .. M -> Blocks] /\ DOMAIN u = 1 .. M
  BY <1>3
<1>5. u \in Seq(Blocks)
  BY <1>1, <1>4, SeqDef
<1>6. Len(u) = M
  BY <1>1, <1>4, <1>5, LenProperties
<1> QED BY <1>2, <1>3, <1>5, <1>6

LEMMA ItemsTyped == ASSUME NEW m \in Lines PROVE Wire!Items(m) \in Seq(Blocks)
<1>1. m.calls \in Seq(Asks) /\ m.attachments \in Seq(Answers)
  BY DEF Lines
<1>2. Wire!Asked(m) \in Seq(Blocks)
  BY <1>1, AskedEach
<1>3. Wire!Results(m) \in Seq(Blocks)
  BY <1>1, ResultsEach
<1>4. << >> \in Seq(Blocks)
  BY EmptySeq
<1> QED BY <1>2, <1>3, <1>4 DEF Wire!Items

Itemized(ms) == [i \in DOMAIN ms |-> Wire!Items(ms[i])]
LEMMA ItemizedTyped ==
    ASSUME NEW ms \in Seq(Lines)
    PROVE  /\ Itemized(ms) \in Seq(Seq(Blocks)) /\ Len(Itemized(ms)) = Len(ms)
           /\ \A i \in 1 .. Len(ms) : Itemized(ms)[i] = Wire!Items(ms[i])
           /\ Wire!Each(ms) = Wire!FlattenSeq(Itemized(ms)) /\ Wire!Each(ms) \in Seq(Blocks)
<1>1. DOMAIN ms = 1 .. Len(ms) /\ Len(ms) \in Nat
  BY LenProperties
<1>2. ASSUME NEW i \in 1 .. Len(ms) PROVE Wire!Items(ms[i]) \in Seq(Blocks)
  BY ElementOfSeq, ItemsTyped
<1>3. Itemized(ms) \in [1 .. Len(ms) -> Seq(Blocks)]
  BY <1>1, <1>2 DEF Itemized
<1>4. Itemized(ms) \in Seq(Seq(Blocks))
  BY <1>1, <1>3, SeqDef
<1>5. DOMAIN Itemized(ms) = 1 .. Len(ms)
  BY <1>1 DEF Itemized
<1>6. Len(Itemized(ms)) = Len(ms)
  BY <1>1, <1>4, <1>5, LenProperties
<1>7. \A i \in 1 .. Len(ms) : Itemized(ms)[i] = Wire!Items(ms[i])
  BY <1>1 DEF Itemized
<1>8. Wire!Each(ms) = Wire!FlattenSeq(Itemized(ms))
  BY DEF Wire!Each, Itemized
<1> QED BY <1>4, <1>6, <1>7, <1>8, FlattenTyped

LEMMA EachConcat ==
    ASSUME NEW ms \in Seq(Lines), NEW ns \in Seq(Lines)
    PROVE  Wire!Each(ms \o ns) = Wire!Each(ms) \o Wire!Each(ns)
<1>1. ms \o ns \in Seq(Lines) /\ Len(ms \o ns) = Len(ms) + Len(ns)
      /\ \A i \in 1 .. Len(ms) + Len(ns) : (ms \o ns)[i] = IF i <= Len(ms) THEN ms[i] ELSE ns[i - Len(ms)]
  BY ConcatProperties
<1>. PICK M, N : M = Len(ms) /\ N = Len(ns)
  OBVIOUS
<1>. PICK a, b, c : a = Itemized(ms) /\ b = Itemized(ns) /\ c = Itemized(ms \o ns)
  OBVIOUS
<1>2. M \in Nat /\ N \in Nat
  BY LenProperties
<1>3. /\ a \in Seq(Seq(Blocks)) /\ Len(a) = M /\ \A i \in 1 .. M : a[i] = Wire!Items(ms[i])
      /\ Wire!Each(ms) = Wire!FlattenSeq(a)
  BY ItemizedTyped
<1>4. /\ b \in Seq(Seq(Blocks)) /\ Len(b) = N /\ \A i \in 1 .. N : b[i] = Wire!Items(ns[i])
      /\ Wire!Each(ns) = Wire!FlattenSeq(b)
  BY ItemizedTyped
<1>5. /\ c \in Seq(Seq(Blocks)) /\ Len(c) = M + N /\ \A i \in 1 .. M + N : c[i] = Wire!Items((ms \o ns)[i])
      /\ Wire!Each(ms \o ns) = Wire!FlattenSeq(c)
  BY <1>1, ItemizedTyped
<1>6. a \o b \in Seq(Seq(Blocks)) /\ Len(a \o b) = M + N
      /\ \A i \in 1 .. M + N : (a \o b)[i] = IF i <= M THEN a[i] ELSE b[i - M]
  <2>1. a \o b \in Seq(Seq(Blocks)) /\ Len(a \o b) = Len(a) + Len(b)
        /\ \A i \in 1 .. Len(a) + Len(b) : (a \o b)[i] = IF i <= Len(a) THEN a[i] ELSE b[i - Len(a)]
    BY <1>3, <1>4, ConcatProperties
  <2> QED BY <1>3, <1>4, <2>1
<1>7. ASSUME NEW i \in 1 .. M + N PROVE c[i] = (a \o b)[i]
  <2>1. CASE i <= M
    <3>1. i \in 1 .. M /\ (ms \o ns)[i] = ms[i]
      BY <1>1, <1>2, <2>1
    <3> QED BY <1>3, <1>5, <1>6, <2>1, <3>1
  <2>2. CASE ~(i <= M)
    <3>1. i - M \in 1 .. N /\ (ms \o ns)[i] = ns[i - M]
      BY <1>1, <1>2, <2>2
    <3> QED BY <1>4, <1>5, <1>6, <2>2, <3>1
  <2> QED BY <2>1, <2>2
<1>8. c = a \o b
  <2>1. Len(c) = Len(a \o b) /\ \A i \in 1 .. Len(c) : c[i] = (a \o b)[i]
    BY <1>5, <1>6, <1>7
  <2> QED BY <1>5, <1>6, <2>1, SeqEqual
<1>9. Wire!FlattenSeq(a \o b) = Wire!FlattenSeq(a) \o Wire!FlattenSeq(b)
  BY <1>3, <1>4, FlattenConcat
<1> QED BY <1>3, <1>4, <1>5, <1>8, <1>9

LEMMA EachOne == ASSUME NEW m \in Lines PROVE Wire!Each(<<m>>) = Wire!Items(m)
<1>. PICK s, t, b : s = <<m>> /\ b = Wire!Items(m) /\ t = <<b>>
  OBVIOUS
<1>1. s \in Seq(Lines) /\ Len(s) = 1 /\ s[1] = m
  OBVIOUS
<1>2. b \in Seq(Blocks)
  BY ItemsTyped
<1>3. t \in Seq(Seq(Blocks)) /\ Len(t) = 1 /\ t[1] = b
  BY <1>2
<1>4. Itemized(s) \in Seq(Seq(Blocks)) /\ Len(Itemized(s)) = 1 /\ Itemized(s)[1] = b
  <2>1. Itemized(s) \in Seq(Seq(Blocks)) /\ Len(Itemized(s)) = Len(s) /\ \A i \in 1 .. Len(s) : Itemized(s)[i] = Wire!Items(s[i])
    BY <1>1, ItemizedTyped
  <2> QED BY <1>1, <2>1
<1>5. Itemized(s) = t
  <2>1. \A i \in 1 .. 1 : i = 1
    OBVIOUS
  <2> QED BY <1>3, <1>4, <2>1, SeqEqual
<1>6. Wire!Each(s) = Wire!FlattenSeq(t)
  BY <1>1, <1>5, ItemizedTyped
<1> QED BY <1>2, <1>6, FlattenOne

LEMMA EachNone == Wire!Each(<< >>) = << >>
<1>1. Itemized(<< >>) = << >>
  BY DEF Itemized
<1>2. << >> \in Seq(Lines)
  BY EmptySeq
<1> QED BY <1>1, <1>2, ItemizedTyped, FlattenNone

\* Messages of one block each.
LEMMA EachSingles ==
    ASSUME NEW ms \in Seq(Lines), \A i \in 1 .. Len(ms) : Len(Wire!Items(ms[i])) = 1
    PROVE  /\ Wire!Each(ms) \in Seq(Blocks) /\ Len(Wire!Each(ms)) = Len(ms)
           /\ \A i \in 1 .. Len(ms) : Wire!Each(ms)[i] = Wire!Items(ms[i])[1]
<1>. PICK t : t = Itemized(ms)
  OBVIOUS
<1>1. /\ t \in Seq(Seq(Blocks)) /\ Len(t) = Len(ms) /\ \A i \in 1 .. Len(ms) : t[i] = Wire!Items(ms[i])
      /\ Wire!Each(ms) = Wire!FlattenSeq(t) /\ Wire!Each(ms) \in Seq(Blocks)
  BY ItemizedTyped
<1>2. \A i \in 1 .. Len(t) : Len(t[i]) = 1
  BY <1>1
<1>3. Len(Wire!FlattenSeq(t)) = Len(t) /\ \A i \in 1 .. Len(t) : Wire!FlattenSeq(t)[i] = t[i][1]
  BY <1>1, <1>2, FlattenSingles
<1> QED BY <1>1, <1>3

LEMMA ResultsConcat ==
    ASSUME NEW l, NEW m, NEW a, l.attachments \in Seq(Answers), m.attachments \in Seq(Answers),
           a.attachments = l.attachments \o m.attachments
    PROVE  Wire!Results(a) = Wire!Results(l) \o Wire!Results(m)
<1>. PICK p, q, r : p = l.attachments /\ q = m.attachments /\ r = p \o q
  OBVIOUS
<1>. PICK M, N : M = Len(p) /\ N = Len(q)
  OBVIOUS
<1>1. M \in Nat /\ N \in Nat
  BY LenProperties
<1>2. r \in Seq(Answers) /\ Len(r) = M + N /\ \A i \in 1 .. M + N : r[i] = IF i <= M THEN p[i] ELSE q[i - M]
  <2>1. p \o q \in Seq(Answers) /\ Len(p \o q) = Len(p) + Len(q)
        /\ \A i \in 1 .. Len(p) + Len(q) : (p \o q)[i] = IF i <= Len(p) THEN p[i] ELSE q[i - Len(p)]
    BY ConcatProperties
  <2> QED BY <2>1
<1>. PICK u, v, w : u = Wire!Results(l) /\ v = Wire!Results(m) /\ w = Wire!Results(a)
  OBVIOUS
<1>3. u \in Seq(Blocks) /\ Len(u) = M /\ \A i \in 1 .. M : u[i] = ResultOf(p[i])
  BY ResultsEach
<1>4. v \in Seq(Blocks) /\ Len(v) = N /\ \A i \in 1 .. N : v[i] = ResultOf(q[i])
  BY ResultsEach
<1>5. w \in Seq(Blocks) /\ Len(w) = Len(r) /\ \A i \in 1 .. Len(r) : w[i] = ResultOf(r[i])
  <2>1. a.attachments = r
    OBVIOUS
  <2>2. a.attachments \in Seq(Answers)
    BY <1>2, <2>1
  <2>3. w \in Seq(Blocks) /\ Len(w) = Len(a.attachments) /\ \A i \in 1 .. Len(a.attachments) : w[i] = ResultOf(a.attachments[i])
    BY <2>2, ResultsEach
  <2> QED BY <2>1, <2>3
<1>. PICK x : x = u \o v
  OBVIOUS
<1>7. x \in Seq(Blocks) /\ Len(x) = M + N /\ \A i \in 1 .. M + N : x[i] = IF i <= M THEN u[i] ELSE v[i - M]
  <2>0. u \in Seq(Blocks) /\ v \in Seq(Blocks)
    BY <1>3, <1>4
  <2>1. u \o v \in Seq(Blocks) /\ Len(u \o v) = Len(u) + Len(v)
        /\ \A i \in 1 .. Len(u) + Len(v) : (u \o v)[i] = IF i <= Len(u) THEN u[i] ELSE v[i - Len(u)]
    BY <2>0, ConcatProperties
  <2>2. Len(u) = M /\ Len(v) = N
    BY <1>3, <1>4
  <2> QED BY <2>1, <2>2
<1>8. ASSUME NEW i \in 1 .. M + N PROVE w[i] = x[i]
  <2>0. w[i] = ResultOf(r[i])
    BY <1>2, <1>5
  <2>1. CASE i <= M
    <3>1. i \in 1 .. M
      BY <1>1, <2>1
    <3>2. u[i] = ResultOf(p[i]) /\ r[i] = p[i]
      BY <1>2, <1>3, <2>1, <3>1
    <3> QED BY <1>7, <2>0, <2>1, <3>2
  <2>2. CASE ~(i <= M)
    <3>0. \A b, c \in Nat : \A k \in 1 .. b + c : ~(k <= b) => k - b \in 1 .. c
      OBVIOUS
    <3>1. i - M \in 1 .. N
      BY <1>1, <2>2, <3>0
    <3>2. v[i - M] = ResultOf(q[i - M]) /\ r[i] = q[i - M]
      BY <1>2, <1>4, <2>2, <3>1
    <3> QED BY <1>7, <2>0, <2>2, <3>2
  <2> QED BY <2>1, <2>2
<1>9. w = x
  <2>1. Len(w) = M + N /\ Len(x) = M + N
    BY <1>2, <1>5, <1>7
  <2>2. \A i \in 1 .. Len(w) : w[i] = x[i]
    BY <1>8, <2>1
  <2>3. w \in Seq(Blocks) /\ x \in Seq(Blocks)
    BY <1>5, <1>7
  <2> QED BY <2>1, <2>2, <2>3, SeqEqual
<1> QED BY <1>9

LEMMA OneMoreOf ==
    ASSUME NEW X, NEW ms \in Seq(X), NEW n \in Nat, n < Len(ms)
    PROVE  SubSeq(ms, 1, n) \in Seq(X) /\ SubSeq(ms, 1, n + 1) = SubSeq(ms, 1, n) \o <<ms[n + 1]>>
<1>1. Len(ms) \in Nat /\ \A i \in 1 .. Len(ms) : ms[i] \in X
  BY LenProperties, ElementOfSeq
<1>. PICK b, d, e : b = SubSeq(ms, 1, n) /\ d = SubSeq(ms, 1, n + 1) /\ e = ms[n + 1]
  OBVIOUS
<1>2. b \in Seq(X) /\ Len(b) = n /\ \A i \in 1 .. n : b[i] = ms[i]
  <2>1. 1 \in Int /\ n \in Int /\ \A i \in 1 .. n : ms[i] \in X
    BY <1>1
  <2>2. /\ b \in Seq(X) /\ Len(b) = IF 1 <= n THEN n - 1 + 1 ELSE 0
        /\ \A i \in 1 .. n - 1 + 1 : b[i] = ms[1 + i - 1]
    BY <2>1, SubSeqProperties
  <2>3. n - 1 + 1 = n /\ (\A i \in 1 .. n : 1 + i - 1 = i) /\ (1 <= n \/ n = 0)
    OBVIOUS
  <2> QED BY <2>2, <2>3
<1>3. d \in Seq(X) /\ Len(d) = n + 1 /\ \A i \in 1 .. n + 1 : d[i] = ms[i]
  <2>1. 1 \in Int /\ n + 1 \in Int /\ \A i \in 1 .. n + 1 : ms[i] \in X
    BY <1>1
  <2>2. /\ d \in Seq(X) /\ Len(d) = IF 1 <= n + 1 THEN (n + 1) - 1 + 1 ELSE 0
        /\ \A i \in 1 .. (n + 1) - 1 + 1 : d[i] = ms[1 + i - 1]
    BY <2>1, SubSeqProperties
  <2>3. (n + 1) - 1 + 1 = n + 1 /\ (\A i \in 1 .. n + 1 : 1 + i - 1 = i) /\ 1 <= n + 1
    OBVIOUS
  <2> QED BY <2>2, <2>3
<1>4. e \in X
  <2>1. n + 1 \in 1 .. Len(ms)
    BY <1>1
  <2> QED BY <1>1, <2>1
<1>5. Append(b, e) \in Seq(X) /\ Len(Append(b, e)) = n + 1 /\ (\A i \in 1 .. n : Append(b, e)[i] = b[i]) /\ Append(b, e)[n + 1] = e
  <2>1. /\ Append(b, e) \in Seq(X) /\ Len(Append(b, e)) = Len(b) + 1
        /\ (\A i \in 1 .. Len(b) : Append(b, e)[i] = b[i]) /\ Append(b, e)[Len(b) + 1] = e
    BY <1>2, <1>4, AppendProperties
  <2> QED BY <1>2, <2>1
<1>6. ASSUME NEW i \in 1 .. n + 1 PROVE d[i] = Append(b, e)[i]
  <2>1. i \in 1 .. n \/ i = n + 1
    OBVIOUS
  <2> QED BY <1>2, <1>3, <1>5, <2>1
<1>7. d = Append(b, e)
  <2>1. Len(d) = Len(Append(b, e)) /\ \A i \in 1 .. Len(d) : d[i] = Append(b, e)[i]
    BY <1>3, <1>5, <1>6
  <2> QED BY <1>3, <1>5, <2>1, SeqEqual
<1>8. Append(b, e) = b \o <<e>>
  BY <1>2, <1>4, AppendIsConcat
<1> QED BY <1>2, <1>7, <1>8

-----------------------------------------------------------------------------
(* Collapsing the results of a turn into one message changes no block.     *)

Merged(out, m) ==
    IF m.role = "tool" /\ out # << >> /\ Wire!Last(out).role = "tool"
    THEN Append(Wire!Front(out), Wire!Message("tool", << >>, Wire!Last(out).attachments \o m.attachments))
    ELSE Append(out, m)
Collapses(h, ms, S) == h = [u \in SUBSET S |-> IF u = {} THEN << >> ELSE Merged(h[u \ {Wire!Max(u)}], ms[Wire!Max(u)])]

LEMMA GreatestIs == ASSUME NEW n \in Nat, NEW u \in SUBSET (1 .. n + 1), n + 1 \in u PROVE Wire!Max(u) = n + 1
<1>1. \A x \in u : x \in Int /\ n + 1 >= x
  OBVIOUS
<1>2. ASSUME NEW x \in u, \A y \in u : x >= y PROVE x = n + 1
  <2>1. x >= n + 1 /\ n + 1 >= x /\ x \in Int
    BY <1>1, <1>2
  <2> QED BY <2>1
<1> QED BY <1>1, <1>2 DEF Wire!Max

LEMMA CollapseExists == ASSUME NEW ms, NEW N \in Nat PROVE \E h : Collapses(h, ms, 1 .. N)
<1>1. PICK S : S = {n \in Nat : \E h : Collapses(h, ms, 1 .. n)}
  OBVIOUS
<1>2. 0 \in S
  <2>1. PICK h : h = [u \in SUBSET (1 .. 0) |-> << >>]
    OBVIOUS
  <2>2. ASSUME NEW u \in SUBSET (1 .. 0) PROVE u = {}
    OBVIOUS
  <2>3. Collapses(h, ms, 1 .. 0)
    BY <2>1, <2>2 DEF Collapses
  <2>4. \E f : Collapses(f, ms, 1 .. 0)
    BY <2>3
  <2> QED BY <1>1, <2>4
<1>3. ASSUME NEW n \in Nat, n \in S PROVE n + 1 \in S
  <2>1. PICK g : Collapses(g, ms, 1 .. n)
    BY <1>1, <1>3
  <2>2. PICK h : h = [u \in SUBSET (1 .. n + 1) |-> IF n + 1 \in u THEN Merged(g[u \ {n + 1}], ms[n + 1]) ELSE g[u]]
    OBVIOUS
  <2>3. ASSUME NEW u \in SUBSET (1 .. n + 1)
        PROVE  h[u] = IF u = {} THEN << >> ELSE Merged(h[u \ {Wire!Max(u)}], ms[Wire!Max(u)])
    <3>1. CASE n + 1 \in u
      <4>1. Wire!Max(u) = n + 1 /\ u # {}
        BY <3>1, GreatestIs
      <4>2. u \ {n + 1} \in SUBSET (1 .. n + 1) /\ n + 1 \notin u \ {n + 1}
        OBVIOUS
      <4>3. h[u \ {n + 1}] = g[u \ {n + 1}]
        BY <2>2, <4>2
      <4>4. h[u] = Merged(g[u \ {n + 1}], ms[n + 1])
        BY <2>2, <3>1
      <4> QED BY <4>1, <4>3, <4>4
    <3>2. CASE n + 1 \notin u
      <4>1. u \in SUBSET (1 .. n)
        <5>1. ASSUME NEW x \in u PROVE x \in 1 .. n
          <6>1. x \in 1 .. n + 1 /\ x # n + 1
            BY <3>2
          <6> QED BY <6>1
        <5> QED BY <5>1
      <4>2. g[u] = IF u = {} THEN << >> ELSE Merged(g[u \ {Wire!Max(u)}], ms[Wire!Max(u)])
        BY <2>1, <4>1 DEF Collapses
      <4>3. h[u] = g[u]
        BY <2>2, <3>2
      <4>4. u \ {Wire!Max(u)} \in SUBSET (1 .. n + 1) /\ n + 1 \notin u \ {Wire!Max(u)}
        BY <3>2
      <4>5. h[u \ {Wire!Max(u)}] = g[u \ {Wire!Max(u)}]
        BY <2>2, <4>4
      <4> QED BY <4>2, <4>3, <4>5
    <3> QED BY <3>1, <3>2
  <2>4. h = [u \in SUBSET (1 .. n + 1) |-> h[u]]
    BY <2>2
  <2>5. Collapses(h, ms, 1 .. n + 1)
    BY <2>3, <2>4 DEF Collapses
  <2>6. \E f : Collapses(f, ms, 1 .. n + 1)
    BY <2>5
  <2>7. n + 1 \in Nat
    OBVIOUS
  <2> QED BY <1>1, <2>6, <2>7
<1>4. \A i \in 0 .. N : i \in S
  BY <1>2, <1>3, Inductively
<1>5. N \in S
  <2>1. N \in 0 .. N
    OBVIOUS
  <2> QED BY <1>4, <2>1
<1> QED BY <1>1, <1>5

\* Message by message.
LEMMA CollapseIs ==
    ASSUME NEW ms \in Seq(Lines)
    PROVE  \E c : /\ c[0] = << >> /\ Wire!_collapse_messages(ms) = c[Len(ms)]
                  /\ \A n \in 1 .. Len(ms) : c[n] = Merged(c[n - 1], ms[n])
<1>. PICK N : N = Len(ms)
  OBVIOUS
<1>1. N \in Nat /\ DOMAIN ms = 1 .. N
  BY LenProperties
<1>20. PICK f : Collapses(f, ms, 1 .. N)
  BY <1>1, CollapseExists
<1>21. f = [u \in SUBSET (DOMAIN ms) |-> IF u = {} THEN << >> ELSE Merged(f[u \ {Wire!Max(u)}], ms[Wire!Max(u)])]
  BY <1>1, <1>20 DEF Collapses
<1>2. \E h : h = [u \in SUBSET (DOMAIN ms) |-> IF u = {} THEN << >> ELSE Merged(h[u \ {Wire!Max(u)}], ms[Wire!Max(u)])]
  BY <1>21
<1>3. PICK h : /\ h = [u \in SUBSET (DOMAIN ms) |-> IF u = {} THEN << >> ELSE Merged(h[u \ {Wire!Max(u)}], ms[Wire!Max(u)])]
               /\ Wire!_collapse_messages(ms) = h[DOMAIN ms]
  BY <1>2 DEF Wire!_collapse_messages, Wire!FoldLeft, Wire!MapThenFoldSet, Merged
<1>4. \A u \in SUBSET (1 .. N) : h[u] = IF u = {} THEN << >> ELSE Merged(h[u \ {Wire!Max(u)}], ms[Wire!Max(u)])
  BY <1>1, <1>3
<1>5. PICK c : c = [n \in 0 .. N |-> h[1 .. n]]
  OBVIOUS
<1>6. c[0] = << >>
  <2>1. 0 \in 0 .. N /\ 1 .. 0 = {} /\ {} \in SUBSET (1 .. N)
    BY <1>1
  <2> QED BY <1>4, <1>5, <2>1
<1>7. Wire!_collapse_messages(ms) = c[N]
  <2>1. N \in 0 .. N
    BY <1>1
  <2> QED BY <1>1, <1>3, <1>5, <2>1
<1>8. ASSUME NEW n \in 1 .. N PROVE c[n] = Merged(c[n - 1], ms[n])
  <2>1. n \in 0 .. N /\ n - 1 \in 0 .. N /\ n - 1 \in Nat /\ (n - 1) + 1 = n
    BY <1>1
  <2>2. PICK u : u = 1 .. n
    OBVIOUS
  <2>3. u \in SUBSET (1 .. N) /\ n \in u /\ u # {}
    <3>1. ASSUME NEW x \in u PROVE x \in 1 .. N
      BY <1>1, <2>2
    <3>2. n \in 1 .. n
      OBVIOUS
    <3> QED BY <2>2, <3>1, <3>2
  <2>4. Wire!Max(u) = n
    <3>1. u \in SUBSET (1 .. (n - 1) + 1) /\ (n - 1) + 1 \in u
      BY <2>1, <2>2, <2>3
    <3>2. Wire!Max(u) = (n - 1) + 1
      BY <2>1, <3>1, GreatestIs
    <3> QED BY <2>1, <3>2
  <2>5. u \ {n} = 1 .. n - 1
    BY <1>1, <2>2
  <2>6. h[u] = Merged(h[u \ {n}], ms[n])
    BY <1>4, <2>3, <2>4
  <2>7. c[n] = h[u] /\ c[n - 1] = h[1 .. n - 1]
    BY <1>5, <2>1, <2>2
  <2> QED BY <2>5, <2>6, <2>7
<1> QED BY <1>6, <1>7, <1>8

LEMMA MergedKeepsEach ==
    ASSUME NEW out \in Seq(Lines), NEW m \in Lines
    PROVE  Merged(out, m) \in Seq(Lines) /\ Wire!Each(Merged(out, m)) = Wire!Each(out) \o Wire!Items(m)
<1>. PICK r : r = Merged(out, m)
  OBVIOUS
<1>1. CASE r = Append(out, m)
  <2>1. r \in Seq(Lines) /\ r = out \o <<m>>
    BY <1>1, AppendProperties, AppendIsConcat
  <2>2. <<m>> \in Seq(Lines)
    OBVIOUS
  <2>3. Wire!Each(r) = Wire!Each(out) \o Wire!Each(<<m>>)
    BY <2>1, <2>2, EachConcat
  <2> QED BY <2>1, <2>3, EachOne
<1>2. CASE /\ m.role = "tool" /\ out # << >> /\ Wire!Last(out).role = "tool"
           /\ r = Append(Wire!Front(out), Wire!Message("tool", << >>, Wire!Last(out).attachments \o m.attachments))
  <2>. PICK f, l, a : f = Wire!Front(out) /\ l = Wire!Last(out) /\ a = Wire!Message("tool", << >>, l.attachments \o m.attachments)
    OBVIOUS
  <2>1. f \in Seq(Lines) /\ l \in Lines /\ out = f \o <<l>>
    <3>1. PICK s \in Seq(Lines), e \in Lines : out = Append(s, e)
      BY <1>2, SequenceEmptyOrAppend
    <3>2. Len(out) = Len(s) + 1 /\ Len(s) \in Nat /\ out[Len(s) + 1] = e /\ \A i \in 1 .. Len(s) : out[i] = s[i]
      BY <3>1, AppendProperties, LenProperties
    <3>3. l = e
      BY <3>2 DEF Wire!Last
    <3>4. f = SubSeq(out, 1, Len(s))
      <4>1. Len(out) - 1 = Len(s)
        BY <3>2
      <4> QED BY <4>1 DEF Wire!Front
    <3>5. f = s
      <4>1. \A i \in 1 .. Len(s) : out[i] \in Lines
        BY <3>2, ElementOfSeq
      <4>2. f \in Seq(Lines) /\ Len(f) = Len(s) /\ \A i \in 1 .. Len(s) : f[i] = out[i]
        <5>1. 1 \in Int /\ Len(s) \in Int /\ (1 <= Len(s) \/ Len(s) = 0)
          BY <3>2
        <5>2. /\ f \in Seq(Lines) /\ Len(f) = IF 1 <= Len(s) THEN Len(s) - 1 + 1 ELSE 0
              /\ \A i \in 1 .. Len(s) - 1 + 1 : f[i] = out[1 + i - 1]
          BY <3>4, <4>1, <5>1, SubSeqProperties
        <5>3. Len(s) - 1 + 1 = Len(s) /\ \A i \in 1 .. Len(s) : 1 + i - 1 = i
          BY <3>2
        <5> QED BY <5>1, <5>2, <5>3
      <4> QED BY <3>2, <4>2, SeqEqual
    <3> QED BY <3>1, <3>3, <3>5, AppendIsConcat
  <2>2. l.attachments \in Seq(Answers) /\ m.attachments \in Seq(Answers)
    BY <2>1 DEF Lines
  <2>3. a \in Lines /\ a.role = "tool" /\ a.attachments = l.attachments \o m.attachments
    <3>1. l.attachments \o m.attachments \in Seq(Answers)
      BY <2>2, ConcatProperties
    <3>2. << >> \in Seq(Asks)
      BY EmptySeq
    <3> QED BY <3>1, <3>2 DEF Lines, Wire!Message
  <2>4. Wire!Items(a) = Wire!Results(a) /\ Wire!Items(l) = Wire!Results(l) /\ Wire!Items(m) = Wire!Results(m)
    BY <1>2, <2>3 DEF Wire!Items
  <2>5. Wire!Results(a) = Wire!Results(l) \o Wire!Results(m)
    BY <2>1, <2>2, <2>3, ResultsConcat
  <2>6. <<a>> \in Seq(Lines) /\ <<l>> \in Seq(Lines)
    BY <2>1, <2>3
  <2>7. r = f \o <<a>> /\ r \in Seq(Lines)
    <3>1. r = Append(f, a)
      BY <1>2
    <3>2. Append(f, a) = f \o <<a>>
      BY <2>1, <2>3, AppendIsConcat
    <3>3. Append(f, a) \in Seq(Lines)
      BY <2>1, <2>3, AppendProperties
    <3> QED BY <3>1, <3>2, <3>3
  <2>8. Wire!Each(r) = Wire!Each(f) \o Wire!Items(a)
    <3>1. Wire!Each(r) = Wire!Each(f) \o Wire!Each(<<a>>)
      BY <2>1, <2>6, <2>7, EachConcat
    <3>2. Wire!Each(<<a>>) = Wire!Items(a)
      BY <2>3, EachOne
    <3> QED BY <3>1, <3>2
  <2>9. Wire!Each(out) = Wire!Each(f) \o Wire!Items(l)
    <3>1. Wire!Each(out) = Wire!Each(f) \o Wire!Each(<<l>>)
      BY <2>1, <2>6, EachConcat
    <3>2. Wire!Each(<<l>>) = Wire!Items(l)
      BY <2>1, EachOne
    <3> QED BY <3>1, <3>2
  <2>10. Wire!Each(f) \in Seq(Blocks) /\ Wire!Items(l) \in Seq(Blocks) /\ Wire!Items(m) \in Seq(Blocks)
    BY <2>1, ItemizedTyped, ItemsTyped
  <2>12. (Wire!Each(f) \o Wire!Items(l)) \o Wire!Items(m) = Wire!Each(f) \o (Wire!Items(l) \o Wire!Items(m))
    BY <2>10, Associates
  <2> QED BY <2>4, <2>5, <2>7, <2>8, <2>9, <2>12
<1> QED BY <1>1, <1>2 DEF Merged

LEMMA CollapseKeepsEach == ASSUME NEW ms \in Seq(Lines) PROVE Wire!Each(Wire!_collapse_messages(ms)) = Wire!Each(ms)
<1>. PICK N : N = Len(ms)
  OBVIOUS
<1>1. N \in Nat
  BY LenProperties
<1>2. PICK c : /\ c[0] = << >> /\ Wire!_collapse_messages(ms) = c[N]
               /\ \A n \in 1 .. N : c[n] = Merged(c[n - 1], ms[n])
  BY CollapseIs
<1>3. PICK S : S = {n \in Nat : c[n] \in Seq(Lines) /\ Wire!Each(c[n]) = Wire!Each(SubSeq(ms, 1, n))}
  OBVIOUS
<1>4. 0 \in S
  <2>1. SubSeq(ms, 1, 0) = << >>
    OBVIOUS
  <2>2. << >> \in Seq(Lines)
    BY EmptySeq
  <2> QED BY <1>2, <1>3, <2>1, <2>2
<1>5. ASSUME NEW n \in Nat, n \in S, n < N PROVE n + 1 \in S
  <2>1. n + 1 \in 1 .. N /\ (n + 1) - 1 = n /\ n + 1 \in Nat
    BY <1>1, <1>5
  <2>. PICK b, m : b = SubSeq(ms, 1, n) /\ m = ms[n + 1]
    OBVIOUS
  <2>2. m \in Lines
    BY <2>1, ElementOfSeq
  <2>3. SubSeq(ms, 1, n + 1) = b \o <<m>> /\ b \in Seq(Lines)
    BY <1>1, <1>5, <2>1, OneMoreOf
  <2>4. c[n] \in Seq(Lines) /\ Wire!Each(c[n]) = Wire!Each(b)
    BY <1>3, <1>5
  <2>5. c[n + 1] = Merged(c[n], m)
    BY <1>2, <2>1
  <2>6. c[n + 1] \in Seq(Lines) /\ Wire!Each(c[n + 1]) = Wire!Each(b) \o Wire!Items(m)
    BY <2>2, <2>4, <2>5, MergedKeepsEach
  <2>7. <<m>> \in Seq(Lines)
    BY <2>2
  <2>8. Wire!Each(b \o <<m>>) = Wire!Each(b) \o Wire!Items(m)
    <3>1. Wire!Each(b \o <<m>>) = Wire!Each(b) \o Wire!Each(<<m>>)
      BY <2>3, <2>7, EachConcat
    <3> QED BY <2>2, <3>1, EachOne
  <2> QED BY <1>3, <2>1, <2>3, <2>6, <2>8
<1>6. \A i \in 0 .. N : i \in S
  BY <1>1, <1>4, <1>5, Inductively
<1>7. N \in S
  <2>1. N \in 0 .. N
    BY <1>1
  <2> QED BY <1>6, <2>1
<1>8. SubSeq(ms, 1, N) = ms
  OBVIOUS
<1> QED BY <1>2, <1>3, <1>7, <1>8

-----------------------------------------------------------------------------
(* Results that meet their calls.                                          *)

\* The last call before a result that has its id, and the same call is meant.
Met(w, j, k) ==
    /\ w[k].kind = "call" /\ w[k].id = w[j].id /\ w[k].serial = w[j].serial
    /\ \A i \in 1 .. j - 1 : w[i].kind = "call" /\ w[i].id = w[j].id => i <= k
MeetsAll(w) == \A j \in 1 .. Len(w) : w[j].kind = "result" => \E k \in 1 .. j - 1 : Met(w, j, k)
Answered(w) == \A i \in 1 .. Len(w) : w[i].kind # "result" => \E j \in 1 .. Len(w) : w[j].kind = "result" /\ w[j].serial = w[i].serial
Matched(w) == MeetsAll(w) /\ Answered(w)

Good(wire) ==
    LET results == {j \in DOMAIN wire : wire[j].kind = "result"}
    IN  /\ \A j \in results : Wire!Meets(wire, j)
        /\ {wire[j].serial : j \in results} = {wire[j].serial : j \in DOMAIN wire \ results}

LEMMA MeetsIff == ASSUME NEW w, NEW j \in Nat PROVE Wire!Meets(w, j) <=> \E k \in 1 .. j - 1 : Met(w, j, k)
<1>. PICK S : S = {i \in 1 .. j - 1 : w[i].kind = "call" /\ w[i].id = w[j].id}
  OBVIOUS
<1>1. Wire!Meets(w, j) <=> (S # {} /\ w[Wire!Max(S)].serial = w[j].serial)
  BY DEF Wire!Meets
<1>2. ASSUME NEW k \in S, \A i \in S : k >= i PROVE Wire!Max(S) = k
  <2>1. ASSUME NEW x \in S, \A y \in S : x >= y PROVE x = k
    <3>1. x \in Int /\ k \in Int /\ x >= k /\ k >= x
      BY <1>2, <2>1
    <3> QED BY <3>1
  <2> QED BY <1>2, <2>1 DEF Wire!Max
<1>3. ASSUME S # {} PROVE Wire!Max(S) \in S /\ \A i \in S : Wire!Max(S) >= i
  <2>1. S \subseteq Int /\ S \subseteq 1 .. j - 1
    OBVIOUS
  <2>2. IsFiniteSet(S)
    <3>1. 1 \in Int /\ j - 1 \in Int
      OBVIOUS
    <3>2. IsFiniteSet(1 .. j - 1)
      BY <3>1, FS_Interval
    <3> QED BY <2>1, <3>2, FS_Subset
  <2>3. PICK k \in S : \A i \in S : k >= i
    BY <1>3, <2>1, <2>2, Greatest
  <2> QED BY <1>2, <2>3
<1>4. ASSUME S # {}, w[Wire!Max(S)].serial = w[j].serial PROVE \E k \in 1 .. j - 1 : Met(w, j, k)
  <2>. PICK k : k = Wire!Max(S)
    OBVIOUS
  <2>1. k \in S /\ \A i \in S : k >= i
    BY <1>3, <1>4
  <2>2. k \in 1 .. j - 1 /\ w[k].kind = "call" /\ w[k].id = w[j].id /\ w[k].serial = w[j].serial
    BY <1>4, <2>1
  <2>3. ASSUME NEW i \in 1 .. j - 1, w[i].kind = "call", w[i].id = w[j].id PROVE i <= k
    <3>1. i \in S
      BY <2>3
    <3>2. k >= i
      BY <2>1, <3>1
    <3> QED BY <2>2, <3>2
  <2>4. Met(w, j, k)
    BY <2>2, <2>3 DEF Met
  <2> QED BY <2>2, <2>4
<1>5. ASSUME NEW k \in 1 .. j - 1, Met(w, j, k) PROVE S # {} /\ w[Wire!Max(S)].serial = w[j].serial
  <2>1. k \in S /\ w[k].serial = w[j].serial
    BY <1>5 DEF Met
  <2>2. ASSUME NEW i \in S PROVE k >= i
    <3>1. i \in 1 .. j - 1 /\ i <= k
      BY <1>5 DEF Met
    <3> QED BY <3>1
  <2>3. Wire!Max(S) = k
    BY <1>2, <2>1, <2>2
  <2> QED BY <2>1, <2>3
<1> QED BY <1>1, <1>4, <1>5

LEMMA GoodIff == ASSUME NEW w \in Seq(Blocks) PROVE Good(w) <=> Matched(w)
<1>1. DOMAIN w = 1 .. Len(w) /\ Len(w) \in Nat
  BY LenProperties
<1>. PICK R : R = {j \in 1 .. Len(w) : w[j].kind = "result"}
  OBVIOUS
<1>. PICK C : C = (1 .. Len(w)) \ R
  OBVIOUS
<1>2. Good(w) <=> (\A j \in R : Wire!Meets(w, j)) /\ {w[j].serial : j \in R} = {w[j].serial : j \in C}
  BY <1>1 DEF Good
<1>3. (\A j \in R : Wire!Meets(w, j)) <=> MeetsAll(w)
  <2>1. ASSUME NEW j \in 1 .. Len(w) PROVE Wire!Meets(w, j) <=> \E k \in 1 .. j - 1 : Met(w, j, k)
    <3>1. j \in Nat
      BY <1>1
    <3> QED BY <3>1, MeetsIff
  <2> QED BY <2>1 DEF MeetsAll
<1>4. ASSUME {w[j].serial : j \in R} = {w[j].serial : j \in C} PROVE Answered(w)
  <2>1. ASSUME NEW i \in 1 .. Len(w), w[i].kind # "result"
        PROVE  \E j \in 1 .. Len(w) : w[j].kind = "result" /\ w[j].serial = w[i].serial
    <3>1. i \in C
      BY <2>1
    <3>2. w[i].serial \in {w[j].serial : j \in R}
      BY <1>4, <3>1
    <3>3. PICK j \in R : w[j].serial = w[i].serial
      BY <3>2
    <3> QED BY <3>3
  <2> QED BY <2>1 DEF Answered
<1>5. ASSUME MeetsAll(w), Answered(w) PROVE {w[j].serial : j \in R} = {w[j].serial : j \in C}
  <2>1. ASSUME NEW j \in R PROVE \E k \in C : w[k].serial = w[j].serial
    <3>1. PICK k \in 1 .. j - 1 : Met(w, j, k)
      BY <1>5 DEF MeetsAll
    <3>2. k \in 1 .. Len(w) /\ w[k].kind = "call" /\ w[k].serial = w[j].serial
      BY <1>1, <3>1 DEF Met
    <3>3. k \in C
      BY <3>2
    <3> QED BY <3>2, <3>3
  <2>2. ASSUME NEW k \in C PROVE \E j \in R : w[j].serial = w[k].serial
    <3>1. k \in 1 .. Len(w) /\ w[k].kind # "result"
      OBVIOUS
    <3>2. PICK j \in 1 .. Len(w) : w[j].kind = "result" /\ w[j].serial = w[k].serial
      BY <1>5, <3>1 DEF Answered
    <3>3. j \in R
      BY <3>2
    <3> QED BY <3>2, <3>3
  <2>. PICK A, B : A = {w[j].serial : j \in R} /\ B = {w[j].serial : j \in C}
    OBVIOUS
  <2>3. ASSUME NEW x \in A PROVE x \in B
    <3>1. PICK j \in R : x = w[j].serial
      OBVIOUS
    <3>2. PICK k \in C : w[k].serial = w[j].serial
      BY <2>1
    <3> QED BY <3>1, <3>2
  <2>4. ASSUME NEW x \in B PROVE x \in A
    <3>1. PICK k \in C : x = w[k].serial
      OBVIOUS
    <3>2. PICK j \in R : w[j].serial = w[k].serial
      BY <2>2
    <3> QED BY <3>1, <3>2
  <2>5. A = B
    BY <2>3, <2>4
  <2> QED BY <2>5
<1> QED BY <1>2, <1>3, <1>4, <1>5 DEF Matched

\* A turn is matched whatever turns it follows, of the same ids or others.
LEMMA MatchedConcat ==
    ASSUME NEW u \in Seq(Blocks), NEW v \in Seq(Blocks), Matched(u), Matched(v)
    PROVE  Matched(u \o v)
<1>. PICK M, N, w : M = Len(u) /\ N = Len(v) /\ w = u \o v
  OBVIOUS
<1>1. M \in Nat /\ N \in Nat
  BY LenProperties
<1>2. Len(w) = M + N /\ \A i \in 1 .. M + N : w[i] = IF i <= M THEN u[i] ELSE v[i - M]
  BY ConcatProperties
<1>3. ASSUME NEW i \in 1 .. M PROVE i \in 1 .. M + N /\ w[i] = u[i]
  <2>1. i \in 1 .. M + N /\ i <= M
    BY <1>1
  <2> QED BY <1>2, <2>1
<1>4. ASSUME NEW i \in 1 .. N PROVE M + i \in 1 .. M + N /\ w[M + i] = v[i]
  <2>1. M + i \in 1 .. M + N /\ ~(M + i <= M) /\ (M + i) - M = i
    BY <1>1
  <2> QED BY <1>2, <2>1
<1>5. ASSUME NEW i \in 1 .. M + N PROVE i \in 1 .. M \/ \E k \in 1 .. N : i = M + k
  <2>1. CASE i <= M
    BY <1>1, <2>1
  <2>2. CASE ~(i <= M)
    <3>1. i - M \in 1 .. N /\ i = M + (i - M)
      BY <1>1, <2>2
    <3> QED BY <3>1
  <2> QED BY <2>1, <2>2
<1>6. ASSUME NEW j \in 1 .. M + N, w[j].kind = "result" PROVE \E k \in 1 .. j - 1 : Met(w, j, k)
  <2>1. CASE j \in 1 .. M
    <3>1. w[j] = u[j]
      BY <1>3, <2>1
    <3>2. PICK k \in 1 .. j - 1 : Met(u, j, k)
      BY <1>6, <2>1, <3>1 DEF Matched, MeetsAll
    <3>3. ASSUME NEW i \in 1 .. j - 1 PROVE w[i] = u[i]
      <4>1. i \in 1 .. M
        BY <1>1, <2>1
      <4> QED BY <1>3, <4>1
    <3>4. Met(w, j, k)
      BY <3>1, <3>2, <3>3 DEF Met
    <3> QED BY <3>4
  <2>2. ASSUME NEW n \in 1 .. N, j = M + n PROVE \E k \in 1 .. j - 1 : Met(w, j, k)
    <3>1. w[j] = v[n]
      BY <1>4, <2>2
    <3>2. PICK k \in 1 .. n - 1 : Met(v, n, k)
      BY <1>6, <3>1 DEF Matched, MeetsAll
    <3>3. k \in 1 .. N /\ M + k \in 1 .. j - 1
      BY <1>1, <2>2
    <3>4. w[M + k] = v[k]
      BY <1>4, <3>3
    <3>5. ASSUME NEW i \in 1 .. j - 1, w[i].kind = "call", w[i].id = w[j].id PROVE i <= M + k
      <4>1. CASE i \in 1 .. M
        BY <1>1, <4>1
      <4>2. ASSUME NEW m \in 1 .. N, i = M + m PROVE i <= M + k
        <5>1. w[i] = v[m]
          BY <1>4, <4>2
        <5>2. m \in 1 .. n - 1
          BY <1>1, <2>2, <4>2
        <5>3. m <= k
          BY <3>1, <3>2, <3>5, <5>1, <5>2 DEF Met
        <5> QED BY <1>1, <4>2, <5>3
      <4>3. i \in 1 .. M + N
        BY <1>1
      <4> QED BY <1>5, <4>1, <4>2, <4>3
    <3>6. Met(w, j, M + k)
      BY <3>1, <3>2, <3>4, <3>5 DEF Met
    <3> QED BY <3>3, <3>6
  <2> QED BY <1>5, <2>1, <2>2
<1>7. ASSUME NEW i \in 1 .. M + N, w[i].kind # "result" PROVE \E j \in 1 .. M + N : w[j].kind = "result" /\ w[j].serial = w[i].serial
  <2>1. CASE i \in 1 .. M
    <3>1. w[i] = u[i]
      BY <1>3, <2>1
    <3>2. PICK j \in 1 .. M : u[j].kind = "result" /\ u[j].serial = u[i].serial
      BY <1>7, <2>1, <3>1 DEF Matched, Answered
    <3>3. w[j] = u[j] /\ j \in 1 .. M + N
      BY <1>3
    <3> QED BY <3>1, <3>2, <3>3
  <2>2. ASSUME NEW n \in 1 .. N, i = M + n PROVE \E j \in 1 .. M + N : w[j].kind = "result" /\ w[j].serial = w[i].serial
    <3>1. w[i] = v[n]
      BY <1>4, <2>2
    <3>2. PICK j \in 1 .. N : v[j].kind = "result" /\ v[j].serial = v[n].serial
      BY <1>7, <3>1 DEF Matched, Answered
    <3>3. w[M + j] = v[j] /\ M + j \in 1 .. M + N
      BY <1>4
    <3> QED BY <3>1, <3>2, <3>3
  <2> QED BY <1>5, <2>1, <2>2
<1> QED BY <1>2, <1>6, <1>7 DEF Matched, MeetsAll, Answered

\* Calls of different ids, each followed by its result somewhere.
Rounds(w, c, r, n) ==
    /\ \A i \in 1 .. n :
          /\ c[i] \in 1 .. Len(w) /\ r[i] \in 1 .. Len(w) /\ c[i] < r[i]
          /\ w[c[i]].kind = "call" /\ w[r[i]].kind = "result"
          /\ w[c[i]].id = w[r[i]].id /\ w[c[i]].serial = w[r[i]].serial
    /\ \A j \in 1 .. Len(w) : \E i \in 1 .. n : j = c[i] \/ j = r[i]
    /\ \A i, k \in 1 .. n : w[c[i]].id = w[c[k]].id => i = k

LEMMA RoundsMatch == ASSUME NEW w \in Seq(Blocks), NEW c, NEW r, NEW n \in Nat, Rounds(w, c, r, n) PROVE Matched(w)
<1>1. Len(w) \in Nat
  BY LenProperties
<1>2. ASSUME NEW i \in 1 .. n
      PROVE  /\ c[i] \in 1 .. Len(w) /\ r[i] \in 1 .. Len(w) /\ c[i] < r[i]
             /\ w[c[i]].kind = "call" /\ w[r[i]].kind = "result"
             /\ w[c[i]].id = w[r[i]].id /\ w[c[i]].serial = w[r[i]].serial
  BY DEF Rounds
<1>3. ASSUME NEW j \in 1 .. Len(w) PROVE \E i \in 1 .. n : j = c[i] \/ j = r[i]
  BY DEF Rounds
<1>4. ASSUME NEW i \in 1 .. n, NEW k \in 1 .. n, w[c[i]].id = w[c[k]].id PROVE i = k
  BY <1>4 DEF Rounds
<1>5. ASSUME NEW j \in 1 .. Len(w), w[j].kind = "result" PROVE \E k \in 1 .. j - 1 : Met(w, j, k)
  <2>1. PICK i \in 1 .. n : j = r[i]
    BY <1>2, <1>3, <1>5
  <2>2. c[i] \in 1 .. j - 1
    <3>1. c[i] \in 1 .. Len(w) /\ c[i] < j
      BY <1>2, <2>1
    <3> QED BY <3>1
  <2>3. ASSUME NEW m \in 1 .. j - 1, w[m].kind = "call", w[m].id = w[j].id PROVE m <= c[i]
    <3>1. m \in 1 .. Len(w)
      BY <1>1
    <3>2. PICK k \in 1 .. n : m = c[k]
      BY <1>2, <1>3, <2>3, <3>1
    <3>3. w[c[k]].id = w[c[i]].id
      BY <1>2, <2>1, <2>3, <3>2
    <3>4. k = i
      BY <1>4, <3>3
    <3> QED BY <3>2, <3>4
  <2>4. Met(w, j, c[i])
    BY <1>2, <2>1, <2>3 DEF Met
  <2> QED BY <2>2, <2>4
<1>6. ASSUME NEW i \in 1 .. Len(w), w[i].kind # "result" PROVE \E j \in 1 .. Len(w) : w[j].kind = "result" /\ w[j].serial = w[i].serial
  <2>1. PICK k \in 1 .. n : i = c[k]
    BY <1>2, <1>3, <1>6
  <2> QED BY <1>2, <2>1
<1> QED BY <1>5, <1>6 DEF Matched, MeetsAll, Answered

-----------------------------------------------------------------------------
(* What a turn adds to the transcript.                                     *)

CallsKnown(calls) ==
    /\ calls \in Seq(Asks) /\ Len(calls) \in Nat /\ DOMAIN calls = 1 .. Len(calls)
    /\ \A i \in 1 .. Len(calls) : calls[i] \in Asks
IdsApart(calls) == \A i, k \in 1 .. Len(calls) : calls[i].id = calls[k].id => i = k
AllNamed(calls) == \A i \in 1 .. Len(calls) : calls[i].id # Wire!NoId
\* A client of the shim, or the program itself with every call named.
CanTell(calls) == IdsApart(calls) /\ (client = "foundry" => AllNamed(calls))

Raws(calls) == [i \in DOMAIN calls |-> Wire!_message_from_raw(calls[i])]
Replied(calls) == [i \in DOMAIN calls |-> Wire!Answer(calls[i])]

LEMMA CallsAre == ASSUME NEW calls \in Seq(Asks) PROVE CallsKnown(calls)
  BY LenProperties, ElementOfSeq DEF CallsKnown

LEMMA AnswerTyped ==
    ASSUME NEW x \in Asks
    PROVE  /\ Wire!Answer(x) \in Lines
           /\ Wire!Items(Wire!Answer(x)) \in Seq(Blocks) /\ Len(Wire!Items(Wire!Answer(x))) = 1
           /\ Wire!Items(Wire!Answer(x))[1] = ResultOf(x)
<1>. PICK e, s, m : e = [id |-> x.id, serial |-> x.serial] /\ s = <<e>> /\ m = Wire!Message("tool", << >>, s)
  OBVIOUS
<1>1. e \in Answers /\ e.id = x.id /\ e.serial = x.serial
  BY DEF Asks, Answers
<1>2. s \in Seq(Answers) /\ Len(s) = 1 /\ s[1] = e
  BY <1>1
<1>3. m = Wire!Answer(x)
  BY DEF Wire!Answer
<1>4. m.role = "tool" /\ m.attachments = s
  BY DEF Wire!Message
<1>5. m \in Lines
  <2>1. << >> \in Seq(Asks)
    BY EmptySeq
  <2> QED BY <1>2, <2>1 DEF Lines, Wire!Message
<1>6. Wire!Items(m) = Wire!Results(m)
  BY <1>4 DEF Wire!Items
<1>7. Wire!Results(m) \in Seq(Blocks) /\ Len(Wire!Results(m)) = 1 /\ Wire!Results(m)[1] = ResultOf(e)
  <2>1. m.attachments \in Seq(Answers)
    BY <1>2, <1>4
  <2>2. /\ Wire!Results(m) \in Seq(Blocks) /\ Len(Wire!Results(m)) = Len(m.attachments)
        /\ \A i \in 1 .. Len(m.attachments) : Wire!Results(m)[i] = ResultOf(m.attachments[i])
    BY <2>1, ResultsEach
  <2>3. 1 \in 1 .. 1
    OBVIOUS
  <2> QED BY <1>2, <1>4, <2>2, <2>3
<1>8. ResultOf(e) = ResultOf(x)
  BY <1>1 DEF ResultOf
<1> QED BY <1>3, <1>5, <1>6, <1>7, <1>8

LEMMA RawTyped ==
    ASSUME NEW x \in Asks
    PROVE  /\ Wire!_message_from_raw(x) \in Lines
           /\ Wire!Items(Wire!_message_from_raw(x)) \in Seq(Blocks) /\ Len(Wire!Items(Wire!_message_from_raw(x))) = 1
           /\ x.id # Wire!NoId => Wire!Items(Wire!_message_from_raw(x))[1] = AskOf(x)
<1>. PICK e, s, m : e = [x EXCEPT !.id = IF x.id = Wire!NoId THEN <<"call", 0>> ELSE x.id] /\ s = <<e>> /\ m = Wire!Message("assistant", s, << >>)
  OBVIOUS
<1>0. <<"call", 0>> \in IdsOfCalls
  BY DEF IdsOfCalls
<1>1. e \in Asks
  <2>1. x.id \in IdsOfCalls
    BY DEF Asks
  <2>2. (IF x.id = Wire!NoId THEN <<"call", 0>> ELSE x.id) \in IdsOfCalls
    BY <1>0, <2>1
  <2> QED BY <2>2 DEF Asks
<1>2. x.id # Wire!NoId => e = x
  BY DEF Asks
<1>3. s \in Seq(Asks) /\ Len(s) = 1 /\ s[1] = e
  BY <1>1
<1>4. m = Wire!_message_from_raw(x)
  BY DEF Wire!_message_from_raw
<1>5. m.role = "assistant" /\ m.calls = s
  BY DEF Wire!Message
<1>6. m \in Lines
  <2>1. << >> \in Seq(Answers)
    BY EmptySeq
  <2> QED BY <1>3, <2>1 DEF Lines, Wire!Message
<1>7. Wire!Items(m) = Wire!Asked(m)
  BY <1>5 DEF Wire!Items
<1>8. Wire!Asked(m) \in Seq(Blocks) /\ Len(Wire!Asked(m)) = 1 /\ Wire!Asked(m)[1] = AskOf(e)
  <2>1. m.calls \in Seq(Asks)
    BY <1>3, <1>5
  <2>2. /\ Wire!Asked(m) \in Seq(Blocks) /\ Len(Wire!Asked(m)) = Len(m.calls)
        /\ \A i \in 1 .. Len(m.calls) : Wire!Asked(m)[i] = AskOf(m.calls[i])
    BY <2>1, AskedEach
  <2>3. 1 \in 1 .. 1
    OBVIOUS
  <2> QED BY <1>3, <1>5, <2>2, <2>3
<1> QED BY <1>2, <1>4, <1>6, <1>7, <1>8

\* As many lines as calls.
LEMMA LinesOf ==
    ASSUME NEW calls \in Seq(Asks), NEW ms, DOMAIN ms = DOMAIN calls, ms = [i \in DOMAIN ms |-> ms[i]],
           \A i \in 1 .. Len(calls) : ms[i] \in Lines
    PROVE  ms \in Seq(Lines) /\ Len(ms) = Len(calls)
<1>1. Len(calls) \in Nat /\ DOMAIN ms = 1 .. Len(calls)
  BY LenProperties
<1>2. ms \in [1 .. Len(calls) -> Lines]
  BY <1>1
<1>3. ms \in Seq(Lines)
  BY <1>1, <1>2, SeqDef
<1> QED BY <1>1, <1>3, LenProperties

LEMMA RepliedEach ==
    ASSUME NEW calls \in Seq(Asks)
    PROVE  /\ Replied(calls) \in Seq(Lines) /\ Wire!Each(Replied(calls)) \in Seq(Blocks)
           /\ Len(Wire!Each(Replied(calls))) = Len(calls)
           /\ \A i \in 1 .. Len(calls) : Wire!Each(Replied(calls))[i] = ResultOf(calls[i])
<1>. PICK ms : ms = Replied(calls)
  OBVIOUS
<1>1. Len(calls) \in Nat /\ DOMAIN calls = 1 .. Len(calls) /\ \A i \in 1 .. Len(calls) : calls[i] \in Asks
  BY CallsAre DEF CallsKnown
<1>2. DOMAIN ms = DOMAIN calls /\ ms = [i \in DOMAIN ms |-> ms[i]] /\ \A i \in 1 .. Len(calls) : ms[i] = Wire!Answer(calls[i])
  BY <1>1 DEF Replied
<1>3. \A i \in 1 .. Len(calls) :
          /\ ms[i] \in Lines
          /\ Len(Wire!Items(ms[i])) = 1 /\ Wire!Items(ms[i])[1] = ResultOf(calls[i])
  BY <1>1, <1>2, AnswerTyped
<1>4. ms \in Seq(Lines) /\ Len(ms) = Len(calls)
  BY <1>2, <1>3, LinesOf
<1>5. \A i \in 1 .. Len(ms) : Len(Wire!Items(ms[i])) = 1
  BY <1>3, <1>4
<1>6. /\ Wire!Each(ms) \in Seq(Blocks) /\ Len(Wire!Each(ms)) = Len(ms)
      /\ \A i \in 1 .. Len(ms) : Wire!Each(ms)[i] = Wire!Items(ms[i])[1]
  BY <1>4, <1>5, EachSingles
<1> QED BY <1>3, <1>4, <1>6

LEMMA RawsEach ==
    ASSUME NEW calls \in Seq(Asks)
    PROVE  /\ Raws(calls) \in Seq(Lines)
           /\ AllNamed(calls) =>
                 /\ Wire!Each(Raws(calls)) \in Seq(Blocks) /\ Len(Wire!Each(Raws(calls))) = Len(calls)
                 /\ \A i \in 1 .. Len(calls) : Wire!Each(Raws(calls))[i] = AskOf(calls[i])
<1>. PICK ms : ms = Raws(calls)
  OBVIOUS
<1>1. Len(calls) \in Nat /\ DOMAIN calls = 1 .. Len(calls) /\ \A i \in 1 .. Len(calls) : calls[i] \in Asks
  BY CallsAre DEF CallsKnown
<1>2. DOMAIN ms = DOMAIN calls /\ ms = [i \in DOMAIN ms |-> ms[i]] /\ \A i \in 1 .. Len(calls) : ms[i] = Wire!_message_from_raw(calls[i])
  BY <1>1 DEF Raws
<1>3. \A i \in 1 .. Len(calls) :
          /\ ms[i] \in Lines /\ Len(Wire!Items(ms[i])) = 1
          /\ calls[i].id # Wire!NoId => Wire!Items(ms[i])[1] = AskOf(calls[i])
  BY <1>1, <1>2, RawTyped
<1>4. ms \in Seq(Lines) /\ Len(ms) = Len(calls)
  BY <1>2, <1>3, LinesOf
<1>5. \A i \in 1 .. Len(ms) : Len(Wire!Items(ms[i])) = 1
  BY <1>3, <1>4
<1>6. /\ Wire!Each(ms) \in Seq(Blocks) /\ Len(Wire!Each(ms)) = Len(ms)
      /\ \A i \in 1 .. Len(ms) : Wire!Each(ms)[i] = Wire!Items(ms[i])[1]
  BY <1>4, <1>5, EachSingles
<1>7. ASSUME AllNamed(calls) PROVE \A i \in 1 .. Len(calls) : Wire!Each(ms)[i] = AskOf(calls[i])
  BY <1>3, <1>4, <1>6, <1>7 DEF AllNamed
<1> QED BY <1>4, <1>6, <1>7

LEMMA BlocksAre ==
    ASSUME NEW x
    PROVE  /\ AskOf(x).kind = "call" /\ AskOf(x).id = x.id /\ AskOf(x).serial = x.serial
           /\ ResultOf(x).kind = "result" /\ ResultOf(x).id = x.id /\ ResultOf(x).serial = x.serial
  BY DEF AskOf, ResultOf

\* The calls, and then the results.
LEMMA TogetherMatch ==
    ASSUME NEW calls \in Seq(Asks), IdsApart(calls), NEW u \in Seq(Blocks), NEW v \in Seq(Blocks),
           Len(u) = Len(calls), Len(v) = Len(calls),
           \A i \in 1 .. Len(calls) : u[i] = AskOf(calls[i]),
           \A i \in 1 .. Len(calls) : v[i] = ResultOf(calls[i])
    PROVE  Matched(u \o v)
<1>. PICK n, w : n = Len(calls) /\ w = u \o v
  OBVIOUS
<1>1. n \in Nat
  BY LenProperties
<1>2. w \in Seq(Blocks) /\ Len(w) = n + n /\ \A i \in 1 .. n + n : w[i] = IF i <= n THEN u[i] ELSE v[i - n]
  <2>1. /\ u \o v \in Seq(Blocks) /\ Len(u \o v) = Len(u) + Len(v)
        /\ \A i \in 1 .. Len(u) + Len(v) : (u \o v)[i] = IF i <= Len(u) THEN u[i] ELSE v[i - Len(u)]
    BY ConcatProperties
  <2> QED BY <2>1
<1>3. ASSUME NEW i \in 1 .. n PROVE w[i] = AskOf(calls[i]) /\ w[n + i] = ResultOf(calls[i])
  <2>1. i \in 1 .. n + n /\ i <= n /\ n + i \in 1 .. n + n /\ ~(n + i <= n) /\ (n + i) - n = i
    BY <1>1
  <2> QED BY <1>2, <2>1
<1>4. PICK c, r : c = [i \in 1 .. n |-> i] /\ r = [i \in 1 .. n |-> n + i]
  OBVIOUS
<1>5. ASSUME NEW i \in 1 .. n
      PROVE  /\ c[i] \in 1 .. n + n /\ r[i] \in 1 .. n + n /\ c[i] < r[i]
             /\ w[c[i]] = AskOf(calls[i]) /\ w[r[i]] = ResultOf(calls[i])
  <2>1. c[i] = i /\ r[i] = n + i
    BY <1>4
  <2>2. i \in 1 .. n + n /\ n + i \in 1 .. n + n /\ i < n + i
    BY <1>1
  <2> QED BY <1>3, <2>1, <2>2
<1>6. ASSUME NEW j \in 1 .. n + n PROVE \E i \in 1 .. n : j = c[i] \/ j = r[i]
  <2>1. CASE j <= n
    <3>1. j \in 1 .. n
      BY <1>1, <2>1
    <3> QED BY <1>4, <3>1
  <2>2. CASE ~(j <= n)
    <3>1. j - n \in 1 .. n /\ j = n + (j - n)
      BY <1>1, <2>2
    <3> QED BY <1>4, <3>1
  <2> QED BY <2>1, <2>2
<1>7. ASSUME NEW i \in 1 .. n, NEW k \in 1 .. n, w[c[i]].id = w[c[k]].id PROVE i = k
  <2>1. AskOf(calls[i]).id = calls[i].id /\ AskOf(calls[k]).id = calls[k].id
    BY BlocksAre
  <2>2. w[c[i]] = AskOf(calls[i]) /\ w[c[k]] = AskOf(calls[k])
    BY <1>5
  <2>3. calls[i].id = calls[k].id
    BY <1>7, <2>1, <2>2
  <2> QED BY <2>3 DEF IdsApart
<1>8. Rounds(w, c, r, n)
  <2>1. Len(w) = n + n
    BY <1>2
  <2>2. ASSUME NEW i \in 1 .. n
        PROVE  /\ c[i] \in 1 .. Len(w) /\ r[i] \in 1 .. Len(w) /\ c[i] < r[i]
               /\ w[c[i]].kind = "call" /\ w[r[i]].kind = "result"
               /\ w[c[i]].id = w[r[i]].id /\ w[c[i]].serial = w[r[i]].serial
    <3>1. /\ AskOf(calls[i]).kind = "call" /\ AskOf(calls[i]).id = calls[i].id /\ AskOf(calls[i]).serial = calls[i].serial
          /\ ResultOf(calls[i]).kind = "result" /\ ResultOf(calls[i]).id = calls[i].id /\ ResultOf(calls[i]).serial = calls[i].serial
      BY BlocksAre
    <3>2. w[c[i]] = AskOf(calls[i]) /\ w[r[i]] = ResultOf(calls[i])
      BY <1>5
    <3>3. c[i] \in 1 .. Len(w) /\ r[i] \in 1 .. Len(w) /\ c[i] < r[i]
      BY <1>5, <2>1
    <3> QED BY <3>1, <3>2, <3>3
  <2>3. ASSUME NEW j \in 1 .. Len(w) PROVE \E i \in 1 .. n : j = c[i] \/ j = r[i]
    BY <1>6, <2>1
  <2> QED BY <1>7, <2>2, <2>3 DEF Rounds
<1> QED BY <1>1, <1>2, <1>8, RoundsMatch

\* Every number of a row of pairs is the first or the second of one.
LEMMA OfPairs == ASSUME NEW n \in Nat, NEW j \in 1 .. 2 * n PROVE \E i \in 1 .. n : j = 2 * i - 1 \/ j = 2 * i
<1>1. PICK S : S = {m \in Nat : \A k \in 1 .. 2 * m : \E i \in 1 .. m : k = 2 * i - 1 \/ k = 2 * i}
  OBVIOUS
<1>2. 0 \in S
  BY <1>1
<1>3. ASSUME NEW m \in Nat, m \in S PROVE m + 1 \in S
  <2>1. ASSUME NEW k \in 1 .. 2 * (m + 1) PROVE \E i \in 1 .. m + 1 : k = 2 * i - 1 \/ k = 2 * i
    <3>1. CASE k \in 1 .. 2 * m
      <4>1. PICK i \in 1 .. m : k = 2 * i - 1 \/ k = 2 * i
        BY <1>1, <1>3, <3>1
      <4>2. i \in 1 .. m + 1
        OBVIOUS
      <4> QED BY <4>1, <4>2
    <3>2. CASE k \notin 1 .. 2 * m
      <4>1. k = 2 * (m + 1) - 1 \/ k = 2 * (m + 1)
        BY <3>2
      <4>2. m + 1 \in 1 .. m + 1
        OBVIOUS
      <4> QED BY <4>1, <4>2
    <3> QED BY <3>1, <3>2
  <2>2. m + 1 \in Nat
    OBVIOUS
  <2> QED BY <1>1, <2>1, <2>2
<1>4. \A i \in 0 .. n : i \in S
  BY <1>2, <1>3, Inductively
<1>5. n \in S
  <2>1. n \in 0 .. n
    OBVIOUS
  <2> QED BY <1>4, <2>1
<1> QED BY <1>1, <1>5

\* Each call and its result.
LEMMA InTurnMatch ==
    ASSUME NEW calls \in Seq(Asks), IdsApart(calls), NEW w \in Seq(Blocks), Len(w) = 2 * Len(calls),
           \A i \in 1 .. Len(calls) : w[2 * i - 1] = AskOf(calls[i]) /\ w[2 * i] = ResultOf(calls[i])
    PROVE  Matched(w)
<1>. PICK n : n = Len(calls)
  OBVIOUS
<1>1. n \in Nat
  BY LenProperties
<1>4. PICK c, r : c = [i \in 1 .. n |-> 2 * i - 1] /\ r = [i \in 1 .. n |-> 2 * i]
  OBVIOUS
<1>5. ASSUME NEW i \in 1 .. n
      PROVE  /\ c[i] \in 1 .. 2 * n /\ r[i] \in 1 .. 2 * n /\ c[i] < r[i]
             /\ w[c[i]] = AskOf(calls[i]) /\ w[r[i]] = ResultOf(calls[i])
  <2>1. c[i] = 2 * i - 1 /\ r[i] = 2 * i
    BY <1>4
  <2>2. 2 * i - 1 \in 1 .. 2 * n /\ 2 * i \in 1 .. 2 * n /\ 2 * i - 1 < 2 * i
    BY <1>1
  <2> QED BY <2>1, <2>2
<1>6. ASSUME NEW j \in 1 .. 2 * n PROVE \E i \in 1 .. n : j = c[i] \/ j = r[i]
  BY <1>1, <1>4, OfPairs
<1>7. ASSUME NEW i \in 1 .. n, NEW k \in 1 .. n, w[c[i]].id = w[c[k]].id PROVE i = k
  <2>1. AskOf(calls[i]).id = calls[i].id /\ AskOf(calls[k]).id = calls[k].id
    BY BlocksAre
  <2>2. w[c[i]] = AskOf(calls[i]) /\ w[c[k]] = AskOf(calls[k])
    BY <1>5
  <2>3. calls[i].id = calls[k].id
    BY <1>7, <2>1, <2>2
  <2> QED BY <2>3 DEF IdsApart
<1>8. Rounds(w, c, r, n)
  <2>1. Len(w) = 2 * n
    BY <1>1
  <2>2. ASSUME NEW i \in 1 .. n
        PROVE  /\ c[i] \in 1 .. Len(w) /\ r[i] \in 1 .. Len(w) /\ c[i] < r[i]
               /\ w[c[i]].kind = "call" /\ w[r[i]].kind = "result"
               /\ w[c[i]].id = w[r[i]].id /\ w[c[i]].serial = w[r[i]].serial
    <3>1. /\ AskOf(calls[i]).kind = "call" /\ AskOf(calls[i]).id = calls[i].id /\ AskOf(calls[i]).serial = calls[i].serial
          /\ ResultOf(calls[i]).kind = "result" /\ ResultOf(calls[i]).id = calls[i].id /\ ResultOf(calls[i]).serial = calls[i].serial
      BY BlocksAre
    <3>2. w[c[i]] = AskOf(calls[i]) /\ w[r[i]] = ResultOf(calls[i])
      BY <1>5
    <3>3. c[i] \in 1 .. Len(w) /\ r[i] \in 1 .. Len(w) /\ c[i] < r[i]
      BY <1>5, <2>1
    <3> QED BY <3>1, <3>2, <3>3
  <2>3. ASSUME NEW j \in 1 .. Len(w) PROVE \E i \in 1 .. n : j = c[i] \/ j = r[i]
    BY <1>6, <2>1
  <2> QED BY <1>7, <2>2, <2>3 DEF Rounds
<1> QED BY <1>1, <1>8, RoundsMatch

\* However the client notes them, the calls of a turn and their answers are matched.
LEMMA NotedMatches ==
    ASSUME NEW calls \in Seq(Asks), NEW b \in BOOLEAN
    PROVE  /\ Wire!Noted(calls, b) \in Seq(Lines)
           /\ CanTell(calls) => Matched(Wire!Each(Wire!Noted(calls, b)))
<1>1. Len(calls) \in Nat /\ DOMAIN calls = 1 .. Len(calls) /\ \A i \in 1 .. Len(calls) : calls[i] \in Asks
  BY CallsAre DEF CallsKnown
<1>. PICK ms, reps, raws : ms = Wire!Noted(calls, b) /\ reps = Replied(calls) /\ raws = Raws(calls)
  OBVIOUS
<1>2. /\ reps \in Seq(Lines) /\ Wire!Each(reps) \in Seq(Blocks) /\ Len(Wire!Each(reps)) = Len(calls)
      /\ \A i \in 1 .. Len(calls) : Wire!Each(reps)[i] = ResultOf(calls[i])
  BY RepliedEach
<1>3. CASE client # "foundry"
  <2>. PICK m, s : m = Wire!_messages_from(calls) /\ s = <<m>>
    OBVIOUS
  <2>1. m.role = "assistant" /\ m.calls = calls
    BY DEF Wire!_messages_from, Wire!Message
  <2>2. m \in Lines
    <3>1. << >> \in Seq(Answers)
      BY EmptySeq
    <3> QED BY <3>1 DEF Wire!_messages_from, Wire!Message, Lines
  <2>3. ms = s \o reps
    BY <1>3 DEF Wire!Noted, Replied
  <2>4. s \in Seq(Lines)
    BY <2>2
  <2>5. ms \in Seq(Lines)
    BY <1>2, <2>3, <2>4, ConcatProperties
  <2>6. Wire!Each(s) = Wire!Asked(m)
    <3>1. Wire!Each(s) = Wire!Items(m)
      BY <2>2, EachOne
    <3> QED BY <2>1, <3>1 DEF Wire!Items
  <2>7. /\ Wire!Each(s) \in Seq(Blocks) /\ Len(Wire!Each(s)) = Len(calls)
        /\ \A i \in 1 .. Len(calls) : Wire!Each(s)[i] = AskOf(calls[i])
    <3>1. m.calls \in Seq(Asks)
      BY <2>1
    <3>2. /\ Wire!Asked(m) \in Seq(Blocks) /\ Len(Wire!Asked(m)) = Len(m.calls)
          /\ \A i \in 1 .. Len(m.calls) : Wire!Asked(m)[i] = AskOf(m.calls[i])
      BY <3>1, AskedEach
    <3> QED BY <2>1, <2>6, <3>2
  <2>8. Wire!Each(ms) = Wire!Each(s) \o Wire!Each(reps)
    BY <1>2, <2>3, <2>4, EachConcat
  <2>9. CanTell(calls) => Matched(Wire!Each(s) \o Wire!Each(reps))
    <3>1. ASSUME IdsApart(calls) PROVE Matched(Wire!Each(s) \o Wire!Each(reps))
      BY <1>2, <2>7, <3>1, TogetherMatch
    <3> QED BY <3>1 DEF CanTell
  <2> QED BY <2>5, <2>8, <2>9
<1>4. CASE client = "foundry"
  <2>0. raws \in Seq(Lines)
    BY RawsEach
  <2>1. CASE b
    <3>1. ms = raws \o reps
      BY <1>4, <2>1 DEF Wire!Noted, Replied, Raws
    <3>2. ms \in Seq(Lines)
      BY <1>2, <2>0, <3>1, ConcatProperties
    <3>3. Wire!Each(ms) = Wire!Each(raws) \o Wire!Each(reps)
      BY <1>2, <2>0, <3>1, EachConcat
    <3>4. ASSUME CanTell(calls) PROVE Matched(Wire!Each(raws) \o Wire!Each(reps))
      <4>1. IdsApart(calls) /\ AllNamed(calls)
        BY <1>4, <3>4 DEF CanTell
      <4>2. /\ Wire!Each(raws) \in Seq(Blocks) /\ Len(Wire!Each(raws)) = Len(calls)
            /\ \A i \in 1 .. Len(calls) : Wire!Each(raws)[i] = AskOf(calls[i])
        BY <4>1, RawsEach
      <4> QED BY <1>2, <4>1, <4>2, TogetherMatch
    <3> QED BY <3>2, <3>3, <3>4
  <2>2. CASE ~b
    <3>. PICK ss : ss = [i \in DOMAIN calls |-> <<Wire!_message_from_raw(calls[i]), Wire!Answer(calls[i])>>]
      OBVIOUS
    <3>1. ms = Wire!FlattenSeq(ss)
      BY <1>4, <2>2 DEF Wire!Noted
    <3>2. DOMAIN ss = 1 .. Len(calls) /\ \A i \in 1 .. Len(calls) : ss[i] = <<Wire!_message_from_raw(calls[i]), Wire!Answer(calls[i])>>
      BY <1>1
    <3>3. ASSUME NEW i \in 1 .. Len(calls)
          PROVE  /\ Wire!_message_from_raw(calls[i]) \in Lines /\ Wire!Answer(calls[i]) \in Lines
                 /\ Len(Wire!Items(Wire!_message_from_raw(calls[i]))) = 1 /\ Len(Wire!Items(Wire!Answer(calls[i]))) = 1
                 /\ Wire!Items(Wire!Answer(calls[i]))[1] = ResultOf(calls[i])
                 /\ calls[i].id # Wire!NoId => Wire!Items(Wire!_message_from_raw(calls[i]))[1] = AskOf(calls[i])
      BY <1>1, AnswerTyped, RawTyped
    <3>4. ASSUME NEW i \in 1 .. Len(calls)
          PROVE  /\ ss[i] \in Seq(Lines) /\ Len(ss[i]) = 2
                 /\ ss[i][1] = Wire!_message_from_raw(calls[i]) /\ ss[i][2] = Wire!Answer(calls[i])
      <4>. PICK x, y, t : x = Wire!_message_from_raw(calls[i]) /\ y = Wire!Answer(calls[i]) /\ t = <<x, y>>
        OBVIOUS
      <4>1. x \in Lines /\ y \in Lines
        BY <3>3
      <4>2. t \in Seq(Lines) /\ Len(t) = 2 /\ t[1] = x /\ t[2] = y
        BY <4>1
      <4>3. ss[i] = t
        BY <3>2
      <4> QED BY <4>2, <4>3
    <3>5. ss \in Seq(Seq(Lines)) /\ Len(ss) = Len(calls)
      <4>1. ss = [i \in DOMAIN ss |-> ss[i]]
        OBVIOUS
      <4>2. ss \in [1 .. Len(calls) -> Seq(Lines)]
        BY <3>2, <3>4, <4>1
      <4>3. ss \in Seq(Seq(Lines))
        BY <1>1, <4>2, SeqDef
      <4> QED BY <1>1, <3>2, <4>3, LenProperties
    <3>6. ms \in Seq(Lines)
      BY <3>1, <3>5, FlattenTyped
    <3>7. /\ Len(ms) = 2 * Len(calls)
          /\ \A i \in 1 .. Len(calls) : ms[2 * i - 1] = ss[i][1] /\ ms[2 * i] = ss[i][2]
      <4>1. \A i \in 1 .. Len(ss) : Len(ss[i]) = 2
        BY <3>4, <3>5
      <4>2. /\ Len(Wire!FlattenSeq(ss)) = 2 * Len(ss)
            /\ \A i \in 1 .. Len(ss) : Wire!FlattenSeq(ss)[2 * i - 1] = ss[i][1] /\ Wire!FlattenSeq(ss)[2 * i] = ss[i][2]
        BY <3>5, <4>1, FlattenPairs
      <4> QED BY <3>1, <3>5, <4>2
    <3>8. \A j \in 1 .. Len(ms) : Len(Wire!Items(ms[j])) = 1
      <4>1. ASSUME NEW j \in 1 .. Len(ms) PROVE Len(Wire!Items(ms[j])) = 1
        <5>1. PICK i \in 1 .. Len(calls) : j = 2 * i - 1 \/ j = 2 * i
          BY <1>1, <3>7, OfPairs
        <5>2. ms[2 * i - 1] = Wire!_message_from_raw(calls[i]) /\ ms[2 * i] = Wire!Answer(calls[i])
          BY <3>4, <3>7
        <5>3. ms[j] = Wire!_message_from_raw(calls[i]) \/ ms[j] = Wire!Answer(calls[i])
          BY <5>1, <5>2
        <5> QED BY <3>3, <5>3
      <4> QED BY <4>1
    <3>9. /\ Wire!Each(ms) \in Seq(Blocks) /\ Len(Wire!Each(ms)) = Len(ms)
          /\ \A i \in 1 .. Len(ms) : Wire!Each(ms)[i] = Wire!Items(ms[i])[1]
      BY <3>6, <3>8, EachSingles
    <3>10. ASSUME CanTell(calls) PROVE Matched(Wire!Each(ms))
      <4>1. IdsApart(calls) /\ AllNamed(calls)
        BY <1>4, <3>10 DEF CanTell
      <4>. PICK w : w = Wire!Each(ms)
        OBVIOUS
      <4>2. ASSUME NEW i \in 1 .. Len(calls) PROVE w[2 * i - 1] = AskOf(calls[i]) /\ w[2 * i] = ResultOf(calls[i])
        <5>1. 2 * i - 1 \in 1 .. Len(ms) /\ 2 * i \in 1 .. Len(ms)
          BY <1>1, <3>7
        <5>2. w[2 * i - 1] = Wire!Items(ms[2 * i - 1])[1] /\ w[2 * i] = Wire!Items(ms[2 * i])[1]
          BY <3>9, <5>1
        <5>3. ms[2 * i - 1] = Wire!_message_from_raw(calls[i]) /\ ms[2 * i] = Wire!Answer(calls[i])
          BY <3>4, <3>7
        <5>4. calls[i].id # Wire!NoId
          BY <4>1 DEF AllNamed
        <5> QED BY <3>3, <5>2, <5>3, <5>4
      <4>3. w \in Seq(Blocks) /\ Len(w) = 2 * Len(calls)
        BY <3>7, <3>9
      <4> QED BY <4>1, <4>2, <4>3, InTurnMatch
    <3> QED BY <3>6, <3>10
  <2> QED BY <2>1, <2>2
<1> QED BY <1>3, <1>4

-----------------------------------------------------------------------------
(* The loop of a sub-agent: what is asked of it, and the transcript of it. *)

Tells == client # "foundry" \/ ~bare
WireInv ==
    /\ client \in {"foundry", "chat", "stream"} /\ exchanges \in 0 .. WireTurns
    /\ bare \in BOOLEAN /\ refused \subseteq Wire!Families
    /\ pending \in Seq(Asks) /\ Len(pending) <= WireCalls
    /\ history \in Seq(Lines)
    /\ Tells => CanTell(pending) /\ Matched(Wire!Each(history))
WirePart == part = "wire" => WireInv

LEMMA WireInit == ASSUME Wire!Init PROVE WireInv
<1>1. WireTurns \in Nat /\ WireCalls \in Nat
  BY RecordsAssumption DEF RecordsAssumption, Wire!WireAssumption
<1>. PICK m, s : m = Wire!Message("user", << >>, << >>) /\ s = <<m>>
  OBVIOUS
<1>2. m.role = "user" /\ m \in Lines
  <2>1. << >> \in Seq(Asks) /\ << >> \in Seq(Answers)
    BY EmptySeq
  <2> QED BY <2>1 DEF Wire!Message, Lines
<1>3. s \in Seq(Lines)
  BY <1>2
<1>4. Wire!Each(s) = << >>
  <2>1. Wire!Each(s) = Wire!Items(m)
    BY <1>2, EachOne
  <2> QED BY <1>2, <2>1 DEF Wire!Items
<1>5. Matched(<< >>)
  <2>1. Len(<< >>) = 0 /\ 1 .. 0 = {}
    BY EmptySeq
  <2> QED BY <2>1 DEF Matched, MeetsAll, Answered
<1>6. << >> \in Seq(Asks) /\ Len(<< >>) = 0
  BY EmptySeq
<1>7. CanTell(<< >>)
  BY <1>6 DEF CanTell, IdsApart, AllNamed
<1>8. /\ client \in {"foundry", "chat", "stream"} /\ history = s
      /\ pending = << >> /\ exchanges = 0 /\ bare = FALSE /\ refused = {}
  BY DEF Wire!Init
<1>9. history \in Seq(Lines) /\ Wire!Each(history) = << >> /\ pending \in Seq(Asks) /\ Len(pending) = 0 /\ CanTell(pending)
  BY <1>3, <1>4, <1>6, <1>7, <1>8
<1>10. Matched(Wire!Each(history))
  BY <1>5, <1>9
<1>11. client \in {"foundry", "chat", "stream"} /\ exchanges \in 0 .. WireTurns
  BY <1>1, <1>8
<1>12. Len(pending) <= WireCalls
  BY <1>1, <1>9
<1>13. bare \in BOOLEAN
  BY <1>8
<1>14. refused \subseteq Wire!Families
  BY <1>8
<1> QED BY <1>9, <1>10, <1>11, <1>12, <1>13, <1>14 DEF WireInv

\* A call goes by a tool of the client.
LEMMA NamesKnown ==
    ASSUME NEW x \in {Sanitized[name] : name \in Wire!Range(Tools)}
    PROVE  Wire!build_name_map[x] \in Wire!Range(Tools)
<1>1. Tools \in Seq(DOMAIN Sanitized)
  BY RecordsAssumption DEF RecordsAssumption, Wire!WireAssumption
<1>2. DOMAIN Tools = 1 .. Len(Tools) /\ Len(Tools) \in Nat
  BY <1>1, LenProperties
<1>. PICK S : S = {i \in DOMAIN Tools : Sanitized[Tools[i]] = x}
  OBVIOUS
<1>3. S # {}
  <2>1. PICK name \in Wire!Range(Tools) : x = Sanitized[name]
    OBVIOUS
  <2>2. PICK i \in DOMAIN Tools : name = Tools[i]
    BY <2>1 DEF Wire!Range
  <2>3. i \in S
    BY <2>1, <2>2
  <2> QED BY <2>3
<1>4. S \subseteq Int /\ S \subseteq 1 .. Len(Tools)
  BY <1>2
<1>5. IsFiniteSet(S)
  <2>1. 1 \in Int /\ Len(Tools) \in Int
    BY <1>2
  <2>2. IsFiniteSet(1 .. Len(Tools))
    BY <2>1, FS_Interval
  <2> QED BY <1>4, <2>2, FS_Subset
<1>6. PICK k \in S : \A j \in S : k >= j
  BY <1>3, <1>4, <1>5, Greatest
<1>7. \E i \in DOMAIN Tools : Sanitized[Tools[i]] = x /\ \A j \in DOMAIN Tools : Sanitized[Tools[j]] = x => j <= i
  <2>1. k \in DOMAIN Tools /\ Sanitized[Tools[k]] = x /\ k \in Int
    BY <1>4
  <2>2. ASSUME NEW j \in DOMAIN Tools, Sanitized[Tools[j]] = x PROVE j <= k
    <3>1. j \in S
      BY <2>2
    <3>2. k >= j /\ j \in Int
      BY <1>4, <1>6, <3>1
    <3> QED BY <2>1, <3>2
  <2> QED BY <2>1, <2>2
<1>8. PICK h : h = CHOOSE i \in DOMAIN Tools : Sanitized[Tools[i]] = x /\ \A j \in DOMAIN Tools : Sanitized[Tools[j]] = x => j <= i
  OBVIOUS
<1>9. h \in DOMAIN Tools
  BY <1>7, <1>8
<1>10. Wire!build_name_map[x] = Tools[h]
  BY <1>8 DEF Wire!build_name_map
<1> QED BY <1>9, <1>10 DEF Wire!Range

LEMMA PairsAreIds == ASSUME NEW x, NEW y PROVE <<x, y>> # Wire!NoId
<1>1. Len(<<x, y>>) = 2 /\ Len(<< >>) = 0
  OBVIOUS
<1>2. <<x, y>> # << >>
  BY <1>1
<1> QED BY <1>2 DEF Wire!NoId

LEMMA PairsTell == ASSUME NEW x, NEW y, NEW z, <<x, y>> = <<x, z>> PROVE y = z
  OBVIOUS

GivenId(f, i, s, b, u) == Wire!HandedOver(Wire!Identified(f, i, s, b, u), i, s)

LEMMA IdsTyped ==
    ASSUME client \in {"foundry", "chat", "stream"}, NEW f \in Wire!Families, NEW i \in Int, NEW s \in Int,
           NEW b \in BOOLEAN, NEW u \in BOOLEAN
    PROVE  GivenId(f, i, s, b, u) \in IdsOfCalls
<1>. PICK d : d = Wire!Identified(f, i, s, b, u)
  OBVIOUS
<1>1. d \in IdsOfCalls
  <2>1. f \in {"anthropic", "openai", "google", "compat"} /\ i - 1 \in Int
    BY DEF Wire!Families
  <2>2. <<"toolu", s>> \in IdsOfCalls /\ <<"call_id", s>> \in IdsOfCalls /\ <<"id", s>> \in IdsOfCalls /\ Wire!NoId \in IdsOfCalls
    BY DEF IdsOfCalls
  <2>3. <<"gcall", i>> \in IdsOfCalls /\ <<"gcall", i - 1>> \in IdsOfCalls
    BY <2>1 DEF IdsOfCalls
  <2>4. d = <<"toolu", s>> \/ d = <<"call_id", s>> \/ d = <<"id", s>> \/ d = Wire!NoId \/ d = <<"gcall", i>> \/ d = <<"gcall", i - 1>>
    BY <2>1 DEF Wire!Identified, Wire!response_from_anthropic, Wire!response_from_openai_responses,
       Wire!response_from_google, Wire!response_from_openai_compat
  <2> QED BY <2>2, <2>3, <2>4
<1>2. i - 1 \in Int
  OBVIOUS
<1>3. <<"uuid", s>> \in IdsOfCalls /\ <<"call", i - 1>> \in IdsOfCalls
  BY <1>2 DEF IdsOfCalls
<1>4. GivenId(f, i, s, b, u) = d \/ GivenId(f, i, s, b, u) = <<"uuid", s>> \/ GivenId(f, i, s, b, u) = <<"call", i - 1>>
  BY DEF GivenId, Wire!HandedOver, Wire!normalized_to_chat_response, Wire!chat_stream_chunks, Wire!complete
<1> QED BY <1>1, <1>3, <1>4

\* Only an endpoint of the compat family leaves the ids out, and in process none has.
Answerable(f, u) == (u => f = "compat") /\ (client = "foundry" => ~u)
\* The ids of an answer differ: by the serial of the call or by its place.
LEMMA IdsDiffer ==
    ASSUME client \in {"foundry", "chat", "stream"}, NEW f \in Wire!Families, NEW b \in BOOLEAN, NEW u \in BOOLEAN,
           Answerable(f, u), NEW i \in Int, NEW k \in Int, NEW q \in Int,
           GivenId(f, i, q + i, b, u) = GivenId(f, k, q + k, b, u)
    PROVE  i = k
<1>. PICK s, t : s = q + i /\ t = q + k
  OBVIOUS
<1>0. s \in Int /\ t \in Int /\ s - t = i - k /\ GivenId(f, i, s, b, u) = GivenId(f, k, t, b, u)
  OBVIOUS
<1>1. f \in {"anthropic", "openai", "google", "compat"}
  BY DEF Wire!Families
<1>2. CASE ~u
  <2>. PICK d, e : d = Wire!Identified(f, i, s, b, u) /\ e = Wire!Identified(f, k, t, b, u)
    OBVIOUS
  <2>1. \/ d = <<"toolu", s>> /\ e = <<"toolu", t>>
        \/ d = <<"call_id", s>> /\ e = <<"call_id", t>>
        \/ d = <<"gcall", i>> /\ e = <<"gcall", k>>
        \/ d = <<"gcall", i - 1>> /\ e = <<"gcall", k - 1>>
        \/ d = <<"id", s>> /\ e = <<"id", t>>
    BY <1>1, <1>2 DEF Wire!Identified, Wire!response_from_anthropic, Wire!response_from_openai_responses,
       Wire!response_from_google, Wire!response_from_openai_compat
  <2>2. d # Wire!NoId /\ e # Wire!NoId
    BY <2>1, PairsAreIds
  <2>3. GivenId(f, i, s, b, u) = d /\ GivenId(f, k, t, b, u) = e
    BY <2>2 DEF GivenId, Wire!HandedOver, Wire!normalized_to_chat_response, Wire!chat_stream_chunks, Wire!complete
  <2>4. d = e
    BY <1>0, <2>3
  <2>5. s = t \/ i = k \/ i - 1 = k - 1
    <3>1. CASE d = <<"toolu", s>> /\ e = <<"toolu", t>>
      BY <2>4, <3>1, PairsTell
    <3>2. CASE d = <<"call_id", s>> /\ e = <<"call_id", t>>
      BY <2>4, <3>2, PairsTell
    <3>3. CASE d = <<"gcall", i>> /\ e = <<"gcall", k>>
      BY <2>4, <3>3, PairsTell
    <3>4. CASE d = <<"gcall", i - 1>> /\ e = <<"gcall", k - 1>>
      BY <2>4, <3>4, PairsTell
    <3>5. CASE d = <<"id", s>> /\ e = <<"id", t>>
      BY <2>4, <3>5, PairsTell
    <3> QED BY <2>1, <3>1, <3>2, <3>3, <3>4, <3>5
  <2> QED BY <1>0, <2>5
<1>3. CASE u
  <2>0. f = "compat" /\ client # "foundry"
    BY <1>3 DEF Answerable
  <2>1. Wire!Identified(f, i, s, b, u) = Wire!NoId /\ Wire!Identified(f, k, t, b, u) = Wire!NoId
    BY <1>3, <2>0 DEF Wire!Identified, Wire!response_from_openai_compat
  <2>2. \/ GivenId(f, i, s, b, u) = <<"uuid", s>> /\ GivenId(f, k, t, b, u) = <<"uuid", t>>
        \/ GivenId(f, i, s, b, u) = <<"call", i - 1>> /\ GivenId(f, k, t, b, u) = <<"call", k - 1>>
    BY <2>0, <2>1 DEF GivenId, Wire!HandedOver, Wire!normalized_to_chat_response, Wire!chat_stream_chunks
  <2>3. s = t \/ i - 1 = k - 1
    BY <1>0, <2>2, PairsTell
  <2> QED BY <1>0, <2>3
<1> QED BY <1>2, <1>3

LEMMA IdsNamed ==
    ASSUME client = "foundry", NEW f \in Wire!Families, NEW i, NEW s, NEW b \in BOOLEAN
    PROVE  GivenId(f, i, s, b, FALSE) # Wire!NoId
<1>1. f \in {"anthropic", "openai", "google", "compat"}
  BY DEF Wire!Families
<1>2. GivenId(f, i, s, b, FALSE) = Wire!Identified(f, i, s, b, FALSE)
  BY DEF GivenId, Wire!HandedOver, Wire!complete
<1>. PICK d : d = Wire!Identified(f, i, s, b, FALSE)
  OBVIOUS
<1>3. d = <<"toolu", s>> \/ d = <<"call_id", s>> \/ d = <<"id", s>> \/ d = <<"gcall", i>> \/ d = <<"gcall", i - 1>>
  BY <1>1 DEF Wire!Identified, Wire!response_from_anthropic, Wire!response_from_openai_responses,
     Wire!response_from_google, Wire!response_from_openai_compat
<1> QED BY <1>2, <1>3, PairsAreIds

\* An answer comes.
LEMMA CompleteKeeps ==
    ASSUME WireInv, NEW f \in Wire!Families, NEW n \in 0 .. WireCalls, NEW b \in BOOLEAN, NEW u \in BOOLEAN,
           NEW wanted \in [1 .. n -> {Sanitized[name] : name \in Wire!Range(Tools)}],
           Wire!Complete(f, wanted, b, u)
    PROVE  WireInv'
<1>1. WireTurns \in Nat /\ WireCalls \in Nat
  BY RecordsAssumption DEF RecordsAssumption, Wire!WireAssumption
<1>2. /\ exchanges < WireTurns /\ (u => f = "compat") /\ exchanges' = exchanges + 1
      /\ bare' = (bare \/ (u /\ wanted # << >>))
      /\ client' = client /\ history' = history /\ refused' = refused
  BY DEF Wire!Complete
<1>3. /\ client \in {"foundry", "chat", "stream"} /\ exchanges \in 0 .. WireTurns
      /\ bare \in BOOLEAN /\ refused \subseteq Wire!Families /\ history \in Seq(Lines)
      /\ Tells => Matched(Wire!Each(history))
  BY DEF WireInv
<1>4. n \in Nat /\ n <= WireCalls /\ DOMAIN wanted = 1 .. n
  BY <1>1
<1>41. PICK q : q = WireCalls * exchanges
  OBVIOUS
<1>5. q \in Int
  BY <1>1, <1>3, <1>41
<1>42. PICK calls : calls = [i \in 1 .. n |-> [id |-> GivenId(f, i, q + i, b, u), name |-> Wire!build_name_map[wanted[i]], serial |-> q + i]]
  OBVIOUS
<1>6. pending' = calls
  BY <1>4, <1>41, <1>42 DEF Wire!Complete, Wire!Call, GivenId
<1>7. ASSUME NEW i \in 1 .. n
      PROVE  calls[i] \in Asks /\ calls[i].id = GivenId(f, i, q + i, b, u)
  <2>1. i \in Int /\ q + i \in Int
    BY <1>5
  <2>2. GivenId(f, i, q + i, b, u) \in IdsOfCalls
    BY <1>3, <2>1, IdsTyped
  <2>3. Wire!build_name_map[wanted[i]] \in Wire!Range(Tools)
    BY NamesKnown
  <2> QED BY <1>42, <2>1, <2>2, <2>3 DEF Asks
<1>8. calls \in Seq(Asks) /\ Len(calls) = n
  <2>1. calls = [i \in DOMAIN calls |-> calls[i]] /\ DOMAIN calls = 1 .. n
    BY <1>42
  <2>2. calls \in [1 .. n -> Asks]
    BY <1>7, <2>1
  <2>3. calls \in Seq(Asks)
    BY <1>4, <2>2, SeqDef
  <2> QED BY <1>4, <2>1, <2>3, LenProperties
<1>9. ASSUME client # "foundry" \/ ~bare' PROVE Tells /\ CanTell(calls)' 
  <2>1. Tells
    BY <1>2, <1>3, <1>9 DEF Tells
  <2>2. CASE n = 0
    <3>1. 1 .. Len(calls) = {}
      BY <1>8, <2>2
    <3> QED BY <2>1, <3>1 DEF CanTell, IdsApart, AllNamed
  <2>3. CASE n # 0
    <3>1. wanted # << >>
      <4>1. 1 \in DOMAIN wanted
        BY <1>4, <2>3
      <4> QED BY <4>1
    <3>2. client = "foundry" => ~u
      BY <1>2, <1>9, <3>1
    <3>3. IdsApart(calls)
      <4>1. ASSUME NEW i \in 1 .. n, NEW k \in 1 .. n, calls[i].id = calls[k].id PROVE i = k
        <5>2. GivenId(f, i, q + i, b, u) = GivenId(f, k, q + k, b, u)
          BY <1>7, <4>1
        <5>3. client \in {"foundry", "chat", "stream"}
          BY <1>3
        <5>4. Answerable(f, u)
          BY <1>2, <3>2 DEF Answerable
        <5>5. i \in Int /\ k \in Int
          OBVIOUS
        <5> QED BY <1>5, <5>2, <5>3, <5>4, <5>5, IdsDiffer
      <4> QED BY <1>8, <4>1 DEF IdsApart
    <3>4. client = "foundry" => AllNamed(calls)
      <4>1. ASSUME client = "foundry", NEW i \in 1 .. n PROVE calls[i].id # Wire!NoId
        <5>1. u = FALSE
          BY <3>2, <4>1
        <5>2. calls[i].id = GivenId(f, i, q + i, b, FALSE)
          BY <1>7, <5>1
        <5> QED BY <4>1, <5>2, IdsNamed
      <4> QED BY <1>8, <4>1 DEF AllNamed
    <3> QED BY <1>2, <2>1, <3>3, <3>4 DEF CanTell, IdsApart, AllNamed
  <2> QED BY <2>2, <2>3
<1>10. exchanges' \in 0 .. WireTurns
  BY <1>1, <1>2, <1>3
<1>11. bare' \in BOOLEAN
  BY <1>2
<1>12. (pending \in Seq(Asks))' /\ Len(pending') <= WireCalls
  BY <1>4, <1>6, <1>8 DEF Asks, IdsOfCalls, Wire!NoId
<1>13. Tells' => CanTell(pending)' /\ Matched(Wire!Each(history))'
  <2>1. ASSUME Tells' PROVE CanTell(pending)'
    BY <1>2, <1>6, <1>9, <2>1 DEF Tells, CanTell, IdsApart, AllNamed
  <2>2. ASSUME Tells' PROVE Matched(Wire!Each(history))'
    <3>1. Tells
      BY <1>2, <1>9, <2>2 DEF Tells
    <3>2. Matched(Wire!Each(history))
      BY <1>3, <3>1
    <3> QED BY <1>2, <3>2
  <2> QED BY <2>1, <2>2
<1> QED BY <1>2, <1>3, <1>10, <1>11, <1>12, <1>13 DEF WireInv

\* The tools are run, and what they said is noted.
LEMMA RunToolsKeeps ==
    ASSUME WireInv, NEW b \in BOOLEAN, Wire!RunTools(b)
    PROVE  WireInv'
<1>. PICK ms : ms = Wire!Noted(pending, b)
  OBVIOUS
<1>1. /\ pending' = << >> /\ history' = history \o ms
      /\ client' = client /\ exchanges' = exchanges /\ bare' = bare /\ refused' = refused
  BY DEF Wire!RunTools
<1>2. /\ client \in {"foundry", "chat", "stream"} /\ exchanges \in 0 .. WireTurns
      /\ bare \in BOOLEAN /\ refused \subseteq Wire!Families
      /\ pending \in Seq(Asks) /\ history \in Seq(Lines)
      /\ Tells => CanTell(pending) /\ Matched(Wire!Each(history))
  BY DEF WireInv
<1>3. ms \in Seq(Lines) /\ (CanTell(pending) => Matched(Wire!Each(ms)))
  BY <1>2, NotedMatches
<1>. PICK hs : hs = history \o ms
  OBVIOUS
<1>4. hs \in Seq(Lines) /\ Wire!Each(hs) = Wire!Each(history) \o Wire!Each(ms)
  <2>1. hs \in Seq(Lines)
    BY <1>2, <1>3, ConcatProperties
  <2> QED BY <1>2, <1>3, <2>1, EachConcat
<1>5. ASSUME Tells PROVE Matched(Wire!Each(hs))
  <2>1. Wire!Each(history) \in Seq(Blocks) /\ Wire!Each(ms) \in Seq(Blocks)
    BY <1>2, <1>3, ItemizedTyped
  <2>2. Matched(Wire!Each(history)) /\ Matched(Wire!Each(ms))
    BY <1>2, <1>3, <1>5
  <2> QED BY <1>4, <2>1, <2>2, MatchedConcat
<1>6. (pending \in Seq(Asks))' /\ Len(pending') <= WireCalls /\ CanTell(pending)'
  <2>1. << >> \in Seq(Asks) /\ Len(<< >>) = 0 /\ 1 .. 0 = {}
    BY EmptySeq
  <2>2. WireCalls \in Nat
    BY RecordsAssumption DEF RecordsAssumption, Wire!WireAssumption
  <2>3. (pending \in Seq(Asks))'
    BY <1>1, <2>1 DEF Asks, IdsOfCalls, Wire!NoId
  <2>4. Len(pending') <= WireCalls
    BY <1>1, <2>1, <2>2
  <2>5. CanTell(pending)'
    BY <1>1, <2>1 DEF CanTell, IdsApart, AllNamed
  <2> QED BY <2>3, <2>4, <2>5
<1>7. (history \in Seq(Lines))'
  BY <1>1, <1>4 DEF Lines, Asks, Answers, IdsOfCalls, Wire!NoId
<1>8. Tells' => Matched(Wire!Each(history))'
  BY <1>1, <1>5 DEF Tells
<1> QED BY <1>1, <1>2, <1>6, <1>7, <1>8 DEF WireInv

\* A form that cannot be built changes nothing but the tally.
LEMMA WireRests ==
    ASSUME WireInv, UNCHANGED <<client, history, pending, exchanges, bare>>, refused' \subseteq Wire!Families
    PROVE  WireInv'
<1>1. client' = client /\ history' = history /\ pending' = pending /\ exchanges' = exchanges /\ bare' = bare
  OBVIOUS
<1>2. /\ client \in {"foundry", "chat", "stream"} /\ exchanges \in 0 .. WireTurns
      /\ bare \in BOOLEAN /\ pending \in Seq(Asks) /\ Len(pending) <= WireCalls /\ history \in Seq(Lines)
      /\ Tells => CanTell(pending) /\ Matched(Wire!Each(history))
  BY DEF WireInv
<1>3. (pending \in Seq(Asks))' /\ (history \in Seq(Lines))'
  BY <1>1, <1>2 DEF Lines, Asks, Answers, IdsOfCalls, Wire!NoId
<1>4. (Tells => CanTell(pending) /\ Matched(Wire!Each(history)))'
  BY <1>1, <1>2 DEF Tells, CanTell, IdsApart, AllNamed
<1> QED BY <1>1, <1>2, <1>3, <1>4 DEF WireInv

LEMMA WireNext == ASSUME WireInv, Wire!Next PROVE WireInv'
<1>1. ASSUME NEW f \in Wire!Families, NEW n \in 0 .. WireCalls, NEW b \in BOOLEAN, NEW u \in BOOLEAN,
             NEW wanted \in [1 .. n -> {Sanitized[name] : name \in Wire!Range(Tools)}], Wire!Complete(f, wanted, b, u)
      PROVE  WireInv'
  BY <1>1, CompleteKeeps
<1>2. ASSUME NEW f \in Wire!Families, Wire!Refused(f) PROVE WireInv'
  <2>1. UNCHANGED <<client, history, pending, exchanges, bare>> /\ refused' = refused \cup {f}
    BY <1>2 DEF Wire!Refused
  <2>2. refused \subseteq Wire!Families
    BY DEF WireInv
  <2>3. refused' \subseteq Wire!Families
    BY <2>1, <2>2
  <2> QED BY <2>1, <2>3, WireRests
<1>3. ASSUME NEW b \in BOOLEAN, Wire!RunTools(b) PROVE WireInv'
  BY <1>3, RunToolsKeeps
<1> QED BY <1>1, <1>2, <1>3 DEF Wire!Next

LEMMA WireSafe == ASSUME WireInv PROVE Wire!TypeOK /\ Wire!ResultsMeetTheirCalls
<1>1. /\ exchanges \in 0 .. WireTurns /\ Len(pending) <= WireCalls
      /\ bare \in BOOLEAN /\ refused \subseteq Wire!Families
      /\ pending \in Seq(Asks) /\ history \in Seq(Lines)
      /\ Tells => Matched(Wire!Each(history))
  BY DEF WireInv
<1>2. \A i \in DOMAIN pending : pending[i].name \in Wire!Range(Tools)
  <2>1. DOMAIN pending = 1 .. Len(pending) /\ \A i \in 1 .. Len(pending) : pending[i] \in Asks
    BY <1>1, CallsAre DEF CallsKnown
  <2> QED BY <2>1 DEF Asks
<1>3. Wire!TypeOK
  BY <1>1, <1>2 DEF Wire!TypeOK
<1>4. ASSUME NEW f \in Wire!Families \ {"google"} PROVE Wire!Wire(f, history) = Wire!Each(history)
  <2>1. f \in {"anthropic", "openai", "compat"}
    BY DEF Wire!Families
  <2>2. Wire!Each(Wire!_collapse_messages(history)) = Wire!Each(history)
    BY <1>1, CollapseKeepsEach
  <2> QED BY <2>1, <2>2 DEF Wire!Wire, Wire!messages_to_anthropic, Wire!messages_to_openai_responses, Wire!messages_to_openai_compat
<1>5. ASSUME Tells PROVE Good(Wire!Each(history))
  <2>1. Wire!Each(history) \in Seq(Blocks)
    BY <1>1, ItemizedTyped
  <2> QED BY <1>1, <1>5, <2>1, GoodIff
<1>6. ASSUME client # "foundry" \/ ~bare, NEW f \in Wire!Families \ {"google"} PROVE Good(Wire!Wire(f, history))
  BY <1>4, <1>5, <1>6 DEF Tells
<1>7. Wire!ResultsMeetTheirCalls
  BY <1>6 DEF Wire!ResultsMeetTheirCalls, Good
<1> QED BY <1>3, <1>7

\* A result stands, in the form of every family that can be asked, under the call
\* it answers, and no call is left without one (messages_to_anthropic and the
\* others of gateway/normalizer.py, over the transcripts of subagents/bridge.py
\* and of the clients of gateway/compat.py).  The ids of one answer differ, and
\* only of one answer: those of Google come again, and a turn is matched in
\* itself because the last call of an id is the one that counts.
THEOREM EveryResultMeetsItsCall == Spec => []ResultsMeetTheirCalls
<1>1. Init => WirePart
  BY WireInit DEF Init, WirePart
<1>2. WirePart /\ [Next]_vars => WirePart'
  <2> SUFFICES ASSUME WirePart, [Next]_vars PROVE WirePart'
    OBVIOUS
  <2>1. CASE part = "wire" /\ Wire!Next /\ part' = part
    <3>1. WireInv'
      BY <2>1, WireNext DEF WirePart
    <3> QED BY <2>1, <3>1 DEF WirePart
  <2>2. CASE UNCHANGED <<part, wireVars>>
    <3>1. ASSUME part' = "wire" PROVE WireInv'
      <4>1. WireInv /\ UNCHANGED <<client, history, pending, exchanges, bare, refused>>
        BY <2>2, <3>1 DEF WirePart, wireVars
      <4>2. refused' \subseteq Wire!Families
        BY <4>1 DEF WireInv
      <4> QED BY <4>1, <4>2, WireRests
    <3> QED BY <3>1 DEF WirePart
  <2>3. CASE Next
    <3>1. CASE Handed /\ UNCHANGED <<part, mindVars, handsVars>>
      BY <2>1, <2>2, <3>1 DEF Handed
    <3>2. CASE Mind /\ UNCHANGED <<part, faults, handedVars, handsVars>>
      BY <2>2, <3>2 DEF handedVars
    <3>3. CASE Hands /\ UNCHANGED <<part, handedVars, mindVars>>
      BY <2>2, <3>3 DEF handedVars
    <3> QED BY <2>3, <3>1, <3>2, <3>3 DEF Next
  <2>4. CASE UNCHANGED vars
    BY <2>2, <2>4 DEF vars, handedVars
  <2> QED BY <2>3, <2>4
<1>3. WirePart => ResultsMeetTheirCalls
  BY WireSafe DEF WirePart, ResultsMeetTheirCalls
<1> QED BY <1>1, <1>2, <1>3, PTL DEF Spec
=============================================================================
