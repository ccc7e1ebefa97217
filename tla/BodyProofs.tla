----------------------------- MODULE BodyProofs -----------------------------
(* The core alone: no lost stop and no lost wake-up, whatever files the     *)
(* host may write (Spec).  The row its processes share: it tells the core   *)
(* (BodySpec).                                                              *)
EXTENDS Body, SequenceTheorems, TLAPS

\* The events mirror the flags.
WaitersInStep ==
    /\ stopEvent <=> "stopped" \in flags
    /\ resumeEvent <=> Unheld(flags)

ControlInv == TypeOK /\ WaitersInStep /\ NoLostStop /\ NoLostWake

LEMMA InitControlInv == Init => ControlInv
<1> SUFFICES ASSUME Init PROVE ControlInv
  OBVIOUS
<1>1. flags \subseteq Flags /\ "stopped" \notin flags
  BY DEF Init, Inherited, Flags, Holds
<1>2. WaitersInStep
  BY <1>1 DEF Init, WaitersInStep, Unheld
<1>3. TypeOK
  BY <1>1 DEF Init, TypeOK
<1>4. QED
  BY <1>2, <1>3 DEF Init, ControlInv, NoLostStop, NoLostWake

LEMMA FlagsReadType == TypeOK => FlagsRead \subseteq Flags /\ FilesStanding \subseteq {"stop", "hold"}
  BY HostFilesAssumption
  DEF TypeOK, FlagsRead, StopRead, HoldRead, Flags, Holds, FilesStanding

LEMMA VerbType ==
  ASSUME NEW v \in AllVerbs
  PROVE  Raises(v) \subseteq Flags /\ Lowers(v) \subseteq Flags
  BY DEF AllVerbs, Raises, Lowers, Flags, Holds

\* What _after_change leaves behind, whichever of its branches it takes.
LEMMA AfterChange ==
  ASSUME ControlInv, _after_change(flags, flags')
  PROVE  /\ WaitersInStep'
         /\ stopEvent' \in BOOLEAN /\ resumeEvent' \in BOOLEAN
         /\ wakeEvent' \in BOOLEAN /\ asked' \in BOOLEAN
         /\ flags' # flags => wakeEvent'
         /\ loop = "cycling" /\ "stopped" \in flags' => asked'
         /\ flags' = flags => wakeEvent' = wakeEvent
<1>1. CASE flags' = flags
  <2>1. UNCHANGED <<flags, stopEvent, resumeEvent, wakeEvent, asked>>
    BY <1>1 DEF _after_change
  <2>2. QED
    BY <2>1 DEF ControlInv, TypeOK, WaitersInStep, NoLostStop
<1>2. CASE flags' # flags
  <2>1. stopEvent' = ("stopped" \in flags')
    BY <1>2 DEF _after_change
  <2>2. resumeEvent' = Unheld(flags')
    BY <1>2 DEF _after_change
  <2>3. wakeEvent' = TRUE
    BY <1>2 DEF _after_change
  <2>4. asked' = (asked \/ (loop = "cycling" /\ "stopped" \in flags'))
    BY <1>2 DEF _after_change
  <2>5. stopEvent' \in BOOLEAN /\ resumeEvent' \in BOOLEAN /\ asked' \in BOOLEAN
    BY <2>1, <2>2, <2>4 DEF Unheld
  <2>6. WaitersInStep'
    BY <2>1, <2>2 DEF WaitersInStep, Unheld
  <2>7. loop = "cycling" /\ "stopped" \in flags' => asked'
    BY <2>4
  <2>8. QED
    BY <1>2, <2>3, <2>5, <2>6, <2>7
<1>3. QED
  BY <1>1, <1>2

LEMMA StepControlInv == ControlInv /\ [Next]_vars => ControlInv'
<1> SUFFICES ASSUME ControlInv, [Next]_vars PROVE ControlInv'
  OBVIOUS
<1> USE DEF ControlInv
<1>1. ASSUME NEW v \in AllVerbs, apply_command(v) PROVE ControlInv'
  <2>1. (flags \subseteq Flags /\ pressed \subseteq Flags)'
    BY <1>1, VerbType DEF apply_command, Merge, TypeOK
  <2>2. QED
    BY <1>1, <2>1, AfterChange
    DEF apply_command, TypeOK, NoLostStop, NoLostWake, StillParked
<1>2. CASE end
  <2>1. (flags \subseteq Flags /\ pressed \subseteq Flags)'
    BY <1>2 DEF end, Unheld, TypeOK, Flags
  <2>2. QED
    BY <1>2, <2>1 DEF end, Unheld, TypeOK, WaitersInStep, NoLostStop, NoLostWake
<1>3. CASE HostMoves
  BY <1>3, HostFilesAssumption
  DEF HostMoves, TypeOK, WaitersInStep, NoLostStop, NoLostWake, StillParked,
      controlVars, loopVars
<1>4. CASE Top
  <2>1. (flags \subseteq Flags /\ fromFile \subseteq {"stop", "hold"})'
    BY <1>4, FlagsReadType DEF Top, _apply_files
  <2>2. /\ loop' \in {"cycling", "parked", "parked_stopped", "left"}
        /\ loop' = "cycling" => "stopped" \notin flags'
        /\ loop' \in {"parked", "parked_stopped"} => StillParked(flags)'
    BY <1>4 DEF Top, NextPass, StillParked, _apply_files
  <2>3. QED
    BY <1>4, <2>1, <2>2, AfterChange
    DEF Top, _apply_files, TypeOK, NoLostStop, NoLostWake
<1>5. ASSUME NEW woken \in BOOLEAN, ParkedPass(woken) PROVE ControlInv'
  <2>1. (flags \subseteq Flags /\ fromFile \subseteq {"stop", "hold"})'
    BY <1>5, FlagsReadType DEF ParkedPass, _apply_files
  <2>2. /\ WaitersInStep'
        /\ stopEvent' \in BOOLEAN /\ resumeEvent' \in BOOLEAN
        /\ wakeEvent' \in BOOLEAN /\ asked' \in BOOLEAN
    <3>1. CASE flags' = flags
      BY <1>5, <3>1 DEF ParkedPass, WaitersInStep, TypeOK
    <3>2. CASE flags' # flags
      BY <1>5, <3>2, AfterChange DEF ParkedPass
    <3>3. QED
      BY <3>1, <3>2
  <2>3. /\ loop' \in {"top", "parked", "parked_stopped"}
        /\ loop' \in {"parked", "parked_stopped"} => StillParked(flags)'
    BY <1>5 DEF ParkedPass, StillParked, _apply_files
  <2>4. QED
    BY <1>5, <2>1, <2>2, <2>3
    DEF ParkedPass, _apply_files, TypeOK, NoLostStop, NoLostWake
<1>6. CASE GateAdmits \/ RunTool \/ ToolEnds
  <2>1. UNCHANGED <<controlVars, files, loop, asked>>
        /\ tool' \in {"none", "reviewing", "running"}
    BY <1>6 DEF GateAdmits, RunTool, ToolEnds
  <2>2. TypeOK'
    BY <2>1 DEF TypeOK, controlVars
  <2>3. WaitersInStep' /\ NoLostStop' /\ NoLostWake'
    BY <2>1 DEF WaitersInStep, Unheld, NoLostStop, NoLostWake, StillParked,
                controlVars
  <2>4. QED
    BY <2>2, <2>3
<1>7. CASE CycleEnds \/ CutCycle
  <2>1. LeaveCycle
    BY <1>7 DEF CycleEnds, CutCycle
  <2>2. TypeOK'
    BY <2>1 DEF TypeOK, LeaveCycle, controlVars
  <2>3. WaitersInStep' /\ NoLostStop' /\ NoLostWake'
    BY <2>1 DEF LeaveCycle, WaitersInStep, Unheld, NoLostStop, NoLostWake,
                controlVars
  <2>4. QED
    BY <2>2, <2>3
<1>8. CASE UNCHANGED vars
  BY <1>8 DEF vars, controlVars, loopVars, TypeOK, WaitersInStep, NoLostStop,
              NoLostWake, StillParked
<1>9. QED
  BY <1>1, <1>2, <1>3, <1>4, <1>5, <1>6, <1>7, <1>8
  DEF Next, LoopStep, Woken, Heartbeat

\* The flags, events and the life loop keep their types.
THEOREM ControlTypeCorrect == Spec => []TypeOK
<1>1. ControlInv => TypeOK
  BY DEF ControlInv
<1>2. QED
  BY InitControlInv, StepControlInv, <1>1, PTL DEF Spec

\* A stop always arms the waiter that cuts the cycle it was pressed in.
THEOREM StopIsNeverLost == Spec => []NoLostStop
<1>1. ControlInv => NoLostStop
  BY DEF ControlInv
<1>2. QED
  BY InitControlInv, StepControlInv, <1>1, PTL DEF Spec

\* A parked loop that may go on always has a wake-up pending.
THEOREM WakeIsNeverLost == Spec => []NoLostWake
<1>1. ControlInv => NoLostWake
  BY DEF ControlInv
<1>2. QED
  BY InitControlInv, StepControlInv, <1>1, PTL DEF Spec

-----------------------------------------------------------------------------
(* The shared row: module ControlRow. *)

\* What a verb does to one flag: raise it, lower it, or leave it alone.
Ways == {"up", "down"}
Says(v, x, w) == x \in (IF w = "up" THEN Row!Raises(v) ELSE Row!Lowers(v))
Touches(v, x) == \E w \in Ways : Says(v, x, w)
Stands(S, x, w) == IF w = "up" THEN x \in S ELSE x \notin S
\* No verb of q touches the flag, or the last one that does says w of it.
Clear(q, x) == \A i \in 1 .. Len(q) : ~Touches(q[i], x)
Ends(q, x, w) == \E i \in 1 .. Len(q) : Says(q[i], x, w) /\ \A j \in 1 .. Len(q) : j > i => ~Touches(q[j], x)

RowTyped ==
    /\ row \subseteq Row!Flags /\ presses \in 0 .. MaxPresses
    /\ pressing \subseteq (1 .. MaxPresses) \X Verbs
    /\ inbox \in [Row!Procs -> Seq(Verbs)]
    /\ row_flags \in [Row!Procs -> SUBSET Row!Flags]
    /\ phase \in [Row!Procs -> {"down", "deaf", "loaded", "ready"}]
    /\ saving \in [Row!Procs -> Verbs \cup {Row!Full, Row!None}]
    /\ crashes \in 0 .. MaxCrashes /\ overlapped \in BOOLEAN
    /\ saving["core"] = Row!Full => phase["core"] = "loaded"
    /\ saving["toolhost"] # Row!Full
\* What the core is writing it has read itself as.
CoreWrites == saving["core"] \in Verbs =>
    \A x \in Row!Flags, w \in Ways : Says(saving["core"], x, w) => Stands(row_flags["core"], x, w)
\* Whatever the toolhost has yet to write comes to what the core will read itself as.
ToolhostOwes(x, w) ==
    \/ Ends(inbox["toolhost"], x, w)
    \/ Clear(inbox["toolhost"], x) /\ saving["toolhost"] \in Verbs /\ Says(saving["toolhost"], x, w)
CoreComesTo(x, w) ==
    \/ Ends(inbox["core"], x, w)
    \/ Clear(inbox["core"], x) /\ Stands(row_flags["core"], x, w)
SameEnd == \A x \in Row!Flags, w \in Ways : ToolhostOwes(x, w) => CoreComesTo(x, w)
\* A flag that no verb under way touches stands in the row as it does in the core.
Settled(x) ==
    /\ \A p \in pressing : ~Touches(p[2], x)
    /\ \A p \in Row!Procs : Clear(inbox[p], x) /\ (saving[p] \in Verbs => ~Touches(saving[p], x))
RowFollows == phase["core"] = "ready" =>
    \A x \in Row!Flags : Settled(x) => (x \in row <=> x \in row_flags["core"])
InOrder == (Row!UnderWay => Row!AllUp) /\ CoreWrites /\ SameEnd /\ RowFollows
RowInv == RowTyped /\ Row!EmergencyHolds /\ (~overlapped => InOrder)

LEMMA RowConstants == Verbs \subseteq Row!AllVerbs /\ MaxPresses \in Nat /\ MaxCrashes \in Nat
  BY BodyAssumption DEF BodyAssumption, Row!RowAssumption

LEMMA NoVerb == Row!Full \notin Verbs /\ Row!None \notin Verbs /\ Row!Full # Row!None
  BY RowConstants DEF Row!AllVerbs, Row!Full, Row!None

\* No verb raises and lowers the same flag.
LEMMA OneWay == \A v \in Verbs, x \in Row!Flags : ~(Says(v, x, "up") /\ Says(v, x, "down"))
  BY RowConstants DEF Says, Row!Raises, Row!Lowers, Row!AllVerbs, Row!Flags, Row!Holds

LEMMA MergeSays ==
    ASSUME NEW v \in Verbs, NEW S, NEW x \in Row!Flags, NEW w \in Ways, Says(v, x, w)
    PROVE  Stands(Row!Merge(v, S), x, w)
  BY OneWay DEF Says, Stands, Row!Merge, Ways

LEMMA MergeLeaves ==
    ASSUME NEW v \in Verbs, NEW S, NEW x \in Row!Flags, ~Touches(v, x)
    PROVE  x \in Row!Merge(v, S) <=> x \in S
  BY DEF Touches, Says, Row!Merge, Ways

LEMMA MergeTyped ==
    ASSUME NEW v \in Verbs, NEW S, S \subseteq Row!Flags PROVE Row!Merge(v, S) \subseteq Row!Flags
  BY RowConstants DEF Row!Merge, Row!Raises, Row!AllVerbs, Row!Flags, Row!Holds

\* An emergency holds thought and action, whatever verb is merged.
Holding(S) == "emergency" \in S => Row!Holds \subseteq S
LEMMA MergeHolds ==
    ASSUME NEW v \in Verbs, NEW S, Holding(S) PROVE Holding(Row!Merge(v, S))
  BY RowConstants DEF Holding, Row!Merge, Row!Raises, Row!Lowers, Row!AllVerbs, Row!Flags, Row!Holds

\* One verb more at the end.
LEMMA OneMoreVerb ==
    ASSUME NEW q \in Seq(Verbs), NEW v \in Verbs, NEW r, r = Append(q, v), NEW x \in Row!Flags, NEW w \in Ways
    PROVE  /\ r \in Seq(Verbs)
           /\ Clear(r, x) => Clear(q, x) /\ ~Touches(v, x)
           /\ Clear(q, x) /\ ~Touches(v, x) => Clear(r, x)
           /\ Says(v, x, w) => Ends(r, x, w)
           /\ ~Touches(v, x) /\ Ends(q, x, w) => Ends(r, x, w)
           /\ Ends(r, x, w) => Says(v, x, w) \/ (~Touches(v, x) /\ Ends(q, x, w))
<1>1. /\ r \in Seq(Verbs) /\ Len(r) = Len(q) + 1 /\ Len(q) \in Nat /\ r[Len(q) + 1] = v
      /\ \A i \in 1 .. Len(q) : r[i] = q[i]
  BY AppendProperties, LenProperties
<1>2. PICK n \in Nat : n = Len(q)
  BY <1>1
<1>3. Says(v, x, w) => Touches(v, x)
  BY DEF Touches
<1>4. Clear(r, x) => Clear(q, x) /\ ~Touches(v, x)
  BY <1>1, <1>2 DEF Clear
<1>5. Clear(q, x) /\ ~Touches(v, x) => Clear(r, x)
  <2> SUFFICES ASSUME Clear(q, x), ~Touches(v, x), NEW i \in 1 .. n + 1 PROVE ~Touches(r[i], x)
    BY <1>1, <1>2 DEF Clear
  <2>1. i \in 1 .. n \/ i = n + 1
    BY <1>2
  <2> QED BY <1>1, <1>2, <2>1 DEF Clear
<1>6. Says(v, x, w) => Ends(r, x, w)
  BY <1>1, <1>2 DEF Ends
<1>7. ~Touches(v, x) /\ Ends(q, x, w) => Ends(r, x, w)
  <2> SUFFICES ASSUME ~Touches(v, x), Ends(q, x, w) PROVE Ends(r, x, w)
    OBVIOUS
  <2>1. PICK i \in 1 .. n : Says(q[i], x, w) /\ \A j \in 1 .. n : j > i => ~Touches(q[j], x)
    BY <1>2 DEF Ends
  <2>2. i \in 1 .. n + 1 /\ Says(r[i], x, w)
    BY <1>1, <1>2, <2>1
  <2>3. ASSUME NEW j \in 1 .. n + 1, j > i PROVE ~Touches(r[j], x)
    <3>1. j \in 1 .. n \/ j = n + 1
      BY <1>2
    <3> QED BY <1>1, <1>2, <2>1, <2>3, <3>1
  <2> QED BY <1>1, <1>2, <2>2, <2>3 DEF Ends
<1>8. Ends(r, x, w) => Says(v, x, w) \/ (~Touches(v, x) /\ Ends(q, x, w))
  <2> SUFFICES ASSUME Ends(r, x, w), ~Says(v, x, w) PROVE ~Touches(v, x) /\ Ends(q, x, w)
    OBVIOUS
  <2>1. PICK i \in 1 .. n + 1 : Says(r[i], x, w) /\ \A j \in 1 .. n + 1 : j > i => ~Touches(r[j], x)
    BY <1>1, <1>2 DEF Ends
  <2>2. i \in 1 .. n
    <3>1. i # n + 1
      BY <1>1, <1>2, <2>1
    <3> QED BY <1>2, <3>1
  <2>3. ~Touches(v, x)
    <3>1. n + 1 \in 1 .. n + 1 /\ n + 1 > i
      BY <2>2
    <3> QED BY <1>1, <1>2, <2>1, <3>1
  <2>4. Says(q[i], x, w)
    BY <1>1, <1>2, <2>1, <2>2
  <2>5. ASSUME NEW j \in 1 .. n, j > i PROVE ~Touches(q[j], x)
    <3>1. j \in 1 .. n + 1
      OBVIOUS
    <3> QED BY <1>1, <1>2, <2>1, <2>5, <3>1
  <2> QED BY <1>2, <2>2, <2>3, <2>4, <2>5 DEF Ends
<1> QED BY <1>1, <1>4, <1>5, <1>6, <1>7, <1>8

\* The first verb leaves.
LEMMA FirstVerbLeaves ==
    ASSUME NEW q \in Seq(Verbs), q # << >>, NEW h, h = Head(q), NEW r, r = Tail(q), NEW x \in Row!Flags, NEW w \in Ways
    PROVE  /\ r \in Seq(Verbs) /\ h \in Verbs
           /\ Clear(q, x) => Clear(r, x) /\ ~Touches(h, x)
           /\ Clear(r, x) /\ ~Touches(h, x) => Clear(q, x)
           /\ Ends(r, x, w) => Ends(q, x, w)
           /\ Clear(r, x) /\ Says(h, x, w) => Ends(q, x, w)
           /\ Ends(q, x, w) => Ends(r, x, w) \/ (Clear(r, x) /\ Says(h, x, w))
<1>1. /\ r \in Seq(Verbs) /\ Len(r) = Len(q) - 1 /\ Len(q) \in Nat /\ Len(q) > 0
      /\ \A i \in 1 .. Len(q) - 1 : r[i] = q[i + 1]
  BY HeadTailProperties, LenProperties, EmptySeq
<1>2. h = q[1] /\ h \in Verbs
  BY HeadTailProperties
<1>a. PICK n \in Nat : n = Len(r)
  BY <1>1, LenProperties
<1>3. n + 1 = Len(q) /\ n = Len(r)
  BY <1>1, <1>a
<1>4. \A i \in 1 .. n : r[i] = q[i + 1] /\ i + 1 \in 1 .. n + 1
  BY <1>1, <1>3
<1>5. Says(h, x, w) => Touches(h, x)
  BY DEF Touches
<1>6. Clear(q, x) => Clear(r, x) /\ ~Touches(h, x)
  <2>1. 1 \in 1 .. n + 1
    BY <1>3
  <2> QED BY <1>2, <1>3, <1>4, <2>1 DEF Clear
<1>7. \A j \in 1 .. n + 1 : j = 1 \/ \E k \in 1 .. n : j = k + 1 /\ r[k] = q[j]
  <2> TAKE j \in 1 .. n + 1
  <2>1. j = 1 \/ (j - 1 \in 1 .. n /\ j = j - 1 + 1)
    OBVIOUS
  <2>2. j = 1 \/ \E k \in 1 .. n : j = k + 1
    BY <2>1
  <2> QED BY <1>4, <2>2
<1>8. Clear(r, x) /\ ~Touches(h, x) => Clear(q, x)
  BY <1>2, <1>3, <1>7 DEF Clear
<1>9. Ends(r, x, w) => Ends(q, x, w)
  <2> SUFFICES ASSUME Ends(r, x, w) PROVE Ends(q, x, w)
    OBVIOUS
  <2>1. PICK i \in 1 .. n : Says(r[i], x, w) /\ \A j \in 1 .. n : j > i => ~Touches(r[j], x)
    BY <1>3 DEF Ends
  <2>2. i + 1 \in 1 .. n + 1 /\ Says(q[i + 1], x, w)
    BY <1>4, <2>1
  <2>3. ASSUME NEW j \in 1 .. n + 1, j > i + 1 PROVE ~Touches(q[j], x)
    <3>0. j # 1
      BY <2>3
    <3>1. PICK k \in 1 .. n : j = k + 1 /\ r[k] = q[j]
      BY <1>7, <3>0
    <3>2. k > i
      BY <2>3, <3>1
    <3> QED BY <2>1, <3>1, <3>2
  <2> QED BY <1>3, <2>2, <2>3 DEF Ends
<1>10. Clear(r, x) /\ Says(h, x, w) => Ends(q, x, w)
  <2> SUFFICES ASSUME Clear(r, x), Says(h, x, w) PROVE Ends(q, x, w)
    OBVIOUS
  <2>1. ASSUME NEW j \in 1 .. n + 1, j > 1 PROVE ~Touches(q[j], x)
    <3>0. j # 1
      BY <2>1
    <3>1. PICK k \in 1 .. n : j = k + 1 /\ r[k] = q[j]
      BY <1>7, <3>0
    <3> QED BY <1>3, <3>1 DEF Clear
  <2>2. 1 \in 1 .. n + 1 /\ Says(q[1], x, w)
    BY <1>2, <1>3
  <2> QED BY <1>3, <2>1, <2>2 DEF Ends
<1>11. Ends(q, x, w) => Ends(r, x, w) \/ (Clear(r, x) /\ Says(h, x, w))
  <2> SUFFICES ASSUME Ends(q, x, w) PROVE Ends(r, x, w) \/ (Clear(r, x) /\ Says(h, x, w))
    OBVIOUS
  <2>1. PICK i \in 1 .. n + 1 : Says(q[i], x, w) /\ \A j \in 1 .. n + 1 : j > i => ~Touches(q[j], x)
    BY <1>3 DEF Ends
  <2>2. CASE i = 1
    <3>1. ASSUME NEW j \in 1 .. n PROVE ~Touches(r[j], x)
      <4>1. j + 1 \in 1 .. n + 1 /\ j + 1 > i
        BY <2>2
      <4> QED BY <1>4, <2>1, <4>1
    <3> QED BY <1>2, <1>3, <2>1, <2>2, <3>1 DEF Clear
  <2>3. CASE i # 1
    <3>1. PICK k \in 1 .. n : i = k + 1 /\ r[k] = q[i]
      BY <1>7, <2>3
    <3>2. ASSUME NEW j \in 1 .. n, j > k PROVE ~Touches(r[j], x)
      <4>1. j + 1 \in 1 .. n + 1 /\ j + 1 > i
        BY <3>1, <3>2
      <4> QED BY <1>4, <2>1, <4>1
    <3> QED BY <1>3, <2>1, <3>1, <3>2 DEF Ends
  <2> QED BY <2>2, <2>3
<1> QED BY <1>1, <1>2, <1>6, <1>8, <1>9, <1>10, <1>11

\* A step under which nothing is under way afterwards keeps what is promised of an
\* up and ordered row, but that the core follows it.
LEMMA NothingOwed ==
    ASSUME RowTyped, ~Row!UnderWay
    PROVE  /\ CoreWrites /\ SameEnd
           /\ \A x \in Row!Flags : Settled(x)
<1>1. pressing = {} /\ \A p \in Row!Procs : inbox[p] = << >> /\ saving[p] \notin Verbs
  BY DEF Row!UnderWay
<1>2. inbox["core"] = << >> /\ inbox["toolhost"] = << >> /\ saving["core"] \notin Verbs /\ saving["toolhost"] \notin Verbs
  BY <1>1 DEF Row!Procs
<1>3. Len(<< >>) = 0
  OBVIOUS
<1>4. CoreWrites
  BY <1>2 DEF CoreWrites
<1>5. SameEnd
  BY <1>2, <1>3 DEF SameEnd, ToolhostOwes, Ends
<1>6. \A x \in Row!Flags : Settled(x)
  BY <1>1, <1>3 DEF Settled, Clear
<1> QED BY <1>4, <1>5, <1>6

LEMMA BothAre == "core" \in Row!Procs /\ "toolhost" \in Row!Procs /\ \A p \in Row!Procs : p = "core" \/ p = "toolhost"
  BY DEF Row!Procs

LEMMA PressStep == ASSUME RowInv, NEW v \in Verbs, Row!Press(v) PROVE RowInv'
<1>0. RowTyped /\ Row!EmergencyHolds
  BY DEF RowInv
<1>1. /\ presses < MaxPresses /\ presses' = presses + 1 /\ row' = Row!Merge(v, row)
      /\ pressing' = pressing \cup {<<presses + 1, v>>}
      /\ UNCHANGED <<inbox, row_flags, phase, saving, crashes>> /\ Row!Watch
  BY DEF Row!Press
<1>2. RowTyped'
  <2>1. presses + 1 \in 1 .. MaxPresses
    BY <1>0, <1>1, RowConstants DEF RowTyped
  <2>2. row' \subseteq Row!Flags
    BY <1>0, <1>1, MergeTyped DEF RowTyped
  <2>3. pressing' \subseteq (1 .. MaxPresses) \X Verbs
    BY <1>0, <1>1, <2>1 DEF RowTyped
  <2>4. overlapped' \in BOOLEAN
    BY <1>0, <1>1 DEF Row!Watch, RowTyped, Row!UnderWay, Row!AllUp
  <2> QED BY <1>0, <1>1, <2>1, <2>2, <2>3, <2>4 DEF RowTyped
<1>3. Row!EmergencyHolds'
  BY <1>0, <1>1, MergeHolds DEF Row!EmergencyHolds, Holding
<1>4. ASSUME ~overlapped' PROVE InOrder'
  <2>1. ~overlapped /\ (Row!UnderWay' => Row!AllUp')
    BY <1>1, <1>4 DEF Row!Watch
  <2>2. InOrder
    BY <2>1 DEF RowInv
  <2>3. CoreWrites' /\ SameEnd'
    BY <1>1, <2>2 DEF InOrder, CoreWrites, SameEnd, ToolhostOwes, CoreComesTo
  <2>4. ASSUME NEW x \in Row!Flags, Settled(x)', phase["core"] = "ready" PROVE x \in row' <=> x \in row_flags["core"]
    <3>1. ~Touches(v, x)
      <4>1. <<presses + 1, v>> \in pressing' /\ <<presses + 1, v>>[2] = v
        BY <1>1
      <4> QED BY <2>4, <4>1 DEF Settled
    <3>2. Settled(x)
      BY <1>1, <2>4 DEF Settled
    <3>3. x \in row <=> x \in row_flags["core"]
      BY <2>2, <2>4, <3>2 DEF InOrder, RowFollows
    <3> QED BY <1>1, <3>1, <3>3, MergeLeaves
  <2> QED BY <1>1, <2>1, <2>3, <2>4 DEF InOrder, RowFollows
<1> QED BY <1>2, <1>3, <1>4 DEF RowInv

LEMMA PublishStep == ASSUME RowInv, Row!Publish PROVE RowInv'
<1>0. RowTyped /\ Row!EmergencyHolds
  BY DEF RowInv
<1>1. PICK press \in pressing :
        /\ pressing' = pressing \ {press}
        /\ inbox' = [p \in Row!Procs |-> IF Row!Listening(p) THEN Append(inbox[p], press[2]) ELSE inbox[p]]
        /\ UNCHANGED <<row, presses, row_flags, phase, saving, crashes>> /\ Row!Watch
  BY DEF Row!Publish
<1>2. PICK v \in Verbs : v = press[2]
  BY <1>0 DEF RowTyped
<1>3. \A p \in Row!Procs : inbox[p] \in Seq(Verbs) /\ Append(inbox[p], v) \in Seq(Verbs)
  BY <1>0, AppendProperties DEF RowTyped
<1>4. RowTyped'
  <2>1. inbox' \in [Row!Procs -> Seq(Verbs)]
    BY <1>1, <1>2, <1>3
  <2>2. overlapped' \in BOOLEAN
    BY <1>0, <1>1 DEF Row!Watch, RowTyped, Row!UnderWay, Row!AllUp
  <2> QED BY <1>0, <1>1, <2>1, <2>2 DEF RowTyped
<1>5. Row!EmergencyHolds'
  BY <1>0, <1>1 DEF Row!EmergencyHolds
<1>6. ASSUME ~overlapped' PROVE InOrder'
  <2>1. ~overlapped /\ (Row!UnderWay' => Row!AllUp') /\ Row!UnderWay
    BY <1>1, <1>6 DEF Row!Watch, Row!UnderWay
  <2>2. InOrder /\ Row!AllUp
    BY <2>1 DEF RowInv, InOrder
  <2>3. PICK c : c = inbox["core"]
    OBVIOUS
  <2>4. PICK t : t = inbox["toolhost"]
    OBVIOUS
  <2>5. PICK c2 : c2 = Append(c, v)
    OBVIOUS
  <2>6. PICK t2 : t2 = Append(t, v)
    OBVIOUS
  <2>7. inbox'["core"] = c2 /\ inbox'["toolhost"] = t2
    BY <1>1, <1>2, <2>2, <2>3, <2>4, <2>5, <2>6, BothAre DEF Row!AllUp, Row!Listening
  <2>8. c \in Seq(Verbs) /\ t \in Seq(Verbs)
    BY <1>3, <2>3, <2>4, BothAre
  <2>9. CoreWrites'
    BY <1>1, <2>2 DEF InOrder, CoreWrites
  <2>10. ASSUME NEW x \in Row!Flags, NEW w \in Ways, ToolhostOwes(x, w)' PROVE CoreComesTo(x, w)'
    <3>1. /\ Says(v, x, w) => Ends(c2, x, w)
          /\ ~Touches(v, x) /\ Ends(c, x, w) => Ends(c2, x, w)
          /\ Clear(c, x) /\ ~Touches(v, x) => Clear(c2, x)
      BY <2>5, <2>8, OneMoreVerb
    <3>2. /\ Ends(t2, x, w) => Says(v, x, w) \/ (~Touches(v, x) /\ Ends(t, x, w))
          /\ Clear(t2, x) => Clear(t, x) /\ ~Touches(v, x)
      BY <2>6, <2>8, OneMoreVerb
    <3>3. Ends(t2, x, w) \/ (Clear(t2, x) /\ saving["toolhost"] \in Verbs /\ Says(saving["toolhost"], x, w))
      BY <1>1, <2>7, <2>10 DEF ToolhostOwes
    <3>4. Says(v, x, w) \/ (~Touches(v, x) /\ ToolhostOwes(x, w))
      BY <2>4, <3>2, <3>3 DEF ToolhostOwes
    <3>5. CASE Says(v, x, w)
      BY <2>7, <3>1, <3>5 DEF CoreComesTo
    <3>6. CASE ~Touches(v, x) /\ ToolhostOwes(x, w)
      <4>1. Ends(c, x, w) \/ (Clear(c, x) /\ Stands(row_flags["core"], x, w))
        BY <2>2, <2>3, <3>6 DEF InOrder, SameEnd, CoreComesTo
      <4>2. Ends(c2, x, w) \/ (Clear(c2, x) /\ Stands(row_flags["core"], x, w))
        BY <3>1, <3>6, <4>1
      <4> QED BY <1>1, <2>7, <4>2 DEF CoreComesTo
    <3> QED BY <3>4, <3>5, <3>6
  <2>11. ASSUME NEW x \in Row!Flags, Settled(x)', phase["core"] = "ready" PROVE x \in row <=> x \in row_flags["core"]
    <3>1. Clear(c2, x) /\ Clear(t2, x)
      BY <2>7, <2>11, BothAre DEF Settled
    <3>2. Clear(c, x) /\ Clear(t, x) /\ ~Touches(v, x)
      <4>1. Clear(c2, x) => Clear(c, x) /\ ~Touches(v, x)
        BY <2>5, <2>8, OneMoreVerb DEF Ways
      <4>2. Clear(t2, x) => Clear(t, x)
        BY <2>6, <2>8, OneMoreVerb DEF Ways
      <4> QED BY <3>1, <4>1, <4>2
    <3>3. \A p \in pressing : ~Touches(p[2], x)
      BY <1>1, <1>2, <2>11, <3>2 DEF Settled
    <3>4. \A p \in Row!Procs : Clear(inbox[p], x) /\ (saving[p] \in Verbs => ~Touches(saving[p], x))
      BY <1>1, <2>3, <2>4, <2>11, <3>2, BothAre DEF Settled
    <3>5. Settled(x)
      BY <3>3, <3>4 DEF Settled
    <3> QED BY <2>2, <2>11, <3>5 DEF InOrder, RowFollows
  <2> QED BY <1>1, <2>1, <2>9, <2>10, <2>11 DEF InOrder, SameEnd, RowFollows
<1> QED BY <1>4, <1>5, <1>6 DEF RowInv

\* A step after which a process is not up: in good order nothing is under way then.
LEMMA StepOfOneNotUp ==
    ASSUME RowInv, RowTyped', Row!EmergencyHolds', Row!Watch, ~Row!AllUp',
           phase'["core"] = "ready" => /\ phase["core"] = "ready" /\ UNCHANGED row
                                       /\ row_flags'["core"] = row_flags["core"]
    PROVE  RowInv'
<1> SUFFICES ASSUME ~overlapped' PROVE InOrder'
  BY DEF RowInv
<1>1. ~overlapped /\ ~Row!UnderWay /\ ~Row!UnderWay'
  BY DEF Row!Watch
<1>2. InOrder /\ RowTyped
  BY <1>1 DEF RowInv
<1>3. \A x \in Row!Flags : Settled(x)
  BY <1>1, <1>2, NothingOwed
<1>4. CoreWrites' /\ SameEnd'
  <2>1. pressing' = {} /\ \A p \in Row!Procs : inbox'[p] = << >> /\ saving'[p] \notin Verbs
    BY <1>1 DEF Row!UnderWay
  <2>2. inbox'["toolhost"] = << >> /\ saving'["core"] \notin Verbs /\ saving'["toolhost"] \notin Verbs
    BY <2>1, BothAre
  <2> QED BY <2>2 DEF CoreWrites, SameEnd, ToolhostOwes, Ends
<1>5. RowFollows'
  BY <1>2, <1>3 DEF RowFollows, InOrder
<1> QED BY <1>1, <1>4, <1>5 DEF InOrder

LEMMA StaysBoolean == ASSUME RowTyped, Row!Watch PROVE overlapped' \in BOOLEAN
  BY DEF Row!Watch, RowTyped, Row!UnderWay, Row!AllUp

LEMMA StartingStep ==
    ASSUME RowInv, Row!BusStart \/ Row!DispatchToNobody \/ \E p \in Row!Procs : Row!load(p) \/ Row!Crash(p)
    PROVE  RowInv'
<1>0. RowTyped /\ Row!EmergencyHolds
  BY DEF RowInv
<1>1. CASE Row!BusStart
  <2>1. /\ phase["core"] = "down" /\ phase' = [phase EXCEPT !["core"] = "deaf"]
        /\ UNCHANGED <<row, pressing, presses, inbox, row_flags, saving, crashes>> /\ Row!Watch
    BY <1>1 DEF Row!BusStart
  <2>2. phase' \in [Row!Procs -> {"down", "deaf", "loaded", "ready"}] /\ phase'["core"] = "deaf"
    BY <1>0, <2>1, BothAre DEF RowTyped
  <2>3. RowTyped' /\ Row!EmergencyHolds'
    BY <1>0, <2>1, <2>2, StaysBoolean DEF RowTyped, Row!EmergencyHolds, Row!Full
  <2>4. ~Row!AllUp'
    BY <2>2, BothAre DEF Row!AllUp
  <2> QED BY <2>1, <2>2, <2>3, <2>4, StepOfOneNotUp
<1>2. CASE Row!DispatchToNobody
  <2>1. /\ phase["core"] \in {"deaf", "loaded"} /\ inbox["core"] # << >>
        /\ inbox' = [inbox EXCEPT !["core"] = Tail(inbox["core"])]
        /\ UNCHANGED <<row, pressing, presses, row_flags, phase, saving, crashes>> /\ Row!Watch
    BY <1>2 DEF Row!DispatchToNobody
  <2>2. inbox' \in [Row!Procs -> Seq(Verbs)]
    <3>1. inbox["core"] \in Seq(Verbs)
      BY <1>0, BothAre DEF RowTyped
    <3>2. Tail(inbox["core"]) \in Seq(Verbs)
      BY <2>1, <3>1, HeadTailProperties
    <3> QED BY <1>0, <2>1, <3>2 DEF RowTyped
  <2>3. RowTyped' /\ Row!EmergencyHolds'
    BY <1>0, <2>1, <2>2, StaysBoolean DEF RowTyped, Row!EmergencyHolds
  <2>4. ~Row!AllUp'
    BY <2>1, BothAre DEF Row!AllUp
  <2> QED BY <2>1, <2>3, <2>4, StepOfOneNotUp
<1>3. ASSUME NEW p \in Row!Procs, Row!load(p) PROVE RowInv'
  <2>1. /\ phase[p] = IF p = "core" THEN "deaf" ELSE "down"
        /\ row_flags' = [row_flags EXCEPT ![p] = row \ {"stopped"}] /\ phase' = [phase EXCEPT ![p] = "loaded"]
        /\ saving' = [saving EXCEPT ![p] = IF p = "core" THEN Row!Full ELSE Row!None]
        /\ UNCHANGED <<row, pressing, presses, inbox, crashes>> /\ Row!Watch
    BY <1>3 DEF Row!load
  <2>2. /\ phase' \in [Row!Procs -> {"down", "deaf", "loaded", "ready"}] /\ phase'[p] = "loaded"
        /\ row_flags' \in [Row!Procs -> SUBSET Row!Flags]
        /\ saving' \in [Row!Procs -> Verbs \cup {Row!Full, Row!None}]
    BY <1>0, <2>1 DEF RowTyped
  <2>3. /\ saving'["core"] = Row!Full => phase'["core"] = "loaded"
        /\ saving'["toolhost"] # Row!Full
    BY <1>0, <2>1, BothAre, NoVerb DEF RowTyped
  <2>4. RowTyped'
    BY <1>0, <2>1, <2>2, <2>3, StaysBoolean DEF RowTyped
  <2>5. Row!EmergencyHolds'
    <3>1. Holding(row \ {"stopped"})
      BY <1>0 DEF Row!EmergencyHolds, Holding, Row!Holds
    <3> QED BY <1>0, <2>1, <3>1 DEF Row!EmergencyHolds, Holding, RowTyped
  <2>6. ~Row!AllUp'
    BY <2>2 DEF Row!AllUp
  <2>7. phase'["core"] = "ready" => phase["core"] = "ready" /\ row_flags'["core"] = row_flags["core"]
    BY <1>0, <2>1, BothAre DEF RowTyped
  <2> QED BY <2>1, <2>4, <2>5, <2>6, <2>7, StepOfOneNotUp
<1>4. ASSUME NEW p \in Row!Procs, Row!Crash(p) PROVE RowInv'
  <2>1. /\ crashes < MaxCrashes /\ crashes' = crashes + 1 /\ phase' = [phase EXCEPT ![p] = "down"]
        /\ inbox' = [inbox EXCEPT ![p] = << >>] /\ saving' = [saving EXCEPT ![p] = Row!None]
        /\ UNCHANGED <<row, pressing, presses, row_flags>> /\ Row!Watch
    BY <1>4 DEF Row!Crash
  <2>2. /\ phase' \in [Row!Procs -> {"down", "deaf", "loaded", "ready"}] /\ phase'[p] = "down"
        /\ inbox' \in [Row!Procs -> Seq(Verbs)]
        /\ saving' \in [Row!Procs -> Verbs \cup {Row!Full, Row!None}]
    <3>1. << >> \in Seq(Verbs)
      OBVIOUS
    <3> QED BY <1>0, <2>1, <3>1 DEF RowTyped
  <2>3. /\ saving'["core"] = Row!Full => phase'["core"] = "loaded"
        /\ saving'["toolhost"] # Row!Full
    BY <1>0, <2>1, BothAre, NoVerb DEF RowTyped
  <2>4. RowTyped'
    <3>1. crashes' \in 0 .. MaxCrashes
      BY <1>0, <2>1, RowConstants DEF RowTyped
    <3> QED BY <1>0, <2>1, <2>2, <2>3, <3>1, StaysBoolean DEF RowTyped
  <2>5. Row!EmergencyHolds'
    BY <1>0, <2>1 DEF Row!EmergencyHolds
  <2>6. ~Row!AllUp'
    BY <2>2 DEF Row!AllUp
  <2>7. phase'["core"] = "ready" => phase["core"] = "ready"
    BY <1>0, <2>1, BothAre DEF RowTyped
  <2> QED BY <2>1, <2>4, <2>5, <2>6, <2>7, StepOfOneNotUp
<1> QED BY <1>1, <1>2, <1>3, <1>4

\* The toolhost listens: whatever was under way before, it has not been to now.
LEMMA ListenStep == ASSUME RowInv, Row!Listen PROVE RowInv'
<1>0. RowTyped /\ Row!EmergencyHolds
  BY DEF RowInv
<1>1. /\ phase["toolhost"] = "loaded" /\ phase' = [phase EXCEPT !["toolhost"] = "ready"]
      /\ UNCHANGED <<row, pressing, presses, inbox, row_flags, saving, crashes>> /\ Row!Watch
  BY DEF Row!Listen
<1>2. phase' \in [Row!Procs -> {"down", "deaf", "loaded", "ready"}] /\ phase'["core"] = phase["core"]
  BY <1>0, <1>1, BothAre DEF RowTyped
<1>3. RowTyped' /\ Row!EmergencyHolds'
  <2>1. overlapped' \in BOOLEAN
    BY <1>0, <1>1, StaysBoolean
  <2>2. RowTyped'
    BY <1>0, <1>1, <1>2, <2>1 DEF RowTyped
  <2>3. Row!EmergencyHolds'
    BY <1>0, <1>1 DEF Row!EmergencyHolds
  <2> QED BY <2>2, <2>3
<1>4. ASSUME ~overlapped' PROVE InOrder'
  <2>1. ~overlapped
    BY <1>1, <1>4 DEF Row!Watch
  <2>2. InOrder /\ ~Row!AllUp
    BY <1>1, <2>1, BothAre DEF RowInv, Row!AllUp
  <2>3. ~Row!UnderWay /\ ~Row!UnderWay'
    BY <1>1, <2>2 DEF InOrder, Row!UnderWay
  <2>4. CoreWrites' /\ SameEnd'
    <3>1. CoreWrites'
      BY <1>1, <2>2 DEF InOrder, CoreWrites
    <3>2. inbox' = inbox /\ saving' = saving /\ row_flags' = row_flags
      BY <1>1
    <3>3. SameEnd'
      BY <2>2, <3>2 DEF InOrder, SameEnd, ToolhostOwes, CoreComesTo
    <3> QED BY <3>1, <3>3
  <2>5. RowFollows'
    BY <1>1, <1>2, <2>2 DEF InOrder, RowFollows, Settled
  <2> QED BY <2>3, <2>4, <2>5 DEF InOrder
<1> QED BY <1>3, <1>4 DEF RowInv

\* The core subscribes: its row is its own, and nothing is under way.
LEMMA PersistWholeStep == ASSUME RowInv, Row!PersistWhole PROVE RowInv'
<1>0. RowTyped /\ Row!EmergencyHolds
  BY DEF RowInv
<1>1. /\ saving["core"] = Row!Full /\ row' = row_flags["core"] /\ saving' = [saving EXCEPT !["core"] = Row!None]
      /\ phase' = [phase EXCEPT !["core"] = "ready"]
      /\ UNCHANGED <<pressing, presses, inbox, row_flags, crashes>> /\ Row!Watch
  BY DEF Row!PersistWhole
<1>2. /\ phase' \in [Row!Procs -> {"down", "deaf", "loaded", "ready"}]
      /\ saving' \in [Row!Procs -> Verbs \cup {Row!Full, Row!None}]
      /\ saving'["core"] = Row!None /\ saving'["toolhost"] = saving["toolhost"] /\ row' \subseteq Row!Flags
  BY <1>0, <1>1, BothAre DEF RowTyped
<1>3. RowTyped'
  BY <1>0, <1>1, <1>2, StaysBoolean, NoVerb DEF RowTyped
<1>4. Row!EmergencyHolds'
  BY <1>0, <1>1, BothAre DEF Row!EmergencyHolds
<1>5. ASSUME ~overlapped' PROVE InOrder'
  <2>1. ~overlapped
    BY <1>1, <1>5 DEF Row!Watch
  <2>2. phase["core"] = "loaded"
    BY <1>0, <1>1 DEF RowTyped
  <2>3. InOrder /\ ~Row!AllUp
    BY <2>1, <2>2, BothAre DEF RowInv, Row!AllUp
  <2>4. ~Row!UnderWay
    BY <2>3 DEF InOrder
  <2>5. pressing = {} /\ \A p \in Row!Procs : inbox[p] = << >> /\ saving'[p] \notin Verbs
    BY <1>2, <2>4, BothAre, NoVerb DEF Row!UnderWay
  <2>6. ~Row!UnderWay'
    BY <1>1, <2>5 DEF Row!UnderWay
  <2>7. inbox'["toolhost"] = << >> /\ saving'["core"] \notin Verbs /\ saving'["toolhost"] \notin Verbs
    BY <1>1, <2>5, BothAre
  <2>8. CoreWrites' /\ SameEnd'
    BY <2>7 DEF CoreWrites, SameEnd, ToolhostOwes, Ends
  <2>9. RowFollows'
    BY <1>1 DEF RowFollows
  <2> QED BY <2>6, <2>8, <2>9 DEF InOrder
<1> QED BY <1>3, <1>4, <1>5 DEF RowInv

\* What a step that leaves everyone up asks for.
LEMMA StepOfAllUp ==
    ASSUME RowInv, RowTyped', Row!EmergencyHolds', Row!Watch, Row!UnderWay, UNCHANGED phase,
           InOrder /\ Row!AllUp => CoreWrites' /\ SameEnd' /\ RowFollows'
    PROVE  RowInv'
<1> SUFFICES ASSUME ~overlapped' PROVE InOrder'
  BY DEF RowInv
<1>1. ~overlapped /\ Row!AllUp'
  BY DEF Row!Watch
<1>2. InOrder /\ Row!AllUp
  BY <1>1 DEF RowInv, Row!AllUp
<1> QED BY <1>1, <1>2 DEF InOrder

\* The core hears a verb: it reads itself as the verb says, and will write it.
LEMMA CoreHears == ASSUME RowInv, Row!apply_command("core") PROVE RowInv'
<1>0. RowTyped /\ Row!EmergencyHolds
  BY DEF RowInv
<1>1. PICK q : q = inbox["core"]
  OBVIOUS
<1>2. PICK f : f = row_flags["core"]
  OBVIOUS
<1>3. q \in Seq(Verbs) /\ f \subseteq Row!Flags /\ q # << >>
  BY <1>0, <1>1, <1>2, BothAre DEF RowTyped, Row!apply_command
<1>4. PICK h : h = Head(q)
  OBVIOUS
<1>5. PICK r : r = Tail(q)
  OBVIOUS
<1>6. PICK g : g = Row!Merge(h, f)
  OBVIOUS
<1>7. /\ phase["core"] = "ready" /\ saving["core"] = Row!None
      /\ row_flags' = [row_flags EXCEPT !["core"] = g] /\ saving' = [saving EXCEPT !["core"] = h]
      /\ inbox' = [inbox EXCEPT !["core"] = r] /\ UNCHANGED <<row, pressing, presses, phase, crashes>> /\ Row!Watch
  BY <1>1, <1>2, <1>4, <1>5, <1>6 DEF Row!apply_command
<1>8. h \in Verbs /\ r \in Seq(Verbs)
  <2>1. h \in Verbs
    BY <1>3, <1>4, HeadTailProperties
  <2>2. r \in Seq(Verbs)
    BY <1>3, <1>5, HeadTailProperties
  <2> QED BY <2>1, <2>2
<1>9. g \subseteq Row!Flags
  BY <1>3, <1>6, <1>8, MergeTyped
<1>10. /\ inbox' \in [Row!Procs -> Seq(Verbs)] /\ inbox'["core"] = r /\ inbox'["toolhost"] = inbox["toolhost"]
  BY <1>0, <1>7, <1>8, BothAre DEF RowTyped
<1>11. /\ row_flags' \in [Row!Procs -> SUBSET Row!Flags] /\ row_flags'["core"] = g
       /\ row_flags'["toolhost"] = row_flags["toolhost"]
  BY <1>0, <1>7, <1>9, BothAre DEF RowTyped
<1>12. /\ saving' \in [Row!Procs -> Verbs \cup {Row!Full, Row!None}] /\ saving'["core"] = h
       /\ saving'["toolhost"] = saving["toolhost"]
  BY <1>0, <1>7, <1>8, BothAre DEF RowTyped
<1>13. RowTyped'
  <2>1. h # Row!Full
    BY <1>8, NoVerb
  <2>2. saving'["toolhost"] # Row!Full /\ saving'["core"] # Row!Full
    BY <1>0, <1>12, <2>1 DEF RowTyped
  <2>3. overlapped' \in BOOLEAN
    BY <1>0, <1>7, StaysBoolean
  <2> QED BY <1>0, <1>7, <1>10, <1>11, <1>12, <2>2, <2>3 DEF RowTyped
<1>14. Row!EmergencyHolds'
  <2>1. Holding(row) /\ Holding(f) /\ Holding(row_flags["toolhost"])
    BY <1>0, <1>2, BothAre DEF Row!EmergencyHolds, Holding
  <2>2. Holding(g)
    BY <1>6, <1>8, <2>1, MergeHolds
  <2>3. \A standing \in {row'} \cup {row_flags'[p] : p \in Row!Procs} :
            standing = row \/ standing = g \/ standing = row_flags["toolhost"]
    BY <1>7, <1>11, BothAre
  <2> QED BY <2>1, <2>2, <2>3 DEF Row!EmergencyHolds, Holding
<1>15. Row!UnderWay
  BY <1>1, <1>3, BothAre DEF Row!UnderWay
<1>16. ASSUME InOrder PROVE CoreWrites'
  <2>1. ASSUME NEW x \in Row!Flags, NEW w \in Ways, Says(h, x, w) PROVE Stands(g, x, w)
    BY <1>6, <1>8, <2>1, MergeSays
  <2> QED BY <1>11, <1>12, <2>1 DEF CoreWrites
<1>17. ASSUME InOrder PROVE SameEnd'
  <2> SUFFICES ASSUME NEW x \in Row!Flags, NEW w \in Ways, ToolhostOwes(x, w)' PROVE CoreComesTo(x, w)'
    BY DEF SameEnd
  <2>1. ToolhostOwes(x, w)
    BY <1>10, <1>12 DEF ToolhostOwes
  <2>2. Ends(q, x, w) \/ (Clear(q, x) /\ Stands(f, x, w))
    BY <1>1, <1>2, <1>16, <1>17, <2>1 DEF InOrder, SameEnd, CoreComesTo
  <2>3. /\ Clear(q, x) => Clear(r, x) /\ ~Touches(h, x)
        /\ Ends(q, x, w) => Ends(r, x, w) \/ (Clear(r, x) /\ Says(h, x, w))
    BY <1>3, <1>4, <1>5, FirstVerbLeaves
  <2>4. Ends(r, x, w) \/ (Clear(r, x) /\ Stands(g, x, w))
    <3>1. CASE Ends(q, x, w)
      BY <1>6, <1>8, <2>3, <3>1, MergeSays
    <3>2. CASE Clear(q, x) /\ Stands(f, x, w)
      <4>1. x \in g <=> x \in f
        BY <1>6, <1>8, <2>3, <3>2, MergeLeaves
      <4> QED BY <2>3, <3>2, <4>1 DEF Stands
    <3> QED BY <2>2, <3>1, <3>2
  <2> QED BY <1>10, <1>11, <2>4 DEF CoreComesTo
<1>18. ASSUME InOrder PROVE RowFollows'
  <2> SUFFICES ASSUME phase["core"] = "ready", NEW x \in Row!Flags, Settled(x)' PROVE x \in row <=> x \in g
    BY <1>7, <1>11 DEF RowFollows
  <2>1. ~Touches(h, x) /\ Clear(r, x)
    BY <1>8, <1>10, <1>12, BothAre DEF Settled
  <2>2. Clear(q, x)
    <3>1. \A w \in Ways : Clear(r, x) /\ ~Touches(h, x) => Clear(q, x)
      BY <1>3, <1>4, <1>5, FirstVerbLeaves
    <3> QED BY <2>1, <3>1 DEF Ways
  <2>3. saving["core"] \notin Verbs
    BY <1>7, NoVerb
  <2>4. Settled(x)
    <3>1. \A p \in pressing : ~Touches(p[2], x)
      BY <1>7 DEF Settled
    <3>2. Clear(inbox["toolhost"], x) /\ (saving["toolhost"] \in Verbs => ~Touches(saving["toolhost"], x))
      BY <1>10, <1>12, BothAre DEF Settled
    <3> QED BY <1>1, <2>2, <2>3, <3>1, <3>2, BothAre DEF Settled
  <2>5. x \in row <=> x \in f
    BY <1>2, <1>18, <2>4 DEF InOrder, RowFollows
  <2>6. x \in g <=> x \in f
    BY <1>6, <1>8, <2>1, MergeLeaves
  <2> QED BY <2>5, <2>6
<1> QED BY <1>7, <1>13, <1>14, <1>15, <1>16, <1>17, <1>18, StepOfAllUp

\* The toolhost hears a verb: it still owes it.
LEMMA ToolhostHears == ASSUME RowInv, Row!apply_command("toolhost") PROVE RowInv'
<1>0. RowTyped /\ Row!EmergencyHolds
  BY DEF RowInv
<1>1. PICK q : q = inbox["toolhost"]
  OBVIOUS
<1>2. PICK f : f = row_flags["toolhost"]
  OBVIOUS
<1>3. q \in Seq(Verbs) /\ f \subseteq Row!Flags /\ q # << >>
  BY <1>0, <1>1, <1>2, BothAre DEF RowTyped, Row!apply_command
<1>4. PICK h : h = Head(q)
  OBVIOUS
<1>5. PICK r : r = Tail(q)
  OBVIOUS
<1>6. PICK g : g = Row!Merge(h, f)
  OBVIOUS
<1>7. /\ saving["toolhost"] = Row!None
      /\ row_flags' = [row_flags EXCEPT !["toolhost"] = g] /\ saving' = [saving EXCEPT !["toolhost"] = h]
      /\ inbox' = [inbox EXCEPT !["toolhost"] = r] /\ UNCHANGED <<row, pressing, presses, phase, crashes>> /\ Row!Watch
  BY <1>1, <1>2, <1>4, <1>5, <1>6 DEF Row!apply_command
<1>8. h \in Verbs /\ r \in Seq(Verbs)
  <2>1. h \in Verbs
    BY <1>3, <1>4, HeadTailProperties
  <2>2. r \in Seq(Verbs)
    BY <1>3, <1>5, HeadTailProperties
  <2> QED BY <2>1, <2>2
<1>9. g \subseteq Row!Flags
  BY <1>3, <1>6, <1>8, MergeTyped
<1>10. /\ inbox' \in [Row!Procs -> Seq(Verbs)] /\ inbox'["toolhost"] = r /\ inbox'["core"] = inbox["core"]
  BY <1>0, <1>7, <1>8, BothAre DEF RowTyped
<1>11. /\ row_flags' \in [Row!Procs -> SUBSET Row!Flags] /\ row_flags'["toolhost"] = g
       /\ row_flags'["core"] = row_flags["core"]
  BY <1>0, <1>7, <1>9, BothAre DEF RowTyped
<1>12. /\ saving' \in [Row!Procs -> Verbs \cup {Row!Full, Row!None}] /\ saving'["toolhost"] = h
       /\ saving'["core"] = saving["core"]
  BY <1>0, <1>7, <1>8, BothAre DEF RowTyped
<1>13. RowTyped'
  <2>1. h # Row!Full
    BY <1>8, NoVerb
  <2>2. saving'["toolhost"] # Row!Full /\ (saving'["core"] = Row!Full => phase'["core"] = "loaded")
    BY <1>0, <1>7, <1>12, <2>1 DEF RowTyped
  <2>3. overlapped' \in BOOLEAN
    BY <1>0, <1>7, StaysBoolean
  <2> QED BY <1>0, <1>7, <1>10, <1>11, <1>12, <2>2, <2>3 DEF RowTyped
<1>14. Row!EmergencyHolds'
  <2>1. Holding(row) /\ Holding(f) /\ Holding(row_flags["core"])
    BY <1>0, <1>2, BothAre DEF Row!EmergencyHolds, Holding
  <2>2. Holding(g)
    BY <1>6, <1>8, <2>1, MergeHolds
  <2>3. \A standing \in {row'} \cup {row_flags'[p] : p \in Row!Procs} :
            standing = row \/ standing = g \/ standing = row_flags["core"]
    BY <1>7, <1>11, BothAre
  <2> QED BY <2>1, <2>2, <2>3 DEF Row!EmergencyHolds, Holding
<1>15. Row!UnderWay
  BY <1>1, <1>3, BothAre DEF Row!UnderWay
<1>16. ASSUME InOrder PROVE CoreWrites'
  BY <1>11, <1>12, <1>16 DEF InOrder, CoreWrites
<1>17. ASSUME InOrder PROVE SameEnd'
  <2> SUFFICES ASSUME NEW x \in Row!Flags, NEW w \in Ways, ToolhostOwes(x, w)' PROVE CoreComesTo(x, w)'
    BY DEF SameEnd
  <2>1. Ends(r, x, w) \/ (Clear(r, x) /\ Says(h, x, w))
    BY <1>10, <1>12 DEF ToolhostOwes
  <2>2. Ends(q, x, w)
    BY <1>3, <1>4, <1>5, <2>1, FirstVerbLeaves
  <2>3. CoreComesTo(x, w)
    BY <1>1, <1>17, <2>2 DEF InOrder, SameEnd, ToolhostOwes
  <2> QED BY <1>10, <1>11, <2>3 DEF CoreComesTo
<1>18. ASSUME InOrder PROVE RowFollows'
  <2> SUFFICES ASSUME phase["core"] = "ready", NEW x \in Row!Flags, Settled(x)' PROVE x \in row <=> x \in row_flags["core"]
    BY <1>7, <1>11 DEF RowFollows
  <2>1. ~Touches(h, x) /\ Clear(r, x)
    BY <1>8, <1>10, <1>12, BothAre DEF Settled
  <2>2. Clear(q, x)
    <3>1. \A w \in Ways : Clear(r, x) /\ ~Touches(h, x) => Clear(q, x)
      BY <1>3, <1>4, <1>5, FirstVerbLeaves
    <3> QED BY <2>1, <3>1 DEF Ways
  <2>3. saving["toolhost"] \notin Verbs
    BY <1>7, NoVerb
  <2>4. Settled(x)
    <3>1. \A p \in pressing : ~Touches(p[2], x)
      BY <1>7 DEF Settled
    <3>2. Clear(inbox["core"], x) /\ (saving["core"] \in Verbs => ~Touches(saving["core"], x))
      BY <1>10, <1>12, BothAre DEF Settled
    <3> QED BY <1>1, <2>2, <2>3, <3>1, <3>2, BothAre DEF Settled
  <2> QED BY <1>18, <2>4 DEF InOrder, RowFollows
<1> QED BY <1>7, <1>13, <1>14, <1>15, <1>16, <1>17, <1>18, StepOfAllUp

\* The core writes what it heard: the row says it then, and the core does already.
LEMMA CoreWritesIt == ASSUME RowInv, Row!_persist("core") PROVE RowInv'
<1>0. RowTyped /\ Row!EmergencyHolds
  BY DEF RowInv
<1>1. PICK s : s = saving["core"]
  OBVIOUS
<1>2. PICK n : n = Row!Merge(s, row)
  OBVIOUS
<1>3. /\ s \notin {Row!None, Row!Full} /\ row' = n /\ saving' = [saving EXCEPT !["core"] = Row!None]
      /\ UNCHANGED <<pressing, presses, inbox, row_flags, phase, crashes>> /\ Row!Watch
  BY <1>1, <1>2 DEF Row!_persist
<1>4. s \in Verbs
  BY <1>0, <1>1, <1>3, BothAre DEF RowTyped
<1>5. n \subseteq Row!Flags
  BY <1>0, <1>2, <1>4, MergeTyped DEF RowTyped
<1>6. /\ saving' \in [Row!Procs -> Verbs \cup {Row!Full, Row!None}] /\ saving'["core"] = Row!None
      /\ saving'["toolhost"] = saving["toolhost"]
  BY <1>0, <1>3, BothAre DEF RowTyped
<1>7. RowTyped'
  <2>1. overlapped' \in BOOLEAN
    BY <1>0, <1>3, StaysBoolean
  <2>2. saving'["core"] # Row!Full /\ saving'["toolhost"] # Row!Full
    BY <1>0, <1>6, NoVerb DEF RowTyped
  <2> QED BY <1>0, <1>3, <1>5, <1>6, <2>1, <2>2 DEF RowTyped
<1>8. Row!EmergencyHolds'
  <2>1. Holding(row)
    BY <1>0 DEF Row!EmergencyHolds, Holding
  <2>2. Holding(n)
    BY <1>2, <1>4, <2>1, MergeHolds
  <2> QED BY <1>0, <1>3, <2>2 DEF Row!EmergencyHolds, Holding
<1>9. Row!UnderWay
  BY <1>1, <1>4, BothAre DEF Row!UnderWay
<1>10. ASSUME InOrder PROVE CoreWrites'
  BY <1>6, NoVerb DEF CoreWrites
<1>11. ASSUME InOrder PROVE SameEnd'
  BY <1>3, <1>6, <1>11 DEF InOrder, SameEnd, ToolhostOwes, CoreComesTo
<1>12. ASSUME InOrder PROVE RowFollows'
  <2> SUFFICES ASSUME phase["core"] = "ready", NEW x \in Row!Flags, Settled(x)'
               PROVE  x \in n <=> x \in row_flags["core"]
    BY <1>3 DEF RowFollows
  <2>1. CASE \E w \in Ways : Says(s, x, w)
    <3>1. PICK w \in Ways : Says(s, x, w)
      BY <2>1
    <3>2. Stands(n, x, w)
      BY <1>2, <1>4, <3>1, MergeSays
    <3>3. Stands(row_flags["core"], x, w)
      BY <1>1, <1>4, <1>12, <3>1 DEF InOrder, CoreWrites
    <3> QED BY <3>2, <3>3 DEF Stands
  <2>2. CASE ~Touches(s, x)
    <3>1. x \in n <=> x \in row
      BY <1>2, <1>4, <2>2, MergeLeaves
    <3>2. Settled(x)
      <4>1. \A p \in pressing : ~Touches(p[2], x)
        BY <1>3 DEF Settled
      <4>2. \A p \in Row!Procs : Clear(inbox[p], x)
        BY <1>3 DEF Settled
      <4>3. saving["toolhost"] \in Verbs => ~Touches(saving["toolhost"], x)
        BY <1>6, BothAre DEF Settled
      <4> QED BY <1>1, <2>2, <4>1, <4>2, <4>3, BothAre DEF Settled
    <3>3. x \in row <=> x \in row_flags["core"]
      BY <1>12, <3>2 DEF InOrder, RowFollows
    <3> QED BY <3>1, <3>3
  <2> QED BY <2>1, <2>2 DEF Touches
<1> QED BY <1>3, <1>7, <1>8, <1>9, <1>10, <1>11, <1>12, StepOfAllUp

\* The toolhost writes what it heard: where nothing further is to come, the core
\* reads itself so.
LEMMA ToolhostWritesIt == ASSUME RowInv, Row!_persist("toolhost") PROVE RowInv'
<1>0. RowTyped /\ Row!EmergencyHolds
  BY DEF RowInv
<1>1. PICK s : s = saving["toolhost"]
  OBVIOUS
<1>2. PICK n : n = Row!Merge(s, row)
  OBVIOUS
<1>3. /\ s \notin {Row!None, Row!Full} /\ row' = n /\ saving' = [saving EXCEPT !["toolhost"] = Row!None]
      /\ UNCHANGED <<pressing, presses, inbox, row_flags, phase, crashes>> /\ Row!Watch
  BY <1>1, <1>2 DEF Row!_persist
<1>4. s \in Verbs
  BY <1>0, <1>1, <1>3, BothAre DEF RowTyped
<1>5. n \subseteq Row!Flags
  BY <1>0, <1>2, <1>4, MergeTyped DEF RowTyped
<1>6. /\ saving' \in [Row!Procs -> Verbs \cup {Row!Full, Row!None}] /\ saving'["toolhost"] = Row!None
      /\ saving'["core"] = saving["core"]
  BY <1>0, <1>3, BothAre DEF RowTyped
<1>7. RowTyped'
  <2>1. overlapped' \in BOOLEAN
    BY <1>0, <1>3, StaysBoolean
  <2>2. (saving'["core"] = Row!Full => phase'["core"] = "loaded") /\ saving'["toolhost"] # Row!Full
    BY <1>0, <1>3, <1>6, NoVerb DEF RowTyped
  <2> QED BY <1>0, <1>3, <1>5, <1>6, <2>1, <2>2 DEF RowTyped
<1>8. Row!EmergencyHolds'
  <2>1. Holding(row)
    BY <1>0 DEF Row!EmergencyHolds, Holding
  <2>2. Holding(n)
    BY <1>2, <1>4, <2>1, MergeHolds
  <2> QED BY <1>0, <1>3, <2>2 DEF Row!EmergencyHolds, Holding
<1>9. Row!UnderWay
  BY <1>1, <1>4, BothAre DEF Row!UnderWay
<1>10. ASSUME InOrder PROVE CoreWrites'
  BY <1>3, <1>6, <1>10 DEF InOrder, CoreWrites
<1>11. ASSUME InOrder PROVE SameEnd'
  <2>1. saving'["toolhost"] \notin Verbs
    BY <1>6, NoVerb
  <2> QED BY <1>3, <1>11, <2>1 DEF InOrder, SameEnd, ToolhostOwes, CoreComesTo
<1>12. ASSUME InOrder PROVE RowFollows'
  <2> SUFFICES ASSUME phase["core"] = "ready", NEW x \in Row!Flags, Settled(x)'
               PROVE  x \in n <=> x \in row_flags["core"]
    BY <1>3 DEF RowFollows
  <2>0. Clear(inbox["core"], x) /\ Clear(inbox["toolhost"], x)
    BY <1>3, BothAre DEF Settled
  <2>1. CASE \E w \in Ways : Says(s, x, w)
    <3>1. PICK w \in Ways : Says(s, x, w)
      BY <2>1
    <3>2. Stands(n, x, w)
      BY <1>2, <1>4, <3>1, MergeSays
    <3>3. ToolhostOwes(x, w)
      BY <1>1, <1>4, <2>0, <3>1 DEF ToolhostOwes
    <3>4. CoreComesTo(x, w)
      BY <1>12, <3>3 DEF InOrder, SameEnd
    <3>5. ~Ends(inbox["core"], x, w)
      BY <2>0 DEF Ends, Clear, Touches
    <3>6. Stands(row_flags["core"], x, w)
      BY <3>4, <3>5 DEF CoreComesTo
    <3> QED BY <3>2, <3>6 DEF Stands
  <2>2. CASE ~Touches(s, x)
    <3>1. x \in n <=> x \in row
      BY <1>2, <1>4, <2>2, MergeLeaves
    <3>2. Settled(x)
      <4>1. \A p \in pressing : ~Touches(p[2], x)
        BY <1>3 DEF Settled
      <4>2. saving["core"] \in Verbs => ~Touches(saving["core"], x)
        BY <1>6, BothAre DEF Settled
      <4> QED BY <1>1, <2>0, <2>2, <4>1, <4>2, BothAre DEF Settled
    <3>3. x \in row <=> x \in row_flags["core"]
      BY <1>12, <3>2 DEF InOrder, RowFollows
    <3> QED BY <3>1, <3>3
  <2> QED BY <2>1, <2>2 DEF Touches
<1> QED BY <1>3, <1>7, <1>8, <1>9, <1>10, <1>11, <1>12, StepOfAllUp

LEMMA RowNext == ASSUME RowInv, Row!Next PROVE RowInv'
<1>1. CASE \E v \in Verbs : Row!Press(v)
  BY <1>1, PressStep
<1>2. CASE Row!Publish
  BY <1>2, PublishStep
<1>3. CASE Row!BusStart \/ Row!DispatchToNobody \/ \E p \in Row!Procs : Row!load(p) \/ Row!Crash(p)
  BY <1>3, StartingStep
<1>4. CASE Row!PersistWhole
  BY <1>4, PersistWholeStep
<1>5. CASE Row!Listen
  BY <1>5, ListenStep
<1>6. CASE \E p \in Row!Procs : Row!apply_command(p)
  BY <1>6, BothAre, CoreHears, ToolhostHears
<1>7. CASE \E p \in Row!Procs : Row!_persist(p)
  BY <1>7, BothAre, CoreWritesIt, ToolhostWritesIt
<1>8. (\E p \in Row!Procs : Row!ProcStep(p) \/ Row!Crash(p)) =>
          \/ \E p \in Row!Procs : Row!load(p) \/ Row!Crash(p)
          \/ \E p \in Row!Procs : Row!apply_command(p)
          \/ \E p \in Row!Procs : Row!_persist(p)
  BY DEF Row!ProcStep
<1> QED BY <1>1, <1>2, <1>3, <1>4, <1>5, <1>6, <1>7, <1>8 DEF Row!Next

LEMMA RowInit == ASSUME Row!Init PROVE RowInv
<1>1. /\ row = {} /\ pressing = {} /\ presses = 0 /\ inbox = [p \in Row!Procs |-> << >>]
      /\ row_flags = [p \in Row!Procs |-> {}] /\ phase = [p \in Row!Procs |-> "down"]
      /\ saving = [p \in Row!Procs |-> Row!None] /\ crashes = 0 /\ overlapped = FALSE
  BY DEF Row!Init
<1>2. RowTyped
  <2>1. << >> \in Seq(Verbs)
    OBVIOUS
  <2>2. inbox \in [Row!Procs -> Seq(Verbs)]
    BY <1>1, <2>1
  <2>3. saving \in [Row!Procs -> Verbs \cup {Row!Full, Row!None}] /\ \A p \in Row!Procs : saving[p] # Row!Full
    BY <1>1, NoVerb
  <2>4. row_flags \in [Row!Procs -> SUBSET Row!Flags] /\ phase \in [Row!Procs -> {"down", "deaf", "loaded", "ready"}]
    BY <1>1
  <2>5. presses \in 0 .. MaxPresses /\ crashes \in 0 .. MaxCrashes
    BY <1>1, RowConstants
  <2>6. row \subseteq Row!Flags /\ pressing \subseteq (1 .. MaxPresses) \X Verbs /\ overlapped \in BOOLEAN
    BY <1>1
  <2>7. saving["core"] # Row!Full /\ saving["toolhost"] # Row!Full
    BY <2>3, BothAre
  <2> QED BY <2>2, <2>3, <2>4, <2>5, <2>6, <2>7 DEF RowTyped
<1>3. ~Row!UnderWay
  BY <1>1, NoVerb DEF Row!UnderWay
<1>4. CoreWrites /\ SameEnd
  BY <1>2, <1>3, NothingOwed
<1>5. RowFollows
  BY <1>1, BothAre DEF RowFollows
<1>6. Row!EmergencyHolds
  BY <1>1 DEF Row!EmergencyHolds
<1> QED BY <1>2, <1>3, <1>4, <1>5, <1>6 DEF RowInv, InOrder

LEMMA RowStands == ASSUME RowInv PROVE Row!TypeOK /\ Row!RowAgrees /\ Row!EmergencyHolds
<1>1. Row!TypeOK
  BY DEF RowInv, RowTyped, Row!TypeOK
<1>2. ASSUME Row!Quiet, ~overlapped PROVE row_flags["core"] = row
  <2>1. RowTyped /\ RowFollows /\ ~Row!UnderWay /\ phase["core"] = "ready"
    <3>1. ~Row!UnderWay
      BY <1>2, NoVerb DEF Row!Quiet, Row!UnderWay
    <3> QED BY <1>2, <3>1 DEF RowInv, InOrder, Row!Quiet
  <2>2. \A x \in Row!Flags : x \in row <=> x \in row_flags["core"]
    BY <2>1, NothingOwed DEF RowFollows
  <2>3. row \subseteq Row!Flags /\ row_flags["core"] \subseteq Row!Flags
    BY <2>1, BothAre DEF RowTyped
  <2> QED BY <2>2, <2>3
<1> QED BY <1>1, <1>2 DEF RowInv, Row!RowAgrees

\* While nothing of the row moves.
LEMMA RowRests == ASSUME RowInv, UNCHANGED rowVars PROVE RowInv'
<1>1. /\ row' = row /\ pressing' = pressing /\ presses' = presses /\ inbox' = inbox /\ row_flags' = row_flags
      /\ phase' = phase /\ saving' = saving /\ crashes' = crashes /\ overlapped' = overlapped
  BY DEF rowVars
<1>2. RowTyped' /\ Row!EmergencyHolds'
  BY <1>1 DEF RowInv, RowTyped, Row!EmergencyHolds
<1>3. UNCHANGED <<Row!UnderWay, Row!AllUp>>
  BY <1>1 DEF Row!UnderWay, Row!AllUp
<1>4. CoreWrites => CoreWrites'
  BY <1>1 DEF CoreWrites
<1>5. SameEnd => SameEnd'
  BY <1>1 DEF SameEnd, ToolhostOwes, CoreComesTo
<1>6. RowFollows => RowFollows'
  BY <1>1 DEF RowFollows, Settled
<1> QED BY <1>1, <1>2, <1>3, <1>4, <1>5, <1>6 DEF RowInv, InOrder

\* While every process is up when a verb is under way, the lifecycle row that
\* control.load and _persist write, and the bridge, says in the end what the core
\* reads itself as, whatever the order the three write it in; and an emergency,
\* in the row or a process, always holds thought and action.
THEOREM RowTellsTheCore == BodySpec => []RowSafe
<1> DEFINE Inv == part = "row" => RowInv
<1>1. BodyInit => Inv
  BY RowInit DEF BodyInit
<1>2. Inv /\ [BodyNext]_bodyVars => Inv'
  <2> SUFFICES ASSUME Inv, [BodyNext]_bodyVars, part' = "row" PROVE RowInv'
    OBVIOUS
  <2>1. part = "row" /\ RowInv
    BY DEF BodyNext, bodyVars
  <2>2. CASE part = "row" /\ Row!Next
    BY <2>1, <2>2, RowNext
  <2>3. CASE UNCHANGED rowVars
    BY <2>1, <2>3, RowRests
  <2> QED BY <2>1, <2>2, <2>3 DEF BodyNext, bodyVars
<1>3. Inv => RowSafe
  BY RowStands DEF RowSafe
<1> QED BY <1>1, <1>2, <1>3, PTL DEF BodySpec
=============================================================================
