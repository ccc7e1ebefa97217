------------------------ MODULE ActionJournalProofs ------------------------
(* Type correctness of the journal, and the three safety properties of     *)
(* ActionJournal, for any set of calls, of remote calls and of keys.       *)
EXTENDS ActionJournal, TLAPS

Fresh == {"idle", "finding", "releasing", "inserting"}

\* A call that has not inserted its row has left nothing behind.
FreshCalls ==
    \A c \in Calls : pc[c] \in Fresh =>
        /\ rowKey[c] = NoKey
        /\ outcome[c] = "none"
        /\ answer[c] = "none"
        /\ ~effect[c]
        /\ ~stray[c]

\* The UNIQUE constraint.
OneRowPerKey ==
    \A c, d \in Calls : rowKey[c] = rowKey[d] /\ rowKey[c] # NoKey => c = d

\* A row keeps the key it was inserted with until somebody releases it.
KeyIsAsked ==
    \A c \in Calls : rowKey[c] \in {NoKey, asked[c]}

\* A call that is at work still holds its row.
OwnRow ==
    \A c \in Calls : pc[c] \in Owning => rowKey[c] = asked[c]

\* A terminal row is the row of an answered call, and says how it ended.
TerminalRow ==
    \A c \in Calls : status[c] \in Terminal =>
        /\ pc[c] = "answered"
        /\ outcome[c] = status[c]

\* What a call concluded stands once it is finishing.
Concluded ==
    \A c \in Calls :
        /\ pc[c] = "finishing" => outcome[c] # "none"
        /\ outcome[c] # "none" => pc[c] \in {"finishing", "answered", "gone"}

\* A row is released only for a call that was answered with a decided failure.
ReleasesDecided ==
    \A c \in Calls : pc[c] = "releasing" =>
        /\ prior[c] \in Calls
        /\ pc[prior[c]] = "answered"
        /\ outcome[prior[c]] \in Decided

\* Work that happened, or still may, belongs to a row that holds its key, or
\* to a call that ended in a decided failure.
WorkIsHeld ==
    \A c \in Calls : effect[c] \/ stray[c] =>
        rowKey[c] = asked[c] \/ outcome[c] \in Decided

SuccessIsReal ==
    \A c \in Calls : outcome[c] = "ok" => effect[c]

JournalInv ==
    /\ TypeOK
    /\ FreshCalls
    /\ OneRowPerKey
    /\ KeyIsAsked
    /\ OwnRow
    /\ TerminalRow
    /\ Concluded
    /\ ReleasesDecided
    /\ WorkIsHeld
    /\ SuccessIsReal
    /\ HonestReplay

-----------------------------------------------------------------------------

LEMMA InitJournalInv == Init => JournalInv
  BY JournalAssumption
  DEF Init, JournalInv, TypeOK, FreshCalls, OneRowPerKey, KeyIsAsked, OwnRow,
      TerminalRow, Concluded, ReleasesDecided, WorkIsHeld, SuccessIsReal,
      HonestReplay, Fresh, InFlight, Owning, Ended, Answers, Terminal, Decided,
      Status

LEMMA CallStepInv ==
  ASSUME JournalInv, NEW c \in Calls, CallStep(c)
  PROVE  JournalInv'
<1> USE JournalAssumption
    DEF JournalInv, TypeOK, FreshCalls, OneRowPerKey, KeyIsAsked, OwnRow,
        TerminalRow, Concluded, ReleasesDecided, WorkIsHeld, SuccessIsReal,
        HonestReplay, Fresh, InFlight, Owning, Ended, Answers, Terminal,
        Decided, Status, rowVars, workVars, coreVars, callVars
<1>1. ASSUME NEW k \in Keys \cup {NoKey}, execute(c, k) PROVE JournalInv'
  <2>1. /\ pc'[c] \in {"inserting", "finding"}
        /\ \A d \in Calls \ {c} : pc'[d] = pc[d]
    <3>1. pc' = [pc EXCEPT ![c] = IF k = NoKey THEN "inserting" ELSE "finding"]
      BY <1>1 DEF execute
    <3>2. pc \in [Calls -> InFlight \cup Ended \cup {"idle"}]
      BY DEF JournalInv
    <3>3. QED
      BY ONLY <3>1, <3>2, c \in Calls
  <2>2. TypeOK'
    BY <1>1, <2>1 DEF execute
  <2>3. \A d \in Calls : outcome[d] # "none" => d # c /\ asked'[d] = asked[d]
    BY <1>1 DEF execute
  <2>4. \A d \in Calls : answer[d] = "replayed" => d # c
    BY <1>1 DEF execute
  <2>5. HonestReplay'
    BY <1>1, <2>3, <2>4 DEF execute
  <2>6. (OwnRow /\ KeyIsAsked /\ WorkIsHeld)'
    BY <1>1, <2>1 DEF execute
  <2>7. (FreshCalls /\ OneRowPerKey /\ TerminalRow /\ Concluded
          /\ ReleasesDecided /\ SuccessIsReal)'
    BY <1>1, <2>1 DEF execute
  <2>8. QED
    BY <2>2, <2>5, <2>6, <2>7
<1>2. CASE FindNothing(c)
  BY <1>2 DEF FindNothing
<1>3. CASE FindDuplicate(c)
  BY <1>3 DEF FindDuplicate, Holders, Answer, replayable, released
<1>4. CASE FindDecided(c)
  BY <1>4 DEF FindDecided, Holders, released
<1>5. CASE _release(c)
  BY <1>5 DEF _release
<1>6. CASE begin(c)
  BY <1>6 DEF begin, Holders
<1>7. CASE BeginCollides(c)
  BY <1>7 DEF BeginCollides, Answer
<1>8. CASE review(c)
  BY <1>8 DEF review, Conclude
<1>9. CASE TakeEffect(c)
  BY <1>9 DEF TakeEffect
<1>10. CASE ToolReturns(c)
  BY <1>10 DEF ToolReturns, Conclude
<1>11. CASE ToolGivesUp(c)
  BY <1>11 DEF ToolGivesUp, Conclude, MayLeaveBehind
<1>12. CASE end(c)
  BY <1>12 DEF end, Answer
<1>13. CASE EndLost(c)
  BY <1>13 DEF EndLost, Answer
<1>14. CASE Abandon(c)
  BY <1>14 DEF Abandon, MayLeaveBehind
<1>15. QED
  BY <1>1, <1>2, <1>3, <1>4, <1>5, <1>6, <1>7, <1>8, <1>9, <1>10, <1>11,
     <1>12, <1>13, <1>14 DEF CallStep

LEMMA CoreStepInv ==
  ASSUME JournalInv, CoreStep
  PROVE  JournalInv'
<1> USE JournalAssumption
    DEF JournalInv, TypeOK, FreshCalls, OneRowPerKey, KeyIsAsked, OwnRow,
        TerminalRow, Concluded, ReleasesDecided, WorkIsHeld, SuccessIsReal,
        HonestReplay, Fresh, InFlight, Owning, Ended, Answers, Terminal,
        Decided, Status, rowVars, workVars, coreVars, callVars
<1>1. CASE Crash
  BY <1>1 DEF Crash, Local
<1>2. CASE wake_up
  BY <1>2 DEF wake_up
<1>3. CASE WakeDone
  BY <1>3 DEF WakeDone
<1>4. ASSUME NEW c \in Calls, MarkInterrupted(c) PROVE JournalInv'
  BY <1>4 DEF MarkInterrupted
<1>5. QED
  BY <1>1, <1>2, <1>3, <1>4 DEF CoreStep

LEMMA JournalInvStep == JournalInv /\ [Next]_vars => JournalInv'
<1>1. JournalInv /\ UNCHANGED vars => JournalInv'
  BY DEF JournalInv, TypeOK, FreshCalls, OneRowPerKey, KeyIsAsked, OwnRow,
         TerminalRow, Concluded, ReleasesDecided, WorkIsHeld, SuccessIsReal,
         HonestReplay, vars, rowVars, workVars, coreVars, callVars
<1>2. QED
  BY <1>1, CallStepInv, CoreStepInv DEF Next

\* The invariant on which the safety theorems below rest.
THEOREM JournalInvariant == Spec => []JournalInv
  BY InitJournalInv, JournalInvStep, PTL DEF Spec

\* The variables keep their types, whatever the calls, keys and crashes.
THEOREM TypeCorrect == Spec => []TypeOK
<1>1. JournalInv => TypeOK
  BY DEF JournalInv
<1>2. QED
  BY JournalInvariant, <1>1, PTL

\* No two calls own one piece of work: calls at work hold their rows, and the
\* UNIQUE constraint lets one row hold a key.
THEOREM OneOwner == Spec => []SoleOwner
<1>1. JournalInv => SoleOwner
  BY DEF JournalInv, OneRowPerKey, OwnRow, SoleOwner
<1>2. QED
  BY JournalInvariant, <1>1, PTL

\* Work done twice had first been recorded as a decided failure: work that
\* happened in any other way still holds its key.
THEOREM WorkConfirmedOnce == Spec => []ConfirmedOnce
<1>1. JournalInv => ConfirmedOnce
  BY DEF JournalInv, OneRowPerKey, WorkIsHeld, ConfirmedOnce
<1>2. QED
  BY JournalInvariant, <1>1, PTL

\* A replayed answer speaks of work that was done.
THEOREM ReplayIsHonest == Spec => []HonestReplay
<1>1. JournalInv => HonestReplay
  BY DEF JournalInv
<1>2. QED
  BY JournalInvariant, <1>1, PTL

-----------------------------------------------------------------------------
(* Reconciliation: what is still running when a core wakes up is in its list. *)

\* While no core is up, no call of the core is in flight.
LocalQuiet ==
    core # "up" => \A c \in Local : pc[c] \notin InFlight

\* A running row of the core's own is one that wake_up has read and not marked.
DoubtCovers ==
    core = "waking" =>
        \A c \in Local : status[c] = "running" => c \in doubtful

WakeInv == JournalInv /\ LocalQuiet /\ DoubtCovers

LEMMA WakeInvStep == WakeInv /\ [Next]_vars => WakeInv'
<1> SUFFICES ASSUME WakeInv, [Next]_vars PROVE WakeInv'
  OBVIOUS
<1> USE JournalAssumption
    DEF WakeInv, LocalQuiet, DoubtCovers, JournalInv, TypeOK, InFlight, Owning,
        Local, Ended, rowVars, workVars, coreVars, callVars
<1>1. JournalInv'
  BY JournalInvStep
<1>2. ASSUME NEW c \in Calls, NEW k \in Keys \cup {NoKey}, execute(c, k)
      PROVE  (LocalQuiet /\ DoubtCovers)'
  BY <1>2 DEF execute
<1>3. ASSUME NEW c \in Calls,
             FindNothing(c) \/ FindDuplicate(c) \/ FindDecided(c) \/ _release(c)
             \/ BeginCollides(c) \/ review(c) \/ TakeEffect(c)
             \/ ToolReturns(c) \/ ToolGivesUp(c) \/ EndLost(c) \/ Abandon(c)
      PROVE  (LocalQuiet /\ DoubtCovers)'
  BY <1>3 DEF FindNothing, FindDuplicate, FindDecided, _release, BeginCollides,
              review, TakeEffect, ToolReturns, ToolGivesUp, EndLost, Abandon,
              Answer, Conclude
<1>4. ASSUME NEW c \in Calls, begin(c) PROVE (LocalQuiet /\ DoubtCovers)'
  BY <1>4 DEF begin
<1>5. ASSUME NEW c \in Calls, end(c) PROVE (LocalQuiet /\ DoubtCovers)'
  <2>1. outcome[c] # "running"
    BY <1>5 DEF Terminal, Decided
  <2>2. QED
    BY <1>5, <2>1 DEF end, Answer
<1>6. ASSUME Crash PROVE (LocalQuiet /\ DoubtCovers)'
  BY <1>6 DEF Crash
<1>7. ASSUME wake_up PROVE (LocalQuiet /\ DoubtCovers)'
  BY <1>7 DEF wake_up
<1>8. ASSUME WakeDone PROVE (LocalQuiet /\ DoubtCovers)'
  BY <1>8 DEF WakeDone
<1>9. ASSUME NEW c \in Calls, MarkInterrupted(c)
      PROVE  (LocalQuiet /\ DoubtCovers)'
  BY <1>9 DEF MarkInterrupted
<1>10. ASSUME UNCHANGED vars PROVE (LocalQuiet /\ DoubtCovers)'
  BY <1>10 DEF vars
<1>11. QED
  BY <1>1, <1>2, <1>3, <1>4, <1>5, <1>6, <1>7, <1>8, <1>9, <1>10
  DEF Next, CoreStep, CallStep

\* A core that starts working has left no row of its own "running".
THEOREM EveryDoubtMarked == Spec => ReconciledAtWake
<1>1. Init => WakeInv
  BY InitJournalInv DEF WakeInv, LocalQuiet, DoubtCovers, Init
<1>2. WakeInv /\ [Next]_vars
      => [core = "waking" /\ core' = "up" =>
            \A c \in Local : status'[c] # "running"]_vars
  <2> SUFFICES ASSUME WakeInv, Next, core = "waking", core' = "up",
                      NEW c \in Local
               PROVE  status'[c] # "running"
    OBVIOUS
  <2>1. ASSUME NEW d \in Calls, CallStep(d) PROVE core' = core
    BY <2>1 DEF CallStep, execute, FindNothing, FindDuplicate, FindDecided,
       _release, begin, BeginCollides, review, TakeEffect, ToolReturns,
       ToolGivesUp, end, EndLost, Abandon, coreVars
  <2>2. WakeDone
    BY <2>1 DEF Next, CoreStep, Crash, wake_up, MarkInterrupted
  <2>3. QED
    BY <2>2 DEF WakeDone, WakeInv, DoubtCovers, rowVars
<1>3. QED
  BY <1>1, <1>2, WakeInvStep, PTL DEF Spec, ReconciledAtWake

-----------------------------------------------------------------------------
(* Refinement: what every step of the journal does to the work of a key.   *)

\* The row that holds a key speaks for it, before a step and after it: by the
\* UNIQUE constraint it is the only one.
LEMMA HolderSpeaks ==
  ASSUME OneRowPerKey, NEW k \in Keys, NEW d \in Calls, rowKey[d] = k
  PROVE  WorkOf(k) = Fate(d)
<1>1. Holders(k) = {d}
  BY JournalAssumption DEF Holders, OneRowPerKey
<1>2. (CHOOSE e \in Holders(k) : TRUE) = d
  BY <1>1
<1>3. QED
  BY <1>1, <1>2 DEF WorkOf

LEMMA HolderSpeaksAfter ==
  ASSUME OneRowPerKey', NEW k \in Keys, NEW d \in Calls, rowKey'[d] = k
  PROVE  WorkOf(k)' = Fate(d)'
<1>1. Holders(k)' = {d}
  BY JournalAssumption DEF Holders, OneRowPerKey
<1>2. (CHOOSE e \in Holders(k)' : TRUE) = d
  BY <1>1
<1>3. QED
  BY <1>1, <1>2 DEF WorkOf

LEMMA UnheldIsFree ==
  ASSUME NEW k \in Keys
  PROVE  /\ (\A d \in Calls : rowKey[d] # k) => WorkOf(k) = "free"
         /\ (\A d \in Calls : rowKey'[d] # k) => WorkOf(k)' = "free"
  BY DEF WorkOf, Holders

\* A row that keeps its key and its fate leaves the work of the key alone.
LEMMA SameFate ==
  ASSUME OneRowPerKey, OneRowPerKey', NEW k \in Keys,
         \A d \in Calls : rowKey'[d] = k <=> rowKey[d] = k,
         \A d \in Calls : rowKey[d] = k => Fate(d)' = Fate(d)
  PROVE  WorkOf(k)' = WorkOf(k)
<1>1. CASE \E d \in Calls : rowKey[d] = k
  <2>1. PICK d \in Calls : rowKey[d] = k
    BY <1>1
  <2>2. rowKey'[d] = k /\ Fate(d)' = Fate(d)
    BY <2>1
  <2>3. WorkOf(k) = Fate(d)
    BY <2>1, HolderSpeaks
  <2>4. WorkOf(k)' = Fate(d)'
    BY <2>2, HolderSpeaksAfter
  <2>5. QED
    BY <2>2, <2>3, <2>4
<1>2. CASE \A d \in Calls : rowKey[d] # k
  <2>1. \A d \in Calls : rowKey'[d] # k
    BY <1>2
  <2>2. QED
    BY <1>2, <2>1, UnheldIsFree
<1>3. QED
  BY <1>1, <1>2

\* A step on which no row that holds a key changes its fate is a stutter.
LEMMA Stutter ==
  ASSUME OneRowPerKey, OneRowPerKey', rowKey' = rowKey,
         \A d \in Calls : rowKey[d] \in Keys => Fate(d)' = Fate(d)
  PROVE  WorkMap' = WorkMap
<1>1. \A k \in Keys : WorkOf(k)' = WorkOf(k)
  BY SameFate
<1>2. QED
  BY <1>1 DEF WorkMap

\* A step on which one key is touched moves the work of that key only.
LEMMA OneKeyMoves ==
  ASSUME NEW k \in Keys, NEW f, WorkOf(k)' = f,
         \A j \in Keys \ {k} : WorkOf(j)' = WorkOf(j)
  PROVE  /\ WorkMap[k] = WorkOf(k)
         /\ WorkMap' = [WorkMap EXCEPT ![k] = f]
  BY DEF WorkMap

\* A step of one call that leaves the keys in place moves the work of its own
\* key, from its fate to its new one.
LEMMA OneCallMoves ==
  ASSUME OneRowPerKey, OneRowPerKey', rowKey' = rowKey, NEW c \in Calls,
         rowKey[c] \in Keys,
         \A d \in Calls \ {c} : Fate(d)' = Fate(d)
  PROVE  /\ WorkMap[rowKey[c]] = Fate(c)
         /\ WorkMap' = [WorkMap EXCEPT ![rowKey[c]] = Fate(c)']
<1> DEFINE k == rowKey[c]
<1>1. WorkOf(k) = Fate(c)
  BY HolderSpeaks
<1>2. WorkOf(k)' = Fate(c)'
  <2>1. rowKey'[c] = k
    OBVIOUS
  <2>2. \A j \in Keys : j = k => WorkOf(j)' = Fate(c)'
    BY <2>1, HolderSpeaksAfter
  <2>3. QED
    BY <2>2
<1>3. \A j \in Keys \ {k} : WorkOf(j)' = WorkOf(j)
  BY SameFate
<1>4. QED
  BY <1>1, <1>2, <1>3 DEF WorkMap

\* Steps of a call that has no row yet, or is at work and stays at work.
LEMMA QuietStep ==
  ASSUME JournalInv, JournalInv', NEW c \in Calls,
         \/ \E k \in Keys \cup {NoKey} : execute(c, k)
         \/ FindNothing(c) \/ FindDuplicate(c) \/ FindDecided(c)
         \/ BeginCollides(c) \/ review(c) \/ TakeEffect(c) \/ ToolReturns(c)
         \/ ToolGivesUp(c)
  PROVE  WorkMap' = WorkMap
<1>1. rowKey' = rowKey /\ status' = status
  BY DEF execute, FindNothing, FindDuplicate, FindDecided, BeginCollides,
         review, TakeEffect, ToolReturns, ToolGivesUp, rowVars, callVars
<1>2. /\ \A d \in Calls \ {c} : pc'[d] = pc[d] /\ outcome'[d] = outcome[d]
      /\ \/ pc[c] \in Fresh
         \/ pc[c] \in Owning /\ pc'[c] \in Owning
         \/ pc'[c] = pc[c] /\ outcome'[c] = outcome[c]
  BY DEF execute, FindNothing, FindDuplicate, FindDecided, BeginCollides,
         review, TakeEffect, ToolReturns, ToolGivesUp, Answer, Conclude,
         JournalInv, TypeOK, Fresh, Owning, callVars
<1>3. pc[c] \in Fresh => rowKey[c] \notin Keys
  BY JournalAssumption DEF JournalInv, FreshCalls
<1>4. \A d \in Calls : rowKey[d] \in Keys => Fate(d)' = Fate(d)
  BY <1>1, <1>2, <1>3 DEF Fate
<1>5. QED
  BY <1>1, <1>4, Stutter DEF JournalInv

\* The INSERT claims a free key.
LEMMA BeginClaims ==
  ASSUME JournalInv, JournalInv', NEW c \in Calls, begin(c)
  PROVE  [Work!Next]_WorkMap
<1>1. /\ rowKey[c] = NoKey
      /\ rowKey'[c] = asked[c]
      /\ \A d \in Calls \ {c} : rowKey'[d] = rowKey[d]
  BY DEF begin, JournalInv, TypeOK, FreshCalls, Fresh
<1>2. Fate(c)' = "claimed"
  BY DEF begin, Fate, JournalInv, TypeOK, Owning
<1>3. \A d \in Calls \ {c} : Fate(d)' = Fate(d)
  BY DEF begin, Fate, JournalInv, TypeOK
<1>4. \A j \in Keys : j # asked[c] => WorkOf(j)' = WorkOf(j)
  BY <1>1, <1>3, SameFate, JournalAssumption DEF JournalInv
<1>5. CASE asked[c] = NoKey
  BY <1>4, <1>5, JournalAssumption DEF WorkMap
<1>6. CASE asked[c] \in Keys
  <2>1. WorkOf(asked[c]) = "free"
    BY <1>6 DEF begin, WorkOf
  <2>2. \A j \in Keys : j = asked[c] => WorkOf(j)' = "claimed"
    BY <1>1, <1>2, HolderSpeaksAfter DEF JournalInv
  <2>3. /\ WorkMap[asked[c]] = "free"
        /\ WorkMap' = [WorkMap EXCEPT ![asked[c]] = "claimed"]
    BY <1>4, <1>6, <2>1, <2>2 DEF WorkMap
  <2>4. Work!Claim(asked[c])
    BY <2>3 DEF Work!Claim, Work!Move
  <2>5. QED
    BY <1>6, <2>4 DEF Work!Next, Work!KeyStep
<1>7. QED
  BY <1>5, <1>6 DEF JournalInv, TypeOK

\* A release frees the key of an attempt that failed, whether its row still
\* says so or was marked in doubt meanwhile.
LEMMA ReleaseClears ==
  ASSUME JournalInv, JournalInv', NEW c \in Calls, _release(c)
  PROVE  [Work!Next]_WorkMap
<1> DEFINE p == prior[c]
<1>1. /\ p \in Calls
      /\ pc[p] = "answered"
      /\ outcome[p] \in Decided
  BY DEF _release, JournalInv, ReleasesDecided
<1>2. /\ rowKey'[p] = NoKey
      /\ \A d \in Calls \ {p} : rowKey'[d] = rowKey[d]
  BY <1>1 DEF _release, JournalInv, TypeOK
<1>3. \A d \in Calls : Fate(d)' = Fate(d)
  BY DEF _release, Fate, JournalInv, TypeOK, InFlight, Owning
<1>4. \A j \in Keys : j # rowKey[p] => WorkOf(j)' = WorkOf(j)
  BY <1>1, <1>2, <1>3, SameFate, JournalAssumption DEF JournalInv
<1>5. CASE rowKey[p] \notin Keys
  BY <1>4, <1>5 DEF WorkMap
<1>6. CASE rowKey[p] \in Keys
  <2>1. WorkOf(rowKey[p]) = Fate(p)
    BY <1>1, <1>6, HolderSpeaks DEF JournalInv
  <2>2. Fate(p) \in {"free", "failed_in_doubt"}
    BY <1>1 DEF Fate, Owning, Decided, JournalInv, TerminalRow, Terminal
  <2>3. \A d \in Calls : rowKey'[d] # rowKey[p]
    BY <1>1, <1>2, <1>6, JournalAssumption DEF JournalInv, OneRowPerKey
  <2>4. \A j \in Keys : j = rowKey[p] => WorkOf(j)' = "free"
    <3>1. \A j \in Keys : (\A d \in Calls : rowKey'[d] # j) => WorkOf(j)' = "free"
      BY UnheldIsFree
    <3>2. QED
      BY <2>3, <3>1
  <2>5. /\ WorkMap[rowKey[p]] = Fate(p)
        /\ WorkMap' = [WorkMap EXCEPT ![rowKey[p]] = "free"]
    BY <1>4, <1>6, <2>1, <2>4 DEF WorkMap
  <2>6. CASE Fate(p) = "free"
    BY <1>6, <2>5, <2>6 DEF WorkMap
  <2>7. CASE Fate(p) = "failed_in_doubt"
    BY <1>6, <2>5, <2>7 DEF Work!Next, Work!KeyStep, Work!Clear, Work!Move
  <2>8. QED
    BY <2>2, <2>6, <2>7
<1>7. QED
  BY <1>5, <1>6

\* A call that stops working settles its key, frees it, or leaves it in doubt.
LEMMA EndMoves ==
  ASSUME JournalInv, JournalInv', NEW c \in Calls,
         end(c) \/ EndLost(c) \/ Abandon(c)
  PROVE  [Work!Next]_WorkMap
<1>1. rowKey' = rowKey
  BY DEF end, EndLost, Abandon, rowVars
<1>2. \A d \in Calls \ {c} : Fate(d)' = Fate(d)
  BY DEF end, EndLost, Abandon, Answer, Fate, JournalInv, TypeOK, rowVars
<1>3. CASE rowKey[c] \notin Keys
  <2>1. \A d \in Calls : rowKey[d] \in Keys => Fate(d)' = Fate(d)
    BY <1>2, <1>3
  <2>2. QED
    BY <1>1, <2>1, Stutter DEF JournalInv
<1>4. CASE rowKey[c] \in Keys
  <2>1. /\ WorkMap[rowKey[c]] = Fate(c)
        /\ WorkMap' = [WorkMap EXCEPT ![rowKey[c]] = Fate(c)']
    BY <1>1, <1>2, <1>4, OneCallMoves DEF JournalInv
  <2>2. pc[c] \in Owning
    BY <1>4, JournalAssumption
    DEF end, EndLost, Abandon, InFlight, Owning, Fresh, JournalInv, FreshCalls
  <2>3. Fate(c) = "claimed"
    BY <2>2 DEF Fate
  <2>4. Fate(c)' \in {"settled", "free", "failed_in_doubt", "in_doubt"}
    BY DEF end, EndLost, Abandon, Answer, Fate, Owning, JournalInv, TypeOK
  <2>5. QED
    BY <1>4, <2>1, <2>3, <2>4
    DEF Work!Next, Work!KeyStep, Work!Settle, Work!Refuse, Work!Doubt,
        Work!Misdoubt, Work!Move
<1>5. QED
  BY <1>3, <1>4

\* Reconciliation puts a settled or failed attempt in doubt if its list is stale,
\* and changes nothing about one that is at work or in doubt already.
LEMMA MarkDoubts ==
  ASSUME JournalInv, JournalInv', NEW c \in Calls, MarkInterrupted(c)
  PROVE  [Work!Next]_WorkMap
<1>1. rowKey' = rowKey
  BY DEF MarkInterrupted
<1>2. \A d \in Calls \ {c} : Fate(d)' = Fate(d)
  BY DEF MarkInterrupted, callVars, Fate, JournalInv, TypeOK
<1>3. CASE rowKey[c] \notin Keys
  <2>1. \A d \in Calls : rowKey[d] \in Keys => Fate(d)' = Fate(d)
    BY <1>2, <1>3
  <2>2. QED
    BY <1>1, <2>1, Stutter DEF JournalInv
<1>4. CASE rowKey[c] \in Keys
  <2>1. /\ WorkMap[rowKey[c]] = Fate(c)
        /\ WorkMap' = [WorkMap EXCEPT ![rowKey[c]] = Fate(c)']
    BY <1>1, <1>2, <1>4, OneCallMoves DEF JournalInv
  <2>2. \/ Fate(c)' = Fate(c)
        \/ Fate(c) = "settled" /\ Fate(c)' = "in_doubt"
        \/ Fate(c) = "free" /\ Fate(c)' = "failed_in_doubt"
    BY DEF MarkInterrupted, callVars, Fate, JournalInv, TypeOK, TerminalRow,
           Terminal, Decided
  <2>3. CASE Fate(c)' = Fate(c)
    BY <2>1, <2>3, <1>4 DEF WorkMap
  <2>4. QED
    BY <1>4, <2>1, <2>2, <2>3
    DEF Work!Next, Work!KeyStep, Work!Doubt, Work!Misdoubt, Work!Move
<1>5. QED
  BY <1>3, <1>4

\* A crash puts all claims of the core in doubt at once.
LEMMA CrashDoubts ==
  ASSUME JournalInv, JournalInv', Crash
  PROVE  [Work!Next]_WorkMap
<1>1. rowKey' = rowKey /\ status' = status /\ outcome' = outcome
  BY DEF Crash, rowVars
<1>2. \A d \in Calls :
         \/ Fate(d)' = Fate(d)
         \/ Fate(d) = "claimed" /\ Fate(d)' \in Work!Doubtful
  <2>1. \A d \in Calls : pc'[d] = pc[d] \/ pc'[d] = "gone"
    BY DEF Crash
  <2>2. \A d \in Calls : pc[d] \in Owning => status[d] \notin Terminal
    BY DEF JournalInv, TerminalRow, Owning
  <2>3. QED
    BY <1>1, <2>1, <2>2 DEF Fate, Owning, Terminal, Work!Doubtful
<1>3. ASSUME NEW k \in Keys
      PROVE  \/ WorkOf(k)' = WorkOf(k)
             \/ WorkOf(k) = "claimed" /\ WorkOf(k)' \in Work!Doubtful
  <2>1. CASE \A d \in Calls : rowKey[d] # k
    BY <1>1, <2>1, UnheldIsFree
  <2>2. ASSUME NEW d \in Calls, rowKey[d] = k
        PROVE  WorkOf(k) = Fate(d) /\ WorkOf(k)' = Fate(d)'
    BY <1>1, <2>2, HolderSpeaks, HolderSpeaksAfter DEF JournalInv
  <2>3. QED
    BY <1>2, <2>1, <2>2
<1>4. WorkMap' \in [Keys -> Work!States]
  <2>1. \A k \in Keys : WorkOf(k)' \in Work!States
    BY DEF WorkOf, Fate, Work!States, Work!Doubtful
  <2>2. QED
    BY <2>1 DEF WorkMap
<1>5. Work!DoubtAll
  BY <1>3, <1>4 DEF Work!DoubtAll, WorkMap
<1>6. QED
  BY <1>5 DEF Work!Next

\* The journal implements the promise of a key: every step is a step of
\* WorkOnce on the key it touches, or a stutter.
THEOREM KeepsThePromise == Spec => WorkOnceSpec
<1>1. Init => Work!Init
  <2>1. Init => \A k \in Keys : WorkOf(k) = "free"
    BY JournalAssumption, UnheldIsFree DEF Init
  <2>2. QED
    BY <2>1 DEF Work!Init, WorkMap
<1>2. JournalInv /\ JournalInv' /\ [Next]_vars => [Work!Next]_WorkMap
  <2> SUFFICES ASSUME JournalInv, JournalInv', [Next]_vars
               PROVE  [Work!Next]_WorkMap
    OBVIOUS
  <2>1. ASSUME NEW c \in Calls, CallStep(c) PROVE [Work!Next]_WorkMap
    BY <2>1, QuietStep, BeginClaims, ReleaseClears, EndMoves DEF CallStep
  <2>2. CASE wake_up \/ WakeDone \/ UNCHANGED vars
    <3>1. rowVars' = rowVars /\ callVars' = callVars
      BY <2>2 DEF wake_up, WakeDone, vars
    <3>2. QED
      BY <3>1 DEF WorkMap, WorkOf, Holders, Fate, rowVars, callVars
  <2>3. QED
    BY <2>1, <2>2, MarkDoubts, CrashDoubts DEF Next, CoreStep
<1>3. QED
  BY <1>1, <1>2, JournalInvariant, PTL DEF Spec, WorkOnceSpec, Work!Spec
=============================================================================
