--------------------------- MODULE WorkingContext ---------------------------
(***************************************************************************)
(* The thread the loop carries from cycle to cycle (ContextLayer of        *)
(* memory/context.py): a buffer of turns whose oldest stretch is narrated  *)
(* into one line, lines that leave the thread for the long-term memory,    *)
(* and the snapshot a restart resumes from.                                *)
(*                                                                         *)
(* One task appends (the life loop and the solver it awaits), so nothing   *)
(* is appended while a narration is awaited; the process can die there.    *)
(* A turn is its number; a line is the set of the turns it stands for.     *)
(* Wording, the open loops and the character budgets are left out.         *)
(***************************************************************************)
EXTENDS Integers, FiniteSets, Sequences, Functions

CONSTANTS MaxTurns, NarrateEvery, MaxLines, PersistTurns,   \* ContextConfig
          Salience,   \* kind of turn |-> its default salience, in hundredths
          TurnBound   \* bound of the model: turns ever appended

\* As ContextConfig has them (48, 12, 12 and 30; 0.85, and 0.35 for an event, are
\* 85 and 35): a stretch fits the buffer, and a person's message outweighs what
\* the loop notes by itself by half a point or more.
ContextAssumption ==
    /\ {MaxTurns, NarrateEvery, MaxLines, PersistTurns} \subseteq Nat \ {0}
    /\ NarrateEvery <= MaxTurns + 1 /\ TurnBound \in Nat
    /\ "event" \in DOMAIN Salience /\ \A k \in DOMAIN Salience : Salience[k] \in Nat
    /\ \A k \in DOMAIN Salience \cap {"thought", "event"} :
          "inbound" \in DOMAIN Salience => Salience["inbound"] >= Salience[k] + 50

VARIABLES kind,        \* kind[t] of every turn t ever appended
          turns,       \* the buffer, oldest first
          narrative,   \* the lines, oldest first
          at,          \* where the loop is awaited: free, narrating, remembering
          hand,        \* the turns of the stretch, or of the line, in its hand
          focus_roll,  \* the focus has changed and the roll for it is still due
          memory,      \* lines recorded as episodes
          saved,       \* continuity.json: the lines and the newest turns
          dropped      \* turns that a restart or a failed write has lost

vars == <<kind, turns, narrative, at, hand, focus_roll, memory, saved, dropped>>

Recent(s, n) == SubSeq(s, IF Len(s) > n THEN Len(s) - n + 1 ELSE 1, Len(s))
Ever == DOMAIN kind
Told(lines) == UNION Range(lines)

TypeOK ==
    /\ kind \in Seq(DOMAIN Salience) /\ Len(kind) <= TurnBound
    /\ Range(turns) \subseteq Ever /\ Len(turns) <= MaxTurns + 1
    /\ Told(narrative) \subseteq Ever /\ Len(narrative) <= MaxLines + 1
    /\ at \in {"free", "narrating", "remembering"} /\ hand \subseteq Ever
    /\ (at = "free") => (hand = {})
    /\ focus_roll \in BOOLEAN /\ memory \subseteq SUBSET Ever /\ dropped \subseteq Ever
    /\ Len(saved.narrative) <= MaxLines /\ Len(saved.turns) <= PersistTurns

Init ==
    /\ kind = << >> /\ turns = << >> /\ narrative = << >> /\ at = "free" /\ hand = {}
    /\ focus_roll = FALSE /\ memory = {} /\ dropped = {}
    /\ saved = [narrative |-> << >>, turns |-> << >>]

-----------------------------------------------------------------------------

\* Variants named mutant_* are mistakes the properties must catch.
mutant_Taken_loses(buffer) == [hand |-> Range(SubSeq(buffer, 1, NarrateEvery)), left |-> Recent(buffer, 1)]
mutant_Taken_keeps(buffer) == [hand |-> Range(SubSeq(buffer, 1, NarrateEvery)), left |-> Tail(buffer)]
Taken(buffer) == [hand |-> Range(SubSeq(buffer, 1, NarrateEvery)),
                  left |-> SubSeq(buffer, NarrateEvery + 1, Len(buffer))]

roll(buffer) ==   \* the stretch leaves the buffer before the narrator is asked
    /\ at' = "narrating" /\ hand' = Taken(buffer).hand /\ turns' = Taken(buffer).left

append(k, changes_focus) ==
    /\ at = "free" /\ ~focus_roll /\ Len(kind) < TurnBound
    /\ kind' = Append(kind, k)
    /\ focus_roll' = changes_focus
    /\ LET buffer == Append(turns, Len(kind) + 1)
       IN  IF Len(buffer) > MaxTurns /\ Len(buffer) >= NarrateEvery
           THEN roll(buffer)
           ELSE turns' = buffer /\ UNCHANGED <<at, hand>>
    /\ UNCHANGED <<narrative, memory, saved, dropped>>

_roll_on_focus_change ==
    /\ at = "free" /\ focus_roll /\ focus_roll' = FALSE
    /\ IF Len(turns) >= NarrateEvery THEN roll(turns) ELSE UNCHANGED <<at, hand, turns>>
    /\ UNCHANGED <<kind, narrative, memory, saved, dropped>>

\* The model's line or, when it cannot be had, the mechanical one: a line always
\* comes.  The oldest leaves the thread when there are too many.
_narrate ==
    /\ at = "narrating"
    /\ LET lines == Append(narrative, hand)
       IN  IF Len(lines) > MaxLines
           THEN narrative' = Tail(lines) /\ hand' = Head(lines) /\ at' = "remembering"
           ELSE narrative' = lines /\ hand' = {} /\ at' = "free"
    /\ UNCHANGED <<kind, turns, focus_roll, memory, saved, dropped>>

_remember_narrative(written) ==   \* a failed write is only logged
    /\ at = "remembering" /\ at' = "free" /\ hand' = {}
    /\ memory' = IF written THEN memory \cup {hand} ELSE memory
    /\ dropped' = IF written THEN dropped ELSE dropped \cup hand
    /\ UNCHANGED <<kind, turns, narrative, focus_roll, saved>>

Snapshot == [narrative |-> Recent(narrative, MaxLines), turns |-> Recent(turns, PersistTurns)]
save ==
    /\ at = "free" /\ ~focus_roll /\ saved # Snapshot /\ saved' = Snapshot
    /\ UNCHANGED <<kind, turns, narrative, at, hand, focus_roll, memory, dropped>>

\* The process dies and the next one restores what was last saved.
Restart ==
    /\ turns' = saved.turns /\ narrative' = saved.narrative
    /\ at' = "free" /\ hand' = {} /\ focus_roll' = FALSE
    /\ dropped' = Ever \ (Range(saved.turns) \cup Told(saved.narrative) \cup UNION memory)
    /\ UNCHANGED <<kind, memory, saved>>

Next ==
    \/ \E k \in DOMAIN Salience : append(k, FALSE)
    \/ append("event", TRUE)
    \/ _roll_on_focus_change
    \/ _narrate
    \/ \E written \in BOOLEAN : _remember_narrative(written)
    \/ save
    \/ Restart
Spec == Init /\ [][Next]_vars

-----------------------------------------------------------------------------

\* _ordered_turns: the place in the buffer plus the salience times twice its length.
mutant_Weight(i) == 100 * i + Salience[kind[turns[i]]] * Len(turns)
Weight(i) == 100 * i + Salience[kind[turns[i]]] * 2 * Len(turns)

\* "Narration failing is not allowed to lose a turn": whatever was appended is
\* in the buffer, in the loop's hand, told by a line or remembered, unless a
\* restart or a failed write of an episode has lost it.
TurnsAccountedFor ==
    Ever = Range(turns) \cup hand \cup Told(narrative) \cup dropped \cup UNION memory

\* The thread is one story: its lines, the stretch in hand and the buffer tell
\* each turn once and in the order it happened, across every roll and restart.
ThreadInOrder ==
    LET told == narrative \o (IF at = "narrating" THEN <<hand>> ELSE << >>) \o [i \in DOMAIN turns |-> {turns[i]}]
    IN  \A i, j \in DOMAIN told : i < j => \A t \in told[i], u \in told[j] : t < u

\* A message a person sent is never read after what the loop thought or noted
\* by itself, however many such turns have come since.
MessageNotBuried ==
    \A i, j \in DOMAIN turns :
       (kind[turns[i]] = "inbound" /\ kind[turns[j]] \in {"thought", "event"}) => Weight(i) > Weight(j)
=============================================================================
