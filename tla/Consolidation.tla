--------------------------- MODULE Consolidation ---------------------------
(***************************************************************************)
(* The nightly consolidation (ConsolidationDAG of memory/consolidate.py,   *)
(* booked by Life._maybe_consolidate) and the rows it works on: the facts  *)
(* about one subject, which a tool of the agent records too, and episodes  *)
(* old enough to be archived (memory/store.py).                            *)
(*                                                                         *)
(* A fact is its number; the statements of two facts differ.  What a model *)
(* answers, and whether a call or a write fails, is left open.  The        *)
(* clustering that says what is distilled is Clustering.                   *)
(***************************************************************************)
EXTENDS Naturals, FiniteSets, Sequences

CONSTANTS FactBound,   \* bound of the model: facts ever recorded
          Callers,     \* calls of memory.remember_fact, in tasks of their own
          Old,         \* episode |-> its month and the day it is past the cutoff
          Nights,      \* bound: days the model lives through
          Troubles     \* bound: failures and restarts on one day

NightAssumption ==
    /\ FactBound \in Nat /\ Nights \in Nat \ {0} /\ Troubles \in Nat \ {0}
    /\ \A e \in DOMAIN Old : Old[e].from \in Nat

VARIABLES facts,     \* fact |-> superseded_by (0: NULL) and whether valid_to is NULL
          call,      \* caller |-> where it is and the facts it found to supersede
          night,     \* where the consolidation is
          day,       \* the date; it is past run_at on it when due
          due,
          booked,    \* _consolidation_done_tonight; 0: None
          archived,  \* episodes whose row is marked archived
          file,      \* month |-> the episodes in its Parquet file
          passes,    \* history, of the day: completed passes, decay passes,
          decays,    \*   failures and restarts
          troubles,
          tangled,   \* history: two recordings overlapped, or facts were merged
          rewritten  \* history: episodes whose file was written again without them

rows == <<facts, call, tangled>>
store == <<archived, file, rewritten>>
clock == <<day, due, booked, passes, decays, troubles>>
vars == <<facts, call, night, day, due, booked, archived, file, passes, decays, troubles, tangled, rewritten>>

Months == {Old[e].month : e \in DOMAIN Old}
Idle == [at |-> "idle", began |-> 0, list |-> {}, asked |-> {}, pair |-> {}, found |-> {}]
Stages == {"distill", "resolve", "pairs", "merge", "knowhow", "decay", "archive", "mark", "autobiography", "plan", "record"}

TypeOK ==
    /\ \A f \in DOMAIN facts : facts[f] \in [by : 0 .. FactBound, valid : BOOLEAN]
    /\ call \in [Callers -> [at : {"new", "found", "done"}, found : SUBSET (1 .. FactBound)]]
    /\ night.at \in Stages \cup {"idle", "insert"} /\ night.began \in 0 .. Nights /\ night.list \subseteq DOMAIN facts
    /\ day \in 1 .. Nights /\ due \in BOOLEAN /\ booked \in 0 .. Nights
    /\ archived \subseteq DOMAIN Old /\ file \in [Months -> SUBSET DOMAIN Old]
    /\ passes \in 0 .. Troubles + 1 /\ troubles \in 0 .. Troubles /\ tangled \in BOOLEAN

Init ==
    /\ facts = << >> /\ call = [c \in Callers |-> [at |-> "new", found |-> {}]] /\ night = Idle
    /\ day = 1 /\ due = FALSE /\ booked = 0
    /\ archived = {} /\ file = [m \in Months |-> {}]
    /\ passes = 0 /\ decays = 0 /\ troubles = 0 /\ tangled = FALSE /\ rewritten = {}

-----------------------------------------------------------------------------
(* record_fact: the facts to supersede are read first, and superseded with *)
(* the insert of the new one in one transaction.                           *)

\* Variants named mutant_* are mistakes the properties must catch.
mutant_Similar == {f \in DOMAIN facts : facts[f].by = 0 /\ ~facts[f].valid}
Similar == {f \in DOMAIN facts : facts[f].by = 0 /\ facts[f].valid}
Recorded(found) ==
    Append([f \in DOMAIN facts |-> IF f \in found THEN [by |-> Len(facts) + 1, valid |-> FALSE] ELSE facts[f]],
           [by |-> 0, valid |-> TRUE])
Under == {c \in Callers : call[c].at = "found"}
Nightly == night.at \in {"insert", "merge"}

remember_fact(c) ==
    /\ call[c].at = "new"
    /\ call' = [call EXCEPT ![c] = [at |-> "found", found |-> Similar]]
    /\ tangled' = (tangled \/ Under # {} \/ Nightly)
    /\ UNCHANGED <<facts, night, store, clock>>
FactInserted(c) ==
    /\ call[c].at = "found" /\ Len(facts) < FactBound
    /\ facts' = Recorded(call[c].found) /\ call' = [call EXCEPT ![c] = [at |-> "done", found |-> {}]]
    /\ UNCHANGED <<night, tangled, store, clock>>

-----------------------------------------------------------------------------
(* run_nightly, in the life loop's task, stage by stage.                   *)

Go(stage) == night' = [night EXCEPT !.at = stage, !.found = {}]

_maybe_consolidate(episodes) ==   \* without episodes there is nothing to distill
    /\ night.at = "idle" /\ due /\ booked # day
    /\ night' = [Idle EXCEPT !.at = IF episodes THEN "distill" ELSE "knowhow", !.began = day]
    /\ UNCHANGED <<rows, store, clock>>

_distill_cluster ==   \* one fact more about the subject, or no more of them
    /\ night.at = "distill"
    /\ \/ night' = [night EXCEPT !.at = "insert", !.found = Similar] /\ tangled' = (tangled \/ Under # {})
       \/ Go("resolve") /\ UNCHANGED tangled
    /\ UNCHANGED <<facts, call, store, clock>>
DistilledInserted ==
    /\ night.at = "insert" /\ Len(facts) < FactBound
    /\ facts' = Recorded(night.found) /\ Go("distill")
    /\ UNCHANGED <<call, tangled, store, clock>>

Current == {f \in DOMAIN facts : facts[f].by = 0}   \* facts_about; valid_to is not asked
ReadFacts ==
    /\ night.at = "resolve" /\ night' = [night EXCEPT !.at = "pairs", !.list = Current, !.asked = {}]
    /\ UNCHANGED <<rows, store, clock>>

\* The pairs are of the list that was read: a fact superseded by an earlier
\* verdict, or meanwhile, is compared all the same.
Pairs == {p \in SUBSET night.list : Cardinality(p) = 2} \ night.asked
_resolve_contradictions ==
    /\ night.at = "pairs"
    /\ \/ Pairs = {} /\ Go("knowhow") /\ UNCHANGED rows
       \/ \E p \in Pairs :
            \/ /\ \E keep \in p, lose \in p :
                     keep # lose /\ facts' = [facts EXCEPT ![lose] = [by |-> keep, valid |-> FALSE]]
               /\ night' = [night EXCEPT !.asked = @ \cup {p}] /\ UNCHANGED <<call, tangled>>
            \/ night' = [night EXCEPT !.asked = @ \cup {p}] /\ UNCHANGED rows
            \/ /\ night' = [night EXCEPT !.at = "merge", !.asked = @ \cup {p}, !.pair = p, !.found = Similar]
               /\ tangled' = TRUE /\ UNCHANGED <<facts, call>>
    /\ UNCHANGED <<store, clock>>

\* The merged statement is recorded and then its parents get superseded_by NULL
\* (two more writes, between which nobody could find the parents current).
MergedInserted ==
    /\ night.at = "merge" /\ Len(facts) < FactBound
    /\ facts' = [f \in 1 .. Len(facts) + 1 |->
                    IF f \in night.pair THEN [by |-> 0, valid |-> FALSE] ELSE Recorded(night.found)[f]]
    /\ night' = [night EXCEPT !.at = "pairs", !.pair = {}, !.found = {}]
    /\ UNCHANGED <<call, tangled, store, clock>>

_extract_knowhow == night.at = "knowhow" /\ Go("decay") /\ UNCHANGED <<rows, store, clock>>
decay_pass ==
    /\ night.at = "decay" /\ Go("archive") /\ decays' = decays + 1
    /\ UNCHANGED <<rows, store, day, due, booked, passes, troubles>>

\* The rows come in no order, and all of them go to the file of the first one's
\* month, which is written over; then they are marked.
PastCutoff == {e \in DOMAIN Old : Old[e].from <= night.began} \ archived
mutant_archive_pass_marks_first(m) ==
    /\ night.at = "archive" /\ m \in {Old[e].month : e \in PastCutoff}
    /\ night' = [night EXCEPT !.at = "mark", !.found = PastCutoff]
    /\ archived' = archived \cup PastCutoff /\ UNCHANGED <<rows, file, rewritten, clock>>
archive_pass(m) ==
    LET due_rows == PastCutoff
    IN  /\ night.at = "archive" /\ m \in {Old[e].month : e \in due_rows}
        /\ file' = [file EXCEPT ![m] = due_rows]
        /\ rewritten' = rewritten \cup (file[m] \ due_rows)
        /\ night' = [night EXCEPT !.at = "mark", !.found = due_rows]
        /\ UNCHANGED <<rows, archived, clock>>
NothingOld == night.at = "archive" /\ PastCutoff = {} /\ Go("autobiography") /\ UNCHANGED <<rows, store, clock>>
MarkArchived ==
    /\ night.at = "mark" /\ archived' = archived \cup night.found /\ Go("autobiography")
    /\ UNCHANGED <<rows, file, rewritten, clock>>

\* Each catches its own failure.
_autobiography == night.at = "autobiography" /\ Go("plan") /\ UNCHANGED <<rows, store, clock>>
_plan_next_day == night.at = "plan" /\ Go("record") /\ UNCHANGED <<rows, store, clock>>

mutant_Booking == booked
Booking == day
NightEnds ==   \* booked under the date it is by then
    /\ night.at = "record" /\ night' = Idle /\ booked' = Booking /\ passes' = passes + 1
    /\ UNCHANGED <<rows, store, day, due, decays, troubles>>

Trouble == troubles < Troubles /\ troubles' = troubles + 1
NightFails ==   \* whatever raises ends the pass; the next cycle begins it again
    /\ night.at \in Stages \cup {"insert"} /\ Trouble /\ night' = Idle
    /\ UNCHANGED <<rows, store, day, due, booked, passes, decays>>

\* _consolidation_done_tonight is not saved anywhere.
Restart ==
    /\ Trouble /\ night' = Idle /\ booked' = 0
    /\ call' = [c \in Callers |-> IF call[c].at = "found" THEN [at |-> "done", found |-> {}] ELSE call[c]]
    /\ UNCHANGED <<facts, tangled, store, day, due, passes, decays>>

RunAt == ~due /\ due' = TRUE /\ UNCHANGED <<rows, night, store, day, booked, passes, decays, troubles>>
Midnight ==   \* a pass under way goes on into the new day
    /\ due /\ day < Nights /\ day' = day + 1 /\ due' = FALSE
    /\ passes' = 0 /\ decays' = 0 /\ troubles' = (IF night.at = "idle" THEN 0 ELSE 1)
    /\ UNCHANGED <<rows, night, store, booked>>

Next ==
    \/ \E c \in Callers : remember_fact(c) \/ FactInserted(c)
    \/ \E episodes \in BOOLEAN : _maybe_consolidate(episodes)
    \/ _distill_cluster \/ DistilledInserted \/ ReadFacts \/ _resolve_contradictions \/ MergedInserted
    \/ _extract_knowhow \/ decay_pass
    \/ \E m \in Months : archive_pass(m)
    \/ NothingOld \/ MarkArchived \/ _autobiography \/ _plan_next_day \/ NightEnds
    \/ NightFails \/ Restart \/ RunAt \/ Midnight
Spec == Init /\ [][Next]_vars

-----------------------------------------------------------------------------

\* A new fact supersedes what was known: two facts about one subject are current
\* only after two recordings overlapped or the night has merged two. The
\* contradictions the night resolves are therefore made by a race or by itself.
OneCurrentUnlessTangled == ~tangled => Cardinality(Current) <= 1

\* Strength decays once a night: every pass more of a day is one that a failure
\* or a restart, or a pass reaching over midnight, has asked for.
DecayedOncePerNight == decays <= 1 + troubles /\ passes <= 1 + troubles

\* What is marked archived is in a file, or was until a later pass wrote over
\* the file of that month: a crash between the two loses nothing.
ArchivedIsOnFile == archived \subseteq rewritten \cup UNION {file[m] : m \in Months}

\* "Written down by date so a restart does not run it twice" (life.py).
RunsOnceANight == passes <= 1
=============================================================================
