-------------------------------- MODULE Jobs --------------------------------
(***************************************************************************)
(* Background jobs of the toolhost (ShellJobTool of toolhost/tools/shell): *)
(* a job is numbered by how many there are, then its process is started,   *)
(* and then it is kept under its number.                                   *)
(***************************************************************************)
EXTENDS Naturals, FiniteSets, Functions

CONSTANTS Starts  \* calls with the action start; a job is named after its own

JobsAssumption == IsFiniteSet(Starts)

VARIABLES background_jobs,   \* number in the job's id |-> the job
          start,             \* start |-> how far it has come, and its number
          ended,             \* jobs whose process has ended
          crossed            \* starts that were under way at once

vars == <<background_jobs, start, ended, crossed>>

TypeOK ==
    /\ DOMAIN background_jobs \subseteq 1 .. Cardinality(Starts) /\ Range(background_jobs) \subseteq Starts
    /\ start \in [Starts -> [at : {"new", "starting", "told"}, n : 0 .. Cardinality(Starts)]]
    /\ ended \subseteq Starts /\ crossed \subseteq Starts

Init ==
    /\ background_jobs = << >> /\ start = [s \in Starts |-> [at |-> "new", n |-> 0]]
    /\ ended = {} /\ crossed = {}

ShellJobTool(s) ==
    /\ start[s].at = "new"
    /\ start' = [start EXCEPT ![s] = [at |-> "starting", n |-> Cardinality(DOMAIN background_jobs) + 1]]
    /\ LET others == {r \in Starts : start[r].at = "starting"}
       IN  crossed' = IF others = {} THEN crossed ELSE crossed \cup others \cup {s}
    /\ UNCHANGED <<background_jobs, ended>>
Started(s) ==
    /\ start[s].at = "starting"
    /\ start' = [start EXCEPT ![s].at = "told"]
    /\ background_jobs' = [n \in DOMAIN background_jobs \cup {start[s].n} |->
                              IF n = start[s].n THEN s ELSE background_jobs[n]]
    /\ UNCHANGED <<ended, crossed>>

\* Variants named mutant_* are mistakes the properties must catch.
mutant_kill_forgets(n) ==
    /\ n \in DOMAIN background_jobs /\ ended' = ended \cup {background_jobs[n]}
    /\ background_jobs' = Restrict(background_jobs, DOMAIN background_jobs \ {n})
    /\ UNCHANGED <<start, crossed>>
kill(n) ==
    /\ n \in DOMAIN background_jobs /\ background_jobs[n] \notin ended
    /\ ended' = ended \cup {background_jobs[n]}
    /\ UNCHANGED <<background_jobs, start, crossed>>
_pump(s) ==
    /\ start[s].at = "told" /\ s \notin ended /\ ended' = ended \cup {s}
    /\ UNCHANGED <<background_jobs, start, crossed>>

Next ==
    \/ \E s \in Starts : ShellJobTool(s) \/ Started(s) \/ _pump(s)
    \/ \E n \in DOMAIN background_jobs : kill(n)
Spec == Init /\ [][Next]_vars

-----------------------------------------------------------------------------

\* The job that was started is the one its id finds, whatever ended since: only
\* starts that were under way at once are given one number, and then one of
\* the two processes can be neither read nor killed any more.
IdFindsTheJob ==
    \A s \in Starts \ crossed : start[s].at = "told" =>
       start[s].n \in DOMAIN background_jobs /\ background_jobs[start[s].n] = s
=============================================================================
