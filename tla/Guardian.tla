----------------------------- MODULE Guardian -----------------------------
(***************************************************************************)
(* The guardian's part of a tool call (ethos/guardian/gate.py, trash.py,   *)
(* registry.py), the file tools it passes (ethos/toolhost/tools/fs.py) and *)
(* the undo of a deletion (ethos/core/runner.py).  A file's bytes are a    *)
(* version; a directory has the files that lie in it.  Callers run in the  *)
(* core and in the toolhost, the undo in the core's dispatch loop.  That a *)
(* pause or the preview mode refuses a call is ControlPlane's subject.     *)
(***************************************************************************)
EXTENDS Naturals, Sequences, FiniteSets

CONSTANTS Paths,      \* the paths of interest
          Holds,      \* path |-> the paths at and below it
          Commands,   \* sequences of targets a deleting command may name
          Callers,    \* tool calls that may run at once
          None,       \* no version, no entry
          MaxVersions, MaxCalls, MaxFaults   \* bounds: versions, calls, faults

Dirs     == {p \in Paths : Holds[p] # {p}}
Files    == Paths \ Dirs
Versions == 1 .. MaxVersions
Ids      == 1 .. MaxCalls

GuardianAssumption ==
    /\ Holds \in [Paths -> SUBSET Paths] /\ \A p \in Paths : p \in Holds[p]
    /\ Commands \subseteq Seq(Paths) /\ <<>> \notin Commands
    /\ None \notin Nat /\ None \notin Paths
    /\ Files # {} /\ MaxVersions \in Nat \ {0} /\ MaxCalls \in Nat /\ MaxFaults \in Nat

VARIABLES at,         \* file |-> the version that is there
          versions,   \* versions written so far
          backups,    \* versions in data_dir/backups
          beside,     \* versions restored under a name of their own
          artifacts,  \* registry: the commissioned paths
          trash,      \* entry |-> what is known of it
          job,        \* what each call is doing
          calls,      \* calls so far
          undo,       \* what the dispatch loop's undo is doing
          clobbered,  \* history: versions a move was laid over
          faults      \* faults so far

vars == <<at, versions, backups, beside, artifacts, trash, job, calls, undo, clobbered, faults>>

Bytes    == [Files -> Versions \cup {None}]
NoBytes  == [f \in Files |-> None]
Kinds    == {"fast_path", "due_process"}
Entries  == [path : Paths, kind : Kinds, bytes : Bytes, manifest : BOOLEAN, row : BOOLEAN,
             cut : BOOLEAN, owed : SUBSET Paths, excused : BOOLEAN]
Tools    == {"fs.write", "fs.edit", "fs.move", "fs.delete", "permission"}
Jobs     == [at : {"idle", "looking", "asking", "moving", "naming", "rowing", "running", "registering"},
             tool : Tools, targets : Seq(Paths), next : Nat, protected : BOOLEAN,
             kind : Kinds, entry : Ids \cup {None}, for : BOOLEAN,
             owed : SUBSET Paths, excused : BOOLEAN]
Resting  == [at |-> "idle", tool |-> "fs.write", targets |-> <<>>, next |-> 1, protected |-> FALSE,
             kind |-> "fast_path", entry |-> None, for |-> FALSE, owed |-> {}, excused |-> FALSE]

TypeOK ==
    /\ at \in Bytes /\ versions \in 0 .. MaxVersions
    /\ backups \subseteq Versions /\ beside \subseteq Versions /\ clobbered \subseteq Versions
    /\ artifacts \subseteq Paths
    /\ DOMAIN trash \subseteq Ids /\ \A e \in DOMAIN trash : trash[e] \in Entries
    /\ job \in [Callers -> Jobs] /\ calls \in 0 .. MaxCalls
    /\ undo \in [at : {"idle", "getting", "restoring", "unnaming", "unrowing"}, entry : Ids \cup {None}]
    /\ faults \in 0 .. MaxFaults

Exists(p)  == \E f \in Files \cap Holds[p] : at[f] # None
Idle       == [at |-> "idle", entry |-> None]
Fails      == faults < MaxFaults /\ faults' = faults + 1

Init ==
    /\ at = [f \in Files |-> IF f = CHOOSE g \in Files : TRUE THEN 1 ELSE None]
    /\ versions = 1
    /\ backups = {} /\ beside = {} /\ artifacts = {} /\ clobbered = {}
    /\ trash = <<>>
    /\ job = [c \in Callers |-> Resting]
    /\ calls = 0 /\ undo = Idle /\ faults = 0

-----------------------------------------------------------------------------
(* Review.  Variants named mutant_* are mistakes the properties must catch; *)
(* no action uses them.                                                     *)

Goes(c, place) == job' = [job EXCEPT ![c].at = place]
Ends(c)        == job' = [job EXCEPT ![c] = Resting]

\* The commissions a destruction of p touches: those at or below it.  The
\* query keeps only artifacts whose uri begins with the target.
mutant_is_protected_exact(p) == p \in artifacts
is_protected(p) == artifacts \cap Holds[p] # {}

\* The categories of a tool; "permission" is a shell command such as chmod.
classify_tool(tool) ==
    CASE tool \in {"fs.write", "fs.edit"} -> {"write"}
      [] tool = "fs.move"    -> {"move"}
      [] tool = "fs.delete"  -> {"delete", "irreversible"}
      [] tool = "permission" -> {"execute", "network", "permission"}
is_destructive(tool) == classify_tool(tool) \cap {"delete", "irreversible", "permission"} # {}
Deletes(tool)        == "delete" \in classify_tool(tool)

auto_register_write(p) == artifacts' = IF Exists(p) THEN artifacts \cup {p} ELSE artifacts

\* A call's review begins: one that destroys looks up its targets, any other
\* goes on, after registering what it is about to write for a commission.
Called(c, tool, ts, for) ==
    [Resting EXCEPT !.tool = tool, !.targets = ts, !.for = for, !.owed = artifacts \cap Holds[ts[1]]]
review(c, tool, ts, for) ==
    /\ job[c].at = "idle" /\ calls < MaxCalls
    /\ calls' = calls + 1
    /\ job' = [job EXCEPT ![c] =
         [Called(c, tool, ts, for) EXCEPT !.at = IF is_destructive(tool) THEN "looking" ELSE "running"]]
    /\ IF for /\ ~is_destructive(tool)
       THEN \/ auto_register_write(ts[Len(ts)]) /\ UNCHANGED faults
            \/ Fails /\ UNCHANGED artifacts
       ELSE UNCHANGED <<artifacts, faults>>
    /\ UNCHANGED <<at, versions, backups, beside, trash, undo, clobbered>>

\* Its targets in turn, up to the first that is protected.  A query that fails
\* is taken for no.
_review_destructive(c) ==
    /\ job[c].at = "looking"
    /\ LET j    == job[c]
           last == j.next = Len(j.targets)
           past == IF ~last THEN [j EXCEPT !.next = @ + 1]
                   ELSE [j EXCEPT !.at = IF Deletes(j.tool) THEN "moving" ELSE "running"] IN
       \/ /\ job' = [job EXCEPT ![c] =
                IF is_protected(j.targets[j.next])
                THEN [j EXCEPT !.at = "asking", !.protected = TRUE] ELSE past]
          /\ UNCHANGED faults
       \/ /\ Fails
          /\ job' = [job EXCEPT ![c] = [past EXCEPT !.excused = TRUE]]
    /\ UNCHANGED <<at, versions, backups, beside, artifacts, trash, calls, undo, clobbered>>

\* The verifier's answer; one that cannot be had protects the artifact.
check_consistency(c) ==
    /\ job[c].at = "asking"
    /\ \/ job' = [job EXCEPT ![c].at = "moving", ![c].kind = "due_process"]
       \/ Ends(c)
    /\ UNCHANGED <<at, versions, backups, beside, artifacts, trash, calls, undo, clobbered, faults>>

-----------------------------------------------------------------------------
(* TrashStore.move: the first target, whichever of them was protected.     *)

NewId == CHOOSE e \in Ids : e \notin DOMAIN trash

\* The move itself, in a thread; what is not there any more cannot be moved.
move(c) ==
    /\ job[c].at = "moving"
    /\ LET j == job[c]
           p == j.targets[1] IN
       IF ~Exists(p) THEN Ends(c) /\ UNCHANGED <<at, trash>>
       ELSE /\ trash' = [e \in DOMAIN trash \cup {NewId} |->
                 IF e \in DOMAIN trash THEN trash[e]
                 ELSE [path |-> p, kind |-> j.kind, manifest |-> FALSE, row |-> FALSE, cut |-> FALSE,
                       owed |-> j.owed, excused |-> j.excused,
                       bytes |-> [f \in Files |-> IF f \in Holds[p] THEN at[f] ELSE None]]]
            /\ at' = [f \in Files |-> IF f \in Holds[p] THEN None ELSE at[f]]
            /\ job' = [job EXCEPT ![c].at = "naming", ![c].entry = NewId]
    /\ UNCHANGED <<versions, backups, beside, artifacts, calls, undo, clobbered, faults>>

mutant_Manifested_not(e) == trash
Manifested(e) == [trash EXCEPT ![e].manifest = TRUE]

writes_manifest(c) ==
    /\ job[c].at = "naming"
    /\ trash' = Manifested(job[c].entry)
    /\ Goes(c, "rowing")
    /\ UNCHANGED <<at, versions, backups, beside, artifacts, calls, undo, clobbered, faults>>

\* The row, which may fail and is then only logged; then the snapshot, the
\* audit entry and the transformed call, a read of the trashed path.
upsert_env(c) ==
    /\ job[c].at = "rowing"
    /\ \/ trash' = [trash EXCEPT ![job[c].entry].row = TRUE] /\ UNCHANGED faults
       \/ Fails /\ UNCHANGED trash
    /\ Ends(c)
    /\ UNCHANGED <<at, versions, backups, beside, artifacts, calls, undo, clobbered>>

-----------------------------------------------------------------------------
(* The file tools: one step each, because their run never awaits.          *)

New            == versions + 1
Written(f)     == at' = [at EXCEPT ![f] = New] /\ versions' = New
mutant_preimage_backup_new(f) == backups \cup ({New} \ {None})
_preimage_backup(f) == backups \cup ({at[f]} \ {None})
Reports(c)     == IF job[c].for THEN Goes(c, "registering") ELSE Ends(c)

\* A whole file written, or appended to; refused over a file that is there
\* unless the call says so.
fs_write(c) ==
    /\ job[c].at = "running" /\ job[c].tool = "fs.write"
    /\ LET f == job[c].targets[1] IN
       \/ /\ f \in Files /\ versions < MaxVersions
          /\ backups' = _preimage_backup(f)
          /\ Written(f) /\ Reports(c)
       \/ /\ f \notin Files \/ Exists(f) \/ versions = MaxVersions
          /\ Ends(c) /\ UNCHANGED <<at, versions, backups>>
    /\ UNCHANGED <<beside, artifacts, trash, calls, undo, clobbered, faults>>

\* The backup is taken before the edit is known to apply.
fs_edit(c) ==
    /\ job[c].at = "running" /\ job[c].tool = "fs.edit"
    /\ LET f == job[c].targets[1] IN
       IF f \notin Files \/ ~Exists(f) THEN Ends(c) /\ UNCHANGED <<at, versions, backups>>
       ELSE /\ backups' = _preimage_backup(f)
            /\ \/ versions < MaxVersions /\ Written(f) /\ Reports(c)
               \/ Ends(c) /\ UNCHANGED <<at, versions>>
    /\ UNCHANGED <<beside, artifacts, trash, calls, undo, clobbered, faults>>

\* shutil.move lays the file over what is at the target.
fs_move(c) ==
    /\ job[c].at = "running" /\ job[c].tool = "fs.move"
    /\ LET f == job[c].targets[1]
           g == job[c].targets[2] IN
       IF {f, g} \subseteq Files /\ f # g /\ Exists(f)
       THEN /\ at' = [at EXCEPT ![g] = at[f], ![f] = None]
            /\ clobbered' = clobbered \cup ({at[g]} \ {None})
            /\ Reports(c)
       ELSE Ends(c) /\ UNCHANGED <<at, clobbered>>
    /\ UNCHANGED <<versions, backups, beside, artifacts, trash, calls, undo, faults>>

\* A change of permissions, audited and allowed.
chmod(c) ==
    /\ job[c].at = "running" /\ job[c].tool = "permission"
    /\ Ends(c)
    /\ UNCHANGED <<at, versions, backups, beside, artifacts, trash, calls, undo, clobbered, faults>>

\* What a commissioned call produced is registered; a failure is logged.
_auto_register_commission(c) ==
    /\ job[c].at = "registering"
    /\ \/ auto_register_write(job[c].targets[Len(job[c].targets)]) /\ UNCHANGED faults
       \/ Fails /\ UNCHANGED artifacts
    /\ Ends(c)
    /\ UNCHANGED <<at, versions, backups, beside, trash, calls, undo, clobbered>>

-----------------------------------------------------------------------------
(* Undo. *)

Gets(place, e) == undo' = [at |-> place, entry |-> e]

\* Pressed on the interface for an entry, or for the action that made it.
UndoPressed(e) ==
    /\ undo.at = "idle" /\ e \in DOMAIN trash
    /\ Gets("getting", e)
    /\ UNCHANGED <<at, versions, backups, beside, artifacts, trash, job, calls, clobbered, faults>>

\* get: the row, or the manifest; an entry nobody can name is not restored.
Named(e) == trash[e].row \/ trash[e].manifest
_handle_undo ==
    /\ undo.at = "getting"
    /\ \/ /\ IF Named(undo.entry) THEN Gets("restoring", undo.entry) ELSE undo' = Idle
          /\ UNCHANGED faults
       \/ Fails /\ undo' = Idle
    /\ UNCHANGED <<at, versions, backups, beside, artifacts, trash, job, calls, clobbered>>

\* restore: back to its origin, or beside it when the origin is taken; an
\* entry whose bytes are gone raises, and the undo is over.
mutant_Gone_or_taken(e) == trash[e].bytes = NoBytes \/ Exists(trash[e].path)
Gone(e) == trash[e].bytes = NoBytes
restore ==
    /\ undo.at = "restoring"
    /\ LET e == undo.entry
           b == trash[e].bytes IN
       IF Gone(e) THEN undo' = Idle /\ UNCHANGED <<at, beside, trash>>
       ELSE /\ IF Exists(trash[e].path)
               THEN beside' = beside \cup ({b[f] : f \in Files} \ {None}) /\ UNCHANGED at
               ELSE at' = [f \in Files |-> IF b[f] # None THEN b[f] ELSE at[f]] /\ UNCHANGED beside
            /\ trash' = [trash EXCEPT ![e].bytes = NoBytes]
            /\ Gets("unnaming", e)
    /\ UNCHANGED <<versions, backups, artifacts, job, calls, clobbered, faults>>
removes_manifest ==
    /\ undo.at = "unnaming"
    /\ trash' = [trash EXCEPT ![undo.entry].manifest = FALSE]
    /\ Gets("unrowing", undo.entry)
    /\ UNCHANGED <<at, versions, backups, beside, artifacts, job, calls, clobbered, faults>>
delete_env ==
    /\ undo.at = "unrowing"
    /\ \/ trash' = [trash EXCEPT ![undo.entry].row = FALSE] /\ UNCHANGED faults
       \/ Fails /\ UNCHANGED trash
    /\ undo' = Idle
    /\ UNCHANGED <<at, versions, backups, beside, artifacts, job, calls, clobbered>>

-----------------------------------------------------------------------------

\* A call is cut: its process dies, or its caller gives up.
CallCut(c) ==
    /\ job[c].at # "idle"
    /\ Fails
    /\ Ends(c)
    /\ trash' = IF job[c].entry = None THEN trash ELSE [trash EXCEPT ![job[c].entry].cut = TRUE]
    /\ UNCHANGED <<at, versions, backups, beside, artifacts, calls, undo, clobbered>>
\* The core dies during an undo.
UndoCut ==
    /\ undo.at # "idle"
    /\ Fails
    /\ undo' = Idle
    /\ UNCHANGED <<at, versions, backups, beside, artifacts, trash, job, calls, clobbered>>

Asks(c) ==
    \/ \E tool \in {"fs.write", "fs.edit", "permission"}, p \in Paths, for \in BOOLEAN :
         review(c, tool, <<p>>, for)
    \/ \E p, q \in Paths, for \in BOOLEAN : review(c, "fs.move", <<p, q>>, for)
    \/ \E ts \in Commands : review(c, "fs.delete", ts, FALSE)
Works(c) ==
    \/ _review_destructive(c) \/ check_consistency(c) \/ move(c) \/ writes_manifest(c)
    \/ upsert_env(c) \/ fs_write(c) \/ fs_edit(c) \/ fs_move(c) \/ chmod(c)
    \/ _auto_register_commission(c)
Undoes == _handle_undo \/ restore \/ removes_manifest \/ delete_env
Next ==
    \/ \E c \in Callers : Asks(c) \/ Works(c) \/ CallCut(c)
    \/ \E e \in Ids : UndoPressed(e)
    \/ Undoes \/ UndoCut

\* The dispatch loop finishes the undo it has begun.
Fairness == WF_vars(Undoes)
Spec == Init /\ [][Next]_vars /\ Fairness

-----------------------------------------------------------------------------

\* TrashStore's docstring (trash.py:60-61): no tool destroys a file.  Whatever
\* is deleted, overwritten, edited, restored or cut short, its bytes are at a
\* path, in the trash, in the backups or beside their origin; the exception is
\* what fs.move was laid over.
Kept ==
    backups \cup beside \cup {at[f] : f \in Files}
    \cup UNION {{trash[e].bytes[f] : f \in Files} : e \in DOMAIN trash}
BytesSurvive == 1 .. versions \subseteq Kept \cup clobbered

\* Bytes in the trash can be named by an undo, from the moment the call that
\* put them there is over, unless that call was cut between the move and the
\* manifest.
Restorable ==
    \A e \in DOMAIN trash :
      trash[e].bytes # NoBytes =>
        \/ Named(e) \/ trash[e].cut
        \/ \E c \in Callers : job[c].entry = e

\* Due process (H5): what was commissioned when the call was made is in the
\* trash only with a verdict for it, unless the registry could not be asked.
DueProcess ==
    \A e \in DOMAIN trash :
      trash[e].owed # {} => trash[e].kind = "due_process" \/ trash[e].excused

\* An undo of bytes that can be named brings them back, unless a fault stops it.
UndoBringsBack ==
    \A e \in Ids :
      (undo = [at |-> "getting", entry |-> e] /\ Named(e) /\ faults = MaxFaults)
        ~> (e \in DOMAIN trash /\ trash[e].bytes = NoBytes)

\* ArtifactRegistry's docstring (registry.py:35-37, 46-47): anything
\* commissioned is subject to due process before a destructive operation
\* touches it, matched by prefix and by ancestor: a target that was looked up
\* and let pass is no part of a commissioned directory.
PartsAreProtected ==
    [][\A c \in Callers :
         job[c].at = "looking" /\ job'[c].at \in {"looking", "moving"} /\ ~job'[c].excused
           => \A a \in artifacts : job[c].targets[job[c].next] \notin Holds[a]]_vars
=============================================================================
