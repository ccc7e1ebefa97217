-------------------------------- MODULE Body --------------------------------
(***************************************************************************)
(* Oversight and speech side by side: ControlPlane, the row that           *)
(* the processes share, and the outbound pipeline.  One behaviour is one   *)
(* part's; the other two rest in their initial state.                      *)
(***************************************************************************)
EXTENDS ControlPlane, Integers, Sequences, FiniteSets

CONSTANTS Verbs, MaxPresses, MaxCrashes,                         \* ControlRow
          Texts, NoEntry, Budget, BatchFull, MaxSends, MaxFaults   \* Outbound

VARIABLE part
Parts == {"plane", "row", "outbound"}

VARIABLES row, pressing, presses, inbox, row_flags, phase, saving, crashes, overlapped
Row == INSTANCE ControlRow WITH flags <- row_flags

VARIABLES quiet, turned, sends, faults, sent, last, said, digest, due, job, owed, today, unrowed, tonight
Outbound == INSTANCE Outbound

ASSUME BodyAssumption == Row!RowAssumption /\ Outbound!OutboundAssumption

planeVars == <<flags, pressed, fromFile, ending, stopEvent, resumeEvent, wakeEvent, files, loop, asked, tool>>
rowVars == <<row, pressing, presses, inbox, row_flags, phase, saving, crashes, overlapped>>
outboundVars == <<quiet, turned, sends, faults, sent, last, said, digest, due, job, owed, today, unrowed, tonight>>
bodyVars == <<part, planeVars, rowVars, outboundVars>>

BodyInit ==
    /\ part \in Parts
    /\ Init /\ Row!Init /\ Outbound!Init
    /\ part # "plane" => flags = {} /\ files = {}
    /\ part # "outbound" => ~quiet

BodyNext ==
    \/ part = "plane" /\ Next /\ UNCHANGED <<part, rowVars, outboundVars>>
    \/ part = "row" /\ Row!Next /\ UNCHANGED <<part, planeVars, outboundVars>>
    \/ part = "outbound" /\ Outbound!Next /\ UNCHANGED <<part, planeVars, rowVars>>

\* The fairness of each part's own specification.
BodyFairness ==
    /\ WF_planeVars(part = "plane" /\ Top)
    /\ WF_planeVars(part = "plane" /\ Woken)
    /\ WF_planeVars(part = "plane" /\ Heartbeat)
    /\ WF_planeVars(part = "plane" /\ RunTool)
    /\ WF_planeVars(part = "plane" /\ ToolEnds)
    /\ SF_planeVars(part = "plane" /\ CycleEnds)
    /\ WF_planeVars(part = "plane" /\ CutCycle)
    /\ WF_rowVars(part = "row" /\ Row!Publish)
    /\ WF_rowVars(part = "row" /\ Row!BusStart)
    /\ WF_rowVars(part = "row" /\ Row!DispatchToNobody)
    /\ WF_rowVars(part = "row" /\ Row!PersistWhole)
    /\ WF_rowVars(part = "row" /\ Row!Listen)
    /\ \A p \in {"core", "toolhost"} : WF_rowVars(part = "row" /\ Row!ProcStep(p))
    /\ WF_outboundVars(part = "outbound" /\ Outbound!FlushStep)
    /\ WF_outboundVars(part = "outbound" /\ Outbound!Step("flush"))
    /\ WF_outboundVars(part = "outbound" /\ Outbound!WindowUp)
BodySpec == BodyInit /\ [][BodyNext]_bodyVars /\ BodyFairness

-----------------------------------------------------------------------------
(* What the parts' modules state, each with its own comment there; of       *)
(* ControlPlane also NoLostStop and NoLostWake, by their own names.  The    *)
(* safety of the outbound pipeline is stated in Records.                    *)

\* The files of the host hold while they are there, and no longer.
FilesHold == (part = "plane") => StopFileHolds /\ FilesLiftTheirHolds

\* Once it is quiet the row says what the core does; an emergency always holds.
RowSafe == part = "row" => Row!TypeOK /\ Row!RowAgrees /\ Row!EmergencyHolds

\* A stop by signal leaves, the row and the core agree in the end, and what was
\* promised for later is said.
BodySettles ==
    /\ (part = "plane") => EndingLeaves
    /\ (part = "row") => Row!EventuallyAgree
    /\ (part = "outbound") => Outbound!PromisedLeaves
=============================================================================
