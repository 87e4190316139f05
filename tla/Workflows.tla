------------------------------ MODULE Workflows ------------------------------
(***************************************************************************)
(* The workflows around a definition, each an instance of its module over  *)
(* its own variables: from the form to a pull request (DefinitionFlow),    *)
(* from a push to the rows of its DAGs (DagSync), from a merge to its      *)
(* streams (SkillRun), and the queries of the analyst (AnalystCanvas).     *)
(* They meet in GitHub and in the services, which each models by what it   *)
(* relies on.                                                              *)
(***************************************************************************)
CONSTANTS
  Chats, Canvases, Names, Safe, Specs, Checked, Files, Typed, Absent, Null,
  MaxPRs, MaxFlowEdits, MaxTurns, FaultSets,  \* of DefinitionFlow
  Paths, Contents, IdOf, Valid, Repos, MaxPushes, SyncFaultSets,  \* of DagSync
  Queries, Forbidden, Scans, Sizes, Heads, ChartColumns, MaxRows, PageSize,
  MaxCalls, MaxTouches,  \* of AnalystCanvas
  LastRun, Loggers, Columns, Clashing, SafeName, ProtoName, Skills, RunInputs,
  MaxAgentTurns, MaxPartitions, MaxCuts, NoThing, RunFaultSets  \* of SkillRun

VARIABLES
  main, row, canvas, job, branches, prs, turns, flowEdits, faults,
  uploads, rows, sync, syncFaults,
  agent, tab, held, query, out, duckdb, calls, touches,
  exec, topics, protos, subjects, iceberg, writers, bumped, cuts, runFaults

flowVars == <<main, row, canvas, job, branches, prs, turns, flowEdits, faults>>
syncVars == <<uploads, rows, sync, syncFaults>>
analystVars == <<agent, tab, held, query, out, duckdb, calls, touches>>
skillVars == <<exec, topics, protos, subjects, iceberg, writers, bumped, cuts, runFaults>>

Flow == INSTANCE DefinitionFlow WITH edits <- flowEdits, MaxEdits <- MaxFlowEdits

Sync == INSTANCE DagSync WITH FaultSets <- SyncFaultSets, faults <- syncFaults

Analyst == INSTANCE AnalystCanvas

Skill == INSTANCE SkillRun WITH MaxTurns <- MaxAgentTurns, faults <- runFaults

\* What the proofs assume of the canvases, the files of a repository, the queries
\* and what is merged.
ASSUME FlowAssumed == Flow!FlowAssumption
ASSUME SyncAssumed == Sync!SyncAssumption
ASSUME AnalystAssumed == Analyst!AnalystAssumption
ASSUME SkillAssumed == Skill!SkillAssumption

-----------------------------------------------------------------------------
(***************************************************************************)
(* What each promises, as stated in its module.                            *)
(***************************************************************************)

\* A pending definition has its pull request, which holds what was shown.
FlowInv == Flow!PendingHasPR /\ Flow!ShownIsSubmitted

\* What the syncs of the pushes of a branch leave of its DAGs.
SyncInv == Sync!SyncInv

\* The canvas of the analyst.
AnalystInv == Analyst!AnalystInv

\* What the runs of a skill leave of the streams of the merged tables.
SkillInv == Skill!SkillInv
=============================================================================
