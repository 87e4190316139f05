----------------------------- MODULE DagRunner -----------------------------
(***************************************************************************)
(* One run of a DAG: the workflow (dagRunner) that takes its tasks through *)
(* their sandboxes in the order of their dependencies, races the callback  *)
(* of each against a watchdog, and writes the verdict of the run.          *)
(*                                                                         *)
(* The tasks of a workflow proceed side by side; each of its steps is      *)
(* repeated when the process that executes it dies.  The scheduler may     *)
(* start a second workflow of the same run, when it could not learn that   *)
(* it started the first one.                                               *)
(***************************************************************************)
EXTENDS Naturals, FiniteSets

CONSTANTS
  Tasks,
  DependsOn,     \* DependsOn[v]: the direct upstream tasks in version v of the YAML
  Executions,    \* the executions of the workflow, numbered
  MaxSandboxes,  \* bound: the sandboxes of a behaviour
  FaultSets      \* sets of faults, one of which may happen in a behaviour

FaultKinds == {"step", "db", "launch", "callback", "stop", "yaml", "revert", "respawn"}

Versions == DOMAIN DependsOn

\* The version the run is pinned to: dag_run.manifest_sha.
Pinned == 1

ASSUME VersionsAssumption ==
  /\ Versions \subseteq Nat /\ Pinned \in Versions
  /\ DependsOn \in [Versions -> [Tasks -> SUBSET Tasks]]
ASSUME RunnerBoundsAssumption ==
  /\ Executions \subseteq Nat \ {0} /\ 1 \in Executions
  /\ MaxSandboxes \in Nat
ASSUME RunnerFaultsAssumption == FaultSets \subseteq SUBSET FaultKinds

VARIABLES
  faults,   \* which faults may happen
  yaml,     \* the version of the DAG's YAML in the database
  row,      \* the status of the dag_run
  attempt,  \* the status of the task_attempt of each task ("none": no row)
  exec,     \* the executions of the workflow
  task,     \* the tasks of each
  hook,     \* their hooks
  sandbox   \* the sandboxes, in the order they were created

vars == <<faults, yaml, row, attempt, exec, task, hook, sandbox>>

Outcomes == {"succeeded", "failed", "skipped"}
Terminal == {"succeeded", "failed"}
Sandboxes == DOMAIN sandbox

-----------------------------------------------------------------------------
\* version is ctx.parsed, prior is priorStatuses.
ExecState == [pc : {"none", "context", "prior", "tasks", "verdict", "returned"},
              version : Versions, prior : [Tasks -> Outcomes \cup {"none"}],
              verdict : {"none"} \cup Terminal]

\* What a task does next: to wait for its upstream; the steps of runOneTask;
\* recordWorkflowError; and done, or rejected.  sandbox is launched.sandboxId
\* (0: none), ok is outcome.ok.
TaskPhases == {"upstream", "check", "create", "created", "race", "finalize",
               "missing", "end", "error", "done", "rejected"}
TaskState == [pc : TaskPhases, sandbox : 0..MaxSandboxes, ok : BOOLEAN,
              result : Outcomes \cup {"none"}]

\* posting: the function has returned, thrown or run into its timeout, with ok
\* or not.  flying: its callback has not arrived yet.
SandboxState == [exec : Executions, task : Tasks,
                 pc : {"running", "posting", "exited", "stopped"},
                 ok : BOOLEAN, flying : BOOLEAN]

HookState == {"none", "open", "ok", "failed", "disposed"}

TypeOK ==
  /\ faults \in FaultSets
  /\ yaml \in Versions
  /\ row \in {"running"} \cup Terminal
  /\ attempt \in [Tasks -> {"none", "running"} \cup Outcomes]
  /\ exec \in [Executions -> ExecState]
  /\ task \in [Executions -> [Tasks -> TaskState]]
  /\ hook \in [Executions -> [Tasks -> HookState]]
  /\ Sandboxes \subseteq 1..MaxSandboxes
  /\ sandbox \in [Sandboxes -> SandboxState]

Init ==
  /\ faults \in FaultSets
  /\ yaml = Pinned
  /\ row = "running"
  /\ attempt = [t \in Tasks |-> "none"]
  /\ exec = [e \in Executions |->
               [pc |-> IF e = 1 THEN "context" ELSE "none", version |-> Pinned,
                prior |-> [t \in Tasks |-> "none"], verdict |-> "none"]]
  /\ task = [e \in Executions |-> [t \in Tasks |->
               [pc |-> "upstream", sandbox |-> 0, ok |-> FALSE, result |-> "none"]]]
  /\ hook = [e \in Executions |-> [t \in Tasks |-> "none"]]
  /\ sandbox = << >>

-----------------------------------------------------------------------------
(***************************************************************************)
(* Around the workflow.                                                    *)
(***************************************************************************)

\* The DAG reconciler stores another version of the YAML: a newer one, or any.
YamlChanges ==
  /\ \E v \in Versions :
       /\ \/ "yaml" \in faults /\ v > yaml
          \/ "revert" \in faults /\ v # yaml
       /\ yaml' = v
  /\ UNCHANGED <<faults, row, attempt, exec, task, hook, sandbox>>

\* The scheduler undoes its claim of the run, whose workflow it did start, and
\* a later tick claims it again and starts another one.
Respawn(e) ==
  /\ "respawn" \in faults
  /\ exec[e].pc = "none"
  /\ exec' = [exec EXCEPT ![e].pc = "context"]
  /\ row' = "running"
  /\ UNCHANGED <<faults, yaml, attempt, task, hook, sandbox>>

-----------------------------------------------------------------------------
(***************************************************************************)
(* dagRunner.                                                              *)
(***************************************************************************)

\* buildDagRunContext.
ReadContext(e) ==
  /\ exec[e].pc = "context"
  /\ exec' = [exec EXCEPT ![e].pc = "prior", ![e].version = yaml]
  /\ UNCHANGED <<faults, yaml, row, attempt, task, hook, sandbox>>

\* loadExistingTerminalStatuses; then a hook for each task.
ReadPrior(e) ==
  /\ exec[e].pc = "prior"
  /\ exec' = [exec EXCEPT ![e].pc = "tasks",
                          ![e].prior = [t \in Tasks |->
                             IF attempt[t] \in Outcomes THEN attempt[t] ELSE "none"]]
  /\ hook' = [hook EXCEPT ![e] = [t \in Tasks |-> "open"]]
  /\ UNCHANGED <<faults, yaml, row, attempt, task, sandbox>>

\* The tasks are over: finally disposes of the hooks.
Dispose(e) == hook' = [hook EXCEPT ![e] = [t \in Tasks |-> "disposed"]]

\* What is thrown before the tasks.
InitFails(e) ==
  /\ "db" \in faults
  /\ exec[e].pc \in {"context", "prior"}
  /\ exec' = [exec EXCEPT ![e].pc = "verdict", ![e].verdict = "failed"]
  /\ UNCHANGED <<faults, yaml, row, attempt, task, hook, sandbox>>

\* Mutant: one task that succeeded is enough.
OverallAny(e) ==
  IF \E t \in Tasks : task[e][t].result = "succeeded" THEN "succeeded" ELSE "failed"

Overall(e) ==
  IF \E t \in Tasks : task[e][t].result = "failed" THEN "failed" ELSE "succeeded"

AllDone(e) ==
  /\ exec[e].pc = "tasks"
  /\ \A t \in Tasks : task[e][t].pc = "done"
  /\ exec' = [exec EXCEPT ![e].pc = "verdict", ![e].verdict = Overall(e)]
  /\ Dispose(e)
  /\ UNCHANGED <<faults, yaml, row, attempt, task, sandbox>>

\* Promise.all rejects, without waiting for the tasks that are not done.
SomeRejected(e) ==
  /\ exec[e].pc = "tasks"
  /\ \E t \in Tasks : task[e][t].pc = "rejected"
  /\ exec' = [exec EXCEPT ![e].pc = "verdict", ![e].verdict = "failed"]
  /\ Dispose(e)
  /\ UNCHANGED <<faults, yaml, row, attempt, task, sandbox>>

\* markRunTerminal: not when the row is terminal.
MarkRunTerminal(e) ==
  /\ exec[e].pc = "verdict"
  /\ row' = IF row \in Terminal THEN row ELSE exec[e].verdict
  /\ exec' = [exec EXCEPT ![e].pc = "returned"]
  /\ UNCHANGED <<faults, yaml, attempt, task, hook, sandbox>>

-----------------------------------------------------------------------------
(***************************************************************************)
(* runTaskWithDeps.                                                        *)
(***************************************************************************)

\* The tasks go on until the workflow returns.
At(e, t, pc) == exec[e].pc \in {"tasks", "verdict"} /\ task[e][t].pc = pc

Upstream(e, t) == DependsOn[exec[e].version][t]

UpstreamDone(e, t) ==
  At(e, t, "upstream") /\ \A u \in Upstream(e, t) : task[e][u].pc = "done"

\* prior === "succeeded" || prior === "failed"
Earned(e, t) == exec[e].prior[t] \in {"succeeded", "failed"}

Broken(e, t) ==
  \E u \in Upstream(e, t) : task[e][u].result \in {"failed", "skipped"}

GoesTo(e, t, pc) == task' = [task EXCEPT ![e][t].pc = pc]
IsOver(e, t, result) ==
  task' = [task EXCEPT ![e][t].pc = "done", ![e][t].result = result]
Record(t, status) == attempt' = [attempt EXCEPT ![t] = status]

\* An earned outcome is honoured.
Honour(e, t) ==
  /\ UpstreamDone(e, t) /\ Earned(e, t)
  /\ IsOver(e, t, exec[e].prior[t])
  /\ UNCHANGED <<faults, yaml, row, attempt, exec, hook, sandbox>>

\* markSkipped.
Skip(e, t) ==
  /\ UpstreamDone(e, t) /\ ~Earned(e, t) /\ Broken(e, t)
  /\ Record(t, "skipped")
  /\ IsOver(e, t, "skipped")
  /\ UNCHANGED <<faults, yaml, row, exec, hook, sandbox>>

\* recordAttempt(..., "running").
Begin(e, t) ==
  /\ UpstreamDone(e, t) /\ ~Earned(e, t) /\ ~Broken(e, t)
  /\ Record(t, "running")
  /\ GoesTo(e, t, "check")
  /\ UNCHANGED <<faults, yaml, row, exec, hook, sandbox>>

\* A task upstream rejected.
UpstreamRejected(e, t) ==
  /\ At(e, t, "upstream")
  /\ \E u \in Upstream(e, t) : task[e][u].pc = "rejected"
  /\ GoesTo(e, t, "error")
  /\ UNCHANGED <<faults, yaml, row, attempt, exec, hook, sandbox>>

\* A step of the task throws, repeated often enough.  The last one may have
\* recorded the outcome before.
StepFails(e, t) ==
  /\ "db" \in faults
  /\ \/ UpstreamDone(e, t) /\ ~Earned(e, t)
     \/ \E pc \in {"check", "created", "finalize", "missing", "end"} : At(e, t, pc)
  /\ GoesTo(e, t, "error")
  /\ \/ UNCHANGED attempt
     \/ At(e, t, "end") /\ task[e][t].ok /\ Record(t, "succeeded")
  /\ UNCHANGED <<faults, yaml, row, exec, hook, sandbox>>

\* recordWorkflowError, which may throw itself.
RecordWorkflowError(e, t) ==
  /\ At(e, t, "error")
  /\ \/ /\ Record(t, "failed")
        /\ IsOver(e, t, "failed")
     \/ /\ "db" \in faults
        /\ GoesTo(e, t, "rejected")
        /\ UNCHANGED attempt
  /\ UNCHANGED <<faults, yaml, row, exec, hook, sandbox>>

-----------------------------------------------------------------------------
(***************************************************************************)
(* runOneTask and its steps.                                               *)
(***************************************************************************)

EndsWith(e, t, ok) == task' = [task EXCEPT ![e][t].pc = "end", ![e][t].ok = ok]

\* Mutant: the run is not pinned to a version.
CheckManifestNot(e, t) ==
  /\ At(e, t, "check")
  /\ GoesTo(e, t, "create")
  /\ UNCHANGED <<faults, yaml, row, attempt, exec, hook, sandbox>>

\* verifyManifestSha: refuse to launch when the YAML moved.
CheckManifest(e, t) ==
  /\ At(e, t, "check")
  /\ IF yaml = Pinned THEN GoesTo(e, t, "create") ELSE EndsWith(e, t, FALSE)
  /\ UNCHANGED <<faults, yaml, row, attempt, exec, hook, sandbox>>

\* Sandbox.create and runCommand: the function runs.
CreateSandbox(e, t) ==
  /\ At(e, t, "create")
  /\ LET s == Cardinality(Sandboxes) + 1
     IN  /\ s <= MaxSandboxes
         /\ sandbox' = [i \in Sandboxes \cup {s} |->
                          IF i = s THEN [exec |-> e, task |-> t, pc |-> "running",
                                         ok |-> FALSE, flying |-> FALSE]
                          ELSE sandbox[i]]
         /\ task' = [task EXCEPT ![e][t].pc = "created", ![e][t].sandbox = s]
  /\ UNCHANGED <<faults, yaml, row, attempt, exec, hook>>

\* sandbox.stop() of the sandbox the task knows, best effort.
Stop(e, t) ==
  \/ sandbox' = [s \in Sandboxes |->
       IF s = task[e][t].sandbox /\ sandbox[s].pc \in {"running", "posting"}
       THEN [sandbox[s] EXCEPT !.pc = "stopped"] ELSE sandbox[s]]
  \/ "stop" \in faults /\ UNCHANGED sandbox

\* The bundle cannot be fetched, the sandbox cannot be created, or, once it is,
\* a later call throws and it is stopped.
LaunchFails(e, t) ==
  /\ "launch" \in faults
  /\ \/ At(e, t, "create") /\ UNCHANGED sandbox
     \/ At(e, t, "created") /\ Stop(e, t)
  /\ EndsWith(e, t, FALSE)
  /\ UNCHANGED <<faults, yaml, row, attempt, exec, hook>>

\* The step returns, and the workflow waits.
Launched(e, t) ==
  /\ At(e, t, "created")
  /\ GoesTo(e, t, "race")
  /\ UNCHANGED <<faults, yaml, row, attempt, exec, hook, sandbox>>

\* The process dies before the step returns: it is repeated from its start
\* (bound: as long as every task can still have a sandbox).
LaunchRepeats(e, t) ==
  /\ "step" \in faults
  /\ Cardinality(Sandboxes) + Cardinality(Tasks) <= MaxSandboxes
  /\ At(e, t, "created")
  /\ task' = [task EXCEPT ![e][t].pc = "check", ![e][t].sandbox = 0]
  /\ UNCHANGED <<faults, yaml, row, attempt, exec, hook, sandbox>>

\* The callback wins the race.
HookWins(e, t) ==
  /\ At(e, t, "race")
  /\ hook[e][t] \in {"ok", "failed"}
  /\ task' = [task EXCEPT ![e][t].pc = "finalize", ![e][t].ok = hook[e][t] = "ok"]
  /\ UNCHANGED <<faults, yaml, row, attempt, exec, hook, sandbox>>

\* finalizeTaskSandbox.
Finalize(e, t) ==
  /\ At(e, t, "finalize")
  /\ Stop(e, t)
  /\ GoesTo(e, t, "end")
  /\ UNCHANGED <<faults, yaml, row, attempt, exec, hook>>

\* Mutant: the watchdog looks for runners that exited, not for lost sandboxes.
WatchdogWinsExited(e, t) ==
  /\ At(e, t, "race")
  /\ hook[e][t] = "open"
  /\ sandbox[task[e][t].sandbox].pc = "exited"
  /\ GoesTo(e, t, "missing")
  /\ UNCHANGED <<faults, yaml, row, attempt, exec, hook, sandbox>>

\* The watchdog fires first: its two graces let the sandbox end before.
WatchdogWins(e, t) ==
  /\ At(e, t, "race")
  /\ hook[e][t] = "open"
  /\ sandbox[task[e][t].sandbox].pc \in {"exited", "stopped"}
  /\ GoesTo(e, t, "missing")
  /\ UNCHANGED <<faults, yaml, row, attempt, exec, hook, sandbox>>

\* finalizeMissingCallback: the exit code of the runner, if it can be read.
MissingCallback(e, t) ==
  /\ At(e, t, "missing")
  /\ \E read \in BOOLEAN :
       EndsWith(e, t, /\ read
                      /\ sandbox[task[e][t].sandbox].pc = "exited"
                      /\ sandbox[task[e][t].sandbox].ok)
  /\ UNCHANGED <<faults, yaml, row, attempt, exec, hook, sandbox>>

\* recordAttempt(..., "succeeded") or (..., "failed").
RecordEnd(e, t) ==
  /\ At(e, t, "end")
  /\ LET result == IF task[e][t].ok THEN "succeeded" ELSE "failed"
     IN  Record(t, result) /\ IsOver(e, t, result)
  /\ UNCHANGED <<faults, yaml, row, exec, hook, sandbox>>

-----------------------------------------------------------------------------
(***************************************************************************)
(* The runner in the sandbox, and its callback.                            *)
(***************************************************************************)

\* The function returns or throws, or the runner's own timeout passes.
Finish(s) ==
  /\ sandbox[s].pc = "running"
  /\ \E ok \in BOOLEAN :
       sandbox' = [sandbox EXCEPT ![s].pc = "posting", ![s].ok = ok,
                                  ![s].flying = TRUE]
  /\ UNCHANGED <<faults, yaml, row, attempt, exec, task, hook>>

\* POST /api/internal/sandbox-complete resumes the hook: the first payload
\* counts, and none after it is disposed.  The answer may be lost: it is sent again.
Callback(s) ==
  /\ sandbox[s].flying
  /\ LET e == sandbox[s].exec
         t == sandbox[s].task
     IN  hook' = IF hook[e][t] = "open"
                 THEN [hook EXCEPT ![e][t] = IF sandbox[s].ok THEN "ok" ELSE "failed"]
                 ELSE hook
  /\ \/ sandbox' = [sandbox EXCEPT ![s].flying = FALSE]
     \/ "callback" \in faults /\ UNCHANGED sandbox
  /\ UNCHANGED <<faults, yaml, row, attempt, exec, task>>

\* process.exit, after the callback or after three tries.
Exit(s) ==
  /\ sandbox[s].pc = "posting"
  /\ sandbox[s].flying => "callback" \in faults
  /\ sandbox' = [sandbox EXCEPT ![s].pc = "exited"]
  /\ UNCHANGED <<faults, yaml, row, attempt, exec, task, hook>>

\* The sandbox is lost, or its lifetime ends.  What it sent may be lost too.
SandboxLost(s) ==
  /\ "callback" \in faults
  /\ sandbox[s].pc \in {"running", "posting"}
  /\ \E flying \in {sandbox[s].flying, FALSE} :
       sandbox' = [sandbox EXCEPT ![s].pc = "stopped", ![s].flying = flying]
  /\ UNCHANGED <<faults, yaml, row, attempt, exec, task, hook>>

-----------------------------------------------------------------------------
TaskStep(e, t) ==
  \/ Honour(e, t)
  \/ Skip(e, t)
  \/ Begin(e, t)
  \/ UpstreamRejected(e, t)
  \/ RecordWorkflowError(e, t)
  \/ CheckManifest(e, t)
  \/ CreateSandbox(e, t)
  \/ Launched(e, t)
  \/ HookWins(e, t)
  \/ Finalize(e, t)
  \/ WatchdogWins(e, t)
  \/ MissingCallback(e, t)
  \/ RecordEnd(e, t)

TaskFault(e, t) ==
  \/ StepFails(e, t)
  \/ LaunchFails(e, t)
  \/ LaunchRepeats(e, t)

ExecStep(e) ==
  \/ ReadContext(e)
  \/ ReadPrior(e)
  \/ AllDone(e)
  \/ SomeRejected(e)
  \/ MarkRunTerminal(e)

SandboxStep(s) ==
  \/ Finish(s)
  \/ Callback(s)
  \/ Exit(s)

Next ==
  \/ YamlChanges
  \/ \E e \in Executions : Respawn(e) \/ ExecStep(e) \/ InitFails(e)
  \/ \E e \in Executions, t \in Tasks : TaskStep(e, t) \/ TaskFault(e, t)
  \/ \E s \in Sandboxes : SandboxStep(s) \/ SandboxLost(s)

Spec == Init /\ [][Next]_vars

\* The workflow engine goes on with every execution, the watchdog fires, and
\* the runner's timeout ends every function.
Fairness ==
  /\ \A e \in Executions : WF_vars(ExecStep(e))
  /\ \A e \in Executions, t \in Tasks : WF_vars(TaskStep(e, t))
  /\ \A s \in 1..MaxSandboxes :
       /\ WF_vars(s \in Sandboxes /\ (Finish(s) \/ Exit(s)))
       /\ WF_vars(s \in Sandboxes /\ sandbox[s].flying /\ Callback(s))

FairSpec == Spec /\ Fairness

-----------------------------------------------------------------------------
(***************************************************************************)
(* Properties.                                                             *)
(***************************************************************************)

SandboxesOf(t) == {s \in Sandboxes : sandbox[s].task = t}
RanToSuccess(t) == \E s \in SandboxesOf(t) : sandbox[s].ok

\* "every task appears after each of its dependsOn entries" (dag-topology.ts:6):
\* no sandbox of a task is created before the tasks upstream ran to success, and
\* none under another version of the YAML than the one pinned at the start
\* ("guarantees every task in this run sees the same topology",
\* dag-scheduler.ts:108-112), unless the YAML goes back to a version it had; and
\* a task is recorded as succeeded only when its function ran to success,
\* whichever of callback and exit code said so (dag-runner.ts:402-421).
TasksInOrder ==
  /\ \A s \in Sandboxes :
       /\ \A u \in Upstream(sandbox[s].exec, sandbox[s].task) : RanToSuccess(u)
       /\ "revert" \notin faults => exec[sandbox[s].exec].version = Pinned
  /\ \A t \in Tasks : attempt[t] = "succeeded" => RanToSuccess(t)

\* The order of the tasks, with the types of the state.
RunnerInv == TypeOK /\ TasksInOrder

\* The verdict of a run is what its tasks say: succeeded when all of them are,
\* and otherwise one has failed and none is left running; and nothing of a run
\* computes on when it is over.
VerdictMatchesTasks ==
  /\ faults \cap {"db", "respawn"} = {} =>
       /\ row = "succeeded" => \A t \in Tasks : attempt[t] = "succeeded"
       /\ row = "failed" => /\ \E t \in Tasks : attempt[t] = "failed"
                            /\ \A t \in Tasks : attempt[t] \in Outcomes
  /\ row \in Terminal /\ faults \cap {"step", "db", "stop", "respawn"} = {} =>
       \A s \in Sandboxes : sandbox[s].pc # "running"

\* A run does not stay running for ever ("so the dag_runs row doesn't strand in
\* 'running'", dag-runner.ts:144-145), whatever sandboxes and callbacks do.
RunEnds == row = "running" ~> row \in Terminal
=============================================================================
