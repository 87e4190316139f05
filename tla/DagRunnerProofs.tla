-------------------------- MODULE DagRunnerProofs ---------------------------
(***************************************************************************)
(* Proofs about one run of a DAG: for any tasks, versions of the YAML,     *)
(* executions of the workflow and sets of faults, the tasks run in their   *)
(* order, and the verdict of the run is what its tasks say.                *)
(***************************************************************************)
EXTENDS DagRunner, FiniteSetTheorems, TLAPS

-----------------------------------------------------------------------------
(***************************************************************************)
(* The inductive invariant.                                                *)
(***************************************************************************)

Begun(e) == exec[e].pc \notin {"none", "context", "prior"}

\* An execution that is about to write its verdict has one.
VerdictsGiven ==
  \A e \in Executions : exec[e].pc = "verdict" => exec[e].verdict \in Terminal

\* The sandboxes are numbered as they are created, by executions that have read
\* their context; one that runs has no outcome yet.
SandboxesSound ==
  /\ \E n \in 0..MaxSandboxes : Sandboxes = 1..n
  /\ \A s \in Sandboxes :
       /\ Begun(sandbox[s].exec)
       /\ sandbox[s].pc = "running" => ~sandbox[s].ok /\ ~sandbox[s].flying

\* Whoever says that a task succeeded says it of a sandbox that did.
SuccessIsEarned ==
  /\ \A t \in Tasks : attempt[t] = "succeeded" => RanToSuccess(t)
  /\ \A e \in Executions, t \in Tasks :
       \/ exec[e].prior[t] = "succeeded"
       \/ hook[e][t] = "ok"
       \/ task[e][t].ok
       \/ task[e][t].result = "succeeded"
       => RanToSuccess(t)

\* A task waits until its execution has its context, has a result when it is
\* done, and its sandbox while it waits for it.
TasksSound ==
  \A e \in Executions, t \in Tasks :
    /\ ~Begun(e) => task[e][t].pc = "upstream"
    /\ task[e][t].result = "none" <=> task[e][t].pc # "done"
    /\ task[e][t].pc \in {"created", "race", "finalize", "missing"} =>
         /\ task[e][t].sandbox \in Sandboxes
         /\ sandbox[task[e][t].sandbox].task = t
         /\ sandbox[task[e][t].sandbox].exec = e

\* A task is launched when the tasks upstream ran to success.
LaunchesInOrder ==
  /\ \A e \in Executions, t \in Tasks :
       task[e][t].pc \in {"check", "create", "created"} =>
         \A u \in Upstream(e, t) : RanToSuccess(u)
  /\ \A s \in Sandboxes :
       \A u \in Upstream(sandbox[s].exec, sandbox[s].task) : RanToSuccess(u)

\* Unless the YAML goes back, its version only grows, from the pinned one; a
\* task is launched only while it is that one.
VersionsGrow ==
  "revert" \notin faults =>
    /\ \A e \in Executions : Pinned <= exec[e].version /\ exec[e].version <= yaml
    /\ \A e \in Executions, t \in Tasks :
         task[e][t].pc = "create" => exec[e].version = Pinned
    /\ \A s \in Sandboxes : exec[sandbox[s].exec].version = Pinned

IInv ==
  /\ TypeOK
  /\ VerdictsGiven
  /\ SandboxesSound
  /\ SuccessIsEarned
  /\ TasksSound
  /\ LaunchesInOrder
  /\ VersionsGrow

-----------------------------------------------------------------------------
\* One execution, whose steps do not fail.
Steady == faults \cap {"db", "respawn"} = {}

\* Where the task is, and what its row says.
RowFollowsTask(t) ==
  /\ task[1][t].pc \notin {"error", "rejected"}
  /\ task[1][t].pc = "upstream" => attempt[t] = "none"
  /\ task[1][t].pc = "done" => attempt[t] = task[1][t].result
  /\ task[1][t].result = "skipped" => \E u \in Tasks : task[1][u].result = "failed"

\* With one execution whose steps do not fail, the rows of the tasks are what it
\* knows of them, and the verdict is given when all are done.
RowsFollowTasks ==
  Steady =>
    /\ \A e \in Executions \ {1} : exec[e].pc = "none"
    /\ \A t \in Tasks : exec[1].prior[t] = "none" /\ RowFollowsTask(t)
    /\ exec[1].pc \in {"verdict", "returned"} =>
         (\A t \in Tasks : task[1][t].pc = "done") /\ exec[1].verdict = Overall(1)
    /\ row \in Terminal => exec[1].pc = "returned" /\ row = exec[1].verdict

\* A sandbox that runs is the one its task waits for, or is about to stop.
RunningIsKnown ==
  faults \cap {"step", "db", "stop", "respawn"} = {} =>
    \A s \in Sandboxes :
      sandbox[s].pc = "running" =>
        LET x == task[sandbox[s].exec][sandbox[s].task]
        IN  x.sandbox = s /\ x.pc \in {"created", "race", "finalize"}

VerdictInv == IInv /\ RowsFollowTasks /\ RunningIsKnown

-----------------------------------------------------------------------------
(***************************************************************************)
(* Types.                                                                  *)
(***************************************************************************)

\* What a step writes of a task, and that it leaves the other tasks alone.
Moves(e, t, x) ==
  /\ x \in TaskState
  /\ task' \in [Executions -> [Tasks -> TaskState]]
  /\ \A f \in Executions, u \in Tasks :
       task'[f][u] = IF f = e /\ u = t THEN x ELSE task[f][u]

LEMMA Writes ==
  ASSUME TypeOK, NEW e \in Executions, NEW t \in Tasks,
         NEW x \in TaskState, task' = [task EXCEPT ![e][t] = x]
  PROVE  Moves(e, t, x)
BY DEF Moves, TypeOK

LEMMA GoesToMoves ==
  ASSUME TypeOK, NEW e \in Executions, NEW t \in Tasks,
         NEW pc \in TaskPhases, GoesTo(e, t, pc)
  PROVE  Moves(e, t, [task[e][t] EXCEPT !.pc = pc])
<1>1. [task[e][t] EXCEPT !.pc = pc] \in TaskState
  <2>1. task[e][t] \in TaskState
    BY DEF TypeOK
  <2>2. QED
    BY <2>1 DEF TaskState
<1>2. task' = [task EXCEPT ![e][t] = [task[e][t] EXCEPT !.pc = pc]]
  BY DEF GoesTo
<1>3. QED
  BY <1>1, <1>2, Writes

LEMMA IsOverMoves ==
  ASSUME TypeOK, NEW e \in Executions, NEW t \in Tasks,
         NEW r \in Outcomes, IsOver(e, t, r)
  PROVE  Moves(e, t, [task[e][t] EXCEPT !.pc = "done", !.result = r])
<1>1. [task[e][t] EXCEPT !.pc = "done", !.result = r] \in TaskState
  <2>1. task[e][t] \in TaskState
    BY DEF TypeOK
  <2>2. QED
    BY <2>1 DEF TaskState, TaskPhases
<1>2. task' = [task EXCEPT ![e][t] = [task[e][t] EXCEPT !.pc = "done", !.result = r]]
  BY DEF IsOver, TypeOK
<1>3. QED
  BY <1>1, <1>2, Writes

LEMMA EndsWithMoves ==
  ASSUME TypeOK, NEW e \in Executions, NEW t \in Tasks,
         NEW ok \in BOOLEAN, EndsWith(e, t, ok)
  PROVE  Moves(e, t, [task[e][t] EXCEPT !.pc = "end", !.ok = ok])
<1>1. [task[e][t] EXCEPT !.pc = "end", !.ok = ok] \in TaskState
  <2>1. task[e][t] \in TaskState
    BY DEF TypeOK
  <2>2. QED
    BY <2>1 DEF TaskState, TaskPhases
<1>2. task' = [task EXCEPT ![e][t] = [task[e][t] EXCEPT !.pc = "end", !.ok = ok]]
  BY DEF EndsWith, TypeOK
<1>3. QED
  BY <1>1, <1>2, Writes

\* The sandboxes are numbered, so the next one is new.
LEMMA NewSandbox ==
  ASSUME SandboxesSound
  PROVE  /\ Cardinality(Sandboxes) \in Nat
         /\ Sandboxes = 1..Cardinality(Sandboxes)
         /\ Cardinality(Sandboxes) + 1 \notin Sandboxes
<1>1. PICK n \in Nat : Sandboxes = 1..n
  BY RunnerBoundsAssumption DEF SandboxesSound
<1>2. Cardinality(Sandboxes) = n
  BY <1>1, FS_Interval
<1>3. QED
  BY <1>1, <1>2

\* What CreateSandbox does.
LEMMA Creates ==
  ASSUME TypeOK, SandboxesSound, NEW e \in Executions, NEW t \in Tasks, CreateSandbox(e, t)
  PROVE  LET s == Cardinality(Sandboxes) + 1
         IN  /\ s \in 1..MaxSandboxes /\ s \notin Sandboxes
             /\ Sandboxes' = Sandboxes \cup {s} /\ Sandboxes' = 1..s
             /\ sandbox'[s] = [exec |-> e, task |-> t, pc |-> "running",
                               ok |-> FALSE, flying |-> FALSE]
             /\ \A i \in Sandboxes : sandbox'[i] = sandbox[i]
             /\ Moves(e, t, [task[e][t] EXCEPT !.pc = "created", !.sandbox = s])
             /\ UNCHANGED <<faults, yaml, row, attempt, exec, hook>>
<1> DEFINE s == Cardinality(Sandboxes) + 1
<1>1. /\ Cardinality(Sandboxes) \in Nat /\ Sandboxes = 1..Cardinality(Sandboxes)
      /\ s \notin Sandboxes /\ s <= MaxSandboxes
  BY NewSandbox DEF CreateSandbox
<1>2. s \in 1..MaxSandboxes
  BY <1>1, RunnerBoundsAssumption
<1>3. [task[e][t] EXCEPT !.pc = "created", !.sandbox = s] \in TaskState
  <2>1. task[e][t] \in TaskState /\ s \in 0..MaxSandboxes
    BY <1>2 DEF TypeOK
  <2>2. QED
    BY <2>1 DEF TaskState, TaskPhases
<1>4. task' = [task EXCEPT ![e][t] = [task[e][t] EXCEPT !.pc = "created", !.sandbox = s]]
  BY DEF CreateSandbox, TypeOK
<1>5. Moves(e, t, [task[e][t] EXCEPT !.pc = "created", !.sandbox = s])
  BY <1>3, <1>4, Writes
<1>6. sandbox' = [i \in Sandboxes \cup {s} |->
                   IF i = s THEN [exec |-> e, task |-> t, pc |-> "running",
                                  ok |-> FALSE, flying |-> FALSE]
                   ELSE sandbox[i]]
  BY DEF CreateSandbox
<1> HIDE DEF s
<1>7. /\ Sandboxes' = Sandboxes \cup {s}
      /\ sandbox'[s] = [exec |-> e, task |-> t, pc |-> "running",
                        ok |-> FALSE, flying |-> FALSE]
      /\ \A i \in Sandboxes : sandbox'[i] = sandbox[i]
  BY <1>1, <1>6 DEF Sandboxes
<1>8. Sandboxes' = 1..s
  BY <1>1, <1>7 DEF s
<1>9. UNCHANGED <<faults, yaml, row, attempt, exec, hook>>
  BY DEF CreateSandbox
<1>10. QED
  BY <1>1, <1>2, <1>5, <1>7, <1>8, <1>9 DEF s

\* What a stop does.
LEMMA Stops ==
  ASSUME TypeOK, NEW e \in Executions, NEW t \in Tasks, Stop(e, t)
  PROVE  /\ Sandboxes' = Sandboxes /\ sandbox' \in [Sandboxes -> SandboxState]
         /\ \A s \in Sandboxes :
              /\ sandbox'[s].exec = sandbox[s].exec /\ sandbox'[s].task = sandbox[s].task
              /\ sandbox'[s].ok = sandbox[s].ok /\ sandbox'[s].flying = sandbox[s].flying
              /\ sandbox'[s].pc \in {sandbox[s].pc, "stopped"}
              /\ s = task[e][t].sandbox /\ "stop" \notin faults => sandbox'[s].pc # "running"
<1>1. sandbox \in [Sandboxes -> SandboxState]
  BY DEF TypeOK
<1>2. CASE sandbox' = [s \in Sandboxes |->
             IF s = task[e][t].sandbox /\ sandbox[s].pc \in {"running", "posting"}
             THEN [sandbox[s] EXCEPT !.pc = "stopped"] ELSE sandbox[s]]
  <2>1. \A s \in Sandboxes : [sandbox[s] EXCEPT !.pc = "stopped"] \in SandboxState
    BY <1>1 DEF SandboxState
  <2>2. Sandboxes' = Sandboxes /\ sandbox' \in [Sandboxes -> SandboxState]
    BY <1>1, <1>2, <2>1 DEF Sandboxes
  <2>3. QED
    BY <1>1, <1>2, <2>2 DEF SandboxState
<1>3. CASE "stop" \in faults /\ UNCHANGED sandbox
  BY <1>1, <1>3 DEF Sandboxes
<1>4. QED
  BY <1>2, <1>3 DEF Stop

LEMMA InitTypes == Init => TypeOK
<1> SUFFICES ASSUME Init PROVE TypeOK
  OBVIOUS
<1>1. Sandboxes = {} /\ sandbox \in [Sandboxes -> SandboxState]
  BY DEF Init, Sandboxes
<1>2. exec \in [Executions -> ExecState]
  BY VersionsAssumption DEF Init, ExecState, Outcomes
<1>3. task \in [Executions -> [Tasks -> TaskState]]
  BY RunnerBoundsAssumption DEF Init, TaskState, TaskPhases
<1>4. attempt \in [Tasks -> {"none", "running"} \cup Outcomes]
  BY DEF Init
<1>5. hook \in [Executions -> [Tasks -> HookState]]
  BY DEF Init, HookState
<1>6. QED
  BY <1>1, <1>2, <1>3, <1>4, <1>5, VersionsAssumption DEF Init, TypeOK

\* The steps of a task change its row, at most; what becomes of the sandboxes
\* is a creation or a stop.
LEMMA TaskFrame ==
  ASSUME TypeOK, NEW e \in Executions, NEW t \in Tasks, TaskStep(e, t) \/ TaskFault(e, t)
  PROVE  /\ UNCHANGED <<faults, yaml, row, exec, hook>>
         /\ attempt' = attempt \/ \E r \in Outcomes \cup {"running"} : Record(t, r)
         /\ sandbox' = sandbox \/ CreateSandbox(e, t) \/ Stop(e, t)
<1>1. exec[e] \in ExecState
  BY DEF TypeOK
<1>2. ASSUME TaskStep(e, t)
      PROVE  /\ UNCHANGED <<faults, yaml, row, exec, hook>>
             /\ attempt' = attempt \/ \E r \in Outcomes \cup {"running"} : Record(t, r)
             /\ sandbox' = sandbox \/ CreateSandbox(e, t) \/ Stop(e, t)
  BY <1>2
  DEF TaskStep, Honour, Skip, Begin, UpstreamRejected, RecordWorkflowError,
      CheckManifest, CreateSandbox, Launched, HookWins, Finalize, WatchdogWins,
      MissingCallback, RecordEnd, Outcomes
<1>3. ASSUME TaskFault(e, t)
      PROVE  /\ UNCHANGED <<faults, yaml, row, exec, hook>>
             /\ attempt' = attempt \/ \E r \in Outcomes \cup {"running"} : Record(t, r)
             /\ sandbox' = sandbox \/ CreateSandbox(e, t) \/ Stop(e, t)
  BY <1>3 DEF TaskFault, StepFails, LaunchFails, LaunchRepeats, Outcomes
<1>4. QED
  BY <1>2, <1>3

\* Where the steps of a task take it.
LEMMA TaskMoves ==
  ASSUME TypeOK, SandboxesSound, TasksSound,
         NEW e \in Executions, NEW t \in Tasks, TaskStep(e, t) \/ TaskFault(e, t)
  PROVE  LET k == task[e][t]
         IN  \/ /\ k.pc # "done"
                /\ \E r \in Outcomes : Moves(e, t, [k EXCEPT !.pc = "done", !.result = r])
             \/ /\ k.pc # "done"
                /\ \E pc \in TaskPhases \ {"done"} : Moves(e, t, [k EXCEPT !.pc = pc])
             \/ /\ k.pc # "done"
                /\ \E ok \in BOOLEAN, pc \in {"finalize", "end"} :
                     Moves(e, t, [k EXCEPT !.pc = pc, !.ok = ok])
             \/ /\ k.pc # "done"
                /\ \E s \in 0..MaxSandboxes, pc \in {"created", "check"} :
                     Moves(e, t, [k EXCEPT !.pc = pc, !.sandbox = s])
<1> DEFINE k == task[e][t]
           Over == \E r \in Outcomes : Moves(e, t, [k EXCEPT !.pc = "done", !.result = r])
           Goes == \E pc \in TaskPhases \ {"done"} : Moves(e, t, [k EXCEPT !.pc = pc])
           Ends == \E ok \in BOOLEAN, pc \in {"finalize", "end"} :
                     Moves(e, t, [k EXCEPT !.pc = pc, !.ok = ok])
           Holds == \E s \in 0..MaxSandboxes, pc \in {"created", "check"} :
                      Moves(e, t, [k EXCEPT !.pc = pc, !.sandbox = s])
<1>1. k \in TaskState /\ exec[e] \in ExecState /\ hook[e][t] \in HookState
  BY DEF TypeOK
<1>2. k.pc # "done"
  BY DEF TaskStep, Honour, Skip, Begin, UpstreamRejected, RecordWorkflowError,
      CheckManifest, CreateSandbox, Launched, HookWins, Finalize, WatchdogWins,
      MissingCallback, RecordEnd, TaskFault, StepFails, LaunchFails, LaunchRepeats,
      UpstreamDone, At
<1>3. ASSUME Honour(e, t) \/ Skip(e, t) \/ RecordEnd(e, t) PROVE Over
  <2>1. \E r \in Outcomes : IsOver(e, t, r)
    BY <1>1, <1>3 DEF Honour, Skip, RecordEnd, Earned, Outcomes
  <2>2. QED
    BY <2>1, IsOverMoves
<1>4. ASSUME RecordWorkflowError(e, t) PROVE Over \/ Goes
  BY <1>4, IsOverMoves, GoesToMoves DEF RecordWorkflowError, Outcomes, TaskPhases
<1>5. ASSUME \/ Begin(e, t) \/ UpstreamRejected(e, t) \/ Launched(e, t)
             \/ Finalize(e, t) \/ WatchdogWins(e, t) \/ StepFails(e, t)
      PROVE  Goes
  <2>1. \E pc \in TaskPhases \ {"done"} : GoesTo(e, t, pc)
    BY <1>5
    DEF Begin, UpstreamRejected, Launched, Finalize, WatchdogWins, StepFails, TaskPhases
  <2>2. QED
    BY <2>1, GoesToMoves
<1>6. ASSUME CheckManifest(e, t) PROVE Goes \/ Ends
  BY <1>6, GoesToMoves, EndsWithMoves DEF CheckManifest, TaskPhases
<1>7. ASSUME LaunchFails(e, t) PROVE Ends
  BY <1>7, EndsWithMoves DEF LaunchFails
<1>8. ASSUME MissingCallback(e, t) PROVE Ends
  <2>1. sandbox[k.sandbox] \in SandboxState
    BY <1>8 DEF MissingCallback, At, TasksSound, TypeOK
  <2>2. \E ok \in BOOLEAN : EndsWith(e, t, ok)
    BY <1>8, <2>1 DEF MissingCallback, SandboxState
  <2>3. QED
    BY <2>2, EndsWithMoves
<1>9. ASSUME HookWins(e, t) PROVE Ends
  <2>1. [k EXCEPT !.pc = "finalize", !.ok = hook[e][t] = "ok"] \in TaskState
    BY <1>1 DEF TaskState, TaskPhases
  <2>2. task' = [task EXCEPT ![e][t] = [k EXCEPT !.pc = "finalize", !.ok = hook[e][t] = "ok"]]
    BY <1>9 DEF HookWins, TypeOK
  <2>3. QED
    BY <2>1, <2>2, Writes
<1>10. ASSUME LaunchRepeats(e, t) PROVE Holds
  <2>1. 0 \in 0..MaxSandboxes
    BY RunnerBoundsAssumption
  <2>2. [k EXCEPT !.pc = "check", !.sandbox = 0] \in TaskState
    BY <1>1, <2>1 DEF TaskState, TaskPhases
  <2>3. task' = [task EXCEPT ![e][t] = [k EXCEPT !.pc = "check", !.sandbox = 0]]
    BY <1>10 DEF LaunchRepeats, TypeOK
  <2>4. QED
    BY <2>1, <2>2, <2>3, Writes
<1>11. ASSUME CreateSandbox(e, t) PROVE Holds
  <2>1. PICK s \in 1..MaxSandboxes : Moves(e, t, [k EXCEPT !.pc = "created", !.sandbox = s])
    BY <1>11, Creates
  <2>2. s \in 0..MaxSandboxes
    OBVIOUS
  <2>3. QED
    BY <2>1, <2>2
<1>12. Over \/ Goes \/ Ends \/ Holds
  BY <1>3, <1>4, <1>5, <1>6, <1>7, <1>8, <1>9, <1>10, <1>11 DEF TaskStep, TaskFault
<1>13. QED
  BY <1>2, <1>12

\* What a step of the runner in sandbox s, or its loss, does.
LEMMA SandboxMoves ==
  ASSUME TypeOK, NEW s \in Sandboxes, SandboxStep(s) \/ SandboxLost(s)
  PROVE  /\ UNCHANGED <<faults, yaml, row, attempt, exec, task>>
         /\ Sandboxes' = Sandboxes /\ sandbox' \in [Sandboxes -> SandboxState]
         /\ \A i \in Sandboxes \ {s} : sandbox'[i] = sandbox[i]
         /\ sandbox'[s].exec = sandbox[s].exec /\ sandbox'[s].task = sandbox[s].task
         /\ sandbox[s].pc # "running" => /\ sandbox'[s].pc # "running"
                                         /\ sandbox'[s].ok = sandbox[s].ok
         /\ sandbox'[s].pc = "running" => sandbox'[s].flying = FALSE \/ sandbox[s].flying
         /\ sandbox'[s].pc = "running" => sandbox'[s].ok = sandbox[s].ok
         /\ hook' = hook \/ Callback(s)
<1>1. sandbox \in [Sandboxes -> SandboxState] /\ sandbox[s] \in SandboxState
  BY DEF TypeOK
<1>2. CASE Finish(s)
  <2>1. PICK ok \in BOOLEAN : sandbox' = [sandbox EXCEPT ![s].pc = "posting", ![s].ok = ok,
                                                        ![s].flying = TRUE]
    BY <1>2 DEF Finish
  <2>2. QED
    BY <1>1, <1>2, <2>1 DEF Finish, SandboxState, Sandboxes
<1>3. CASE Callback(s)
  <2>1. sandbox' = [sandbox EXCEPT ![s] = [sandbox[s] EXCEPT !.flying = FALSE]]
          \/ sandbox' = sandbox
    BY <1>3 DEF Callback
  <2>2. [sandbox[s] EXCEPT !.flying = FALSE] \in SandboxState
    BY <1>1 DEF SandboxState
  <2>3. sandbox' \in [Sandboxes -> SandboxState] /\ Sandboxes' = Sandboxes
    BY <1>1, <2>1, <2>2 DEF Sandboxes
  <2>4. /\ \A i \in Sandboxes \ {s} : sandbox'[i] = sandbox[i]
        /\ sandbox'[s] = sandbox[s] \/ sandbox'[s] = [sandbox[s] EXCEPT !.flying = FALSE]
    BY <1>1, <2>1
  <2>5. QED
    BY <1>1, <1>3, <2>3, <2>4 DEF Callback, SandboxState
<1>4. CASE Exit(s)
  BY <1>1, <1>4 DEF Exit, SandboxState, Sandboxes
<1>5. CASE SandboxLost(s)
  <2>1. PICK flying \in {sandbox[s].flying, FALSE} :
          sandbox' = [sandbox EXCEPT ![s].pc = "stopped", ![s].flying = flying]
    BY <1>5 DEF SandboxLost
  <2>2. QED
    BY <1>1, <1>5, <2>1 DEF SandboxLost, SandboxState, Sandboxes
<1>6. QED
  BY <1>2, <1>3, <1>4, <1>5 DEF SandboxStep

\* What becomes of the sandboxes: none goes, none changes hands, none that has
\* succeeded or ended goes back.
LEMMA SandboxFrame ==
  ASSUME TypeOK, SandboxesSound, [Next]_vars
  PROVE  /\ Sandboxes \subseteq Sandboxes'
         /\ \A s \in Sandboxes :
              /\ sandbox'[s].exec = sandbox[s].exec /\ sandbox'[s].task = sandbox[s].task
              /\ sandbox[s].ok => sandbox'[s].ok
              /\ sandbox[s].pc # "running" => sandbox'[s].pc # "running"
<1> DEFINE Frame == /\ Sandboxes \subseteq Sandboxes'
                    /\ \A s \in Sandboxes :
                         /\ sandbox'[s].exec = sandbox[s].exec
                         /\ sandbox'[s].task = sandbox[s].task
                         /\ sandbox[s].ok => sandbox'[s].ok
                         /\ sandbox[s].pc # "running" => sandbox'[s].pc # "running"
<1>1. CASE UNCHANGED sandbox
  BY <1>1 DEF Sandboxes
<1>2. ASSUME NEW e \in Executions, NEW t \in Tasks, TaskStep(e, t) \/ TaskFault(e, t)
      PROVE  Frame
  <2>1. CASE CreateSandbox(e, t)
    BY <2>1, Creates
  <2>2. CASE Stop(e, t)
    BY <2>2, Stops
  <2>3. QED
    BY <1>1, <1>2, <2>1, <2>2, TaskFrame
<1>3. ASSUME NEW s \in Sandboxes, SandboxStep(s) \/ SandboxLost(s)
      PROVE  Frame
  BY <1>3, SandboxMoves DEF SandboxesSound
<1>4. ASSUME NEW e \in Executions, Respawn(e) \/ ExecStep(e) \/ InitFails(e)
      PROVE  UNCHANGED sandbox
  BY <1>4
  DEF Respawn, ExecStep, InitFails, ReadContext, ReadPrior, AllDone, SomeRejected,
      MarkRunTerminal
<1>5. QED
  BY <1>1, <1>2, <1>3, <1>4 DEF Next, YamlChanges, vars

\* Success is not taken back.
LEMMA RanStays ==
  ASSUME TypeOK, SandboxesSound, [Next]_vars, NEW t \in Tasks, RanToSuccess(t)
  PROVE  RanToSuccess(t)'
BY SandboxFrame DEF RanToSuccess, SandboxesOf

LEMMA StepTypes ==
  ASSUME TypeOK, VerdictsGiven, SandboxesSound, TasksSound, [Next]_vars
  PROVE  TypeOK'
<1>1. CASE YamlChanges
  BY <1>1 DEF YamlChanges, TypeOK, Sandboxes
<1>2. ASSUME NEW e \in Executions, Respawn(e) \/ ExecStep(e) \/ InitFails(e)
      PROVE  TypeOK'
  <2>1. exec[e] \in ExecState
    BY DEF TypeOK
  <2>2. CASE Respawn(e)
    BY <2>1, <2>2 DEF Respawn, TypeOK, ExecState, Sandboxes
  <2>3. CASE ReadContext(e)
    BY <2>1, <2>3 DEF ReadContext, TypeOK, ExecState, Sandboxes
  <2>4. CASE ReadPrior(e)
    <3>1. [t \in Tasks |-> IF attempt[t] \in Outcomes THEN attempt[t] ELSE "none"]
            \in [Tasks -> Outcomes \cup {"none"}]
      OBVIOUS
    <3>2. exec' \in [Executions -> ExecState]
      <4> DEFINE p == [t \in Tasks |-> IF attempt[t] \in Outcomes THEN attempt[t] ELSE "none"]
      <4>1. exec' = [exec EXCEPT ![e] = [exec[e] EXCEPT !.pc = "tasks", !.prior = p]]
        BY <2>4 DEF ReadPrior, TypeOK
      <4> HIDE DEF p
      <4>2. [exec[e] EXCEPT !.pc = "tasks", !.prior = p] \in ExecState
        BY <2>1, <3>1 DEF ExecState, p
      <4>3. QED
        BY <4>1, <4>2 DEF TypeOK
    <3>3. hook' \in [Executions -> [Tasks -> HookState]]
      BY <2>4 DEF ReadPrior, TypeOK, HookState
    <3>4. QED
      BY <2>4, <3>2, <3>3 DEF ReadPrior, TypeOK, Sandboxes
  <2>5. CASE InitFails(e)
    BY <2>1, <2>5 DEF InitFails, TypeOK, ExecState, Terminal, Sandboxes
  <2>6. CASE AllDone(e) \/ SomeRejected(e)
    <3>1. exec' \in [Executions -> ExecState]
      <4>1. PICK v \in Terminal :
              exec' = [exec EXCEPT ![e] = [exec[e] EXCEPT !.pc = "verdict", !.verdict = v]]
        BY <2>6 DEF AllDone, SomeRejected, Overall, TypeOK, Terminal
      <4>2. [exec[e] EXCEPT !.pc = "verdict", !.verdict = v] \in ExecState
        BY <2>1 DEF ExecState
      <4>3. QED
        BY <4>1, <4>2 DEF TypeOK
    <3>2. hook' \in [Executions -> [Tasks -> HookState]]
      BY <2>6 DEF AllDone, SomeRejected, Dispose, TypeOK, HookState
    <3>3. QED
      BY <2>6, <3>1, <3>2 DEF AllDone, SomeRejected, TypeOK, Sandboxes
  <2>7. CASE MarkRunTerminal(e)
    <3>1. exec' \in [Executions -> ExecState]
      BY <2>1, <2>7 DEF MarkRunTerminal, TypeOK, ExecState
    <3>2. row' \in {"running"} \cup Terminal
      BY <2>7 DEF MarkRunTerminal, TypeOK, VerdictsGiven
    <3>3. QED
      BY <2>7, <3>1, <3>2 DEF MarkRunTerminal, TypeOK, Sandboxes
  <2>8. QED
    BY <1>2, <2>2, <2>3, <2>4, <2>5, <2>6, <2>7 DEF ExecStep
<1>3. ASSUME NEW e \in Executions, NEW t \in Tasks, TaskStep(e, t) \/ TaskFault(e, t)
      PROVE  TypeOK'
  <2>1. task' \in [Executions -> [Tasks -> TaskState]]
    BY <1>3, TaskMoves DEF Moves
  <2>2. attempt' \in [Tasks -> {"none", "running"} \cup Outcomes]
    BY <1>3, TaskFrame DEF Record, TypeOK
  <2>3. Sandboxes' \subseteq 1..MaxSandboxes /\ sandbox' \in [Sandboxes' -> SandboxState]
    <3>1. CASE CreateSandbox(e, t)
      <4>1. PICK s \in 1..MaxSandboxes :
              /\ Sandboxes' = Sandboxes \cup {s}
              /\ sandbox' = [i \in Sandboxes \cup {s} |->
                               IF i = s THEN [exec |-> e, task |-> t, pc |-> "running",
                                              ok |-> FALSE, flying |-> FALSE]
                               ELSE sandbox[i]]
        BY <3>1, Creates DEF CreateSandbox
      <4>2. [exec |-> e, task |-> t, pc |-> "running", ok |-> FALSE, flying |-> FALSE]
              \in SandboxState
        BY DEF SandboxState
      <4>3. QED
        BY <4>1, <4>2 DEF TypeOK
    <3>2. CASE Stop(e, t)
      BY <3>2, Stops DEF TypeOK
    <3>3. CASE sandbox' = sandbox
      BY <3>3 DEF TypeOK, Sandboxes
    <3>4. QED
      BY <1>3, <3>1, <3>2, <3>3, TaskFrame
  <2>4. QED
    BY <1>3, <2>1, <2>2, <2>3, TaskFrame DEF TypeOK
<1>4. ASSUME NEW s \in Sandboxes, SandboxStep(s) \/ SandboxLost(s)
      PROVE  TypeOK'
  <2>1. hook' \in [Executions -> [Tasks -> HookState]]
    <3>1. CASE hook' = hook
      BY <3>1 DEF TypeOK
    <3>2. CASE Callback(s)
      BY <3>2 DEF Callback, TypeOK, HookState, SandboxState
    <3>3. QED
      BY <1>4, <3>1, <3>2, SandboxMoves
  <2>2. QED
    BY <1>4, <2>1, SandboxMoves DEF TypeOK
<1>5. CASE UNCHANGED vars
  BY <1>5 DEF vars, TypeOK, Sandboxes
<1>6. QED
  BY <1>1, <1>2, <1>3, <1>4, <1>5 DEF Next

-----------------------------------------------------------------------------
(***************************************************************************)
(* The executions, the sandboxes and the tasks.                            *)
(***************************************************************************)

\* What an execution is after a step.
Becomes(e, pc, version, prior, verdict) ==
  /\ exec'[e].pc = pc /\ exec'[e].version = version
  /\ exec'[e].prior = prior /\ exec'[e].verdict = verdict

\* The terminal statuses of the attempts, as an execution reads them.
PriorStatuses == [t \in Tasks |-> IF attempt[t] \in Outcomes THEN attempt[t] ELSE "none"]

\* The steps of an execution, one by one.
LEMMA ExecMoves ==
  ASSUME TypeOK, NEW e \in Executions, Respawn(e) \/ ExecStep(e) \/ InitFails(e)
  PROVE  /\ UNCHANGED <<faults, yaml, attempt, task, sandbox>>
         /\ \A f \in Executions \ {e} : exec'[f] = exec[f] /\ hook'[f] = hook[f]
         /\ LET x == exec[e]
            IN  \/ /\ x.pc = "none" /\ "respawn" \in faults /\ row' = "running"
                   /\ Becomes(e, "context", x.version, x.prior, x.verdict)
                   /\ hook'[e] = hook[e]
                \/ /\ x.pc = "context" /\ row' = row
                   /\ Becomes(e, "prior", yaml, x.prior, x.verdict)
                   /\ hook'[e] = hook[e]
                \/ /\ x.pc = "prior" /\ row' = row
                   /\ Becomes(e, "tasks", x.version, PriorStatuses, x.verdict)
                   /\ hook'[e] = [t \in Tasks |-> "open"]
                \/ /\ x.pc \in {"context", "prior"} /\ "db" \in faults /\ row' = row
                   /\ Becomes(e, "verdict", x.version, x.prior, "failed")
                   /\ hook'[e] = hook[e]
                \/ /\ x.pc = "tasks" /\ row' = row
                   /\ \A t \in Tasks : task[e][t].pc = "done"
                   /\ Becomes(e, "verdict", x.version, x.prior, Overall(e))
                   /\ hook'[e] = [t \in Tasks |-> "disposed"]
                \/ /\ x.pc = "tasks" /\ row' = row
                   /\ \E t \in Tasks : task[e][t].pc = "rejected"
                   /\ Becomes(e, "verdict", x.version, x.prior, "failed")
                   /\ hook'[e] = [t \in Tasks |-> "disposed"]
                \/ /\ x.pc = "verdict"
                   /\ row' = IF row \in Terminal THEN row ELSE x.verdict
                   /\ Becomes(e, "returned", x.version, x.prior, x.verdict)
                   /\ hook'[e] = hook[e]
<1>1. exec \in [Executions -> ExecState] /\ hook \in [Executions -> [Tasks -> HookState]]
  BY DEF TypeOK
<1>2. exec[e] = [pc |-> exec[e].pc, version |-> exec[e].version,
                 prior |-> exec[e].prior, verdict |-> exec[e].verdict]
  BY <1>1 DEF ExecState
<1>3. CASE Respawn(e)
  BY <1>1, <1>2, <1>3 DEF Respawn, Becomes
<1>4. CASE ReadContext(e)
  BY <1>1, <1>2, <1>4 DEF ReadContext, Becomes
<1>5. CASE ReadPrior(e)
  <2> DEFINE p == PriorStatuses
  <2>1. exec' = [exec EXCEPT ![e].pc = "tasks", ![e].prior = p]
    BY <1>5 DEF ReadPrior, PriorStatuses
  <2> HIDE DEF p
  <2>2. /\ \A f \in Executions \ {e} : exec'[f] = exec[f]
        /\ Becomes(e, "tasks", exec[e].version, p, exec[e].verdict)
    BY <1>1, <1>2, <2>1 DEF Becomes
  <2>3. QED
    BY <1>1, <1>5, <2>2 DEF ReadPrior, p
<1>6. CASE AllDone(e)
  BY <1>1, <1>2, <1>6 DEF AllDone, Dispose, Becomes
<1>7. CASE SomeRejected(e)
  BY <1>1, <1>2, <1>7 DEF SomeRejected, Dispose, Becomes
<1>8. CASE MarkRunTerminal(e)
  BY <1>1, <1>2, <1>8 DEF MarkRunTerminal, Becomes
<1>9. CASE InitFails(e)
  BY <1>1, <1>2, <1>9 DEF InitFails, Becomes
<1>10. QED
  BY <1>3, <1>4, <1>5, <1>6, <1>7, <1>8, <1>9 DEF ExecStep

LEMMA StepVerdicts ==
  ASSUME TypeOK, VerdictsGiven, [Next]_vars
  PROVE  VerdictsGiven'
<1>1. CASE UNCHANGED exec
  BY <1>1 DEF VerdictsGiven
<1>2. ASSUME NEW e \in Executions, Respawn(e) \/ ExecStep(e) \/ InitFails(e)
      PROVE  VerdictsGiven'
  <2>1. exec[e] \in ExecState /\ Overall(e) \in Terminal
    BY DEF TypeOK, Overall, Terminal
  <2>2. exec'[e].pc = "verdict" => exec'[e].verdict \in Terminal
    BY <1>2, <2>1, ExecMoves DEF Becomes, Terminal, VerdictsGiven
  <2>3. QED
    BY <1>2, <2>2, ExecMoves DEF VerdictsGiven
<1>3. QED
  BY <1>1, <1>2, TaskFrame, SandboxMoves DEF Next, YamlChanges, vars

\* An execution that has begun stays so, with its version.
LEMMA BegunStays ==
  ASSUME TypeOK, [Next]_vars, NEW e \in Executions, Begun(e)
  PROVE  Begun(e)' /\ exec'[e].version = exec[e].version
<1>1. CASE UNCHANGED exec
  BY <1>1 DEF Begun
<1>2. ASSUME NEW f \in Executions, Respawn(f) \/ ExecStep(f) \/ InitFails(f)
      PROVE  Begun(e)' /\ exec'[e].version = exec[e].version
  <2>1. CASE e = f
    BY <1>2, <2>1, ExecMoves DEF Begun, Becomes
  <2>2. CASE e # f
    BY <1>2, <2>2, ExecMoves DEF Begun
  <2>3. QED
    BY <2>1, <2>2
<1>3. QED
  BY <1>1, <1>2, TaskFrame, SandboxMoves DEF Next, YamlChanges, vars

LEMMA StepSandboxes ==
  ASSUME TypeOK, SandboxesSound, [Next]_vars
  PROVE  SandboxesSound'
<1>1. \A e \in Executions : Begun(e) => Begun(e)'
  BY BegunStays
<1>2. \A s \in Sandboxes : sandbox[s] \in SandboxState
  BY DEF TypeOK
<1>3. CASE UNCHANGED sandbox
  BY <1>1, <1>2, <1>3 DEF SandboxesSound, Sandboxes, SandboxState
<1>4. ASSUME NEW e \in Executions, NEW t \in Tasks, TaskStep(e, t) \/ TaskFault(e, t)
      PROVE  SandboxesSound'
  <2>1. CASE CreateSandbox(e, t)
    <3>1. PICK s \in 1..MaxSandboxes :
            /\ Sandboxes' = Sandboxes \cup {s} /\ Sandboxes' = 1..s
            /\ sandbox'[s] = [exec |-> e, task |-> t, pc |-> "running",
                              ok |-> FALSE, flying |-> FALSE]
            /\ \A i \in Sandboxes : sandbox'[i] = sandbox[i]
      BY <2>1, Creates
    <3>2. Begun(e)
      BY <2>1 DEF CreateSandbox, At, Begun
    <3>3. s \in 0..MaxSandboxes
      OBVIOUS
    <3>4. \A i \in Sandboxes' :
            /\ exec'[sandbox'[i].exec].pc \notin {"none", "context", "prior"}
            /\ sandbox'[i].pc = "running" => ~sandbox'[i].ok /\ ~sandbox'[i].flying
      BY <1>1, <1>2, <3>1, <3>2 DEF SandboxesSound, SandboxState, Begun
    <3>5. QED
      BY <3>1, <3>3, <3>4 DEF SandboxesSound, Begun
  <2>2. CASE Stop(e, t)
    BY <1>1, <1>2, <2>2, Stops DEF SandboxesSound, SandboxState
  <2>3. QED
    BY <1>3, <1>4, <2>1, <2>2, TaskFrame
<1>5. ASSUME NEW s \in Sandboxes, SandboxStep(s) \/ SandboxLost(s)
      PROVE  SandboxesSound'
  <2>1. /\ Sandboxes' = Sandboxes
        /\ \A i \in Sandboxes \ {s} : sandbox'[i] = sandbox[i]
        /\ sandbox'[s].exec = sandbox[s].exec
        /\ sandbox'[s].pc = "running" => /\ sandbox[s].pc = "running"
                                         /\ sandbox'[s].flying = FALSE \/ sandbox[s].flying
                                         /\ sandbox'[s].ok = sandbox[s].ok
    BY <1>5, SandboxMoves
  <2>2. \A i \in Sandboxes :
          /\ exec'[sandbox'[i].exec].pc \notin {"none", "context", "prior"}
          /\ sandbox'[i].pc = "running" => ~sandbox'[i].ok /\ ~sandbox'[i].flying
    <3>1. \A i \in Sandboxes : sandbox'[i].exec = sandbox[i].exec
      BY <2>1
    <3>2. \A i \in Sandboxes : exec'[sandbox[i].exec].pc \notin {"none", "context", "prior"}
      BY <1>1, <1>2 DEF SandboxesSound, SandboxState, Begun
    <3>3. \A i \in Sandboxes :
            sandbox'[i].pc = "running" => ~sandbox'[i].ok /\ ~sandbox'[i].flying
      <4>1. \A i \in Sandboxes : sandbox[i].pc = "running" => ~sandbox[i].ok /\ ~sandbox[i].flying
        BY DEF SandboxesSound
      <4>2. sandbox'[s].pc = "running" => ~sandbox'[s].ok /\ ~sandbox'[s].flying
        <5>1. sandbox'[s] \in SandboxState /\ sandbox[s] \in SandboxState
          BY <1>2, <1>5, SandboxMoves
        <5>2. /\ sandbox'[s].ok \in BOOLEAN /\ sandbox'[s].flying \in BOOLEAN
              /\ sandbox[s].ok \in BOOLEAN /\ sandbox[s].flying \in BOOLEAN
          BY <5>1 DEF SandboxState
        <5>3. CASE sandbox'[s].pc = "running"
          <6>1. ~sandbox[s].ok /\ ~sandbox[s].flying
            <7>1. sandbox[s].pc = "running"
              BY <2>1, <5>3
            <7>2. QED
              BY <4>1, <7>1, Zenon
          <6>2. ~sandbox'[s].flying
            BY <2>1, <5>2, <5>3, <6>1
          <6>3. ~sandbox'[s].ok
            BY <2>1, <5>2, <5>3, <6>1
          <6>4. QED
            BY <6>2, <6>3
        <5>4. QED
          BY <5>3
      <4>3. QED
        BY <2>1, <4>1, <4>2
    <3>4. QED
      BY <3>1, <3>2, <3>3
  <2>3. QED
    BY <2>1, <2>2 DEF SandboxesSound, Begun
<1>6. ASSUME NEW e \in Executions, Respawn(e) \/ ExecStep(e) \/ InitFails(e)
      PROVE  UNCHANGED sandbox
  BY <1>6, ExecMoves
<1>7. QED
  BY <1>3, <1>4, <1>5, <1>6 DEF Next, YamlChanges, vars

-----------------------------------------------------------------------------
(***************************************************************************)
(* Success, order and versions.                                            *)
(***************************************************************************)

\* What a task is after a step.
TaskIs(e, t, pc, s, ok, result) ==
  /\ task'[e][t].pc = pc /\ task'[e][t].sandbox = s
  /\ task'[e][t].ok = ok /\ task'[e][t].result = result

LEMMA GoesToFields ==
  ASSUME TypeOK, NEW e \in Executions, NEW t \in Tasks, NEW pc \in TaskPhases, GoesTo(e, t, pc)
  PROVE  TaskIs(e, t, pc, task[e][t].sandbox, task[e][t].ok, task[e][t].result)
<1>1. task \in [Executions -> [Tasks -> TaskState]] /\ task[e][t] \in TaskState
  BY DEF TypeOK
<1>2. task'[e][t] = [task[e][t] EXCEPT !.pc = pc]
  BY <1>1 DEF GoesTo
<1>3. QED
  BY <1>1, <1>2 DEF TaskState, TaskIs

LEMMA IsOverFields ==
  ASSUME TypeOK, NEW e \in Executions, NEW t \in Tasks, NEW r \in Outcomes, IsOver(e, t, r)
  PROVE  TaskIs(e, t, "done", task[e][t].sandbox, task[e][t].ok, r)
<1>1. task \in [Executions -> [Tasks -> TaskState]] /\ task[e][t] \in TaskState
  BY DEF TypeOK
<1>2. task'[e][t] = [[task[e][t] EXCEPT !.pc = "done"] EXCEPT !.result = r]
  BY <1>1 DEF IsOver
<1>3. QED
  BY <1>1, <1>2 DEF TaskState, TaskIs

LEMMA EndsWithFields ==
  ASSUME TypeOK, NEW e \in Executions, NEW t \in Tasks, NEW ok \in BOOLEAN, EndsWith(e, t, ok)
  PROVE  TaskIs(e, t, "end", task[e][t].sandbox, ok, task[e][t].result)
<1>1. task \in [Executions -> [Tasks -> TaskState]] /\ task[e][t] \in TaskState
  BY DEF TypeOK
<1>2. task'[e][t] = [[task[e][t] EXCEPT !.pc = "end"] EXCEPT !.ok = ok]
  BY <1>1 DEF EndsWith
<1>3. QED
  BY <1>1, <1>2 DEF TaskState, TaskIs

\* An outcome that claims success, of a task or of its callback.
LEMMA TaskSuccess ==
  ASSUME IInv, NEW e \in Executions, NEW t \in Tasks, TaskStep(e, t) \/ TaskFault(e, t)
  PROVE  /\ task'[e][t].ok => RanToSuccess(t)
         /\ task'[e][t].result = "succeeded" => RanToSuccess(t)
         /\ attempt'[t] = "succeeded" => RanToSuccess(t)
<1> DEFINE k == task[e][t]
<1> USE DEF IInv
<1>1. /\ k \in TaskState /\ exec[e] \in ExecState
      /\ task \in [Executions -> [Tasks -> TaskState]]
      /\ attempt \in [Tasks -> {"none", "running"} \cup Outcomes]
  BY DEF TypeOK
<1>2. /\ k.ok => RanToSuccess(t)
      /\ k.result = "succeeded" => RanToSuccess(t)
      /\ attempt[t] = "succeeded" => RanToSuccess(t)
      /\ exec[e].prior[t] = "succeeded" => RanToSuccess(t)
      /\ hook[e][t] = "ok" => RanToSuccess(t)
  BY DEF SuccessIsEarned
<1>3. ASSUME NEW pc \in TaskPhases, GoesTo(e, t, pc)
      PROVE  task'[e][t].ok = k.ok /\ task'[e][t].result = k.result
  BY <1>3, GoesToFields DEF TaskIs
<1>4. ASSUME NEW r \in Outcomes, IsOver(e, t, r)
      PROVE  task'[e][t].ok = k.ok /\ task'[e][t].result = r
  BY <1>4, IsOverFields DEF TaskIs
<1>5. ASSUME NEW ok \in BOOLEAN, EndsWith(e, t, ok)
      PROVE  task'[e][t].ok = ok /\ task'[e][t].result = k.result
  BY <1>5, EndsWithFields DEF TaskIs
<1>6. \A status : Record(t, status) => attempt'[t] = status
  BY <1>1 DEF Record
<1>7. CASE Honour(e, t) \/ Skip(e, t) \/ Begin(e, t) \/ UpstreamRejected(e, t)
  <2>1. CASE Honour(e, t)
    BY <1>2, <1>4, <2>1 DEF Honour, Earned, Outcomes
  <2>2. CASE Skip(e, t)
    BY <1>2, <1>4, <1>6, <2>2 DEF Skip, Outcomes
  <2>3. CASE Begin(e, t)
    BY <1>2, <1>3, <1>6, <2>3 DEF Begin, TaskPhases
  <2>4. CASE UpstreamRejected(e, t)
    BY <1>2, <1>3, <2>4 DEF UpstreamRejected, TaskPhases
  <2>5. QED
    BY <1>7, <2>1, <2>2, <2>3, <2>4
<1>8. CASE \/ Launched(e, t) \/ Finalize(e, t) \/ WatchdogWins(e, t)
          \/ RecordWorkflowError(e, t) \/ CheckManifest(e, t)
  <2>1. CASE Launched(e, t)
    BY <1>2, <1>3, <2>1 DEF Launched, TaskPhases
  <2>2. CASE Finalize(e, t)
    BY <1>2, <1>3, <2>2 DEF Finalize, TaskPhases
  <2>3. CASE WatchdogWins(e, t)
    BY <1>2, <1>3, <2>3 DEF WatchdogWins, TaskPhases
  <2>4. CASE RecordWorkflowError(e, t)
    BY <1>2, <1>3, <1>4, <1>6, <2>4 DEF RecordWorkflowError, TaskPhases, Outcomes
  <2>5. CASE CheckManifest(e, t)
    BY <1>2, <1>3, <1>5, <2>5 DEF CheckManifest, TaskPhases
  <2>6. QED
    BY <1>8, <2>1, <2>2, <2>3, <2>4, <2>5
<1>9. CASE CreateSandbox(e, t)
  BY <1>1, <1>2, <1>9 DEF CreateSandbox
<1>10. CASE HookWins(e, t)
  <2>1. hook[e][t] = "ok" => RanToSuccess(t)
    BY <1>2
  <2>2. /\ task'[e][t].ok = (hook[e][t] = "ok")
        /\ task'[e][t].result = k.result
        /\ attempt'[t] = attempt[t]
    BY <1>1, <1>10 DEF HookWins, TaskState
  <2>3. QED
    BY <1>2, <2>2
<1>11. CASE MissingCallback(e, t)
  <2>1. PICK read \in BOOLEAN :
          EndsWith(e, t, read /\ sandbox[k.sandbox].pc = "exited" /\ sandbox[k.sandbox].ok)
    BY <1>11 DEF MissingCallback
  <2>2. k.sandbox \in Sandboxes /\ sandbox[k.sandbox].task = t
    BY <1>11 DEF MissingCallback, At, TasksSound
  <2>3. sandbox[k.sandbox].ok => RanToSuccess(t)
    BY <2>2 DEF RanToSuccess, SandboxesOf
  <2>4. QED
    <3>1. sandbox[k.sandbox].ok \in BOOLEAN
      BY <2>2 DEF TypeOK, SandboxState
    <3>2. (read /\ sandbox[k.sandbox].pc = "exited" /\ sandbox[k.sandbox].ok) \in BOOLEAN
      OBVIOUS
    <3>3. QED
      BY <1>2, <1>5, <1>11, <2>1, <2>3, <3>2 DEF MissingCallback
<1>12. CASE RecordEnd(e, t)
  BY <1>2, <1>4, <1>6, <1>12 DEF RecordEnd, Outcomes
<1>13. CASE StepFails(e, t)
  BY <1>2, <1>3, <1>6, <1>13 DEF StepFails, TaskPhases
<1>14. CASE LaunchFails(e, t)
  BY <1>2, <1>5, <1>14 DEF LaunchFails
<1>15. CASE LaunchRepeats(e, t)
  BY <1>1, <1>2, <1>15 DEF LaunchRepeats
<1>16. QED
  BY <1>7, <1>8, <1>9, <1>10, <1>11, <1>12, <1>13, <1>14, <1>15
  DEF TaskStep, TaskFault

\* The steps of a task change no other task and no other row.
LEMMA OthersStay ==
  ASSUME TypeOK, SandboxesSound, TasksSound,
         NEW e \in Executions, NEW t \in Tasks, TaskStep(e, t) \/ TaskFault(e, t)
  PROVE  /\ \A f \in Executions, u \in Tasks :
              f # e \/ u # t => task'[f][u] = task[f][u]
         /\ \A u \in Tasks \ {t} : attempt'[u] = attempt[u]
<1>1. \A f \in Executions, u \in Tasks : f # e \/ u # t => task'[f][u] = task[f][u]
  <2>1. \E x : Moves(e, t, x)
    BY TaskMoves
  <2>2. QED
    BY <2>1 DEF Moves
<1>2. \A u \in Tasks \ {t} : attempt'[u] = attempt[u]
  BY TaskFrame DEF Record, TypeOK
<1>3. QED
  BY <1>1, <1>2

LEMMA StepSuccess ==
  ASSUME IInv, [Next]_vars
  PROVE  SuccessIsEarned'
<1> USE DEF IInv
<1>1. \A t \in Tasks : RanToSuccess(t) => RanToSuccess(t)'
  BY RanStays
<1>2. ASSUME NEW e \in Executions, NEW t \in Tasks, TaskStep(e, t) \/ TaskFault(e, t)
      PROVE  SuccessIsEarned'
  <2>1. UNCHANGED <<exec, hook>>
    BY <1>2, TaskFrame
  <2>2. \A u \in Tasks : attempt'[u] = "succeeded" => RanToSuccess(u)
    BY <1>2, OthersStay, TaskSuccess DEF SuccessIsEarned
  <2>3. \A f \in Executions, u \in Tasks :
          task'[f][u].ok \/ task'[f][u].result = "succeeded" => RanToSuccess(u)
    BY <1>2, OthersStay, TaskSuccess DEF SuccessIsEarned
  <2>4. QED
    BY <1>1, <2>1, <2>2, <2>3 DEF SuccessIsEarned
<1>3. ASSUME NEW e \in Executions, Respawn(e) \/ ExecStep(e) \/ InitFails(e)
      PROVE  SuccessIsEarned'
  <2>1. UNCHANGED <<attempt, task>>
    BY <1>3, ExecMoves
  <2>2. \A f \in Executions, t \in Tasks :
          exec'[f].prior[t] = "succeeded" \/ hook'[f][t] = "ok" => RanToSuccess(t)
    <3>1. ASSUME NEW f \in Executions \ {e}, NEW t \in Tasks
          PROVE  exec'[f].prior[t] = "succeeded" \/ hook'[f][t] = "ok" => RanToSuccess(t)
      BY <1>3, ExecMoves DEF SuccessIsEarned
    <3>2. ASSUME NEW t \in Tasks
          PROVE  /\ exec'[e].prior[t] \in {exec[e].prior[t], PriorStatuses[t]}
                 /\ hook'[e][t] \in {hook[e][t], "open", "disposed"}
      BY <1>3, ExecMoves DEF Becomes
    <3>3. ASSUME NEW t \in Tasks
          PROVE  exec'[e].prior[t] = "succeeded" \/ hook'[e][t] = "ok" => RanToSuccess(t)
      BY <3>2, <3>3 DEF SuccessIsEarned, PriorStatuses
    <3>4. QED
      BY <3>1, <3>3
  <2>3. QED
    BY <1>1, <2>1, <2>2 DEF SuccessIsEarned
<1>4. ASSUME NEW s \in Sandboxes, SandboxStep(s) \/ SandboxLost(s)
      PROVE  SuccessIsEarned'
  <2>1. UNCHANGED <<attempt, exec, task>>
    BY <1>4, SandboxMoves
  <2>2. \A f \in Executions, t \in Tasks : hook'[f][t] = "ok" => RanToSuccess(t)
    <3>1. CASE hook' = hook
      BY <3>1 DEF SuccessIsEarned
    <3>2. CASE Callback(s)
      <4>1. sandbox[s] \in SandboxState /\ hook \in [Executions -> [Tasks -> HookState]]
        BY DEF TypeOK
      <4>2. sandbox[s].ok => RanToSuccess(sandbox[s].task)
        BY DEF RanToSuccess, SandboxesOf
      <4>3. \A f \in Executions, t \in Tasks :
              \/ hook'[f][t] = hook[f][t]
              \/ t = sandbox[s].task /\ hook'[f][t] = IF sandbox[s].ok THEN "ok" ELSE "failed"
        BY <3>2, <4>1 DEF Callback, SandboxState
      <4>4. QED
        BY <4>2, <4>3 DEF SuccessIsEarned
    <3>3. QED
      BY <1>4, <3>1, <3>2, SandboxMoves
  <2>3. QED
    BY <1>1, <2>1, <2>2 DEF SuccessIsEarned
<1>5. CASE YamlChanges \/ UNCHANGED vars
  BY <1>1, <1>5 DEF YamlChanges, vars, SuccessIsEarned
<1>6. QED
  BY <1>2, <1>3, <1>4, <1>5 DEF Next

\* The phases of a task: what it has gone through when it is in one.
LEMMA TaskPhase ==
  ASSUME TypeOK, SandboxesSound, TasksSound,
         NEW e \in Executions, NEW t \in Tasks, TaskStep(e, t) \/ TaskFault(e, t)
  PROVE  LET k == task[e][t]
             n == task'[e][t]
         IN  /\ Begun(e)
             /\ n.result = "none" <=> n.pc # "done"
             /\ n.pc \in {"race", "finalize", "missing"} =>
                  k.pc \in {"created", "race"} /\ n.sandbox = k.sandbox
             /\ n.pc = "created" => CreateSandbox(e, t)
             /\ n.pc = "create" => k.pc = "check" /\ yaml = Pinned
             /\ n.pc = "check" => k.pc = "created" \/ Begin(e, t)
<1> DEFINE k == task[e][t]
<1>1. /\ k \in TaskState /\ exec[e] \in ExecState /\ hook[e][t] \in HookState
      /\ task \in [Executions -> [Tasks -> TaskState]]
  BY DEF TypeOK
<1>2. k.result = "none" <=> k.pc # "done"
  BY DEF TasksSound
<1>3. Begun(e) /\ k.pc # "done"
  BY DEF TaskStep, Honour, Skip, Begin, UpstreamRejected, RecordWorkflowError,
      CheckManifest, CreateSandbox, Launched, HookWins, Finalize, WatchdogWins,
      MissingCallback, RecordEnd, TaskFault, StepFails, LaunchFails, LaunchRepeats,
      UpstreamDone, At, Begun
<1> DEFINE Over == \E r \in Outcomes : TaskIs(e, t, "done", k.sandbox, k.ok, r)
           Goes(pc) == TaskIs(e, t, pc, k.sandbox, k.ok, k.result)
           Ends == \E ok \in BOOLEAN : TaskIs(e, t, "end", k.sandbox, ok, k.result)
<1>4. ASSUME Honour(e, t) \/ Skip(e, t) \/ RecordEnd(e, t) PROVE Over
  <2>1. \E r \in Outcomes : IsOver(e, t, r)
    BY <1>1, <1>4 DEF Honour, Skip, RecordEnd, Earned, Outcomes
  <2>2. QED
    BY <2>1, IsOverFields
<1>5. ASSUME RecordWorkflowError(e, t) PROVE Over \/ Goes("rejected")
  BY <1>5, IsOverFields, GoesToFields DEF RecordWorkflowError, Outcomes, TaskPhases
<1>6. ASSUME Begin(e, t) PROVE Goes("check")
  BY <1>6, GoesToFields DEF Begin, TaskPhases
<1>7. ASSUME UpstreamRejected(e, t) \/ StepFails(e, t) PROVE Goes("error")
  BY <1>7, GoesToFields DEF UpstreamRejected, StepFails, TaskPhases
<1>8. ASSUME Launched(e, t) PROVE Goes("race") /\ k.pc = "created"
  BY <1>8, GoesToFields DEF Launched, TaskPhases, At
<1>9. ASSUME Finalize(e, t) PROVE Goes("end")
  BY <1>9, GoesToFields DEF Finalize, TaskPhases
<1>10. ASSUME WatchdogWins(e, t) PROVE Goes("missing") /\ k.pc = "race"
  BY <1>10, GoesToFields DEF WatchdogWins, TaskPhases, At
<1>11. ASSUME CheckManifest(e, t)
       PROVE  Ends \/ (Goes("create") /\ k.pc = "check" /\ yaml = Pinned)
  BY <1>11, GoesToFields, EndsWithFields DEF CheckManifest, TaskPhases, At
<1>12. ASSUME LaunchFails(e, t) PROVE Ends
  BY <1>12, EndsWithFields DEF LaunchFails
<1>13. ASSUME MissingCallback(e, t) PROVE Ends
  <2>1. sandbox[k.sandbox] \in SandboxState
    BY <1>13 DEF MissingCallback, At, TasksSound, TypeOK
  <2>2. \E ok \in BOOLEAN : EndsWith(e, t, ok)
    BY <1>13, <2>1 DEF MissingCallback, SandboxState
  <2>3. QED
    BY <2>2, EndsWithFields
<1>14. ASSUME HookWins(e, t)
       PROVE  /\ task'[e][t].pc = "finalize" /\ k.pc = "race"
              /\ task'[e][t].sandbox = k.sandbox /\ task'[e][t].result = k.result
  BY <1>1, <1>14 DEF HookWins, At, TaskState
<1>15. ASSUME CreateSandbox(e, t)
       PROVE  task'[e][t].pc = "created" /\ task'[e][t].result = k.result
  BY <1>1, <1>15 DEF CreateSandbox, TaskState
<1>16. ASSUME LaunchRepeats(e, t)
       PROVE  k.pc = "created" /\ task'[e][t].pc = "check" /\ task'[e][t].result = k.result
  BY <1>1, <1>16 DEF LaunchRepeats, At, TaskState
<1>17. CASE Over
  BY <1>3, <1>17 DEF TaskIs, Outcomes
<1>18. CASE Ends \/ Goes("error") \/ Goes("rejected") \/ Goes("end")
  BY <1>2, <1>3, <1>18 DEF TaskIs
<1>19. CASE Begin(e, t) \/ Launched(e, t) \/ WatchdogWins(e, t)
  BY <1>2, <1>3, <1>6, <1>8, <1>10, <1>19 DEF TaskIs
<1>20. CASE HookWins(e, t) \/ CreateSandbox(e, t) \/ LaunchRepeats(e, t)
  BY <1>2, <1>3, <1>14, <1>15, <1>16, <1>20
<1>21. CASE Goes("create") /\ k.pc = "check" /\ yaml = Pinned
  BY <1>2, <1>3, <1>21 DEF TaskIs
<1>22. QED
  BY <1>4, <1>5, <1>7, <1>9, <1>11, <1>12, <1>13, <1>17, <1>18, <1>19, <1>20, <1>21
  DEF TaskStep, TaskFault

LEMMA StepTasks ==
  ASSUME TypeOK, SandboxesSound, TasksSound, [Next]_vars
  PROVE  TasksSound'
<1>1. /\ Sandboxes \subseteq Sandboxes'
      /\ \A s \in Sandboxes : /\ sandbox'[s].exec = sandbox[s].exec
                              /\ sandbox'[s].task = sandbox[s].task
  BY SandboxFrame
<1>2. \A e \in Executions : Begun(e) => Begun(e)'
  BY BegunStays
<1>3. CASE UNCHANGED task
  BY <1>1, <1>2, <1>3 DEF TasksSound
<1>4. ASSUME NEW e \in Executions, NEW t \in Tasks, TaskStep(e, t) \/ TaskFault(e, t)
      PROVE  TasksSound'
  <2> DEFINE Sound(f, u) ==
               /\ ~Begun(f)' => task'[f][u].pc = "upstream"
               /\ task'[f][u].result = "none" <=> task'[f][u].pc # "done"
               /\ task'[f][u].pc \in {"created", "race", "finalize", "missing"} =>
                    /\ task'[f][u].sandbox \in Sandboxes'
                    /\ sandbox'[task'[f][u].sandbox].task = u
                    /\ sandbox'[task'[f][u].sandbox].exec = f
  <2>1. ASSUME NEW f \in Executions, NEW u \in Tasks, f # e \/ u # t
        PROVE  Sound(f, u)
    <3>1. task'[f][u] = task[f][u]
      BY <1>4, <2>1, OthersStay
    <3>2. QED
      BY <1>1, <1>2, <3>1 DEF TasksSound
  <2>2. Sound(e, t)
    <3>1. Begun(e)' /\ (task'[e][t].result = "none" <=> task'[e][t].pc # "done")
      BY <1>2, <1>4, TaskPhase
    <3>2. CASE task'[e][t].pc \in {"race", "finalize", "missing"}
      <4>1. task[e][t].pc \in {"created", "race"} /\ task'[e][t].sandbox = task[e][t].sandbox
        BY <1>4, <3>2, TaskPhase
      <4>2. QED
        BY <1>1, <3>1, <4>1 DEF TasksSound
    <3>3. CASE task'[e][t].pc = "created"
      <4>1. CreateSandbox(e, t)
        BY <1>4, <3>3, TaskPhase
      <4>2. task[e][t] \in TaskState
        BY DEF TypeOK
      <4>3. PICK s \in 1..MaxSandboxes :
              /\ Sandboxes' = Sandboxes \cup {s}
              /\ sandbox'[s] = [exec |-> e, task |-> t, pc |-> "running",
                                ok |-> FALSE, flying |-> FALSE]
              /\ Moves(e, t, [task[e][t] EXCEPT !.pc = "created", !.sandbox = s])
        BY <4>1, Creates
      <4>4. task'[e][t].sandbox = s
        BY <4>2, <4>3 DEF Moves, TaskState
      <4>5. QED
        BY <3>1, <4>3, <4>4
    <3>4. QED
      BY <3>1, <3>2, <3>3
  <2>3. \A f \in Executions, u \in Tasks : Sound(f, u)
    BY <2>1, <2>2
  <2>4. QED
    BY <2>3 DEF TasksSound, Begun
<1>5. QED
  BY <1>3, <1>4, ExecMoves, SandboxMoves DEF Next, YamlChanges, vars

\* A sandbox appears by being created.
LEMMA SandboxIsCreated ==
  ASSUME TypeOK, SandboxesSound, [Next]_vars, NEW s \in Sandboxes', s \notin Sandboxes
  PROVE  \E e \in Executions, t \in Tasks : CreateSandbox(e, t)
<1>1. CASE UNCHANGED sandbox
  BY <1>1 DEF Sandboxes
<1>2. ASSUME NEW i \in Sandboxes, SandboxStep(i) \/ SandboxLost(i)
      PROVE  FALSE
  BY <1>2, SandboxMoves
<1>3. ASSUME NEW e \in Executions, NEW t \in Tasks, Stop(e, t)
      PROVE  FALSE
  BY <1>3, Stops
<1>4. ASSUME NEW e \in Executions, NEW t \in Tasks, TaskStep(e, t) \/ TaskFault(e, t)
      PROVE  UNCHANGED sandbox \/ CreateSandbox(e, t) \/ Stop(e, t)
  BY <1>4, TaskFrame
<1>5. QED
  BY <1>1, <1>2, <1>3, <1>4, ExecMoves DEF Next, YamlChanges, vars

LEMMA CreatedIs ==
  ASSUME TypeOK, SandboxesSound, NEW s \in Sandboxes', s \notin Sandboxes,
         NEW e \in Executions, NEW t \in Tasks, CreateSandbox(e, t)
  PROVE  /\ sandbox'[s].exec = e /\ sandbox'[s].task = t
         /\ sandbox'[s].pc = "running" /\ task'[e][t].pc = "created" /\ task'[e][t].sandbox = s
<1>1. PICK i \in 1..MaxSandboxes :
        /\ Sandboxes' = Sandboxes \cup {i}
        /\ sandbox'[i] = [exec |-> e, task |-> t, pc |-> "running",
                          ok |-> FALSE, flying |-> FALSE]
        /\ Moves(e, t, [task[e][t] EXCEPT !.pc = "created", !.sandbox = i])
  BY Creates
<1>2. i = s
  BY <1>1
<1>3. task[e][t] \in TaskState
  BY DEF TypeOK
<1>4. task'[e][t].pc = "created" /\ task'[e][t].sandbox = i
  BY <1>1, <1>3 DEF Moves, TaskState
<1>5. QED
  BY <1>1, <1>2, <1>4

LEMMA UpstreamAreTasks ==
  ASSUME TypeOK, NEW e \in Executions, NEW t \in Tasks
  PROVE  Upstream(e, t) \subseteq Tasks
<1>1. exec[e].version \in Versions
  BY DEF TypeOK, ExecState
<1>2. DependsOn[exec[e].version] \in [Tasks -> SUBSET Tasks]
  BY <1>1, VersionsAssumption
<1>3. QED
  BY <1>2 DEF Upstream

\* A task begins when those upstream ran to success.
LEMMA BeginsInOrder ==
  ASSUME IInv, NEW e \in Executions, NEW t \in Tasks, Begin(e, t)
  PROVE  \A u \in Upstream(e, t) : RanToSuccess(u)
<1>2. Upstream(e, t) \subseteq Tasks
  BY UpstreamAreTasks DEF IInv
<1>3. ASSUME NEW u \in Upstream(e, t)
      PROVE  task[e][u].result = "succeeded"
  <2>1. task[e][u] \in TaskState
    BY <1>2 DEF IInv, TypeOK
  <2>2. task[e][u].result # "none" /\ task[e][u].result \notin {"failed", "skipped"}
    BY <1>2 DEF Begin, UpstreamDone, Broken, IInv, TasksSound
  <2>3. QED
    BY <2>1, <2>2 DEF TaskState, Outcomes
<1>4. QED
  BY <1>2, <1>3 DEF IInv, SuccessIsEarned

LEMMA StepLaunches ==
  ASSUME IInv, [Next]_vars
  PROVE  LaunchesInOrder'
<1> USE DEF IInv
<1>1. \A u \in Tasks : RanToSuccess(u) => RanToSuccess(u)'
  BY RanStays
<1>2. \A e \in Executions : Begun(e) => exec'[e].version = exec[e].version
  BY BegunStays
<1>3. \A e \in Executions, t \in Tasks : Upstream(e, t) \subseteq Tasks
  BY UpstreamAreTasks
<1>4. \A e \in Executions : Begun(e) =>
        \A t \in Tasks : DependsOn[exec'[e].version][t] = Upstream(e, t)
  BY <1>2 DEF Upstream
<1>5. ASSUME NEW e \in Executions, NEW t \in Tasks,
             task'[e][t].pc \in {"check", "create", "created"}
      PROVE  Begun(e) /\ \A u \in Upstream(e, t) : RanToSuccess(u)
  <2>1. CASE task'[e][t] = task[e][t]
    BY <1>5, <2>1 DEF TasksSound, LaunchesInOrder
  <2>2. CASE TaskStep(e, t) \/ TaskFault(e, t)
    <3>1. \/ Begin(e, t)
          \/ task[e][t].pc \in {"check", "create", "created"}
      BY <1>5, <2>2, TaskPhase DEF CreateSandbox, At
    <3>2. QED
      BY <2>2, <3>1, BeginsInOrder, TaskPhase DEF LaunchesInOrder
  <2>3. task'[e][t] = task[e][t] \/ TaskStep(e, t) \/ TaskFault(e, t)
    BY ExecMoves, SandboxMoves, OthersStay DEF Next, YamlChanges, vars
  <2>4. QED
    BY <2>1, <2>2, <2>3
<1>6. ASSUME NEW s \in Sandboxes'
      PROVE  /\ sandbox'[s].exec \in Executions /\ sandbox'[s].task \in Tasks
             /\ Begun(sandbox'[s].exec)
             /\ \A u \in Upstream(sandbox'[s].exec, sandbox'[s].task) : RanToSuccess(u)
  <2>1. CASE s \in Sandboxes
    <3>1. sandbox'[s].exec = sandbox[s].exec /\ sandbox'[s].task = sandbox[s].task
      BY <2>1, SandboxFrame
    <3>2. sandbox[s] \in SandboxState /\ Begun(sandbox[s].exec)
      BY <2>1 DEF TypeOK, SandboxesSound
    <3>3. QED
      BY <2>1, <3>1, <3>2 DEF LaunchesInOrder, SandboxState
  <2>2. CASE s \notin Sandboxes
    <3>1. PICK e \in Executions, t \in Tasks : CreateSandbox(e, t)
      BY <1>6, <2>2, SandboxIsCreated
    <3>2. sandbox'[s].exec = e /\ sandbox'[s].task = t
      BY <1>6, <2>2, <3>1, CreatedIs
    <3>3. task[e][t].pc = "create"
      BY <3>1 DEF CreateSandbox, At
    <3>4. Begun(e)
      BY <3>1 DEF CreateSandbox, At, Begun
    <3>5. QED
      BY <3>2, <3>3, <3>4 DEF LaunchesInOrder
  <2>3. QED
    BY <2>1, <2>2
<1>7. \A e \in Executions, t \in Tasks :
        task'[e][t].pc \in {"check", "create", "created"} =>
          \A u \in DependsOn[exec'[e].version][t] : RanToSuccess(u)'
  BY <1>1, <1>3, <1>4, <1>5
<1>8. \A s \in Sandboxes' :
        \A u \in DependsOn[exec'[sandbox'[s].exec].version][sandbox'[s].task] : RanToSuccess(u)'
  BY <1>1, <1>3, <1>4, <1>6
<1>9. QED
  BY <1>7, <1>8 DEF LaunchesInOrder, Upstream

LEMMA StepVersions ==
  ASSUME IInv, [Next]_vars
  PROVE  VersionsGrow'
<1> USE DEF IInv
<1>1. faults' = faults
  BY TaskFrame, ExecMoves, SandboxMoves DEF Next, YamlChanges, vars
<1> SUFFICES ASSUME "revert" \notin faults PROVE VersionsGrow'
  BY <1>1 DEF VersionsGrow
<1>2. /\ yaml \in Nat /\ yaml' \in Nat /\ Pinned \in Nat
      /\ \A e \in Executions : exec[e].version \in Nat /\ exec'[e].version \in Nat
  BY StepTypes, VersionsAssumption DEF TypeOK, ExecState
<1>3. yaml <= yaml'
  <2>1. CASE yaml' = yaml
    BY <1>2, <2>1
  <2>2. CASE YamlChanges
    BY <1>2, <2>2 DEF YamlChanges
  <2>3. QED
    BY <2>1, <2>2, TaskFrame, ExecMoves, SandboxMoves DEF Next, vars
<1>4. Pinned <= yaml
  BY <1>2, RunnerBoundsAssumption DEF VersionsGrow
<1>5. \A e \in Executions : exec'[e].version \in {exec[e].version, yaml}
  <2>1. CASE UNCHANGED exec
    BY <2>1
  <2>2. ASSUME NEW f \in Executions, Respawn(f) \/ ExecStep(f) \/ InitFails(f)
        PROVE  \A e \in Executions : exec'[e].version \in {exec[e].version, yaml}
    BY <2>2, ExecMoves DEF Becomes
  <2>3. QED
    BY <2>1, <2>2, TaskFrame, SandboxMoves DEF Next, YamlChanges, vars
<1>6. \A e \in Executions : Pinned <= exec'[e].version /\ exec'[e].version <= yaml'
  BY <1>2, <1>3, <1>4, <1>5 DEF VersionsGrow
<1>7. \A e \in Executions : Begun(e) => exec'[e].version = exec[e].version
  BY BegunStays
<1>8. ASSUME NEW e \in Executions, NEW t \in Tasks, task'[e][t].pc = "create"
      PROVE  exec'[e].version = Pinned
  <2>1. CASE task'[e][t] = task[e][t]
    <3>1. Begun(e) /\ exec[e].version = Pinned
      BY <1>8, <2>1 DEF TasksSound, VersionsGrow
    <3>2. QED
      BY <1>7, <3>1
  <2>2. CASE TaskStep(e, t) \/ TaskFault(e, t)
    <3>1. Begun(e) /\ yaml = Pinned
      BY <1>8, <2>2, TaskPhase
    <3>2. exec[e].version = Pinned
      BY <1>2, <3>1 DEF VersionsGrow
    <3>3. QED
      BY <1>7, <3>1, <3>2
  <2>3. task'[e][t] = task[e][t] \/ TaskStep(e, t) \/ TaskFault(e, t)
    BY ExecMoves, SandboxMoves, OthersStay DEF Next, YamlChanges, vars
  <2>4. QED
    BY <2>1, <2>2, <2>3
<1>9. ASSUME NEW s \in Sandboxes'
      PROVE  exec'[sandbox'[s].exec].version = Pinned
  <2>1. CASE s \in Sandboxes
    <3>1. sandbox'[s].exec = sandbox[s].exec
      BY <2>1, SandboxFrame
    <3>2. /\ sandbox[s].exec \in Executions /\ Begun(sandbox[s].exec)
          /\ exec[sandbox[s].exec].version = Pinned
      BY <2>1 DEF TypeOK, SandboxState, SandboxesSound, VersionsGrow
    <3>3. QED
      BY <1>7, <3>1, <3>2
  <2>2. CASE s \notin Sandboxes
    <3>1. PICK e \in Executions, t \in Tasks : CreateSandbox(e, t)
      BY <1>9, <2>2, SandboxIsCreated
    <3>2. sandbox'[s].exec = e
      BY <1>9, <2>2, <3>1, CreatedIs
    <3>3. Begun(e) /\ exec[e].version = Pinned
      BY <3>1 DEF CreateSandbox, At, Begun, VersionsGrow
    <3>4. QED
      BY <1>7, <3>2, <3>3
  <2>3. QED
    BY <2>1, <2>2
<1>10. QED
  BY <1>6, <1>8, <1>9 DEF VersionsGrow

LEMMA InitInv == Init => IInv
<1> SUFFICES ASSUME Init PROVE IInv
  OBVIOUS
<1>1. TypeOK /\ Sandboxes = {}
  BY InitTypes DEF Init, Sandboxes
<1>2. /\ \A e \in Executions :
           /\ exec[e].pc \in {"none", "context"} /\ exec[e].version = Pinned
           /\ \A t \in Tasks : exec[e].prior[t] = "none"
      /\ \A e \in Executions, t \in Tasks :
           /\ task[e][t] = [pc |-> "upstream", sandbox |-> 0, ok |-> FALSE, result |-> "none"]
           /\ hook[e][t] = "none"
      /\ \A t \in Tasks : attempt[t] = "none"
      /\ yaml = Pinned
  BY DEF Init
<1>3. VerdictsGiven /\ LaunchesInOrder /\ TasksSound /\ SuccessIsEarned
  BY <1>1, <1>2 DEF VerdictsGiven, LaunchesInOrder, TasksSound, SuccessIsEarned
<1>4. SandboxesSound
  <2>1. Sandboxes = 1..0 /\ 0 \in 0..MaxSandboxes
    BY <1>1, RunnerBoundsAssumption
  <2>2. QED
    BY <1>1, <2>1 DEF SandboxesSound
<1>5. VersionsGrow
  <2>1. Pinned <= Pinned
    BY VersionsAssumption
  <2>2. \A e \in Executions, t \in Tasks : task[e][t].pc = "upstream"
    BY <1>2
  <2>3. QED
    BY <1>1, <1>2, <2>1, <2>2 DEF VersionsGrow
<1>6. QED
  BY <1>1, <1>3, <1>4, <1>5 DEF IInv

LEMMA NextInv == IInv /\ [Next]_vars => IInv'
<1> SUFFICES ASSUME IInv, [Next]_vars PROVE IInv'
  OBVIOUS
<1>1. TypeOK' /\ VerdictsGiven' /\ SandboxesSound' /\ TasksSound'
  BY StepTypes, StepVerdicts, StepSandboxes, StepTasks DEF IInv
<1>2. SuccessIsEarned' /\ LaunchesInOrder' /\ VersionsGrow'
  BY StepSuccess, StepLaunches, StepVersions
<1>3. QED
  BY <1>1, <1>2 DEF IInv

\* The tasks of a run are launched in the order of their dependencies, from the
\* version of the YAML the run is pinned to, and none is recorded as succeeded
\* whose function did not (dagRunner and runOneTask).
THEOREM TasksRunInOrder == Spec => []RunnerInv
<1>1. IInv => RunnerInv
  <2>1. ASSUME IInv PROVE TasksInOrder
    <3>1. ASSUME "revert" \notin faults
          PROVE  \A s \in Sandboxes : exec[sandbox[s].exec].version = Pinned
      BY <2>1, <3>1 DEF IInv, VersionsGrow
    <3>2. QED
      BY <2>1, <3>1 DEF IInv, SuccessIsEarned, LaunchesInOrder, TasksInOrder
  <2>2. QED
    BY <2>1 DEF RunnerInv, IInv
<1>2. QED
  BY <1>1, InitInv, NextInv, PTL DEF Spec

-----------------------------------------------------------------------------
(***************************************************************************)
(* The verdict.                                                            *)
(***************************************************************************)

\* What a step of a task does to its row, when the steps do not fail.
LEMMA SteadyTask ==
  ASSUME IInv, Steady, RowsFollowTasks,
         NEW t \in Tasks, TaskStep(1, t) \/ TaskFault(1, t)
  PROVE  /\ task'[1][t].pc \notin {"error", "rejected", "upstream"}
         /\ task'[1][t].pc = "done" => attempt'[t] = task'[1][t].result
         /\ task'[1][t].result = "skipped" => \E u \in Tasks : task[1][u].result = "failed"
<1> DEFINE k == task[1][t]
<1>1. /\ k \in TaskState /\ exec[1] \in ExecState /\ 1 \in Executions
      /\ hook[1][t] \in HookState /\ attempt \in [Tasks -> {"none", "running"} \cup Outcomes]
      /\ task \in [Executions -> [Tasks -> TaskState]]
  BY RunnerBoundsAssumption DEF IInv, TypeOK
<1>2. "db" \notin faults
  BY DEF Steady
<1>3. \A u \in Tasks :
        /\ task[1][u].pc \notin {"error", "rejected"}
        /\ exec[1].prior[u] = "none"
        /\ task[1][u].result = "skipped" => \E v \in Tasks : task[1][v].result = "failed"
  BY DEF RowsFollowTasks, RowFollowsTask
<1>4. k.result = "none" <=> k.pc # "done"
  BY <1>1 DEF IInv, TasksSound
<1>5. Upstream(1, t) \subseteq Tasks
  BY <1>1, UpstreamAreTasks DEF IInv
<1>6. ~Honour(1, t) /\ ~UpstreamRejected(1, t) /\ ~RecordWorkflowError(1, t) /\ ~StepFails(1, t)
  <2>1. ~Honour(1, t)
    BY <1>3 DEF Honour, Earned
  <2>2. ~UpstreamRejected(1, t)
    BY <1>3, <1>5 DEF UpstreamRejected
  <2>3. ~RecordWorkflowError(1, t)
    BY <1>3 DEF RecordWorkflowError, At
  <2>4. ~StepFails(1, t)
    BY <1>2 DEF StepFails
  <2>5. QED
    BY <2>1, <2>2, <2>3, <2>4
<1>7. k.pc # "done"
  BY <1>1, TaskMoves DEF IInv
<1>8. \A status : Record(t, status) => attempt'[t] = status
  BY <1>1 DEF Record
<1>9. CASE Skip(1, t)
  <2>1. TaskIs(1, t, "done", k.sandbox, k.ok, "skipped") /\ attempt'[t] = "skipped"
    BY <1>1, <1>8, <1>9, IsOverFields DEF Skip, Outcomes, IInv
  <2>2. \E u \in Tasks : task[1][u].result = "failed"
    <3>1. PICK u \in Upstream(1, t) : task[1][u].result \in {"failed", "skipped"}
      BY <1>9 DEF Skip, Broken
    <3>2. u \in Tasks
      BY <1>5, <3>1
    <3>3. QED
      BY <1>3, <3>1, <3>2
  <2>3. QED
    BY <2>1, <2>2 DEF TaskIs
<1>10. CASE RecordEnd(1, t)
  <2>1. PICK r \in {"succeeded", "failed"} : Record(t, r) /\ IsOver(1, t, r)
    BY <1>10 DEF RecordEnd
  <2>2. TaskIs(1, t, "done", k.sandbox, k.ok, r) /\ attempt'[t] = r
    BY <1>1, <1>8, <2>1, IsOverFields DEF Outcomes, IInv
  <2>3. QED
    BY <2>1, <2>2 DEF TaskIs
<1> DEFINE Quiet == /\ task'[1][t].pc \notin {"error", "rejected", "upstream", "done"}
                    /\ task'[1][t].result = k.result
<1>11. ASSUME \/ Begin(1, t) \/ CheckManifest(1, t) \/ Launched(1, t)
              \/ Finalize(1, t) \/ WatchdogWins(1, t)
       PROVE  Quiet
  <2>1. \/ \E pc \in {"check", "create", "race", "end", "missing"} : GoesTo(1, t, pc)
        \/ EndsWith(1, t, FALSE)
    BY <1>11 DEF Begin, CheckManifest, Launched, Finalize, WatchdogWins
  <2>2. ASSUME NEW pc \in {"check", "create", "race", "end", "missing"}, GoesTo(1, t, pc)
        PROVE  Quiet
    <3>1. TaskIs(1, t, pc, k.sandbox, k.ok, k.result)
      BY <1>1, <2>2, GoesToFields DEF TaskPhases, IInv
    <3>2. QED
      BY <3>1 DEF TaskIs
  <2>3. ASSUME EndsWith(1, t, FALSE) PROVE Quiet
    <3>1. TaskIs(1, t, "end", k.sandbox, FALSE, k.result)
      BY <1>1, <2>3, EndsWithFields DEF IInv
    <3>2. QED
      BY <3>1 DEF TaskIs
  <2>4. QED
    BY <2>1, <2>2, <2>3
<1>12. ASSUME LaunchFails(1, t) \/ MissingCallback(1, t) PROVE Quiet
  <2>1. CASE LaunchFails(1, t)
    BY <1>1, <2>1, EndsWithFields DEF LaunchFails, TaskIs, IInv
  <2>2. CASE MissingCallback(1, t)
    <3>1. sandbox[k.sandbox] \in SandboxState
      BY <1>1, <2>2 DEF MissingCallback, At, IInv, TasksSound, TypeOK
    <3>2. \E ok \in BOOLEAN : EndsWith(1, t, ok)
      BY <2>2, <3>1 DEF MissingCallback, SandboxState
    <3>3. QED
      BY <1>1, <3>2, EndsWithFields DEF TaskIs, IInv
  <2>3. QED
    BY <1>12, <2>1, <2>2
<1>13. ASSUME HookWins(1, t) PROVE Quiet
  BY <1>1, <1>13 DEF HookWins, TaskState
<1>14. ASSUME CreateSandbox(1, t) PROVE Quiet
  BY <1>1, <1>14 DEF CreateSandbox, TaskState
<1>15. ASSUME LaunchRepeats(1, t) PROVE Quiet
  BY <1>1, <1>15 DEF LaunchRepeats, TaskState
<1>16. CASE Quiet
  BY <1>4, <1>7, <1>16
<1> HIDE DEF Quiet
<1>17. QED
  BY <1>6, <1>9, <1>10, <1>11, <1>12, <1>13, <1>14, <1>15, <1>16 DEF TaskStep, TaskFault

LEMMA StepRows ==
  ASSUME IInv, RowsFollowTasks, [Next]_vars
  PROVE  RowsFollowTasks'
<1> USE DEF IInv
<1>1. faults' = faults
  BY TaskFrame, ExecMoves, SandboxMoves DEF Next, YamlChanges, vars
<1> SUFFICES ASSUME Steady PROVE RowsFollowTasks'
  BY <1>1 DEF RowsFollowTasks, Steady
<1>2. /\ \A e \in Executions \ {1} : exec[e].pc = "none"
      /\ \A t \in Tasks : exec[1].prior[t] = "none" /\ RowFollowsTask(t)
      /\ exec[1].pc \in {"verdict", "returned"} =>
           (\A t \in Tasks : task[1][t].pc = "done") /\ exec[1].verdict = Overall(1)
      /\ row \in Terminal => exec[1].pc = "returned" /\ row = exec[1].verdict
  BY DEF RowsFollowTasks
<1>3. "db" \notin faults /\ "respawn" \notin faults /\ 1 \in Executions
  BY RunnerBoundsAssumption DEF Steady
<1>4. CASE UNCHANGED <<row, attempt, exec, task>>
  BY <1>1, <1>2, <1>4 DEF RowsFollowTasks, RowFollowsTask, Overall
<1>5. ASSUME NEW e \in Executions, NEW t \in Tasks, TaskStep(e, t) \/ TaskFault(e, t)
      PROVE  RowsFollowTasks'
  <2>1. e = 1
    BY <1>2, <1>5, TaskPhase DEF Begun
  <2>2. UNCHANGED <<row, exec>>
    BY <1>5, TaskFrame
  <2>3. task[1][t].pc # "done" /\ task[1][t].result = "none"
    <3>1. task[e][t].pc # "done"
      BY <1>5, TaskMoves
    <3>2. task[e][t].result = "none"
      BY <3>1 DEF TasksSound
    <3>3. QED
      BY <2>1, <3>1, <3>2
  <2>4. \A u \in Tasks : task[1][u].result = "failed" => task'[1][u].result = "failed"
    BY <1>3, <1>5, <2>1, <2>3, OthersStay
  <2>5. ASSUME NEW u \in Tasks
        PROVE  /\ task'[1][u].pc \notin {"error", "rejected"}
               /\ task'[1][u].pc = "upstream" => attempt'[u] = "none"
               /\ task'[1][u].pc = "done" => attempt'[u] = task'[1][u].result
               /\ task'[1][u].result = "skipped" =>
                    \E v \in Tasks : task'[1][v].result = "failed"
    <3>1. CASE u = t
      BY <1>5, <2>1, <2>4, <3>1, SteadyTask
    <3>2. CASE u # t
      <4>1. task'[1][u] = task[1][u] /\ attempt'[u] = attempt[u]
        BY <1>3, <1>5, <2>1, <3>2, OthersStay
      <4>2. QED
        BY <1>2, <2>4, <4>1 DEF RowFollowsTask
    <3>3. QED
      BY <3>1, <3>2
  <2>6. exec[1].pc \notin {"verdict", "returned"}
    BY <1>2, <2>3
  <2>7. QED
    BY <1>1, <1>2, <2>2, <2>5, <2>6 DEF RowsFollowTasks, RowFollowsTask
<1>6. ASSUME NEW e \in Executions, Respawn(e) \/ ExecStep(e) \/ InitFails(e)
      PROVE  RowsFollowTasks'
  <2>1. e = 1
    BY <1>2, <1>3, <1>6, ExecMoves
  <2>2. /\ UNCHANGED <<attempt, task>>
        /\ \A f \in Executions \ {1} : exec'[f] = exec[f]
    BY <1>6, <2>1, ExecMoves
  <2>3. Overall(1)' = Overall(1) /\ \A t \in Tasks : RowFollowsTask(t)'
    BY <1>2, <2>2 DEF Overall, RowFollowsTask
  <2>4. \A t \in Tasks : task[1][t].pc # "rejected"
    BY <1>2 DEF RowFollowsTask
  <2>5. \/ /\ exec[1].pc = "context" /\ row' = row
           /\ Becomes(1, "prior", yaml, exec[1].prior, exec[1].verdict)
        \/ /\ exec[1].pc = "prior" /\ row' = row
           /\ Becomes(1, "tasks", exec[1].version, PriorStatuses, exec[1].verdict)
        \/ /\ exec[1].pc = "tasks" /\ row' = row
           /\ \A t \in Tasks : task[1][t].pc = "done"
           /\ Becomes(1, "verdict", exec[1].version, exec[1].prior, Overall(1))
        \/ /\ exec[1].pc = "verdict"
           /\ row' = IF row \in Terminal THEN row ELSE exec[1].verdict
           /\ Becomes(1, "returned", exec[1].version, exec[1].prior, exec[1].verdict)
    BY <1>3, <1>6, <2>1, <2>4, ExecMoves
  <2>6. \A t \in Tasks : exec'[1].prior[t] = "none"
    <3>1. exec[1].pc = "prior" => \A t \in Tasks : PriorStatuses[t] = "none"
      BY <1>2, <1>3 DEF TasksSound, Begun, RowFollowsTask, PriorStatuses, Outcomes
    <3>2. QED
      BY <1>2, <2>5, <3>1 DEF Becomes
  <2>7. /\ exec'[1].pc \in {"verdict", "returned"} =>
             (\A t \in Tasks : task[1][t].pc = "done") /\ exec'[1].verdict = Overall(1)
        /\ row' \in Terminal => exec'[1].pc = "returned" /\ row' = exec'[1].verdict
    BY <1>2, <2>5 DEF Becomes
  <2>8. QED
    BY <1>1, <1>2, <2>2, <2>3, <2>6, <2>7 DEF RowsFollowTasks
<1>7. QED
  BY <1>4, <1>5, <1>6, SandboxMoves DEF Next, YamlChanges, vars

\* A task whose sandbox runs waits for it, unless it stops it.
LEMMA KnownTask ==
  ASSUME IInv, faults \cap {"step", "db", "stop", "respawn"} = {},
         NEW e \in Executions, NEW t \in Tasks, TaskStep(e, t) \/ TaskFault(e, t),
         NEW s \in Sandboxes, task[e][t].sandbox = s,
         task[e][t].pc \in {"created", "race", "finalize"},
         sandbox[s].pc = "running", sandbox'[s].pc = "running"
  PROVE  task'[e][t].sandbox = s /\ task'[e][t].pc \in {"created", "race", "finalize"}
<1> DEFINE k == task[e][t]
<1>1. /\ k \in TaskState /\ task \in [Executions -> [Tasks -> TaskState]]
      /\ "step" \notin faults /\ "db" \notin faults /\ "stop" \notin faults
  BY DEF IInv, TypeOK
<1>2. ~Stop(e, t)
  BY <1>1, Stops DEF IInv
<1>3. /\ ~LaunchRepeats(e, t) /\ ~StepFails(e, t) /\ ~WatchdogWins(e, t)
      /\ ~Finalize(e, t)
  BY <1>1, <1>2 DEF LaunchRepeats, StepFails, WatchdogWins, Finalize
<1>4. ~LaunchFails(e, t)
  BY <1>2 DEF LaunchFails, At
<1>5. /\ ~Honour(e, t) /\ ~Skip(e, t) /\ ~Begin(e, t) /\ ~UpstreamRejected(e, t)
      /\ ~RecordWorkflowError(e, t) /\ ~CheckManifest(e, t) /\ ~CreateSandbox(e, t)
      /\ ~MissingCallback(e, t) /\ ~RecordEnd(e, t)
  BY DEF Honour, Skip, Begin, UpstreamRejected, RecordWorkflowError, CheckManifest,
      CreateSandbox, MissingCallback, RecordEnd, UpstreamDone, At
<1>6. CASE Launched(e, t)
  <2>1. TaskIs(e, t, "race", k.sandbox, k.ok, k.result)
    BY <1>6, GoesToFields DEF Launched, TaskPhases, IInv
  <2>2. QED
    BY <2>1 DEF TaskIs
<1>7. CASE HookWins(e, t)
  BY <1>1, <1>7 DEF HookWins, TaskState
<1>8. QED
  BY <1>3, <1>4, <1>5, <1>6, <1>7 DEF TaskStep, TaskFault

LEMMA StepRunning ==
  ASSUME IInv, RunningIsKnown, [Next]_vars
  PROVE  RunningIsKnown'
<1> DEFINE Known(s, e, t) == task[e][t].sandbox = s /\ task[e][t].pc \in {"created", "race", "finalize"}
           KnownNext(s, e, t) ==
             task'[e][t].sandbox = s /\ task'[e][t].pc \in {"created", "race", "finalize"}
<1>1. faults' = faults
  BY TaskFrame, ExecMoves, SandboxMoves DEF Next, YamlChanges, vars, IInv
<1> SUFFICES ASSUME faults \cap {"step", "db", "stop", "respawn"} = {},
                    NEW s \in Sandboxes', sandbox'[s].pc = "running"
             PROVE  KnownNext(s, sandbox'[s].exec, sandbox'[s].task)
  BY <1>1 DEF RunningIsKnown
<1>2. CASE s \notin Sandboxes
  <2>1. PICK e \in Executions, t \in Tasks : CreateSandbox(e, t)
    BY <1>2, SandboxIsCreated DEF IInv
  <2>2. QED
    BY <1>2, <2>1, CreatedIs DEF IInv
<1>3. CASE s \in Sandboxes
  <2> DEFINE e == sandbox[s].exec
             t == sandbox[s].task
  <2>1. sandbox'[s].exec = e /\ sandbox'[s].task = t /\ sandbox[s].pc = "running"
    BY <1>3, SandboxFrame DEF IInv
  <2>2. Known(s, e, t)
    BY <1>3, <2>1 DEF RunningIsKnown
  <2>3. e \in Executions /\ t \in Tasks
    BY <1>3 DEF IInv, TypeOK, SandboxState
  <2> HIDE DEF e, t
  <2>4. CASE task'[e][t] = task[e][t]
    BY <2>1, <2>2, <2>4
  <2>5. CASE TaskStep(e, t) \/ TaskFault(e, t)
    BY <1>3, <2>1, <2>2, <2>3, <2>5, KnownTask
  <2>6. task'[e][t] = task[e][t] \/ TaskStep(e, t) \/ TaskFault(e, t)
    BY <2>3, ExecMoves, SandboxMoves, OthersStay DEF Next, YamlChanges, vars, IInv
  <2>7. QED
    BY <2>4, <2>5, <2>6
<1>4. QED
  BY <1>2, <1>3

LEMMA InitVerdict == Init => RowsFollowTasks /\ RunningIsKnown
<1> SUFFICES ASSUME Init PROVE RowsFollowTasks /\ RunningIsKnown
  OBVIOUS
<1>1. Sandboxes = {}
  BY DEF Init, Sandboxes
<1>2. /\ \A e \in Executions : exec[e].pc = IF e = 1 THEN "context" ELSE "none"
      /\ exec[1].pc = "context" /\ \A t \in Tasks : exec[1].prior[t] = "none"
      /\ \A t \in Tasks :
           task[1][t] = [pc |-> "upstream", sandbox |-> 0, ok |-> FALSE, result |-> "none"]
      /\ \A t \in Tasks : attempt[t] = "none"
      /\ row = "running"
  BY RunnerBoundsAssumption DEF Init
<1>3. \A t \in Tasks : RowFollowsTask(t)
  BY <1>2 DEF RowFollowsTask
<1>4. QED
  BY <1>1, <1>2, <1>3 DEF RowsFollowTasks, RunningIsKnown, Terminal

LEMMA VerdictFollows == VerdictInv => VerdictMatchesTasks
<1> SUFFICES ASSUME VerdictInv PROVE VerdictMatchesTasks
  OBVIOUS
<1> USE DEF VerdictInv
<1>1. ASSUME Steady, row \in Terminal
      PROVE  /\ \A t \in Tasks : /\ task[1][t].pc = "done"
                                 /\ attempt[t] = task[1][t].result
                                 /\ task[1][t].result \in Outcomes
             /\ row = Overall(1)
  <2>1. /\ exec[1].pc = "returned" /\ row = exec[1].verdict
        /\ \A t \in Tasks : task[1][t].pc = "done" /\ RowFollowsTask(t)
        /\ exec[1].verdict = Overall(1)
    BY <1>1 DEF RowsFollowTasks
  <2>2. \A t \in Tasks : task[1][t] \in TaskState /\ task[1][t].result # "none"
    BY <2>1, RunnerBoundsAssumption DEF IInv, TypeOK, TasksSound
  <2>3. QED
    BY <2>1, <2>2 DEF RowFollowsTask, TaskState
<1>2. ASSUME Steady, row = "succeeded", NEW t \in Tasks
      PROVE  attempt[t] = "succeeded"
  <2>1. row \in Terminal
    BY <1>2 DEF Terminal
  <2>2. \A u \in Tasks : task[1][u].result # "failed"
    BY <1>1, <1>2, <2>1 DEF Overall
  <2>3. task[1][t].result # "skipped"
    BY <1>2, <2>2 DEF RowsFollowTasks, RowFollowsTask
  <2>4. QED
    BY <1>1, <1>2, <2>1, <2>2, <2>3 DEF Outcomes
<1>3. ASSUME Steady, row = "failed"
      PROVE  (\E t \in Tasks : attempt[t] = "failed") /\ \A t \in Tasks : attempt[t] \in Outcomes
  <2>1. row \in Terminal
    BY <1>3 DEF Terminal
  <2>2. \E t \in Tasks : task[1][t].result = "failed"
    BY <1>1, <1>3, <2>1 DEF Overall
  <2>3. QED
    BY <1>1, <1>3, <2>1, <2>2
<1>4. ASSUME row \in Terminal, faults \cap {"step", "db", "stop", "respawn"} = {},
             NEW s \in Sandboxes, sandbox[s].pc = "running"
      PROVE  FALSE
  <2>1. Steady
    BY <1>4 DEF Steady
  <2>2. sandbox[s].exec \in Executions /\ sandbox[s].task \in Tasks /\ Begun(sandbox[s].exec)
    BY <1>4 DEF IInv, TypeOK, SandboxState, SandboxesSound
  <2>3. sandbox[s].exec = 1
    BY <2>1, <2>2 DEF RowsFollowTasks, Begun
  <2>4. task[1][sandbox[s].task].pc \in {"created", "race", "finalize"}
    BY <1>4, <2>3 DEF RunningIsKnown
  <2>5. QED
    BY <1>1, <1>4, <2>1, <2>2, <2>4
<1>5. QED
  BY <1>2, <1>3, <1>4 DEF VerdictMatchesTasks, Steady

\* The row of a run that is over says what became of its tasks, and nothing of
\* it computes on, as far as steps, database and stops do not fail
\* (markRunTerminal, finalizeTaskSandbox).
THEOREM VerdictIsTrue == Spec => []VerdictMatchesTasks
<1>1. Init => VerdictInv
  BY InitInv, InitVerdict DEF VerdictInv
<1>2. VerdictInv /\ [Next]_vars => VerdictInv'
  BY NextInv, StepRows, StepRunning DEF VerdictInv
<1>3. QED
  BY <1>1, <1>2, VerdictFollows, PTL DEF Spec
=============================================================================
