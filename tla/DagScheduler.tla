---------------------------- MODULE DagScheduler ----------------------------
(***************************************************************************)
(* The scheduler of one enabled DAG: cron ticks that enqueue a run for     *)
(* each boundary of the schedule, claim queued runs and start a workflow   *)
(* for each, and mirror the failure of workflows that died.                *)
(*                                                                         *)
(* A tick is a request of its own: it may overlap the next ones, and       *)
(* between two of its database statements every other tick and every       *)
(* workflow may take a step.  A workflow is abstracted to what it does to  *)
(* the rows the scheduler reads, with all its tasks as one.                *)
(***************************************************************************)
EXTENDS Naturals, FiniteSets

CONSTANTS
  Ticks,         \* the requests that may run at the same time
  Dags,          \* the DAGs to schedule, one in a behaviour
  EnqueueCap,    \* ENQUEUE_BOUNDARY_CAP
  MaxTime,       \* bound: the boundaries of a behaviour
  MaxWorkflows,  \* bound: the workflows of a behaviour
  FaultSets      \* sets of faults, one of which may happen in a behaviour

FaultKinds == {"workflow", "late", "start", "store", "tick", "api"}

ASSUME TicksAssumption == IsFiniteSet(Ticks)
ASSUME DagsAssumption ==
  Dags \subseteq [catchup : BOOLEAN, maxActiveRuns : Nat \ {0}]
ASSUME SchedulerBoundsAssumption ==
  EnqueueCap \in Nat \ {0} /\ MaxTime \in Nat \ {0} /\ MaxWorkflows \in Nat
ASSUME FaultSetsAssumption == FaultSets \subseteq SUBSET FaultKinds

VARIABLES
  dag,       \* what the DAG's row says of it
  faults,    \* which faults may happen
  now,       \* the boundaries 1..now of the schedule are past
  bookmark,  \* last_enqueued_logical_datetime, and 0 for null
  run,       \* dag_run: a partial function boundary -> row
  wf,        \* the workflows, in the order they were started
  tick       \* the ticks

given == <<dag, faults>>
vars == <<given, now, bookmark, run, wf, tick>>

Boundaries == 1..MaxTime
Runs == DOMAIN run
Workflows == DOMAIN wf
RunsWith(statuses) == {k \in Runs : run[k].status \in statuses}
RunsIn(status) == RunsWith({status})

Terminal == {"succeeded", "failed", "cancelled"}
Statuses == {"queued", "running"} \cup Terminal

-----------------------------------------------------------------------------
\* wf is workflow_run_id (0: null).  old says that updated_at is more than a
\* minute ago, and task is the status of the run's task_attempt ("none": no row).
RunRow == [status : Statuses, wf : 0..MaxWorkflows, old : BOOLEAN,
           task : {"none", "running", "succeeded", "failed"}]

NewRow == [status |-> "queued", wf |-> 0, old |-> FALSE, task |-> "none"]

\* verdict is what the workflow's last step writes.
WfPhases == {"started", "task", "verdict", "marked", "completed", "failed",
             "cancelled"}
WfState == [run : Boundaries, pc : WfPhases,
            verdict : {"none", "succeeded", "failed"}]

TickPhases == {"idle", "select", "reconcile", "mirror", "mirrorTask",
               "enqueue", "bookmark", "count", "pick", "claim", "start",
               "store", "rollback"}

\* The locals of a tick: the bookmark of the row it selected, the candidates
\* (a run and its workflow) not looked at yet, the one at hand and the status
\* of its workflow, the last boundary enqueued, the slots, the runs selected
\* and not claimed yet, the run at hand and its workflow.
TickState ==
  [pc : TickPhases, bookmark : 0..MaxTime,
   todo : SUBSET (Boundaries \X (1..MaxWorkflows)),
   status : {"none", "failed", "cancelled"}, latest : 0..MaxTime,
   slots : Nat, queue : SUBSET Boundaries,
   at : 0..MaxTime, child : 0..MaxWorkflows]

IdleTick == [pc |-> "idle", bookmark |-> 0, todo |-> {}, status |-> "none",
             latest |-> 0, slots |-> 0, queue |-> {}, at |-> 0, child |-> 0]

TypeOK ==
  /\ dag \in Dags
  /\ faults \in FaultSets
  /\ now \in Boundaries
  /\ bookmark \in 0..MaxTime
  /\ Runs \subseteq Boundaries
  /\ run \in [Runs -> RunRow]
  /\ Workflows \subseteq 1..MaxWorkflows
  /\ wf \in [Workflows -> WfState]
  /\ tick \in [Ticks -> TickState]

Init ==
  /\ dag \in Dags
  /\ faults \in FaultSets
  /\ now = 1
  /\ bookmark = 0
  /\ run = << >>
  /\ wf = << >>
  /\ tick = [t \in Ticks |-> IdleTick]

-----------------------------------------------------------------------------
(***************************************************************************)
(* Time.                                                                   *)
(***************************************************************************)

\* A boundary of the schedule passes.
BoundaryPasses ==
  /\ now < MaxTime
  /\ now' = now + 1
  /\ UNCHANGED <<given, bookmark, run, wf, tick>>

\* A minute passes since a row was last updated.  Only rows that run with a
\* workflow are asked for their age.
GetsOld(k) ==
  /\ k \in Runs
  /\ run[k].status = "running" /\ run[k].wf # 0
  /\ ~run[k].old
  /\ run' = [run EXCEPT ![k].old = TRUE]
  /\ UNCHANGED <<given, now, bookmark, wf, tick>>

-----------------------------------------------------------------------------
(***************************************************************************)
(* runSchedulerTick and reconcileOrphanedRuns.                             *)
(***************************************************************************)

\* Select the enabled DAGs: the tick works on this row until it ends.
StartTick(t) ==
  /\ tick[t].pc = "idle"
  /\ tick' = [tick EXCEPT ![t] = [IdleTick EXCEPT !.pc = "select",
                                                  !.bookmark = bookmark]]
  /\ UNCHANGED <<given, now, bookmark, run, wf>>

\* The rows whose workflow may have died.
SelectOrphans(t) ==
  /\ tick[t].pc = "select"
  /\ LET orphans == {k \in Runs : /\ run[k].status = "running"
                                  /\ run[k].wf # 0
                                  /\ run[k].old}
     IN  tick' = [tick EXCEPT ![t].pc = "reconcile",
                              ![t].todo = {<<k, run[k].wf>> : k \in orphans}]
  /\ UNCHANGED <<given, now, bookmark, run, wf>>

\* Mutant: a cancelled workflow is passed over.
CheckOrphanFailed(t) ==
  /\ tick[t].pc = "reconcile"
  /\ \E x \in tick[t].todo :
       LET rest == [tick[t] EXCEPT !.todo = @ \ {x}]
       IN  tick' = [tick EXCEPT ![t] =
                      IF wf[x[2]].pc = "failed"
                      THEN [rest EXCEPT !.pc = "mirror", !.at = x[1],
                                        !.status = "failed"]
                      ELSE rest]
  /\ UNCHANGED <<given, now, bookmark, run, wf>>

\* getRun(...).status: a workflow that failed or was cancelled is mirrored, and
\* any other is passed over.
CheckOrphan(t) ==
  /\ tick[t].pc = "reconcile"
  /\ \E x \in tick[t].todo :
       LET died == wf[x[2]].pc \in {"failed", "cancelled"}
           rest == [tick[t] EXCEPT !.todo = @ \ {x}]
       IN  \/ /\ ~died \/ "api" \in faults
              /\ tick' = [tick EXCEPT ![t] = rest]
           \/ /\ died
              /\ tick' = [tick EXCEPT ![t] = [rest EXCEPT !.pc = "mirror",
                                                          !.at = x[1],
                                                          !.status = wf[x[2]].pc]]
  /\ UNCHANGED <<given, now, bookmark, run, wf>>

\* The row takes the status of its workflow.
MirrorRun(t) ==
  /\ tick[t].pc = "mirror"
  /\ run' = [run EXCEPT ![tick[t].at].status = tick[t].status,
                        ![tick[t].at].old = FALSE]
  /\ tick' = [tick EXCEPT ![t].pc = "mirrorTask", ![t].status = "none"]
  /\ UNCHANGED <<given, now, bookmark, wf>>

\* The attempts that are still running have failed.
MirrorTask(t) ==
  /\ tick[t].pc = "mirrorTask"
  /\ run' = [run EXCEPT ![tick[t].at].task = IF @ = "running" THEN "failed" ELSE @]
  /\ tick' = [tick EXCEPT ![t].pc = "reconcile", ![t].at = 0]
  /\ UNCHANGED <<given, now, bookmark, wf>>

\* What reconcileOrphanedRuns throws is caught: the tick goes on without it.
ReconcileFails(t) ==
  /\ "tick" \in faults
  /\ tick[t].pc \in {"select", "reconcile", "mirror", "mirrorTask"}
  /\ tick' = [tick EXCEPT ![t] = [IdleTick EXCEPT !.pc = "reconcile",
                                                  !.bookmark = tick[t].bookmark]]
  /\ UNCHANGED <<given, now, bookmark, run, wf>>

-----------------------------------------------------------------------------
(***************************************************************************)
(* enqueueMissedRuns.                                                      *)
(***************************************************************************)

\* The boundaries after the cursor, up to now, no more than the cap.
Missed(t) ==
  LET cursor == IF tick[t].bookmark # 0 THEN tick[t].bookmark
                ELSE IF dag.catchup THEN 0
                ELSE now - 1
  IN  (cursor + 1)..(IF now < cursor + EnqueueCap THEN now
                     ELSE cursor + EnqueueCap)

\* INSERT ... ON CONFLICT DO NOTHING.
Enqueue(t) ==
  /\ tick[t].pc = "reconcile"
  /\ tick[t].todo = {}
  /\ LET missed == Missed(t)
     IN  IF missed = {}
         THEN /\ tick' = [tick EXCEPT ![t] = [IdleTick EXCEPT !.pc = "count"]]
              /\ UNCHANGED run
         ELSE /\ run' = [k \in Runs \cup missed |->
                           IF k \in Runs THEN run[k] ELSE NewRow]
              /\ \E latest \in missed :
                   /\ \A k \in missed : k <= latest
                   /\ tick' = [tick EXCEPT ![t] = [IdleTick EXCEPT !.pc = "bookmark",
                                                                   !.latest = latest]]
  /\ UNCHANGED <<given, now, bookmark, wf>>

\* Mutant: the bookmark is set to now, whatever was enqueued.
SetBookmarkNow(t) ==
  /\ tick[t].pc = "bookmark"
  /\ bookmark' = now
  /\ tick' = [tick EXCEPT ![t].pc = "count", ![t].latest = 0]
  /\ UNCHANGED <<given, now, run, wf>>

SetBookmark(t) ==
  /\ tick[t].pc = "bookmark"
  /\ bookmark' = tick[t].latest
  /\ tick' = [tick EXCEPT ![t].pc = "count", ![t].latest = 0]
  /\ UNCHANGED <<given, now, run, wf>>

-----------------------------------------------------------------------------
(***************************************************************************)
(* dispatchQueued.                                                         *)
(***************************************************************************)

CountRunning(t) ==
  /\ tick[t].pc = "count"
  /\ LET active == Cardinality(RunsIn("running"))
     IN  tick' = [tick EXCEPT ![t] =
                    IF active >= dag.maxActiveRuns THEN IdleTick
                    ELSE [IdleTick EXCEPT !.pc = "pick",
                                          !.slots = dag.maxActiveRuns - active]]
  /\ UNCHANGED <<given, now, bookmark, run, wf>>

\* Mutant: no ORDER BY.
PickQueuedAny(t) ==
  /\ tick[t].pc = "pick"
  /\ \E queue \in SUBSET RunsIn("queued") :
       /\ Cardinality(queue) <= tick[t].slots
       /\ Cardinality(queue) < tick[t].slots => queue = RunsIn("queued")
       /\ tick' = [tick EXCEPT ![t].pc = "claim", ![t].queue = queue,
                               ![t].slots = 0]
  /\ UNCHANGED <<given, now, bookmark, run, wf>>

\* The oldest queued runs, as many as there are slots.
PickQueued(t) ==
  /\ tick[t].pc = "pick"
  /\ \E queue \in SUBSET RunsIn("queued") :
       /\ \A k \in queue, i \in RunsIn("queued") \ queue : k < i
       /\ Cardinality(queue) <= tick[t].slots
       /\ Cardinality(queue) < tick[t].slots => queue = RunsIn("queued")
       /\ tick' = [tick EXCEPT ![t].pc = "claim", ![t].queue = queue,
                               ![t].slots = 0]
  /\ UNCHANGED <<given, now, bookmark, run, wf>>

\* The run at hand is the oldest one that is left.
IsNext(t, k) == k \in tick[t].queue /\ \A i \in tick[t].queue : k <= i

\* Mutant: the claim does not ask whether the run is still queued.
ClaimUnchecked(t) ==
  /\ tick[t].pc = "claim"
  /\ \E k \in Runs :
       /\ IsNext(t, k)
       /\ run' = [run EXCEPT ![k].status = "running", ![k].old = FALSE]
       /\ tick' = [tick EXCEPT ![t].pc = "start", ![t].at = k,
                               ![t].queue = @ \ {k}]
  /\ UNCHANGED <<given, now, bookmark, wf>>

\* UPDATE ... WHERE status = 'queued': the check and the set are one.
Claim(t) ==
  /\ tick[t].pc = "claim"
  /\ \E k \in Runs :
       /\ IsNext(t, k)
       /\ IF run[k].status = "queued"
          THEN /\ run' = [run EXCEPT ![k].status = "running", ![k].old = FALSE]
               /\ tick' = [tick EXCEPT ![t].pc = "start", ![t].at = k,
                                       ![t].queue = @ \ {k}]
          ELSE /\ tick' = [tick EXCEPT ![t].queue = @ \ {k}]
               /\ UNCHANGED run
  /\ UNCHANGED <<given, now, bookmark, wf>>

EndTick(t) ==
  /\ tick[t].pc = "claim"
  /\ tick[t].queue = {}
  /\ tick' = [tick EXCEPT ![t] = IdleTick]
  /\ UNCHANGED <<given, now, bookmark, run, wf>>

\* start(dagRunner, ...): a workflow of the run exists from now on.
CreateWorkflow(k) ==
  LET w == Cardinality(Workflows) + 1
  IN  /\ w <= MaxWorkflows
      /\ wf' = [i \in Workflows \cup {w} |->
                  IF i = w THEN [run |-> k, pc |-> "started", verdict |-> "none"]
                  ELSE wf[i]]

StartWorkflow(t) ==
  /\ tick[t].pc = "start"
  /\ CreateWorkflow(tick[t].at)
  /\ tick' = [tick EXCEPT ![t].pc = "store",
                          ![t].child = Cardinality(Workflows) + 1]
  /\ UNCHANGED <<given, now, bookmark, run>>

\* start throws, before the workflow exists or after.
StartFails(t) ==
  /\ "start" \in faults
  /\ tick[t].pc = "start"
  /\ CreateWorkflow(tick[t].at) \/ UNCHANGED wf
  /\ tick' = [tick EXCEPT ![t].pc = "rollback"]
  /\ UNCHANGED <<given, now, bookmark, run>>

StoreId(t) ==
  run' = [run EXCEPT ![tick[t].at].wf = tick[t].child,
                     ![tick[t].at].old = FALSE]

StoreWorkflow(t) ==
  /\ tick[t].pc = "store"
  /\ StoreId(t)
  /\ tick' = [tick EXCEPT ![t].pc = "claim", ![t].at = 0, ![t].child = 0]
  /\ UNCHANGED <<given, now, bookmark, wf>>

\* The UPDATE throws, before it is applied or after.
StoreFails(t) ==
  /\ "store" \in faults
  /\ tick[t].pc = "store"
  /\ StoreId(t) \/ UNCHANGED run
  /\ tick' = [tick EXCEPT ![t].pc = "rollback", ![t].child = 0]
  /\ UNCHANGED <<given, now, bookmark, wf>>

\* Mutant: the claim is not undone.
RollbackNot(t) ==
  /\ tick[t].pc = "rollback"
  /\ tick' = [tick EXCEPT ![t].pc = "claim", ![t].at = 0]
  /\ UNCHANGED <<given, now, bookmark, run, wf>>

\* Back to queued, by id alone, for a later tick to try again.
Rollback(t) ==
  /\ tick[t].pc = "rollback"
  /\ run' = [run EXCEPT ![tick[t].at].status = "queued",
                        ![tick[t].at].old = FALSE]
  /\ tick' = [tick EXCEPT ![t].pc = "claim", ![t].at = 0]
  /\ UNCHANGED <<given, now, bookmark, wf>>

\* The function is killed, or one of its other statements throws.
TickDies(t) ==
  /\ "tick" \in faults
  /\ tick[t].pc # "idle"
  /\ tick' = [tick EXCEPT ![t] = IdleTick]
  /\ UNCHANGED <<given, now, bookmark, run, wf>>

-----------------------------------------------------------------------------
(***************************************************************************)
(* The workflows (dagRunner), seen from the scheduler.                     *)
(***************************************************************************)

\* What is thrown before the tasks is a verdict: the run has failed.
InitFails(w) ==
  /\ "workflow" \in faults
  /\ wf[w].pc = "started"
  /\ wf' = [wf EXCEPT ![w].pc = "verdict", ![w].verdict = "failed"]
  /\ UNCHANGED <<given, now, bookmark, run, tick>>

\* A task with a terminal attempt keeps its status, any other is launched.
BeginTask(w) ==
  /\ wf[w].pc = "started"
  /\ LET k == wf[w].run
     IN  IF run[k].task \in {"succeeded", "failed"}
         THEN /\ wf' = [wf EXCEPT ![w].pc = "verdict", ![w].verdict = run[k].task]
              /\ UNCHANGED run
         ELSE /\ wf' = [wf EXCEPT ![w].pc = "task"]
              /\ run' = [run EXCEPT ![k].task = "running"]
  /\ UNCHANGED <<given, now, bookmark, tick>>

EndTask(w) ==
  /\ wf[w].pc = "task"
  /\ \E verdict \in {"succeeded", "failed"} :
       /\ wf' = [wf EXCEPT ![w].pc = "verdict", ![w].verdict = verdict]
       /\ run' = [run EXCEPT ![wf[w].run].task = verdict]
  /\ UNCHANGED <<given, now, bookmark, tick>>

\* markRunTerminal: only rows that are not terminal yet.
MarkTerminal(w) ==
  /\ wf[w].pc = "verdict"
  /\ LET k == wf[w].run
     IN  IF run[k].status \in Terminal THEN UNCHANGED run
         ELSE run' = [run EXCEPT ![k].status = wf[w].verdict, ![k].old = FALSE]
  /\ wf' = [wf EXCEPT ![w].pc = "marked", ![w].verdict = "none"]
  /\ UNCHANGED <<given, now, bookmark, tick>>

Complete(w) ==
  /\ wf[w].pc = "marked"
  /\ wf' = [wf EXCEPT ![w].pc = "completed"]
  /\ UNCHANGED <<given, now, bookmark, run, tick>>

\* The workflow crashes or is cancelled before its last step, or after it.
WorkflowDies(w) ==
  /\ \/ "workflow" \in faults /\ wf[w].pc \in {"started", "task", "verdict"}
     \/ "late" \in faults /\ wf[w].pc = "marked"
  /\ \E status \in {"failed", "cancelled"} :
       wf' = [wf EXCEPT ![w].pc = status, ![w].verdict = "none"]
  /\ UNCHANGED <<given, now, bookmark, run, tick>>

-----------------------------------------------------------------------------
TickWork(t) ==
  \/ SelectOrphans(t)
  \/ CheckOrphan(t)
  \/ MirrorRun(t)
  \/ MirrorTask(t)
  \/ Enqueue(t)
  \/ SetBookmark(t)
  \/ CountRunning(t)
  \/ PickQueued(t)
  \/ Claim(t)
  \/ EndTick(t)
  \/ StartWorkflow(t)
  \/ StoreWorkflow(t)
  \/ Rollback(t)

TickFault(t) ==
  \/ StartFails(t)
  \/ StoreFails(t)
  \/ ReconcileFails(t)
  \/ TickDies(t)

WorkflowStep(w) ==
  \/ BeginTask(w)
  \/ EndTask(w)
  \/ MarkTerminal(w)
  \/ Complete(w)

Next ==
  \/ BoundaryPasses
  \/ \E k \in Runs : GetsOld(k)
  \/ \E t \in Ticks : StartTick(t) \/ TickWork(t) \/ TickFault(t)
  \/ \E w \in Workflows : WorkflowStep(w) \/ InitFails(w) \/ WorkflowDies(w)

Spec == Init /\ [][Next]_vars

\* The cron job calls the scheduler every minute and a tick that is not killed
\* runs to its end; so does a workflow, unless it dies.  Rows get old.
Fairness ==
  /\ \A t \in Ticks : WF_vars(StartTick(t) \/ TickWork(t))
  /\ \A k \in Boundaries : WF_vars(GetsOld(k))
  /\ \A w \in 1..MaxWorkflows : WF_vars(w \in Workflows /\ WorkflowStep(w))

FairSpec == Spec /\ Fairness

-----------------------------------------------------------------------------
(***************************************************************************)
(* Properties.                                                             *)
(***************************************************************************)

\* No boundary is skipped, although overlapping ticks work from bookmarks that
\* may be stale and set it back (dag-scheduler.ts:52, 118-122), and a tick may
\* be killed between the runs and the bookmark: with catchup the runs reach from
\* the first boundary to the last one without a gap, and the bookmark never gets
\* ahead of them.  Without catchup a tick that found no bookmark may be overtaken
\* by the first run and begin at a later boundary, so there may be a gap.
NoBoundarySkipped ==
  /\ dag.catchup => \A k \in Runs : 1..k \subseteq Runs
  /\ bookmark # 0 => bookmark \in Runs

\* "overlapping ticks can't double-start a run" (dag-scheduler.ts:129-130): a
\* run has one workflow, as long as no start is retried.
StartedOnce ==
  faults \cap {"start", "store"} = {} =>
    \A v, w \in Workflows : wf[v].run = wf[w].run => v = w

\* Runs move forward in order.  With catchup they are claimed oldest first,
\* whichever tick claims them: one that is behind finds the runs it selected
\* taken, never an older one left queued (without catchup a tick that started
\* earlier may still enqueue an older boundary than the one being claimed).  What
\* is terminal stays so: the reconciler, which updates by id alone
\* (dag-scheduler.ts:272-280), never overwrites the verdict of a workflow,
\* unless that dies after its verdict.  A claim that is undone because a start or
\* its store failed breaks either.
RunsMoveForward ==
  [][faults \cap {"start", "store"} = {} =>
       \A k \in Runs :
         /\ dag.catchup /\ run[k].status = "queued" /\ run'[k].status = "running" =>
              \A i \in Runs : i < k => run[i].status # "queued"
         /\ run[k].status \in Terminal /\ "late" \notin faults =>
              run'[k].status = run[k].status]_run

\* The count is taken before the claims (dag-scheduler.ts:141-165), so ticks
\* that overlap may each fill the slots they saw, but no more: the limit is
\* exceeded at most as many times as there are ticks at once, however many
\* ticks follow one another while a slow one still holds runs to claim.
ActiveWithinOverlap ==
  Cardinality(RunsIn("running")) <= Cardinality(Ticks) * dag.maxActiveRuns

\* A running row is taken further by somebody: a tick that is starting its
\* workflow, a workflow of the run that is alive, or the reconciler, which finds
\* a dead workflow by the id on the row.
Driven(k) ==
  \/ \E t \in Ticks : tick[t].pc \in {"start", "store", "rollback"} /\ tick[t].at = k
  \/ \E w \in Workflows : wf[w].run = k /\ wf[w].pc \in {"started", "task", "verdict"}
  \/ run[k].wf # 0 /\ wf[run[k].wf].pc \in {"failed", "cancelled"}

\* "instead of leaving an orphan 'running' row with no workflowRunId"
\* (dag-scheduler.ts:213-214): the running rows are as few as the ticks that
\* overlap allow, and none is left to nobody, however starts and stores fail, as
\* long as no tick is killed.
RunningIsDriven ==
  /\ ActiveWithinOverlap
  /\ "tick" \notin faults => \A k \in RunsIn("running") : Driven(k)

\* Every boundary gets a run that ends, with its attempts, however many workflows
\* die: the slots of the dead ones are freed (dag-scheduler.ts:232-234, 282-294).
\* Without catchup, the boundaries before the first tick get none.
EveryBoundaryRuns ==
  \A b \in Boundaries :
    now >= b /\ (dag.catchup \/ \E k \in Runs : k <= b)
      ~> b \in {k \in RunsWith(Terminal) : run[k].task # "running"}
-----------------------------------------------------------------------------
(***************************************************************************)
(* The inductive invariant.                                                *)
(***************************************************************************)

\* What a tick holds on to is a row of the table.
TicksLinked ==
  \A t \in Ticks :
    /\ tick[t].pc \in {"mirror", "mirrorTask", "start", "store", "rollback"} =>
         tick[t].at \in Runs
    /\ tick[t].pc = "mirror" => tick[t].status # "none"
    /\ \A x \in tick[t].todo : x[1] \in Runs

WorkflowsLinked ==
  \A w \in Workflows :
    /\ wf[w].run \in Runs
    /\ wf[w].pc = "verdict" => wf[w].verdict # "none"

\* While no start is retried, a run that has a workflow, or a tick about to
\* start one, is not queued any more; and it has one or the other.
ClaimsHold ==
  faults \cap {"start", "store"} = {} =>
    /\ \A t \in Ticks : tick[t].pc # "rollback"
    /\ \A w \in Workflows : run[wf[w].run].status # "queued"
    /\ \A t \in Ticks : tick[t].pc = "start" =>
         /\ run[tick[t].at].status # "queued"
         /\ \A w \in Workflows : wf[w].run # tick[t].at
    /\ \A t, u \in Ticks :
         tick[t].pc = "start" /\ tick[u].pc = "start" /\ tick[t].at = tick[u].at =>
           t = u

\* Every bookmark, however stale, is a boundary that has its run.
BookmarksLinked ==
  \A t \in Ticks :
    /\ tick[t].bookmark # 0 => tick[t].bookmark \in Runs
    /\ tick[t].pc = "bookmark" => tick[t].latest \in Runs

\* The rows, the workflows and the ticks fit together, whichever order the
\* statements of overlapping ticks take effect in (dag-scheduler.ts:45-226).
IInv ==
  /\ TypeOK
  /\ TicksLinked
  /\ WorkflowsLinked
  /\ ClaimsHold
  /\ StartedOnce
  /\ BookmarksLinked
  /\ NoBoundarySkipped

\* Why no running row is left to nobody.  A claim has one holder until its
\* workflow is stored or the claim undone, and nobody puts the row back in the
\* queue meanwhile.
Holding(t) == tick[t].pc \in {"start", "store", "rollback"}

ClaimsHeld ==
  /\ \A t \in Ticks : Holding(t) => run[tick[t].at].status # "queued"
  /\ \A t, u \in Ticks : Holding(t) /\ Holding(u) /\ tick[t].at = tick[u].at => t = u

\* A row, and a tick about to store one, name a workflow of that very run; one
\* that has written its verdict before its id was stored left no row running.
IdsLinked ==
  /\ \E n \in 0..MaxWorkflows : Workflows = 1..n
  /\ \A k \in Runs : run[k].wf # 0 =>
       run[k].wf \in Workflows /\ wf[run[k].wf].run = k
  /\ \A t \in Ticks : tick[t].pc = "store" =>
       /\ tick[t].child \in Workflows /\ wf[tick[t].child].run = tick[t].at
       /\ wf[tick[t].child].pc \in {"marked", "completed"} =>
            run[tick[t].at].status # "running"

RunningIsHeld ==
  "tick" \notin faults =>
    \A k \in RunsIn("running") :
      \/ \E t \in Ticks : Holding(t) /\ tick[t].at = k
      \/ run[k].wf # 0 /\ wf[run[k].wf].pc \notin {"marked", "completed"}

\* The runs a tick may still claim: the slots it saw, or what is left of the runs
\* it selected for them.
Pending(t) == tick[t].slots + Cardinality(tick[t].queue)

\* What runs, and what the ticks may still claim, is within the limit for each.
Reserved == {x \in Ticks \X (1..dag.maxActiveRuns) : x[2] <= Pending(x[1])}

ActiveIsReserved ==
  /\ \A t \in Ticks : Pending(t) <= dag.maxActiveRuns
  /\ Cardinality(RunsIn("running")) + Cardinality(Reserved)
       <= Cardinality(Ticks) * dag.maxActiveRuns

DriveInv == IInv /\ ClaimsHeld /\ IdsLinked /\ RunningIsHeld /\ ActiveIsReserved

\* Why runs move forward.  The runs a tick has selected are the oldest that were
\* queued, and no older one comes back or is enqueued later.
QueuesAreOldest ==
  dag.catchup /\ faults \cap {"start", "store"} = {} =>
    \A t \in Ticks : \A k \in tick[t].queue :
      /\ k \in Runs
      /\ \A i \in Runs : i < k /\ i \notin tick[t].queue => run[i].status # "queued"

\* What the reconciler holds: a run with a workflow of its own, which died with
\* the status it is about to write.
OrphansLinked ==
  /\ \A t \in Ticks : \A x \in tick[t].todo :
       x[2] \in Workflows /\ wf[x[2]].run = x[1]
  /\ \A t \in Ticks : tick[t].pc = "mirror" =>
       \E w \in Workflows : wf[w].run = tick[t].at /\ wf[w].pc = tick[t].status

\* A run whose workflow has not written its verdict is running, or has been
\* given the status its workflow died with.
RowsFollowWorkflows ==
  faults \cap {"start", "store"} = {} /\ "late" \notin faults =>
    /\ \A t \in Ticks : tick[t].pc = "start" => run[tick[t].at].status = "running"
    /\ \A w \in Workflows :
         /\ wf[w].pc \in {"started", "task", "verdict"} =>
              run[wf[w].run].status = "running"
         /\ wf[w].pc \in {"failed", "cancelled"} =>
              run[wf[w].run].status \in {"running", wf[w].pc}

OrderInv == DriveInv /\ QueuesAreOldest /\ OrphansLinked /\ RowsFollowWorkflows
=============================================================================
