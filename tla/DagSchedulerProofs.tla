------------------------- MODULE DagSchedulerProofs -------------------------
(***************************************************************************)
(* Proofs about the scheduler, for any number of overlapping ticks, any    *)
(* schedule, limit and cap, and any set of faults.                         *)
(***************************************************************************)
EXTENDS DagScheduler, FiniteSetTheorems, TLAPS

-----------------------------------------------------------------------------
(***************************************************************************)
(* The operators the actions are built from.                               *)
(***************************************************************************)

\* The runs can be counted.
LEMMA CountType ==
  ASSUME TypeOK, NEW status
  PROVE  Cardinality(RunsIn(status)) \in Nat
<1>1. IsFiniteSet(Boundaries)
  BY SchedulerBoundsAssumption, FS_Interval DEF Boundaries
<1>2. RunsIn(status) \subseteq Boundaries
  BY DEF RunsIn, RunsWith, TypeOK
<1>3. QED
  BY <1>1, <1>2, FS_Subset, FS_CardinalityType

\* The workflows can be counted.
LEMMA WorkflowCountType ==
  ASSUME TypeOK
  PROVE  Cardinality(Workflows) \in Nat
<1>1. IsFiniteSet(1..MaxWorkflows)
  BY SchedulerBoundsAssumption, FS_Interval
<1>2. Workflows \subseteq 1..MaxWorkflows
  BY DEF TypeOK
<1>3. QED
  BY <1>1, <1>2, FS_Subset, FS_CardinalityType

\* What a tick enqueues are boundaries that are past, without a gap after the
\* bookmark it works from; it is empty only when nothing was missed.
LEMMA MissedType ==
  ASSUME TypeOK, NEW t \in Ticks
  PROVE  /\ Missed(t) \subseteq Boundaries
         /\ \A k \in Missed(t) : \A i \in 1..k :
              \/ i \in Missed(t)
              \/ ~dag.catchup
              \/ i <= tick[t].bookmark
<1> DEFINE cursor == IF tick[t].bookmark # 0 THEN tick[t].bookmark
                     ELSE IF dag.catchup THEN 0 ELSE now - 1
<1>1. /\ tick[t].bookmark \in Nat
      /\ now \in 1..MaxTime /\ MaxTime \in Nat /\ EnqueueCap \in Nat \ {0}
  BY SchedulerBoundsAssumption DEF TypeOK, TickState, Boundaries
<1>2. cursor \in Nat /\ (dag.catchup => cursor = tick[t].bookmark)
  BY <1>1
<1>3. Missed(t) = (cursor + 1)..(IF now < cursor + EnqueueCap THEN now
                                 ELSE cursor + EnqueueCap)
  BY DEF Missed
<1> HIDE DEF cursor
<1>4. QED
  BY <1>1, <1>2, <1>3 DEF Boundaries

\* An idle tick is a tick.
LEMMA IdleTickType == IdleTick \in TickState
BY SchedulerBoundsAssumption DEF IdleTick, TickState, TickPhases

-----------------------------------------------------------------------------
(***************************************************************************)
(* Frames: a step that updates one tick, one run or one workflow.          *)
(***************************************************************************)

\* Updating one tick.
LEMMA TickUpdate ==
  ASSUME TypeOK, NEW t \in Ticks, NEW s \in TickState,
         tick' = [tick EXCEPT ![t] = s]
  PROVE  tick' \in [Ticks -> TickState]
BY DEF TypeOK

\* Updating one run.
LEMMA RunUpdate ==
  ASSUME TypeOK, NEW k \in Runs, NEW s \in RunRow, run' = [run EXCEPT ![k] = s]
  PROVE  Runs' = Runs /\ run' \in [Runs -> RunRow]
BY DEF TypeOK, Runs

\* Updating one workflow.
LEMMA WfUpdate ==
  ASSUME TypeOK, NEW w \in Workflows, NEW s \in WfState,
         wf' = [wf EXCEPT ![w] = s]
  PROVE  Workflows' = Workflows /\ wf' \in [Workflows -> WfState]
BY DEF TypeOK, Workflows

\* A step of a tick that leaves the rows alone.
LEMMA TickFrame ==
  ASSUME TypeOK, tick' \in [Ticks -> TickState],
         UNCHANGED <<given, now, bookmark, run, wf>>
  PROVE  TypeOK'
BY DEF TypeOK, given, Runs, Workflows

\* A step of a tick that updates the runs.
LEMMA RowFrame ==
  ASSUME TypeOK, tick' \in [Ticks -> TickState],
         Runs' \subseteq Boundaries, run' \in [Runs' -> RunRow],
         UNCHANGED <<given, now, bookmark, wf>>
  PROVE  TypeOK'
BY DEF TypeOK, given, Workflows, Boundaries

\* A step of a workflow.
LEMMA WorkflowFrame ==
  ASSUME TypeOK, Runs' = Runs, run' \in [Runs -> RunRow],
         Workflows' \subseteq 1..MaxWorkflows, wf' \in [Workflows' -> WfState],
         UNCHANGED <<given, now, bookmark, tick>>
  PROVE  TypeOK'
BY DEF TypeOK, given, Boundaries

-----------------------------------------------------------------------------
(***************************************************************************)
(* Type correctness.                                                       *)
(***************************************************************************)

\* The reconciler's steps keep the types.
LEMMA ReconcilerType ==
  ASSUME IInv, NEW t \in Ticks,
         \/ StartTick(t) \/ SelectOrphans(t) \/ CheckOrphan(t) \/ MirrorRun(t)
         \/ MirrorTask(t) \/ ReconcileFails(t)
  PROVE  TypeOK'
<1> TypeOK /\ TicksLinked
  BY DEF IInv
<1> USE DEF TickState, TickPhases
<1>0. tick[t] \in TickState
  BY DEF TypeOK
<1>1. CASE StartTick(t)
  <2>1. bookmark \in 0..MaxTime
    BY DEF TypeOK
  <2> DEFINE s == [IdleTick EXCEPT !.pc = "select", !.bookmark = bookmark]
  <2>2. s \in TickState
    BY <2>1, IdleTickType
  <2>3. tick' = [tick EXCEPT ![t] = s]
    BY <1>1 DEF StartTick
  <2>4. QED
    BY <1>1, <2>2, <2>3, TickUpdate, TickFrame DEF StartTick
<1>2. CASE SelectOrphans(t)
  <2> DEFINE orphans == {k \in Runs : /\ run[k].status = "running"
                                      /\ run[k].wf # 0
                                      /\ run[k].old}
             todo == {<<k, run[k].wf>> : k \in orphans}
  <2>1. tick' = [tick EXCEPT ![t].pc = "reconcile", ![t].todo = todo]
    BY <1>2 DEF SelectOrphans
  <2>2. \A k \in Runs : k \in Boundaries /\ run[k].wf \in 0..MaxWorkflows
    BY DEF TypeOK, RunRow
  <2>3. todo \in SUBSET (Boundaries \X (1..MaxWorkflows))
    BY <2>2, SchedulerBoundsAssumption
  <2> HIDE DEF todo
  <2> DEFINE s == [tick[t] EXCEPT !.pc = "reconcile", !.todo = todo]
  <2>4. s \in TickState
    BY <2>3, <1>0
  <2>5. tick' = [tick EXCEPT ![t] = s]
    BY <2>1
  <2>6. QED
    BY <1>2, <2>4, <2>5, TickUpdate, TickFrame DEF SelectOrphans
<1>3. CASE CheckOrphan(t)
  <2>1. PICK x \in tick[t].todo :
          \/ tick' = [tick EXCEPT ![t] = [tick[t] EXCEPT !.todo = @ \ {x}]]
          \/ /\ wf[x[2]].pc \in {"failed", "cancelled"}
             /\ tick' = [tick EXCEPT ![t] = [[tick[t] EXCEPT !.todo = @ \ {x}]
                                               EXCEPT !.pc = "mirror", !.at = x[1],
                                                      !.status = wf[x[2]].pc]]
    BY <1>3 DEF CheckOrphan
  <2> DEFINE s == [tick[t] EXCEPT !.todo = @ \ {x}]
             u == [s EXCEPT !.pc = "mirror", !.at = x[1], !.status = wf[x[2]].pc]
  <2>2. s \in TickState
    BY <1>0
  <2>3. x[1] \in 0..MaxTime
    BY <1>0, SchedulerBoundsAssumption DEF Boundaries
  <2>4. ASSUME wf[x[2]].pc \in {"failed", "cancelled"}
        PROVE  u \in TickState
    <3> HIDE DEF s
    <3>1. QED
      BY <2>2, <2>3, <2>4
  <2>5. tick' \in [Ticks -> TickState]
    <3>1. CASE tick' = [tick EXCEPT ![t] = s]
      BY <3>1, <2>2, TickUpdate
    <3>2. CASE /\ wf[x[2]].pc \in {"failed", "cancelled"}
               /\ tick' = [tick EXCEPT ![t] = u]
      BY <3>2, <2>4, TickUpdate
    <3>3. QED
      BY <2>1, <3>1, <3>2
  <2>6. QED
    BY <1>3, <2>5, TickFrame DEF CheckOrphan
<1>4. CASE MirrorRun(t)
  <2> DEFINE k == tick[t].at
             row == [run[k] EXCEPT !.status = tick[t].status, !.old = FALSE]
             s == [tick[t] EXCEPT !.pc = "mirrorTask", !.status = "none"]
  <2>1. k \in Runs /\ tick[t].status \in {"failed", "cancelled"}
    BY <1>4, <1>0 DEF MirrorRun, TicksLinked
  <2>2. row \in RunRow
    <3>1. run[k] \in RunRow
      BY <2>1 DEF TypeOK
    <3>2. QED
      BY <2>1, <3>1 DEF RunRow, Statuses, Terminal
  <2>3. s \in TickState
    BY <1>0
  <2>4. run' = [run EXCEPT ![k] = row] /\ tick' = [tick EXCEPT ![t] = s]
    BY <1>4 DEF MirrorRun
  <2> HIDE DEF k, row, s
  <2>5. tick' \in [Ticks -> TickState]
    BY <2>3, <2>4, TickUpdate
  <2>6. Runs' = Runs /\ run' \in [Runs -> RunRow]
    BY <2>1, <2>2, <2>4, RunUpdate
  <2>7. QED
    BY <1>4, <2>5, <2>6, RowFrame DEF MirrorRun, TypeOK
<1>5. CASE MirrorTask(t)
  <2> DEFINE k == tick[t].at
             row == [run[k] EXCEPT !.task = IF @ = "running" THEN "failed" ELSE @]
             s == [tick[t] EXCEPT !.pc = "reconcile", !.at = 0]
  <2>1. k \in Runs
    BY <1>5 DEF MirrorTask, TicksLinked
  <2>2. row \in RunRow
    <3>1. run[k] \in RunRow
      BY <2>1 DEF TypeOK
    <3>2. QED
      BY <3>1 DEF RunRow
  <2>3. s \in TickState
    <3>1. 0 \in 0..MaxTime
      BY SchedulerBoundsAssumption
    <3>2. QED
      BY <1>0, <3>1
  <2>4. run' = [run EXCEPT ![k] = row] /\ tick' = [tick EXCEPT ![t] = s]
    BY <1>5 DEF MirrorTask
  <2> HIDE DEF k, row, s
  <2>5. tick' \in [Ticks -> TickState]
    BY <2>3, <2>4, TickUpdate
  <2>6. Runs' = Runs /\ run' \in [Runs -> RunRow]
    BY <2>1, <2>2, <2>4, RunUpdate
  <2>7. QED
    BY <1>5, <2>5, <2>6, RowFrame DEF MirrorTask, TypeOK
<1>6. CASE ReconcileFails(t)
  <2> DEFINE s == [IdleTick EXCEPT !.pc = "reconcile", !.bookmark = tick[t].bookmark]
  <2>1. s \in TickState
    BY <1>0, IdleTickType
  <2>2. tick' = [tick EXCEPT ![t] = s]
    BY <1>6 DEF ReconcileFails
  <2>3. QED
    BY <1>6, <2>1, <2>2, TickUpdate, TickFrame DEF ReconcileFails
<1>7. QED
  BY <1>1, <1>2, <1>3, <1>4, <1>5, <1>6

\* So do its steps that enqueue runs.
LEMMA EnqueueType ==
  ASSUME IInv, NEW t \in Ticks, Enqueue(t) \/ SetBookmark(t)
  PROVE  TypeOK'
<1> TypeOK
  BY DEF IInv
<1> USE DEF TickState, TickPhases
<1>0. tick[t] \in TickState /\ 0 \in 0..MaxTime
  BY SchedulerBoundsAssumption DEF TypeOK
<1>1. CASE Enqueue(t)
  <2> DEFINE missed == Missed(t)
  <2>1. CASE missed = {}
    <3> DEFINE s == [IdleTick EXCEPT !.pc = "count"]
    <3>1. s \in TickState
      BY IdleTickType
    <3>2. tick' = [tick EXCEPT ![t] = s] /\ UNCHANGED run
      BY <1>1, <2>1 DEF Enqueue
    <3>3. QED
      BY <1>1, <3>1, <3>2, TickUpdate, TickFrame DEF Enqueue
  <2>2. CASE missed # {}
    <3>1. missed \subseteq Boundaries
      BY MissedType
    <3>2. PICK latest \in missed :
            tick' = [tick EXCEPT ![t] = [IdleTick EXCEPT !.pc = "bookmark",
                                                         !.latest = latest]]
      BY <1>1, <2>2 DEF Enqueue
    <3> DEFINE s == [IdleTick EXCEPT !.pc = "bookmark", !.latest = latest]
    <3>3. s \in TickState
      <4>1. latest \in 0..MaxTime
        BY <3>1, SchedulerBoundsAssumption DEF Boundaries
      <4>2. QED
        BY <4>1, IdleTickType
    <3>4. tick' \in [Ticks -> TickState]
      BY <3>2, <3>3, TickUpdate
    <3>5. run' = [k \in Runs \cup missed |-> IF k \in Runs THEN run[k] ELSE NewRow]
      BY <1>1, <2>2 DEF Enqueue
    <3>6. NewRow \in RunRow
      BY SchedulerBoundsAssumption DEF NewRow, RunRow, Statuses
    <3>7. Runs' \subseteq Boundaries /\ run' \in [Runs' -> RunRow]
      BY <3>1, <3>5, <3>6 DEF TypeOK, Runs
    <3>8. QED
      BY <1>1, <3>4, <3>7, RowFrame DEF Enqueue
  <2>3. QED
    BY <2>1, <2>2
<1>2. CASE SetBookmark(t)
  <2> DEFINE s == [tick[t] EXCEPT !.pc = "count", !.latest = 0]
  <2>1. s \in TickState
    BY <1>0
  <2>2. tick' = [tick EXCEPT ![t] = s]
    BY <1>2 DEF SetBookmark
  <2>3. tick' \in [Ticks -> TickState] /\ bookmark' \in 0..MaxTime
    BY <1>0, <1>2, <2>1, <2>2, TickUpdate DEF SetBookmark
  <2>4. QED
    BY <1>2, <2>3 DEF SetBookmark, TypeOK, given, Runs, Workflows
<1>3. QED
  BY <1>1, <1>2

\* So do the steps that choose and claim queued runs.
LEMMA DispatchType ==
  ASSUME IInv, NEW t \in Ticks,
         CountRunning(t) \/ PickQueued(t) \/ Claim(t) \/ EndTick(t) \/ TickDies(t)
  PROVE  TypeOK'
<1> TypeOK
  BY DEF IInv
<1> USE DEF TickState, TickPhases
<1>0. tick[t] \in TickState /\ 0 \in 0..MaxTime
  BY SchedulerBoundsAssumption DEF TypeOK
<1>1. CASE CountRunning(t)
  <2> DEFINE active == Cardinality(RunsIn("running"))
             s == [IdleTick EXCEPT !.pc = "pick", !.slots = dag.maxActiveRuns - active]
  <2>1. active \in Nat /\ dag.maxActiveRuns \in Nat
    BY CountType, DagsAssumption DEF TypeOK
  <2>2. ASSUME ~(active >= dag.maxActiveRuns)
        PROVE  s \in TickState
    <3>1. dag.maxActiveRuns - active \in Nat
      BY <2>1, <2>2
    <3>2. QED
      BY <3>1, IdleTickType
  <2>3. tick' = [tick EXCEPT ![t] = IF active >= dag.maxActiveRuns THEN IdleTick ELSE s]
    BY <1>1 DEF CountRunning
  <2> HIDE DEF active, s
  <2>4. tick' \in [Ticks -> TickState]
    BY <2>2, <2>3, IdleTickType, TickUpdate
  <2>5. QED
    BY <1>1, <2>4, TickFrame DEF CountRunning
<1>2. CASE PickQueued(t)
  <2>1. PICK queue \in SUBSET RunsIn("queued") :
          tick' = [tick EXCEPT ![t].pc = "claim", ![t].queue = queue, ![t].slots = 0]
    BY <1>2 DEF PickQueued
  <2> DEFINE s == [tick[t] EXCEPT !.pc = "claim", !.queue = queue, !.slots = 0]
  <2>2. queue \subseteq Boundaries
    BY DEF RunsIn, RunsWith, TypeOK
  <2>3. s \in TickState
    BY <1>0, <2>2
  <2>4. tick' = [tick EXCEPT ![t] = s]
    BY <2>1
  <2>5. QED
    BY <1>2, <2>3, <2>4, TickUpdate, TickFrame DEF PickQueued
<1>3. CASE Claim(t)
  <2>1. PICK k \in Runs :
          IF run[k].status = "queued"
          THEN /\ run' = [run EXCEPT ![k].status = "running", ![k].old = FALSE]
               /\ tick' = [tick EXCEPT ![t].pc = "start", ![t].at = k,
                                       ![t].queue = @ \ {k}]
          ELSE /\ tick' = [tick EXCEPT ![t].queue = @ \ {k}]
               /\ UNCHANGED run
    BY <1>3 DEF Claim
  <2> DEFINE s == [tick[t] EXCEPT !.pc = "start", !.at = k, !.queue = @ \ {k}]
             u == [tick[t] EXCEPT !.queue = @ \ {k}]
             row == [run[k] EXCEPT !.status = "running", !.old = FALSE]
  <2>2. k \in 0..MaxTime /\ run[k] \in RunRow
    BY SchedulerBoundsAssumption DEF TypeOK, Boundaries
  <2>3. s \in TickState
    BY <1>0, <2>2
  <2>4. u \in TickState
    BY <1>0
  <2>5. row \in RunRow
    BY <2>2 DEF RunRow, Statuses
  <2>6. CASE run[k].status = "queued"
    <3>1. run' = [run EXCEPT ![k] = row] /\ tick' = [tick EXCEPT ![t] = s]
      BY <2>1, <2>6
    <3> HIDE DEF s, u, row
    <3>2. tick' \in [Ticks -> TickState]
      BY <2>3, <3>1, TickUpdate
    <3>3. Runs' = Runs /\ run' \in [Runs -> RunRow]
      BY <2>5, <3>1, RunUpdate
    <3>4. QED
      BY <1>3, <3>2, <3>3, RowFrame DEF Claim, TypeOK
  <2>7. CASE run[k].status # "queued"
    <3>1. tick' = [tick EXCEPT ![t] = u] /\ UNCHANGED run
      BY <2>1, <2>7
    <3> HIDE DEF s, u, row
    <3>2. QED
      BY <1>3, <2>4, <3>1, TickUpdate, TickFrame DEF Claim
  <2>8. QED
    BY <2>6, <2>7
<1>4. CASE EndTick(t)
  BY <1>4, IdleTickType, TickUpdate, TickFrame DEF EndTick
<1>5. CASE TickDies(t)
  BY <1>5, IdleTickType, TickUpdate, TickFrame DEF TickDies
<1>6. QED
  BY <1>1, <1>2, <1>3, <1>4, <1>5

\* A new workflow of a boundary's run is a workflow.
LEMMA CreateWorkflowType ==
  ASSUME TypeOK, NEW k \in Boundaries, CreateWorkflow(k)
  PROVE  /\ Cardinality(Workflows) + 1 \in 0..MaxWorkflows
         /\ Workflows' \subseteq 1..MaxWorkflows
         /\ wf' \in [Workflows' -> WfState]
<1> DEFINE n == Cardinality(Workflows) + 1
           new == [run |-> k, pc |-> "started", verdict |-> "none"]
<1>1. n \in 1..MaxWorkflows
  BY WorkflowCountType, SchedulerBoundsAssumption DEF CreateWorkflow
<1>2. new \in WfState
  BY DEF WfState, WfPhases
<1>3. wf' = [i \in Workflows \cup {n} |-> IF i = n THEN new ELSE wf[i]]
  BY DEF CreateWorkflow
<1> HIDE DEF n, new
<1>4. Workflows' \subseteq 1..MaxWorkflows /\ wf' \in [Workflows' -> WfState]
  BY <1>1, <1>2, <1>3 DEF TypeOK, Workflows
<1>5. QED
  BY <1>1, <1>4, SchedulerBoundsAssumption DEF n

\* Storing the id of a workflow keeps the types of the rows.
LEMMA StoreIdType ==
  ASSUME TypeOK, NEW t \in Ticks, tick[t].at \in Runs, StoreId(t)
  PROVE  Runs' = Runs /\ run' \in [Runs -> RunRow]
<1> DEFINE k == tick[t].at
           row == [run[k] EXCEPT !.wf = tick[t].child, !.old = FALSE]
<1>1. run[k] \in RunRow /\ tick[t].child \in 0..MaxWorkflows
  BY DEF TypeOK, TickState
<1>2. row \in RunRow
  BY <1>1 DEF RunRow
<1>3. run' = [run EXCEPT ![k] = row]
  BY DEF StoreId
<1> HIDE DEF row, k
<1>4. k \in Runs
  BY DEF k
<1>5. QED
  BY <1>2, <1>3, <1>4, RunUpdate

\* So do the steps that start workflows.
LEMMA StartType ==
  ASSUME IInv, NEW t \in Ticks,
         \/ StartWorkflow(t) \/ StartFails(t) \/ StoreWorkflow(t) \/ StoreFails(t)
         \/ Rollback(t)
  PROVE  TypeOK'
<1> TypeOK
  BY DEF IInv
<1> USE DEF TickState, TickPhases
<1>0. tick[t] \in TickState /\ 0 \in 0..MaxTime /\ 0 \in 0..MaxWorkflows
  BY SchedulerBoundsAssumption DEF TypeOK
<1>a. tick[t].pc \in {"start", "store", "rollback"}
  BY DEF StartWorkflow, StartFails, StoreWorkflow, StoreFails, Rollback
<1>b. tick[t].at \in Runs /\ tick[t].at \in Boundaries
  BY <1>a DEF IInv, TicksLinked, TypeOK
<1>1. CASE StartWorkflow(t)
  <2> DEFINE s == [tick[t] EXCEPT !.pc = "store", !.child = Cardinality(Workflows) + 1]
  <2>1. /\ Cardinality(Workflows) + 1 \in 0..MaxWorkflows
        /\ Workflows' \subseteq 1..MaxWorkflows
        /\ wf' \in [Workflows' -> WfState]
    BY <1>1, <1>b, CreateWorkflowType DEF StartWorkflow
  <2>2. s \in TickState
    BY <1>0, <2>1
  <2>3. tick' = [tick EXCEPT ![t] = s]
    BY <1>1 DEF StartWorkflow
  <2> HIDE DEF s
  <2>4. tick' \in [Ticks -> TickState]
    BY <2>2, <2>3, TickUpdate
  <2>5. QED
    BY <1>1, <2>1, <2>4 DEF StartWorkflow, TypeOK, given, Runs, Boundaries
<1>2. CASE StartFails(t)
  <2> DEFINE s == [tick[t] EXCEPT !.pc = "rollback"]
  <2>1. Workflows' \subseteq 1..MaxWorkflows /\ wf' \in [Workflows' -> WfState]
    <3>1. CASE CreateWorkflow(tick[t].at)
      BY <3>1, <1>b, CreateWorkflowType
    <3>2. CASE UNCHANGED wf
      BY <3>2 DEF TypeOK, Workflows
    <3>3. QED
      BY <1>2, <3>1, <3>2 DEF StartFails
  <2>2. s \in TickState
    BY <1>0
  <2>3. tick' = [tick EXCEPT ![t] = s]
    BY <1>2 DEF StartFails
  <2> HIDE DEF s
  <2>4. tick' \in [Ticks -> TickState]
    BY <2>2, <2>3, TickUpdate
  <2>5. QED
    BY <1>2, <2>1, <2>4 DEF StartFails, TypeOK, given, Runs, Boundaries
<1>3. CASE StoreWorkflow(t)
  <2> DEFINE s == [tick[t] EXCEPT !.pc = "claim", !.at = 0, !.child = 0]
  <2>1. Runs' = Runs /\ run' \in [Runs -> RunRow]
    BY <1>3, <1>b, StoreIdType DEF StoreWorkflow
  <2>2. s \in TickState
    BY <1>0
  <2>3. tick' = [tick EXCEPT ![t] = s]
    BY <1>3 DEF StoreWorkflow
  <2> HIDE DEF s
  <2>4. tick' \in [Ticks -> TickState]
    BY <2>2, <2>3, TickUpdate
  <2>5. QED
    BY <1>3, <2>1, <2>4, RowFrame DEF StoreWorkflow, TypeOK
<1>4. CASE StoreFails(t)
  <2> DEFINE s == [tick[t] EXCEPT !.pc = "rollback", !.child = 0]
  <2>1. Runs' = Runs /\ run' \in [Runs -> RunRow]
    <3>1. CASE StoreId(t)
      BY <3>1, <1>b, StoreIdType
    <3>2. CASE UNCHANGED run
      BY <3>2 DEF TypeOK, Runs
    <3>3. QED
      BY <1>4, <3>1, <3>2 DEF StoreFails
  <2>2. s \in TickState
    BY <1>0
  <2>3. tick' = [tick EXCEPT ![t] = s]
    BY <1>4 DEF StoreFails
  <2> HIDE DEF s
  <2>4. tick' \in [Ticks -> TickState]
    BY <2>2, <2>3, TickUpdate
  <2>5. QED
    BY <1>4, <2>1, <2>4, RowFrame DEF StoreFails, TypeOK
<1>5. CASE Rollback(t)
  <2> DEFINE k == tick[t].at
             row == [run[k] EXCEPT !.status = "queued", !.old = FALSE]
             s == [tick[t] EXCEPT !.pc = "claim", !.at = 0]
  <2>1. run[k] \in RunRow /\ k \in Runs
    BY <1>b DEF TypeOK
  <2>2. row \in RunRow
    BY <2>1 DEF RunRow, Statuses
  <2>3. s \in TickState
    BY <1>0
  <2>4. run' = [run EXCEPT ![k] = row] /\ tick' = [tick EXCEPT ![t] = s]
    BY <1>5 DEF Rollback
  <2> HIDE DEF k, row, s
  <2>5. tick' \in [Ticks -> TickState]
    BY <2>3, <2>4, TickUpdate
  <2>6. Runs' = Runs /\ run' \in [Runs -> RunRow]
    BY <2>1, <2>2, <2>4, RunUpdate
  <2>7. QED
    BY <1>5, <2>5, <2>6, RowFrame DEF Rollback, TypeOK
<1>6. QED
  BY <1>1, <1>2, <1>3, <1>4, <1>5

\* So do the workflows' steps, and time.
LEMMA WorkflowType ==
  ASSUME IInv, NEW w \in Workflows,
         WorkflowStep(w) \/ InitFails(w) \/ WorkflowDies(w)
  PROVE  TypeOK'
<1> TypeOK
  BY DEF IInv
<1> USE DEF WfState, WfPhases
<1>0. wf[w] \in WfState
  BY DEF TypeOK
<1>a. wf[w].run \in Runs /\ run[wf[w].run] \in RunRow
  BY DEF IInv, WorkflowsLinked, TypeOK
<1>b. ASSUME NEW s \in WfState, wf' = [wf EXCEPT ![w] = s],
             \/ UNCHANGED run
             \/ \E row \in RunRow : run' = [run EXCEPT ![wf[w].run] = row],
             UNCHANGED <<given, now, bookmark, tick>>
      PROVE  TypeOK'
  <2>1. Workflows' \subseteq 1..MaxWorkflows /\ wf' \in [Workflows' -> WfState]
    BY <1>b DEF TypeOK, Workflows
  <2>2. CASE UNCHANGED run
    BY <1>b, <2>1, <2>2, WorkflowFrame DEF TypeOK, Runs
  <2>3. CASE \E row \in RunRow : run' = [run EXCEPT ![wf[w].run] = row]
    <3>1. Runs' = Runs /\ run' \in [Runs -> RunRow]
      BY <1>a, <2>3, RunUpdate
    <3>2. QED
      BY <1>b, <2>1, <3>1, WorkflowFrame
  <2>4. QED
    BY <1>b, <2>2, <2>3
<1>1. CASE InitFails(w)
  <2> DEFINE s == [wf[w] EXCEPT !.pc = "verdict", !.verdict = "failed"]
  <2>1. s \in WfState
    BY <1>0
  <2>2. wf' = [wf EXCEPT ![w] = s]
    BY <1>1 DEF InitFails
  <2>3. QED
    BY <1>1, <1>b, <2>1, <2>2 DEF InitFails
<1>2. CASE BeginTask(w)
  <2> DEFINE k == wf[w].run
             s == [wf[w] EXCEPT !.pc = "verdict", !.verdict = run[k].task]
             u == [wf[w] EXCEPT !.pc = "task"]
             row == [run[k] EXCEPT !.task = "running"]
  <2>1. u \in WfState
    BY <1>0
  <2>2. row \in RunRow
    BY <1>a DEF RunRow
  <2>3. CASE run[k].task \in {"succeeded", "failed"}
    <3>1. s \in WfState
      BY <1>0, <2>3
    <3>2. wf' = [wf EXCEPT ![w] = s] /\ UNCHANGED run
      BY <1>2, <2>3 DEF BeginTask
    <3>3. QED
      BY <1>2, <1>b, <3>1, <3>2 DEF BeginTask
  <2>4. CASE run[k].task \notin {"succeeded", "failed"}
    <3>1. wf' = [wf EXCEPT ![w] = u] /\ run' = [run EXCEPT ![k] = row]
      BY <1>2, <2>4 DEF BeginTask
    <3>2. QED
      BY <1>2, <1>b, <2>1, <2>2, <3>1 DEF BeginTask
  <2>5. QED
    BY <2>3, <2>4
<1>3. CASE EndTask(w)
  <2>1. PICK verdict \in {"succeeded", "failed"} :
          /\ wf' = [wf EXCEPT ![w].pc = "verdict", ![w].verdict = verdict]
          /\ run' = [run EXCEPT ![wf[w].run].task = verdict]
    BY <1>3 DEF EndTask
  <2> DEFINE s == [wf[w] EXCEPT !.pc = "verdict", !.verdict = verdict]
             row == [run[wf[w].run] EXCEPT !.task = verdict]
  <2>2. s \in WfState
    BY <1>0
  <2>3. row \in RunRow
    BY <1>a DEF RunRow
  <2>4. wf' = [wf EXCEPT ![w] = s] /\ run' = [run EXCEPT ![wf[w].run] = row]
    BY <2>1
  <2>5. QED
    BY <1>3, <1>b, <2>2, <2>3, <2>4 DEF EndTask
<1>4. CASE MarkTerminal(w)
  <2> DEFINE k == wf[w].run
             s == [wf[w] EXCEPT !.pc = "marked", !.verdict = "none"]
             row == [run[k] EXCEPT !.status = wf[w].verdict, !.old = FALSE]
  <2>1. s \in WfState
    BY <1>0
  <2>2. wf[w].verdict \in {"succeeded", "failed"}
    BY <1>0, <1>4 DEF MarkTerminal, IInv, WorkflowsLinked
  <2>3. row \in RunRow
    BY <1>a, <2>2 DEF RunRow, Statuses, Terminal
  <2>4. wf' = [wf EXCEPT ![w] = s]
    BY <1>4 DEF MarkTerminal
  <2>5. UNCHANGED run \/ run' = [run EXCEPT ![k] = row]
    BY <1>4 DEF MarkTerminal
  <2>6. QED
    BY <1>4, <1>b, <2>1, <2>3, <2>4, <2>5 DEF MarkTerminal
<1>5. CASE Complete(w)
  <2> DEFINE s == [wf[w] EXCEPT !.pc = "completed"]
  <2>1. s \in WfState
    BY <1>0
  <2>2. wf' = [wf EXCEPT ![w] = s]
    BY <1>5 DEF Complete
  <2>3. QED
    BY <1>5, <1>b, <2>1, <2>2 DEF Complete
<1>6. CASE WorkflowDies(w)
  <2>1. PICK status \in {"failed", "cancelled"} :
          wf' = [wf EXCEPT ![w].pc = status, ![w].verdict = "none"]
    BY <1>6 DEF WorkflowDies
  <2> DEFINE s == [wf[w] EXCEPT !.pc = status, !.verdict = "none"]
  <2>2. s \in WfState
    BY <1>0
  <2>3. wf' = [wf EXCEPT ![w] = s]
    BY <2>1
  <2>4. QED
    BY <1>6, <1>b, <2>2, <2>3 DEF WorkflowDies
<1>7. QED
  BY <1>1, <1>2, <1>3, <1>4, <1>5, <1>6 DEF WorkflowStep

\* So does time.
LEMMA TimeType ==
  ASSUME IInv, BoundaryPasses \/ \E k \in Runs : GetsOld(k)
  PROVE  TypeOK'
<1> TypeOK
  BY DEF IInv
<1>1. CASE BoundaryPasses
  BY <1>1, SchedulerBoundsAssumption
  DEF BoundaryPasses, TypeOK, given, Runs, Workflows, Boundaries
<1>2. CASE \E k \in Runs : GetsOld(k)
  <2>1. PICK k \in Runs : GetsOld(k)
    BY <1>2
  <2> DEFINE row == [run[k] EXCEPT !.old = TRUE]
  <2>2. run[k] \in RunRow
    BY DEF TypeOK
  <2>3. row \in RunRow
    BY <2>2 DEF RunRow
  <2>4. run' = [run EXCEPT ![k] = row]
    BY <2>1 DEF GetsOld
  <2> HIDE DEF row
  <2>5. Runs' = Runs /\ run' \in [Runs -> RunRow]
    BY <2>3, <2>4, RunUpdate
  <2>6. QED
    BY <2>1, <2>5 DEF GetsOld, TypeOK, given, Workflows, Boundaries
<1>3. QED
  BY <1>1, <1>2

\* Every step keeps the types.
LEMMA StepType ==
  ASSUME IInv, [Next]_vars
  PROVE  TypeOK'
<1>1. CASE UNCHANGED vars
  BY <1>1 DEF IInv, TypeOK, vars, given, Runs, Workflows
<1>2. CASE BoundaryPasses \/ \E k \in Runs : GetsOld(k)
  BY <1>2, TimeType
<1>3. ASSUME NEW t \in Ticks, StartTick(t) \/ TickWork(t) \/ TickFault(t)
      PROVE  TypeOK'
  BY <1>3, ReconcilerType, EnqueueType, DispatchType, StartType
  DEF TickWork, TickFault
<1>4. ASSUME NEW w \in Workflows, WorkflowStep(w) \/ InitFails(w) \/ WorkflowDies(w)
      PROVE  TypeOK'
  BY <1>4, WorkflowType
<1>5. QED
  BY <1>1, <1>2, <1>3, <1>4 DEF Next

-----------------------------------------------------------------------------
(***************************************************************************)
(* What a step may do to the rows and the ticks.                           *)
(***************************************************************************)

\* A step of a tick leaves the other ticks alone.
LEMMA OtherTicks ==
  ASSUME TypeOK, NEW t \in Ticks, StartTick(t) \/ TickWork(t) \/ TickFault(t),
         NEW u \in Ticks, u # t
  PROVE  tick'[u] = tick[u]
<1> USE DEF TypeOK
<1>1. CASE StartTick(t)
  BY <1>1 DEF StartTick
<1>2. CASE SelectOrphans(t)
  BY <1>2 DEF SelectOrphans
<1>3. CASE CheckOrphan(t)
  BY <1>3 DEF CheckOrphan
<1>4. CASE MirrorRun(t)
  BY <1>4 DEF MirrorRun
<1>5. CASE MirrorTask(t)
  BY <1>5 DEF MirrorTask
<1>6. CASE Enqueue(t)
  BY <1>6 DEF Enqueue
<1>7. CASE SetBookmark(t)
  BY <1>7 DEF SetBookmark
<1>8. CASE CountRunning(t)
  BY <1>8 DEF CountRunning
<1>9. CASE PickQueued(t)
  BY <1>9 DEF PickQueued
<1>10. CASE Claim(t)
  BY <1>10 DEF Claim
<1>11. CASE EndTick(t)
  BY <1>11 DEF EndTick
<1>12. CASE StartWorkflow(t)
  BY <1>12 DEF StartWorkflow
<1>13. CASE StoreWorkflow(t)
  BY <1>13 DEF StoreWorkflow
<1>14. CASE Rollback(t)
  BY <1>14 DEF Rollback
<1>15. CASE StartFails(t)
  BY <1>15 DEF StartFails
<1>16. CASE StoreFails(t)
  BY <1>16 DEF StoreFails
<1>17. CASE ReconcileFails(t)
  BY <1>17 DEF ReconcileFails
<1>18. CASE TickDies(t)
  BY <1>18 DEF TickDies
<1>19. QED
  BY <1>1, <1>2, <1>3, <1>4, <1>5, <1>6, <1>7, <1>8, <1>9, <1>10, <1>11,
     <1>12, <1>13, <1>14, <1>15, <1>16, <1>17, <1>18
  DEF TickWork, TickFault

\* Rows are added, never deleted.
LEMMA TickKeepsRows ==
  ASSUME TypeOK, NEW t \in Ticks, StartTick(t) \/ TickWork(t) \/ TickFault(t)
  PROVE  Runs \subseteq Runs'
<1> USE DEF Runs
<1>1. CASE StartTick(t)
  BY <1>1 DEF StartTick
<1>2. CASE SelectOrphans(t)
  BY <1>2 DEF SelectOrphans
<1>3. CASE CheckOrphan(t)
  BY <1>3 DEF CheckOrphan
<1>4. CASE MirrorRun(t)
  BY <1>4 DEF MirrorRun
<1>5. CASE MirrorTask(t)
  BY <1>5 DEF MirrorTask
<1>6. CASE Enqueue(t)
  BY <1>6 DEF Enqueue
<1>7. CASE SetBookmark(t)
  BY <1>7 DEF SetBookmark
<1>8. CASE CountRunning(t)
  BY <1>8 DEF CountRunning
<1>9. CASE PickQueued(t)
  BY <1>9 DEF PickQueued
<1>10. CASE Claim(t)
  BY <1>10 DEF Claim
<1>11. CASE EndTick(t)
  BY <1>11 DEF EndTick
<1>12. CASE StartWorkflow(t)
  BY <1>12 DEF StartWorkflow
<1>13. CASE StoreWorkflow(t)
  BY <1>13 DEF StoreWorkflow, StoreId
<1>14. CASE Rollback(t)
  BY <1>14 DEF Rollback
<1>15. CASE StartFails(t)
  BY <1>15 DEF StartFails
<1>16. CASE StoreFails(t)
  BY <1>16 DEF StoreFails, StoreId
<1>17. CASE ReconcileFails(t)
  BY <1>17 DEF ReconcileFails
<1>18. CASE TickDies(t)
  BY <1>18 DEF TickDies
<1>19. QED
  BY <1>1, <1>2, <1>3, <1>4, <1>5, <1>6, <1>7, <1>8, <1>9, <1>10, <1>11,
     <1>12, <1>13, <1>14, <1>15, <1>16, <1>17, <1>18
  DEF TickWork, TickFault

\* A workflow adds and deletes no row, keeps its run, and leaves the ticks alone.
LEMMA WorkflowKeepsRows ==
  ASSUME TypeOK, NEW w \in Workflows,
         WorkflowStep(w) \/ InitFails(w) \/ WorkflowDies(w)
  PROVE  /\ Runs' = Runs /\ Workflows' = Workflows
         /\ \A v \in Workflows : wf'[v].run = wf[v].run
         /\ UNCHANGED <<given, now, bookmark, tick>>
<1> USE DEF Runs, Workflows, TypeOK
<1>1. CASE InitFails(w)
  BY <1>1 DEF InitFails
<1>2. CASE BeginTask(w)
  <2>1. Runs' = Runs /\ UNCHANGED <<given, now, bookmark, tick>>
    BY <1>2 DEF BeginTask
  <2>2. \E v \in WfState : v.run = wf[w].run /\ wf' = [wf EXCEPT ![w] = v]
    <3> DEFINE k == wf[w].run
               s == [wf[w] EXCEPT !.pc = "verdict", !.verdict = run[k].task]
               u == [wf[w] EXCEPT !.pc = "task"]
    <3>1. wf[w] \in WfState
      OBVIOUS
    <3>2. CASE run[k].task \in {"succeeded", "failed"}
      <4>1. s \in WfState /\ s.run = wf[w].run
        BY <3>1, <3>2 DEF WfState, WfPhases
      <4>2. wf' = [wf EXCEPT ![w] = s]
        BY <1>2, <3>2 DEF BeginTask
      <4>3. QED
        BY <4>1, <4>2
    <3>3. CASE run[k].task \notin {"succeeded", "failed"}
      <4>1. u \in WfState /\ u.run = wf[w].run
        BY <3>1 DEF WfState, WfPhases
      <4>2. wf' = [wf EXCEPT ![w] = u]
        BY <1>2, <3>3 DEF BeginTask
      <4>3. QED
        BY <4>1, <4>2
    <3>4. QED
      BY <3>2, <3>3
  <2>3. QED
    BY <2>1, <2>2
<1>3. CASE EndTask(w)
  BY <1>3 DEF EndTask
<1>4. CASE MarkTerminal(w)
  BY <1>4 DEF MarkTerminal
<1>5. CASE Complete(w)
  BY <1>5 DEF Complete
<1>6. CASE WorkflowDies(w)
  BY <1>6 DEF WorkflowDies
<1>7. QED
  BY <1>1, <1>2, <1>3, <1>4, <1>5, <1>6 DEF WorkflowStep

\* Time adds and deletes no row, and leaves the ticks and workflows alone.
LEMMA TimeKeepsRows ==
  ASSUME TypeOK, BoundaryPasses \/ \E k \in Runs : GetsOld(k)
  PROVE  /\ Runs' = Runs
         /\ \A k \in Runs : run'[k].status = run[k].status
         /\ UNCHANGED <<given, bookmark, tick, wf>>
<1> USE DEF Runs, TypeOK
<1>1. CASE BoundaryPasses
  BY <1>1 DEF BoundaryPasses
<1>2. CASE \E k \in Runs : GetsOld(k)
  BY <1>2 DEF GetsOld
<1>3. QED
  BY <1>1, <1>2

-----------------------------------------------------------------------------
(***************************************************************************)
(* The parts of the invariant.                                             *)
(***************************************************************************)

\* A tick's step leaves it with rows of the table, and bookmarks that have runs.
LEMMA TickLinks ==
  ASSUME IInv, TypeOK', NEW t \in Ticks,
         StartTick(t) \/ TickWork(t) \/ TickFault(t)
  PROVE  /\ tick'[t].pc \in {"mirror", "mirrorTask", "start", "store", "rollback"} =>
              tick'[t].at \in Runs'
         /\ tick'[t].pc = "mirror" => tick'[t].status # "none"
         /\ \A x \in tick'[t].todo : x[1] \in Runs'
         /\ tick'[t].bookmark # 0 => tick'[t].bookmark \in Runs'
         /\ tick'[t].pc = "bookmark" => tick'[t].latest \in Runs'
<1>0. Runs \subseteq Runs'
  BY TickKeepsRows DEF IInv
<1>a. DOMAIN tick = Ticks /\ tick[t] \in TickState
  BY DEF IInv, TypeOK
<1>b. /\ tick[t].pc \in {"mirror", "mirrorTask", "start", "store", "rollback"} =>
           tick[t].at \in Runs
      /\ tick[t].pc = "mirror" => tick[t].status # "none"
      /\ \A x \in tick[t].todo : x[1] \in Runs
      /\ tick[t].bookmark # 0 => tick[t].bookmark \in Runs
      /\ tick[t].pc = "bookmark" => tick[t].latest \in Runs
      /\ bookmark # 0 => bookmark \in Runs
  BY DEF IInv, TicksLinked, BookmarksLinked, NoBoundarySkipped
<1> USE DEF TickState, IdleTick
<1>1. CASE StartTick(t)
  BY <1>1, <1>0, <1>a, <1>b DEF StartTick
<1>2. CASE SelectOrphans(t)
  BY <1>2, <1>0, <1>a, <1>b DEF SelectOrphans
<1>3. CASE CheckOrphan(t)
  <2>1. PICK x \in tick[t].todo :
          \/ tick' = [tick EXCEPT ![t] = [tick[t] EXCEPT !.todo = @ \ {x}]]
          \/ /\ wf[x[2]].pc \in {"failed", "cancelled"}
             /\ tick' = [tick EXCEPT ![t] = [[tick[t] EXCEPT !.todo = @ \ {x}]
                                               EXCEPT !.pc = "mirror", !.at = x[1],
                                                      !.status = wf[x[2]].pc]]
    BY <1>3 DEF CheckOrphan
  <2>2. x[1] \in Runs' /\ \A y \in tick[t].todo : y[1] \in Runs'
    BY <1>0, <1>b
  <2> DEFINE s == [tick[t] EXCEPT !.todo = @ \ {x}]
             u == [s EXCEPT !.pc = "mirror", !.at = x[1], !.status = wf[x[2]].pc]
  <2>3. /\ s.todo = tick[t].todo \ {x} /\ s.pc = tick[t].pc
        /\ s.bookmark = tick[t].bookmark
    BY <1>a
  <2>4. /\ u.todo = s.todo /\ u.pc = "mirror" /\ u.at = x[1]
        /\ u.status = wf[x[2]].pc /\ u.bookmark = s.bookmark
    BY <1>a
  <2>5. CASE tick' = [tick EXCEPT ![t] = s]
    <3>1. tick'[t] = s
      BY <1>a, <2>5
    <3> HIDE DEF s, u
    <3>2. tick[t].pc = "reconcile"
      BY <1>3 DEF CheckOrphan
    <3>3. QED
      BY <1>0, <1>b, <2>2, <2>3, <3>1, <3>2
  <2>6. CASE /\ wf[x[2]].pc \in {"failed", "cancelled"}
             /\ tick' = [tick EXCEPT ![t] = u]
    <3>1. tick'[t] = u
      BY <1>a, <2>6
    <3> HIDE DEF s, u
    <3>2. QED
      BY <1>0, <1>b, <2>2, <2>3, <2>4, <2>6, <3>1
  <2>7. QED
    BY <2>1, <2>5, <2>6
<1>4. CASE MirrorRun(t)
  BY <1>4, <1>0, <1>a, <1>b DEF MirrorRun
<1>5. CASE MirrorTask(t)
  BY <1>5, <1>0, <1>a, <1>b DEF MirrorTask
<1>6. CASE Enqueue(t)
  <2> DEFINE missed == Missed(t)
  <2>1. CASE missed = {}
    <3>1. tick'[t] = [IdleTick EXCEPT !.pc = "count"]
      BY <1>6, <1>a, <2>1 DEF Enqueue
    <3>2. QED
      BY <3>1
  <2>2. CASE missed # {}
    <3>1. PICK latest \in missed :
            tick'[t] = [IdleTick EXCEPT !.pc = "bookmark", !.latest = latest]
      BY <1>6, <1>a, <2>2 DEF Enqueue
    <3>2. run' = [k \in Runs \cup missed |-> IF k \in Runs THEN run[k] ELSE NewRow]
      BY <1>6, <2>2 DEF Enqueue
    <3>3. latest \in Runs'
      BY <3>2 DEF Runs
    <3>4. QED
      BY <3>1, <3>3
  <2>3. QED
    BY <2>1, <2>2
<1>7. CASE SetBookmark(t)
  BY <1>7, <1>0, <1>a, <1>b DEF SetBookmark
<1>8. CASE CountRunning(t)
  BY <1>8, <1>0, <1>a, <1>b DEF CountRunning
<1>9. CASE PickQueued(t)
  BY <1>9, <1>0, <1>a, <1>b DEF PickQueued
<1>10. CASE Claim(t)
  BY <1>10, <1>0, <1>a, <1>b DEF Claim, Runs
<1>11. CASE EndTick(t)
  BY <1>11, <1>0, <1>a, <1>b DEF EndTick
<1>12. CASE StartWorkflow(t)
  BY <1>12, <1>0, <1>a, <1>b DEF StartWorkflow
<1>13. CASE StoreWorkflow(t)
  BY <1>13, <1>0, <1>a, <1>b DEF StoreWorkflow
<1>14. CASE Rollback(t)
  BY <1>14, <1>0, <1>a, <1>b DEF Rollback
<1>15. CASE StartFails(t)
  BY <1>15, <1>0, <1>a, <1>b DEF StartFails
<1>16. CASE StoreFails(t)
  BY <1>16, <1>0, <1>a, <1>b DEF StoreFails
<1>17. CASE ReconcileFails(t)
  BY <1>17, <1>0, <1>a, <1>b DEF ReconcileFails
<1>18. CASE TickDies(t)
  BY <1>18, <1>0, <1>a, <1>b DEF TickDies
<1>19. QED
  BY <1>1, <1>2, <1>3, <1>4, <1>5, <1>6, <1>7, <1>8, <1>9, <1>10, <1>11,
     <1>12, <1>13, <1>14, <1>15, <1>16, <1>17, <1>18
  DEF TickWork, TickFault

\* The ticks keep to rows of the table.
LEMMA TicksLinkedStep ==
  ASSUME IInv, TypeOK', [Next]_vars
  PROVE  TicksLinked' /\ BookmarksLinked'
<1>0. TypeOK /\ TicksLinked /\ BookmarksLinked
  BY DEF IInv
<1>1. CASE UNCHANGED vars
  BY <1>0, <1>1 DEF TicksLinked, BookmarksLinked, vars, Runs
<1>2. CASE BoundaryPasses \/ \E k \in Runs : GetsOld(k)
  <2>1. Runs' = Runs /\ tick' = tick
    BY <1>0, <1>2, TimeKeepsRows
  <2>2. QED
    BY <1>0, <2>1 DEF TicksLinked, BookmarksLinked
<1>3. ASSUME NEW t \in Ticks, StartTick(t) \/ TickWork(t) \/ TickFault(t)
      PROVE  TicksLinked' /\ BookmarksLinked'
  <2>1. Runs \subseteq Runs' /\ \A u \in Ticks : u # t => tick'[u] = tick[u]
    BY <1>0, <1>3, TickKeepsRows, OtherTicks
  <2>2. TicksLinked'
    BY <1>0, <1>3, <2>1, TickLinks DEF TicksLinked
  <2>3. BookmarksLinked'
    BY <1>0, <1>3, <2>1, TickLinks DEF BookmarksLinked
  <2>4. QED
    BY <2>2, <2>3
<1>4. ASSUME NEW w \in Workflows, WorkflowStep(w) \/ InitFails(w) \/ WorkflowDies(w)
      PROVE  TicksLinked' /\ BookmarksLinked'
  <2>1. Runs' = Runs /\ tick' = tick
    BY <1>0, <1>4, WorkflowKeepsRows
  <2>2. QED
    BY <1>0, <2>1 DEF TicksLinked, BookmarksLinked
<1>5. QED
  BY <1>1, <1>2, <1>3, <1>4 DEF Next

\* What a tick's step may do to the runs and the bookmark: leave them, insert
\* what it missed, or store a boundary that has its run.
LEMMA TickBoundaries ==
  ASSUME TypeOK, NEW t \in Ticks, StartTick(t) \/ TickWork(t) \/ TickFault(t)
  PROVE  /\ dag' = dag
         /\ \/ Runs' = Runs
            \/ Runs' = Runs \cup Missed(t)
         /\ \/ bookmark' = bookmark
            \/ tick[t].pc = "bookmark" /\ bookmark' = tick[t].latest
<1> USE DEF Runs, given
<1>1. CASE StartTick(t)
  BY <1>1 DEF StartTick
<1>2. CASE SelectOrphans(t)
  BY <1>2 DEF SelectOrphans
<1>3. CASE CheckOrphan(t)
  BY <1>3 DEF CheckOrphan
<1>4. CASE MirrorRun(t)
  BY <1>4 DEF MirrorRun
<1>5. CASE MirrorTask(t)
  BY <1>5 DEF MirrorTask
<1>6. CASE Enqueue(t)
  BY <1>6 DEF Enqueue
<1>7. CASE SetBookmark(t)
  BY <1>7 DEF SetBookmark
<1>8. CASE CountRunning(t)
  BY <1>8 DEF CountRunning
<1>9. CASE PickQueued(t)
  BY <1>9 DEF PickQueued
<1>10. CASE Claim(t)
  BY <1>10 DEF Claim
<1>11. CASE EndTick(t)
  BY <1>11 DEF EndTick
<1>12. CASE StartWorkflow(t)
  BY <1>12 DEF StartWorkflow
<1>13. CASE StoreWorkflow(t)
  BY <1>13 DEF StoreWorkflow, StoreId
<1>14. CASE Rollback(t)
  BY <1>14 DEF Rollback
<1>15. CASE StartFails(t)
  BY <1>15 DEF StartFails
<1>16. CASE StoreFails(t)
  BY <1>16 DEF StoreFails, StoreId
<1>17. CASE ReconcileFails(t)
  BY <1>17 DEF ReconcileFails
<1>18. CASE TickDies(t)
  BY <1>18 DEF TickDies
<1>19. QED
  BY <1>1, <1>2, <1>3, <1>4, <1>5, <1>6, <1>7, <1>8, <1>9, <1>10, <1>11,
     <1>12, <1>13, <1>14, <1>15, <1>16, <1>17, <1>18
  DEF TickWork, TickFault

\* No step skips a boundary.
LEMMA NoBoundarySkippedStep ==
  ASSUME IInv, TypeOK', [Next]_vars
  PROVE  NoBoundarySkipped'
<1>0. TypeOK /\ BookmarksLinked /\ NoBoundarySkipped
  BY DEF IInv
<1>1. CASE UNCHANGED vars
  BY <1>0, <1>1 DEF NoBoundarySkipped, vars, given, Runs
<1>2. ASSUME Runs' = Runs, UNCHANGED <<given, bookmark>>
      PROVE  NoBoundarySkipped'
  BY <1>0, <1>2 DEF NoBoundarySkipped, given
<1>3. CASE BoundaryPasses \/ \E k \in Runs : GetsOld(k)
  BY <1>0, <1>2, <1>3, TimeKeepsRows
<1>4. ASSUME NEW t \in Ticks, StartTick(t) \/ TickWork(t) \/ TickFault(t)
      PROVE  NoBoundarySkipped'
  <2>1. Runs \subseteq Runs' /\ dag' = dag
    BY <1>0, <1>4, TickKeepsRows, TickBoundaries
  <2>2. bookmark' # 0 => bookmark' \in Runs'
    BY <1>0, <1>4, <2>1, TickBoundaries DEF NoBoundarySkipped, BookmarksLinked
  <2>3. ASSUME dag.catchup, NEW k \in Runs', NEW i \in 1..k
        PROVE  i \in Runs'
    <3>1. CASE k \in Runs
      BY <1>0, <2>1, <2>3, <3>1 DEF NoBoundarySkipped
    <3>2. CASE k \notin Runs
      <4>1. k \in Missed(t) /\ Runs' = Runs \cup Missed(t)
        BY <1>0, <1>4, <2>3, <3>2, TickBoundaries
      <4>2. CASE i \in Missed(t)
        BY <4>1, <4>2
      <4>3. CASE i <= tick[t].bookmark
        <5>1. tick[t].bookmark \in Nat /\ i \in Nat /\ i >= 1
          <6>1. tick[t].bookmark \in 0..MaxTime /\ k \in Boundaries
            BY <1>0, <4>1, MissedType DEF TypeOK, TickState
          <6>2. QED
            BY <6>1, SchedulerBoundsAssumption DEF Boundaries
        <5>2. tick[t].bookmark \in Runs
          BY <1>0, <4>3, <5>1 DEF BookmarksLinked
        <5>3. i \in 1..tick[t].bookmark
          BY <4>3, <5>1
        <5>4. QED
          BY <1>0, <2>1, <2>3, <5>2, <5>3 DEF NoBoundarySkipped
      <4>4. QED
        BY <1>0, <2>3, <4>1, <4>2, <4>3, MissedType
    <3>3. QED
      BY <3>1, <3>2
  <2>4. QED
    BY <2>1, <2>2, <2>3 DEF NoBoundarySkipped
<1>5. ASSUME NEW w \in Workflows, WorkflowStep(w) \/ InitFails(w) \/ WorkflowDies(w)
      PROVE  NoBoundarySkipped'
  BY <1>0, <1>2, <1>5, WorkflowKeepsRows
<1>6. QED
  BY <1>1, <1>3, <1>4, <1>5 DEF Next

\* A tick creates a workflow only for the run it has claimed.
LEMMA TickWorkflows ==
  ASSUME TypeOK, NEW t \in Ticks, StartTick(t) \/ TickWork(t) \/ TickFault(t)
  PROVE  /\ faults' = faults
         /\ \/ wf' = wf
            \/ tick[t].pc = "start" /\ CreateWorkflow(tick[t].at)
<1> USE DEF given
<1>1. CASE StartTick(t)
  BY <1>1 DEF StartTick
<1>2. CASE SelectOrphans(t)
  BY <1>2 DEF SelectOrphans
<1>3. CASE CheckOrphan(t)
  BY <1>3 DEF CheckOrphan
<1>4. CASE MirrorRun(t)
  BY <1>4 DEF MirrorRun
<1>5. CASE MirrorTask(t)
  BY <1>5 DEF MirrorTask
<1>6. CASE Enqueue(t)
  BY <1>6 DEF Enqueue
<1>7. CASE SetBookmark(t)
  BY <1>7 DEF SetBookmark
<1>8. CASE CountRunning(t)
  BY <1>8 DEF CountRunning
<1>9. CASE PickQueued(t)
  BY <1>9 DEF PickQueued
<1>10. CASE Claim(t)
  BY <1>10 DEF Claim
<1>11. CASE EndTick(t)
  BY <1>11 DEF EndTick
<1>12. CASE StartWorkflow(t)
  BY <1>12 DEF StartWorkflow
<1>13. CASE StoreWorkflow(t)
  BY <1>13 DEF StoreWorkflow, StoreId
<1>14. CASE Rollback(t)
  BY <1>14 DEF Rollback
<1>15. CASE StartFails(t)
  BY <1>15 DEF StartFails
<1>16. CASE StoreFails(t)
  BY <1>16 DEF StoreFails, StoreId
<1>17. CASE ReconcileFails(t)
  BY <1>17 DEF ReconcileFails
<1>18. CASE TickDies(t)
  BY <1>18 DEF TickDies
<1>19. QED
  BY <1>1, <1>2, <1>3, <1>4, <1>5, <1>6, <1>7, <1>8, <1>9, <1>10, <1>11,
     <1>12, <1>13, <1>14, <1>15, <1>16, <1>17, <1>18
  DEF TickWork, TickFault

\* A new workflow is of its run, and the others stay.
LEMMA NewWorkflow ==
  ASSUME TypeOK, NEW k \in Boundaries, CreateWorkflow(k)
  PROVE  \E n \in Nat :
           /\ Workflows' = Workflows \cup {n}
           /\ wf'[n] = [run |-> k, pc |-> "started", verdict |-> "none"]
           /\ \A w \in Workflows : w # n => wf'[w] = wf[w]
<1>1. Cardinality(Workflows) + 1 \in Nat
  BY WorkflowCountType
<1>2. QED
  BY <1>1 DEF CreateWorkflow, Workflows

\* A tick that does not undo a claim puts no run back in the queue.
LEMMA TickStatuses ==
  ASSUME TypeOK, NEW t \in Ticks, StartTick(t) \/ TickWork(t) \/ TickFault(t),
         tick[t].pc # "rollback",
         NEW k \in Runs, run[k].status # "queued"
  PROVE  run'[k].status # "queued"
<1> USE DEF Runs, TypeOK
<1>a. tick[t].status # "queued"
  BY DEF TickState
<1>1. CASE StartTick(t)
  BY <1>1 DEF StartTick
<1>2. CASE SelectOrphans(t)
  BY <1>2 DEF SelectOrphans
<1>3. CASE CheckOrphan(t)
  BY <1>3 DEF CheckOrphan
<1>4. CASE MirrorRun(t)
  BY <1>4, <1>a DEF MirrorRun
<1>5. CASE MirrorTask(t)
  BY <1>5 DEF MirrorTask
<1>6. CASE Enqueue(t)
  BY <1>6 DEF Enqueue
<1>7. CASE SetBookmark(t)
  BY <1>7 DEF SetBookmark
<1>8. CASE CountRunning(t)
  BY <1>8 DEF CountRunning
<1>9. CASE PickQueued(t)
  BY <1>9 DEF PickQueued
<1>10. CASE Claim(t)
  BY <1>10 DEF Claim
<1>11. CASE EndTick(t)
  BY <1>11 DEF EndTick
<1>12. CASE StartWorkflow(t)
  BY <1>12 DEF StartWorkflow
<1>13. CASE StoreWorkflow(t)
  BY <1>13 DEF StoreWorkflow, StoreId
<1>14. CASE Rollback(t)
  BY <1>14 DEF Rollback
<1>15. CASE StartFails(t)
  BY <1>15 DEF StartFails
<1>16. CASE StoreFails(t)
  <2>1. CASE StoreId(t)
    BY <2>1 DEF StoreId
  <2>2. CASE UNCHANGED run
    BY <2>2
  <2>3. QED
    BY <1>16, <2>1, <2>2 DEF StoreFails
<1>17. CASE ReconcileFails(t)
  BY <1>17 DEF ReconcileFails
<1>18. CASE TickDies(t)
  BY <1>18 DEF TickDies
<1>19. QED
  BY <1>1, <1>2, <1>3, <1>4, <1>5, <1>6, <1>7, <1>8, <1>9, <1>10, <1>11,
     <1>12, <1>13, <1>14, <1>15, <1>16, <1>17, <1>18
  DEF TickWork, TickFault

\* A tick is about to start a workflow only when it has just claimed its run, and
\* about to undo a claim only when starts or stores fail.
LEMMA TickStarts ==
  ASSUME TypeOK, NEW t \in Ticks, StartTick(t) \/ TickWork(t) \/ TickFault(t),
         faults \cap {"start", "store"} = {}
  PROVE  /\ tick'[t].pc # "rollback"
         /\ tick'[t].pc = "start" =>
              /\ tick'[t].at \in Runs
              /\ run[tick'[t].at].status = "queued"
              /\ run'[tick'[t].at].status = "running"
<1> USE DEF IdleTick
<1>a. DOMAIN tick = Ticks /\ tick[t] \in TickState
  BY DEF TypeOK
<1>1. CASE StartTick(t)
  BY <1>1, <1>a DEF StartTick, TickState
<1>2. CASE SelectOrphans(t)
  BY <1>2, <1>a DEF SelectOrphans, TickState
<1>3. CASE CheckOrphan(t)
  <2>1. PICK x \in tick[t].todo :
          \/ tick' = [tick EXCEPT ![t] = [tick[t] EXCEPT !.todo = @ \ {x}]]
          \/ tick' = [tick EXCEPT ![t] = [[tick[t] EXCEPT !.todo = @ \ {x}]
                                            EXCEPT !.pc = "mirror", !.at = x[1],
                                                   !.status = wf[x[2]].pc]]
    BY <1>3 DEF CheckOrphan
  <2> DEFINE s == [tick[t] EXCEPT !.todo = @ \ {x}]
             u == [s EXCEPT !.pc = "mirror", !.at = x[1], !.status = wf[x[2]].pc]
  <2>2. s.pc = "reconcile" /\ u.pc = "mirror"
    BY <1>3, <1>a DEF CheckOrphan, TickState
  <2>3. tick'[t] \in {s, u}
    BY <1>a, <2>1
  <2> HIDE DEF s, u
  <2>4. QED
    BY <2>2, <2>3
<1>4. CASE MirrorRun(t)
  BY <1>4, <1>a DEF MirrorRun, TickState
<1>5. CASE MirrorTask(t)
  BY <1>5, <1>a DEF MirrorTask, TickState
<1>6. CASE Enqueue(t)
  <2>1. tick'[t] = [IdleTick EXCEPT !.pc = "count"]
        \/ \E latest \in Missed(t) :
             tick'[t] = [IdleTick EXCEPT !.pc = "bookmark", !.latest = latest]
    BY <1>6, <1>a DEF Enqueue
  <2>2. QED
    BY <2>1
<1>7. CASE SetBookmark(t)
  BY <1>7, <1>a DEF SetBookmark, TickState
<1>8. CASE CountRunning(t)
  BY <1>8, <1>a DEF CountRunning, TickState
<1>9. CASE PickQueued(t)
  BY <1>9, <1>a DEF PickQueued, TickState
<1>10. CASE Claim(t)
  BY <1>10, <1>a DEF Claim, TickState, Runs, TypeOK, RunRow
<1>11. CASE EndTick(t)
  BY <1>11, <1>a DEF EndTick, TickState
<1>12. CASE StartWorkflow(t)
  BY <1>12, <1>a DEF StartWorkflow, TickState
<1>13. CASE StoreWorkflow(t)
  BY <1>13, <1>a DEF StoreWorkflow, TickState
<1>14. CASE Rollback(t)
  BY <1>14, <1>a DEF Rollback, TickState
<1>15. CASE StartFails(t)
  BY <1>15, <1>a DEF StartFails, TickState
<1>16. CASE StoreFails(t)
  BY <1>16, <1>a DEF StoreFails, TickState
<1>17. CASE ReconcileFails(t)
  BY <1>17, <1>a DEF ReconcileFails, TickState
<1>18. CASE TickDies(t)
  BY <1>18, <1>a DEF TickDies, TickState
<1>19. QED
  BY <1>1, <1>2, <1>3, <1>4, <1>5, <1>6, <1>7, <1>8, <1>9, <1>10, <1>11,
     <1>12, <1>13, <1>14, <1>15, <1>16, <1>17, <1>18
  DEF TickWork, TickFault

\* A workflow puts no run back in the queue.
LEMMA WorkflowStatuses ==
  ASSUME TypeOK, NEW w \in Workflows,
         WorkflowStep(w) \/ InitFails(w) \/ WorkflowDies(w),
         NEW k \in Runs, run[k].status # "queued"
  PROVE  run'[k].status # "queued"
<1> USE DEF Runs, Workflows, TypeOK
<1>a. wf[w].verdict # "queued"
  BY DEF WfState
<1>1. CASE InitFails(w)
  BY <1>1 DEF InitFails
<1>2. CASE BeginTask(w)
  <2>1. UNCHANGED run \/ run' = [run EXCEPT ![wf[w].run].task = "running"]
    BY <1>2 DEF BeginTask
  <2>2. QED
    BY <2>1 DEF RunRow
<1>3. CASE EndTask(w)
  BY <1>3 DEF EndTask
<1>4. CASE MarkTerminal(w)
  <2>1. \/ UNCHANGED run
        \/ run' = [run EXCEPT ![wf[w].run].status = wf[w].verdict,
                              ![wf[w].run].old = FALSE]
    BY <1>4 DEF MarkTerminal
  <2>2. QED
    BY <1>a, <2>1 DEF RunRow
<1>5. CASE Complete(w)
  BY <1>5 DEF Complete
<1>6. CASE WorkflowDies(w)
  BY <1>6 DEF WorkflowDies
<1>7. QED
  BY <1>1, <1>2, <1>3, <1>4, <1>5, <1>6 DEF WorkflowStep

\* A workflow that is to write a verdict has one.
LEMMA VerdictStep ==
  ASSUME IInv, NEW w \in Workflows,
         WorkflowStep(w) \/ InitFails(w) \/ WorkflowDies(w)
  PROVE  \A v \in Workflows : wf'[v].pc = "verdict" => wf'[v].verdict # "none"
<1>0. /\ \A v \in Workflows : wf[v].pc = "verdict" => wf[v].verdict # "none"
      /\ wf \in [Workflows -> WfState]
  BY DEF IInv, WorkflowsLinked, TypeOK
<1> USE DEF WfState
<1>1. CASE InitFails(w)
  BY <1>0, <1>1 DEF InitFails
<1>2. CASE BeginTask(w)
  <2>1. \/ wf' = [wf EXCEPT ![w].pc = "task"]
        \/ /\ run[wf[w].run].task \in {"succeeded", "failed"}
           /\ wf' = [wf EXCEPT ![w].pc = "verdict", ![w].verdict = run[wf[w].run].task]
    BY <1>2 DEF BeginTask
  <2>2. QED
    BY <1>0, <2>1
<1>3. CASE EndTask(w)
  BY <1>0, <1>3 DEF EndTask
<1>4. CASE MarkTerminal(w)
  BY <1>0, <1>4 DEF MarkTerminal
<1>5. CASE Complete(w)
  BY <1>0, <1>5 DEF Complete
<1>6. CASE WorkflowDies(w)
  BY <1>0, <1>6 DEF WorkflowDies
<1>7. QED
  BY <1>1, <1>2, <1>3, <1>4, <1>5, <1>6 DEF WorkflowStep

\* The workflows keep to rows of the table.
LEMMA WorkflowsLinkedStep ==
  ASSUME IInv, TypeOK', [Next]_vars
  PROVE  WorkflowsLinked'
<1>0. TypeOK /\ TicksLinked /\ WorkflowsLinked
  BY DEF IInv
<1>1. CASE UNCHANGED vars
  BY <1>0, <1>1 DEF WorkflowsLinked, vars, Runs, Workflows
<1>2. CASE BoundaryPasses \/ \E k \in Runs : GetsOld(k)
  <2>1. Runs' = Runs /\ wf' = wf
    BY <1>0, <1>2, TimeKeepsRows
  <2>2. QED
    BY <1>0, <2>1 DEF WorkflowsLinked, Workflows
<1>3. ASSUME NEW t \in Ticks, StartTick(t) \/ TickWork(t) \/ TickFault(t)
      PROVE  WorkflowsLinked'
  <2>1. Runs \subseteq Runs'
    BY <1>0, <1>3, TickKeepsRows
  <2>2. CASE wf' = wf
    BY <1>0, <2>1, <2>2 DEF WorkflowsLinked, Workflows
  <2>3. CASE tick[t].pc = "start" /\ CreateWorkflow(tick[t].at)
    <3>1. tick[t].at \in Runs /\ tick[t].at \in Boundaries
      BY <1>0, <2>3 DEF TicksLinked, TypeOK
    <3>2. PICK n \in Nat :
            /\ Workflows' = Workflows \cup {n}
            /\ wf'[n] = [run |-> tick[t].at, pc |-> "started", verdict |-> "none"]
            /\ \A w \in Workflows : w # n => wf'[w] = wf[w]
      BY <1>0, <2>3, <3>1, NewWorkflow
    <3>3. QED
      BY <1>0, <2>1, <3>1, <3>2 DEF WorkflowsLinked
  <2>4. QED
    BY <1>0, <1>3, <2>2, <2>3, TickWorkflows
<1>4. ASSUME NEW w \in Workflows, WorkflowStep(w) \/ InitFails(w) \/ WorkflowDies(w)
      PROVE  WorkflowsLinked'
  <2>1. /\ Runs' = Runs /\ Workflows' = Workflows
        /\ \A v \in Workflows : wf'[v].run = wf[v].run
    BY <1>0, <1>4, WorkflowKeepsRows
  <2>2. \A v \in Workflows : wf'[v].pc = "verdict" => wf'[v].verdict # "none"
    BY <1>4, VerdictStep
  <2>3. QED
    BY <1>0, <2>1, <2>2 DEF WorkflowsLinked
<1>5. QED
  BY <1>1, <1>2, <1>3, <1>4 DEF Next

\* No step starts a run again, unless the start of one is retried.
LEMMA ClaimsStep ==
  ASSUME IInv, TypeOK', [Next]_vars
  PROVE  ClaimsHold' /\ StartedOnce'
<1>0. TypeOK /\ TicksLinked /\ WorkflowsLinked /\ ClaimsHold /\ StartedOnce
  BY DEF IInv
<1>1. CASE UNCHANGED vars
  BY <1>0, <1>1 DEF ClaimsHold, StartedOnce, vars, given, Workflows
<1>2. CASE BoundaryPasses \/ \E k \in Runs : GetsOld(k)
  <2>1. /\ \A k \in Runs : run'[k].status = run[k].status
        /\ UNCHANGED <<given, tick, wf>>
    BY <1>0, <1>2, TimeKeepsRows
  <2>2. ClaimsHold'
    BY <1>0, <2>1 DEF ClaimsHold, TicksLinked, WorkflowsLinked, given, Workflows
  <2>3. StartedOnce'
    BY <1>0, <2>1 DEF StartedOnce, given, Workflows
  <2>4. QED
    BY <2>2, <2>3
<1>3. ASSUME NEW t \in Ticks, StartTick(t) \/ TickWork(t) \/ TickFault(t)
      PROVE  ClaimsHold' /\ StartedOnce'
  <2>0. faults' = faults
    BY <1>0, <1>3, TickWorkflows
  <2> SUFFICES ASSUME faults \cap {"start", "store"} = {}
               PROVE  ClaimsHold' /\ StartedOnce'
    BY <2>0 DEF ClaimsHold, StartedOnce
  <2>1. \A u \in Ticks : u # t => tick'[u] = tick[u]
    BY <1>0, <1>3, OtherTicks
  <2>2. \A k \in Runs : run[k].status # "queued" => run'[k].status # "queued"
    BY <1>0, <1>3, TickStatuses DEF ClaimsHold
  <2>3. /\ tick'[t].pc # "rollback"
        /\ tick'[t].pc = "start" => /\ tick'[t].at \in Runs
                                    /\ run[tick'[t].at].status = "queued"
                                    /\ run'[tick'[t].at].status = "running"
    BY <1>0, <1>3, TickStarts
  <2>4. \/ wf' = wf
        \/ /\ tick[t].pc = "start" /\ tick'[t].pc # "start"
           /\ tick[t].at \in Runs
           /\ \E n \in Nat :
                /\ Workflows' = Workflows \cup {n}
                /\ wf'[n].run = tick[t].at
                /\ \A w \in Workflows : w # n => wf'[w] = wf[w]
    <3>1. CASE wf' = wf
      BY <3>1
    <3>2. CASE tick[t].pc = "start" /\ CreateWorkflow(tick[t].at)
      <4>1. tick[t].at \in Runs /\ tick[t].at \in Boundaries
        BY <1>0, <3>2 DEF TicksLinked, TypeOK
      <4>2. tick'[t].pc # "start"
        <5>1. StartWorkflow(t) \/ StartFails(t) \/ TickDies(t)
          BY <1>3, <3>2
          DEF TickWork, TickFault, StartTick, SelectOrphans, CheckOrphan, MirrorRun,
              MirrorTask, Enqueue, SetBookmark, CountRunning, PickQueued, Claim,
              EndTick, StoreWorkflow, Rollback, StoreFails, ReconcileFails
        <5>2. QED
          BY <1>0, <2>3, <5>1
          DEF StartWorkflow, StartFails, TickDies, IdleTick, TypeOK
      <4>3. PICK n \in Nat :
              /\ Workflows' = Workflows \cup {n}
              /\ wf'[n] = [run |-> tick[t].at, pc |-> "started", verdict |-> "none"]
              /\ \A w \in Workflows : w # n => wf'[w] = wf[w]
        BY <1>0, <3>2, <4>1, NewWorkflow
      <4>4. wf'[n].run = tick[t].at
        BY <4>3
      <4>5. QED
        BY <3>2, <4>1, <4>2, <4>3, <4>4
    <3>3. QED
      BY <1>0, <1>3, <3>1, <3>2, TickWorkflows
  <2>5. \A w \in Workflows : wf[w].run \in Runs /\ run[wf[w].run].status # "queued"
    BY <1>0 DEF ClaimsHold, WorkflowsLinked
  <2>6. \A w \in Workflows' :
          \/ w \in Workflows /\ wf'[w].run = wf[w].run
          \/ tick[t].pc = "start" /\ tick'[t].pc # "start" /\ wf'[w].run = tick[t].at
    BY <2>4 DEF Workflows
  <2>7. \A u \in Ticks : tick[u].pc = "start" =>
          /\ tick[u].at \in Runs
          /\ run[tick[u].at].status # "queued"
          /\ \A w \in Workflows : wf[w].run # tick[u].at
    BY <1>0 DEF ClaimsHold, TicksLinked
  <2>8. \A u \in Ticks : tick'[u].pc # "rollback"
    BY <1>0, <2>1, <2>3 DEF ClaimsHold
  <2>9. \A w \in Workflows' : run'[wf'[w].run].status # "queued"
    BY <2>2, <2>5, <2>6, <2>7
  <2>10. ASSUME NEW u \in Ticks, tick'[u].pc = "start"
         PROVE  /\ run'[tick'[u].at].status # "queued"
                /\ \A w \in Workflows' : wf'[w].run # tick'[u].at
    <3>1. CASE u = t
      BY <2>3, <2>5, <2>6, <2>10, <3>1
    <3>2. CASE u # t
      <4>1. tick'[u] = tick[u] /\ (tick[t].pc = "start" => tick[t].at # tick[u].at)
        BY <1>0, <2>1, <2>10, <3>2 DEF ClaimsHold
      <4>2. QED
        BY <2>2, <2>6, <2>7, <2>10, <4>1
    <3>3. QED
      BY <3>1, <3>2
  <2>11. ASSUME NEW u \in Ticks, NEW v \in Ticks, u # v,
                tick'[u].pc = "start", tick'[v].pc = "start"
         PROVE  tick'[u].at # tick'[v].at
    BY <1>0, <2>1, <2>3, <2>7, <2>11 DEF ClaimsHold
  <2>12. ClaimsHold'
    BY <2>8, <2>9, <2>10, <2>11 DEF ClaimsHold
  <2>13. StartedOnce'
    <3>1. CASE wf' = wf
      BY <1>0, <2>0, <3>1 DEF StartedOnce, Workflows
    <3>2. CASE wf' # wf
      <4>1. PICK n \in Nat :
              /\ tick[t].pc = "start"
              /\ Workflows' = Workflows \cup {n}
              /\ wf'[n].run = tick[t].at
              /\ \A w \in Workflows : w # n => wf'[w] = wf[w]
        BY <2>4, <3>2
      <4>2. QED
        BY <1>0, <2>7, <4>1 DEF StartedOnce
    <3>3. QED
      BY <3>1, <3>2
  <2>14. QED
    BY <2>12, <2>13
<1>4. ASSUME NEW w \in Workflows, WorkflowStep(w) \/ InitFails(w) \/ WorkflowDies(w)
      PROVE  ClaimsHold' /\ StartedOnce'
  <2>1. /\ Workflows' = Workflows
        /\ \A v \in Workflows : wf'[v].run = wf[v].run
        /\ UNCHANGED <<given, tick>>
    BY <1>0, <1>4, WorkflowKeepsRows
  <2>2. \A k \in Runs : run[k].status # "queued" => run'[k].status # "queued"
    BY <1>0, <1>4, WorkflowStatuses
  <2>3. ClaimsHold'
    BY <1>0, <2>1, <2>2 DEF ClaimsHold, TicksLinked, WorkflowsLinked, given
  <2>4. StartedOnce'
    BY <1>0, <2>1 DEF StartedOnce, given
  <2>5. QED
    BY <2>3, <2>4
<1>5. QED
  BY <1>1, <1>2, <1>3, <1>4 DEF Next

-----------------------------------------------------------------------------
(***************************************************************************)
(* The theorems.                                                           *)
(***************************************************************************)

\* The scheduler starts in the invariant.
LEMMA InitInvariant == Init => IInv
<1> SUFFICES ASSUME Init
             PROVE  IInv
  OBVIOUS
<1>1. Runs = {} /\ Workflows = {}
  BY DEF Init, Runs, Workflows
<1>2. TypeOK
  BY <1>1, IdleTickType, SchedulerBoundsAssumption DEF Init, TypeOK, Boundaries
<1>3. QED
  BY <1>1, <1>2
  DEF Init, IInv, TicksLinked, WorkflowsLinked, ClaimsHold, StartedOnce,
      BookmarksLinked, NoBoundarySkipped, IdleTick

\* The rows, the workflows and the ticks fit together in every reachable state.
THEOREM Invariance == Spec => []IInv
<1>1. ASSUME IInv, [Next]_vars
      PROVE  IInv'
  <2>1. TypeOK'
    BY <1>1, StepType
  <2>2. QED
    BY <1>1, <2>1, TicksLinkedStep, WorkflowsLinkedStep, ClaimsStep,
       NoBoundarySkippedStep
    DEF IInv
<1>2. QED
  BY InitInvariant, <1>1, PTL DEF Spec

\* The types of the scheduler's state (dag-scheduler.ts:132-226).
THEOREM TypeCorrect == Spec => []TypeOK
<1>1. IInv => TypeOK
  BY DEF IInv
<1>2. QED
  BY Invariance, <1>1, PTL

\* "overlapping ticks can't double-start a run" (dag-scheduler.ts:129-130): a run
\* has one workflow, however many ticks overlap, unless a start is retried.
THEOREM OneStart == Spec => []StartedOnce
<1>1. IInv => StartedOnce
  BY DEF IInv
<1>2. QED
  BY Invariance, <1>1, PTL

\* With catchup no boundary is skipped, and no bookmark gets ahead of the runs,
\* however late a tick stores the one it computed (dag-scheduler.ts:52, 118-122).
THEOREM NothingSkipped == Spec => []NoBoundarySkipped
<1>1. IInv => NoBoundarySkipped
  BY DEF IInv
<1>2. QED
  BY Invariance, <1>1, PTL

-----------------------------------------------------------------------------
(***************************************************************************)
(* Running rows: what a step does to them, and who holds them.             *)
(***************************************************************************)

\* The rows keep their status and their workflow, and new ones are queued.
SameRows ==
  /\ Runs \subseteq Runs'
  /\ \A k \in Runs : run'[k].status = run[k].status /\ run'[k].wf = run[k].wf
  /\ \A k \in Runs' \ Runs : run'[k].status = "queued" /\ run'[k].wf = 0

\* Row k gets the status s, and nothing else that counts changes.
StatusSet(k, s) ==
  /\ Runs' = Runs
  /\ run'[k].status = s
  /\ \A i \in Runs \ {k} : run'[i].status = run[i].status
  /\ \A i \in Runs : run'[i].wf = run[i].wf

\* A tick writes a status or a workflow in five ways only.
LEMMA TickRows ==
  ASSUME TypeOK, NEW t \in Ticks, StartTick(t) \/ TickWork(t) \/ TickFault(t)
  PROVE  \/ SameRows
         \/ MirrorRun(t) \/ Claim(t) \/ StoreWorkflow(t) \/ StoreFails(t)
         \/ Rollback(t)
<1> USE DEF SameRows, Runs
<1>1. CASE StartTick(t)
  BY <1>1 DEF StartTick
<1>2. CASE SelectOrphans(t)
  BY <1>2 DEF SelectOrphans
<1>3. CASE CheckOrphan(t)
  BY <1>3 DEF CheckOrphan
<1>4. CASE MirrorRun(t)
  BY <1>4
<1>5. CASE MirrorTask(t)
  BY <1>5 DEF MirrorTask, TypeOK, RunRow
<1>6. CASE Enqueue(t)
  <2>1. CASE UNCHANGED run
    BY <2>1
  <2>2. CASE run' = [k \in Runs \cup Missed(t) |->
                       IF k \in Runs THEN run[k] ELSE NewRow]
    <3>1. Runs' = Runs \cup Missed(t)
      BY <2>2
    <3>2. \A k \in Runs : run'[k] = run[k]
      BY <2>2
    <3>3. \A k \in Runs' \ Runs : run'[k] = NewRow
      BY <2>2
    <3>4. QED
      BY <3>1, <3>2, <3>3 DEF NewRow
  <2>3. QED
    BY <1>6, <2>1, <2>2 DEF Enqueue
<1>7. CASE SetBookmark(t)
  BY <1>7 DEF SetBookmark
<1>8. CASE CountRunning(t)
  BY <1>8 DEF CountRunning
<1>9. CASE PickQueued(t)
  BY <1>9 DEF PickQueued
<1>10. CASE Claim(t)
  BY <1>10
<1>11. CASE EndTick(t)
  BY <1>11 DEF EndTick
<1>12. CASE StartWorkflow(t)
  BY <1>12 DEF StartWorkflow
<1>13. CASE StoreWorkflow(t)
  BY <1>13
<1>14. CASE Rollback(t)
  BY <1>14
<1>15. CASE StartFails(t)
  BY <1>15 DEF StartFails
<1>16. CASE StoreFails(t)
  BY <1>16
<1>17. CASE ReconcileFails(t)
  BY <1>17 DEF ReconcileFails
<1>18. CASE TickDies(t)
  BY <1>18 DEF TickDies
<1>19. QED
  BY <1>1, <1>2, <1>3, <1>4, <1>5, <1>6, <1>7, <1>8, <1>9, <1>10, <1>11, <1>12, <1>13, <1>14, <1>15, <1>16, <1>17, <1>18
  DEF TickWork, TickFault

\* Setting the status of a row.
LEMMA StatusUpdate ==
  ASSUME TypeOK, NEW k \in Runs, NEW s,
         run' = [run EXCEPT ![k].status = s, ![k].old = FALSE]
  PROVE  StatusSet(k, s)
<1> DEFINE one == [run EXCEPT ![k].status = s]
<1>1. /\ DOMAIN one = Runs
      /\ one[k] = [run[k] EXCEPT !.status = s]
      /\ \A i \in Runs \ {k} : one[i] = run[i]
  BY DEF TypeOK
<1>2. /\ one[k].status = s /\ one[k].wf = run[k].wf
      /\ DOMAIN one[k] = DOMAIN run[k]
  BY <1>1 DEF TypeOK, RunRow
<1>3. run' = [one EXCEPT ![k].old = FALSE]
  OBVIOUS
<1> HIDE DEF one
<1>4. /\ DOMAIN run' = Runs
      /\ run'[k].status = one[k].status /\ run'[k].wf = one[k].wf
      /\ \A i \in Runs \ {k} : run'[i] = one[i]
  BY <1>1, <1>2, <1>3 DEF TypeOK, RunRow
<1>5. QED
  BY <1>1, <1>2, <1>4 DEF StatusSet, Runs

\* What the five do.
LEMMA MirrorRows ==
  ASSUME TypeOK, TicksLinked, NEW t \in Ticks, MirrorRun(t)
  PROVE  StatusSet(tick[t].at, tick[t].status) /\ tick[t].at \in Runs
<1>1. tick[t].at \in Runs
  BY DEF MirrorRun, TicksLinked
<1>2. QED
  BY <1>1 DEF MirrorRun, TypeOK, RunRow, StatusSet, Runs

LEMMA RollbackRows ==
  ASSUME TypeOK, TicksLinked, NEW t \in Ticks, Rollback(t)
  PROVE  StatusSet(tick[t].at, "queued") /\ tick[t].at \in Runs
<1>1. tick[t].at \in Runs
  BY DEF Rollback, TicksLinked
<1>2. QED
  BY <1>1 DEF Rollback, TypeOK, RunRow, StatusSet, Runs

LEMMA ClaimRows ==
  ASSUME TypeOK, NEW t \in Ticks, Claim(t)
  PROVE  \E k \in Runs :
           /\ IsNext(t, k)
           /\ tick'[t].queue = tick[t].queue \ {k}
           /\ \/ /\ run[k].status = "queued" /\ StatusSet(k, "running")
                 /\ tick'[t].pc = "start" /\ tick'[t].at = k
              \/ /\ run[k].status # "queued" /\ run' = run
                 /\ tick'[t].pc = "claim"
<1>0. DOMAIN tick = Ticks /\ tick[t] \in TickState
  BY DEF TypeOK
<1>1. PICK k \in Runs :
        /\ IsNext(t, k)
        /\ IF run[k].status = "queued"
           THEN /\ run' = [run EXCEPT ![k].status = "running", ![k].old = FALSE]
                /\ tick' = [tick EXCEPT ![t].pc = "start", ![t].at = k,
                                        ![t].queue = @ \ {k}]
           ELSE /\ tick' = [tick EXCEPT ![t].queue = @ \ {k}]
                /\ UNCHANGED run
  BY DEF Claim
<1>2. CASE run[k].status = "queued"
  <2>1. StatusSet(k, "running")
    BY <1>1, <1>2, StatusUpdate
  <2>2. /\ tick'[t].queue = tick[t].queue \ {k}
        /\ tick'[t].pc = "start" /\ tick'[t].at = k
    BY <1>0, <1>1, <1>2 DEF TickState
  <2>3. QED
    BY <1>1, <1>2, <2>1, <2>2
<1>3. CASE run[k].status # "queued"
  <2>1. tick'[t].queue = tick[t].queue \ {k} /\ tick'[t].pc = "claim"
    BY <1>0, <1>1, <1>3 DEF TickState, Claim
  <2>2. QED
    BY <1>1, <1>3, <2>1
<1>4. QED
  BY <1>2, <1>3

LEMMA StoreRows ==
  ASSUME TypeOK, TicksLinked, NEW t \in Ticks, StoreWorkflow(t) \/ StoreFails(t)
  PROVE  /\ Runs' = Runs /\ tick[t].at \in Runs /\ tick[t].pc = "store"
         /\ \A k \in Runs : run'[k].status = run[k].status
         /\ \A k \in Runs \ {tick[t].at} : run'[k].wf = run[k].wf
         /\ run'[tick[t].at].wf \in {run[tick[t].at].wf, tick[t].child}
         /\ StoreWorkflow(t) => run'[tick[t].at].wf = tick[t].child
<1>1. tick[t].at \in Runs /\ tick[t].pc = "store"
  BY DEF StoreWorkflow, StoreFails, TicksLinked
<1>2. CASE StoreId(t)
  BY <1>1, <1>2 DEF StoreId, TypeOK, RunRow, Runs
<1>3. CASE UNCHANGED run /\ ~StoreId(t)
  BY <1>1, <1>3 DEF StoreWorkflow, Runs
<1>4. QED
  BY <1>2, <1>3 DEF StoreWorkflow, StoreFails

\* How a tick comes to hold a run, and how it lets go of it.
LEMMA TickHolds ==
  ASSUME TypeOK, NEW t \in Ticks, StartTick(t) \/ TickWork(t) \/ TickFault(t)
  PROVE  /\ tick'[t].pc = "start" => Claim(t)
         /\ tick'[t].pc = "store" => StartWorkflow(t)
         /\ tick'[t].pc = "rollback" => StartFails(t) \/ StoreFails(t)
         /\ tick'[t].pc = "mirror" => CheckOrphan(t)
         /\ Holding(t) => \/ Holding(t)' /\ tick'[t].at = tick[t].at
                          \/ StoreWorkflow(t) \/ Rollback(t) \/ TickDies(t)
<1> USE DEF Holding
<1>0. DOMAIN tick = Ticks /\ tick[t] \in TickState
  BY DEF TypeOK
<1>1. CASE StartTick(t)
  BY <1>0, <1>1 DEF StartTick, IdleTick, TickState
<1>2. CASE SelectOrphans(t)
  BY <1>0, <1>2 DEF SelectOrphans, IdleTick, TickState
<1>3. CASE CheckOrphan(t)
  <2> DEFINE rest(x) == [tick[t] EXCEPT !.todo = @ \ {x}]
  <2>1. tick[t].pc = "reconcile" /\ ~Holding(t)
    BY <1>3 DEF CheckOrphan
  <2>2. \E x \in tick[t].todo :
          tick'[t] \in {rest(x), [rest(x) EXCEPT !.pc = "mirror", !.at = x[1],
                                                !.status = wf[x[2]].pc]}
    BY <1>0, <1>3 DEF CheckOrphan
  <2>3. tick'[t].pc \in {"reconcile", "mirror"}
    BY <1>0, <2>1, <2>2 DEF TickState
  <2>4. QED
    BY <1>3, <2>1, <2>3
<1>4. CASE MirrorRun(t)
  BY <1>0, <1>4 DEF MirrorRun, IdleTick, TickState
<1>5. CASE MirrorTask(t)
  BY <1>0, <1>5 DEF MirrorTask, IdleTick, TickState
<1>6. CASE Enqueue(t)
  <2>1. tick[t].pc = "reconcile" /\ ~Holding(t)
    BY <1>6 DEF Enqueue
  <2>2. \/ tick'[t] = [IdleTick EXCEPT !.pc = "count"]
        \/ \E latest \in Missed(t) :
             tick'[t] = [IdleTick EXCEPT !.pc = "bookmark", !.latest = latest]
    BY <1>0, <1>6 DEF Enqueue
  <2>3. tick'[t].pc \in {"count", "bookmark"}
    BY <2>2 DEF IdleTick
  <2>4. QED
    BY <2>1, <2>3
<1>7. CASE SetBookmark(t)
  BY <1>0, <1>7 DEF SetBookmark, IdleTick, TickState
<1>8. CASE CountRunning(t)
  BY <1>0, <1>8 DEF CountRunning, IdleTick, TickState
<1>9. CASE PickQueued(t)
  BY <1>0, <1>9 DEF PickQueued, IdleTick, TickState
<1>10. CASE Claim(t)
  <2>1. tick[t].pc = "claim" /\ tick'[t].pc \in {"claim", "start"}
    BY <1>0, <1>10, ClaimRows DEF Claim
  <2>2. QED
    BY <1>10, <2>1
<1>11. CASE EndTick(t)
  BY <1>0, <1>11 DEF EndTick, IdleTick, TickState
<1>12. CASE StartWorkflow(t)
  BY <1>0, <1>12 DEF StartWorkflow, IdleTick, TickState
<1>13. CASE StoreWorkflow(t)
  BY <1>0, <1>13 DEF StoreWorkflow, TickState
<1>14. CASE Rollback(t)
  BY <1>0, <1>14 DEF Rollback, IdleTick, TickState
<1>15. CASE StartFails(t)
  BY <1>0, <1>15 DEF StartFails, IdleTick, TickState
<1>16. CASE StoreFails(t)
  BY <1>0, <1>16 DEF StoreFails, IdleTick, TickState
<1>17. CASE ReconcileFails(t)
  BY <1>0, <1>17 DEF ReconcileFails, IdleTick, TickState
<1>18. CASE TickDies(t)
  BY <1>0, <1>18 DEF TickDies, IdleTick, TickState
<1>19. QED
  BY <1>1, <1>2, <1>3, <1>4, <1>5, <1>6, <1>7, <1>8, <1>9, <1>10, <1>11, <1>12, <1>13, <1>14, <1>15, <1>16, <1>17, <1>18
  DEF TickWork, TickFault

\* A tick that holds a run has held it before, or has just claimed it.
LEMMA NewHolder ==
  ASSUME TypeOK, NEW t \in Ticks, StartTick(t) \/ TickWork(t) \/ TickFault(t),
         Holding(t)'
  PROVE  \/ Holding(t) /\ tick'[t].at = tick[t].at
         \/ /\ Claim(t) /\ tick'[t].pc = "start" /\ tick'[t].at \in Runs
            /\ run[tick'[t].at].status = "queued"
            /\ StatusSet(tick'[t].at, "running")
<1>0. DOMAIN tick = Ticks /\ tick[t] \in TickState
  BY DEF TypeOK
<1>1. CASE tick'[t].pc = "start"
  BY <1>1, TickHolds, ClaimRows
<1>2. CASE tick'[t].pc = "store"
  <2>1. StartWorkflow(t)
    BY <1>2, TickHolds
  <2>2. QED
    BY <1>0, <2>1 DEF StartWorkflow, TickState, Holding
<1>3. CASE tick'[t].pc = "rollback"
  <2>1. StartFails(t) \/ StoreFails(t)
    BY <1>3, TickHolds
  <2>2. QED
    BY <1>0, <2>1 DEF StartFails, StoreFails, TickState, Holding
<1>4. QED
  BY <1>1, <1>2, <1>3 DEF Holding

\* Only the tick that undoes its claim puts a row back in the queue.
LEMMA QueuedAgain ==
  ASSUME TypeOK, TicksLinked, NEW t \in Ticks,
         StartTick(t) \/ TickWork(t) \/ TickFault(t),
         NEW k \in Runs, run[k].status # "queued", run'[k].status = "queued"
  PROVE  Rollback(t) /\ k = tick[t].at
<1>1. tick[t].pc = "rollback"
  BY TickStatuses
<1>2. Rollback(t)
  BY <1>1, TickRows
  DEF SameRows, MirrorRun, Claim, StoreWorkflow, StoreFails
<1>3. StatusSet(tick[t].at, "queued")
  BY <1>2, RollbackRows
<1>4. QED
  BY <1>2, <1>3 DEF StatusSet

\* A tick sets no row running except by a claim, after which it holds it.
LEMMA NewRunning ==
  ASSUME TypeOK, TicksLinked, NEW t \in Ticks,
         StartTick(t) \/ TickWork(t) \/ TickFault(t),
         NEW k \in Runs', run'[k].status = "running"
  PROVE  /\ k \in Runs
         /\ \/ run[k].status = "running"
            \/ /\ Claim(t) /\ run[k].status = "queued"
               /\ tick'[t].pc = "start" /\ tick'[t].at = k
<1>1. CASE SameRows
  BY <1>1 DEF SameRows
<1>2. CASE MirrorRun(t)
  <2>1. tick[t].status # "running"
    BY DEF TypeOK, TickState
  <2>2. StatusSet(tick[t].at, tick[t].status)
    BY <1>2, MirrorRows
  <2>3. QED
    BY <2>1, <2>2 DEF StatusSet
<1>3. CASE Claim(t)
  <2>1. PICK i \in Runs :
          \/ /\ run[i].status = "queued" /\ StatusSet(i, "running")
             /\ tick'[t].pc = "start" /\ tick'[t].at = i
          \/ run' = run
    BY <1>3, ClaimRows
  <2>2. CASE run' = run
    BY <2>2 DEF Runs
  <2>3. CASE /\ run[i].status = "queued" /\ StatusSet(i, "running")
             /\ tick'[t].pc = "start" /\ tick'[t].at = i
    BY <1>3, <2>3 DEF StatusSet
  <2>4. QED
    BY <2>1, <2>2, <2>3
<1>4. CASE StoreWorkflow(t) \/ StoreFails(t)
  BY <1>4, StoreRows
<1>5. CASE Rollback(t)
  <2>1. StatusSet(tick[t].at, "queued")
    BY <1>5, RollbackRows
  <2>2. QED
    BY <2>1 DEF StatusSet
<1>6. QED
  BY <1>1, <1>2, <1>3, <1>4, <1>5, TickRows

\* A row keeps its workflow, unless a tick stores the one it started.
LEMMA NewId ==
  ASSUME TypeOK, TicksLinked, NEW t \in Ticks,
         StartTick(t) \/ TickWork(t) \/ TickFault(t),
         NEW k \in Runs'
  PROVE  \/ k \notin Runs /\ run'[k].wf = 0
         \/ k \in Runs /\ run'[k].wf = run[k].wf
         \/ /\ k \in Runs /\ tick[t].pc = "store"
            /\ k = tick[t].at /\ run'[k].wf = tick[t].child
<1>1. CASE SameRows
  BY <1>1 DEF SameRows
<1>2. CASE MirrorRun(t)
  BY <1>2, MirrorRows DEF StatusSet
<1>3. CASE Claim(t)
  <2>1. run' = run \/ \E i \in Runs : StatusSet(i, "running")
    BY <1>3, ClaimRows
  <2>2. QED
    BY <2>1 DEF StatusSet, Runs
<1>4. CASE StoreWorkflow(t) \/ StoreFails(t)
  BY <1>4, StoreRows
<1>5. CASE Rollback(t)
  BY <1>5, RollbackRows DEF StatusSet
<1>6. QED
  BY <1>1, <1>2, <1>3, <1>4, <1>5, TickRows

\* What a workflow does to the rows and to itself.
LEMMA WorkflowRows ==
  ASSUME TypeOK, WorkflowsLinked, NEW w \in Workflows,
         WorkflowStep(w) \/ InitFails(w) \/ WorkflowDies(w)
  PROVE  /\ Runs' = Runs
         /\ \A k \in Runs : run'[k].wf = run[k].wf
         /\ \A k \in Runs :
              \/ run'[k].status = run[k].status
              \/ /\ MarkTerminal(w) /\ k = wf[w].run
                 /\ run[k].status \notin Terminal
                 /\ run'[k].status \in {"succeeded", "failed"}
         /\ \A v \in Workflows \ {w} : wf'[v] = wf[v]
         /\ wf'[w].pc \in {"marked", "completed"} =>
              wf[w].pc = "marked" \/ run'[wf[w].run].status # "running"
<1> USE DEF Runs, Terminal
<1>0. /\ wf[w].run \in Runs /\ DOMAIN wf = Workflows /\ wf[w] \in WfState
      /\ run \in [Runs -> RunRow]
  BY DEF TypeOK, WorkflowsLinked
<1>1. CASE InitFails(w)
  BY <1>0, <1>1 DEF InitFails, WfState
<1>2. CASE BeginTask(w)
  <2>1. UNCHANGED run \/ run' = [run EXCEPT ![wf[w].run].task = "running"]
    BY <1>2 DEF BeginTask
  <2>2. \/ wf' = [wf EXCEPT ![w].pc = "task"]
        \/ wf' = [wf EXCEPT ![w].pc = "verdict", ![w].verdict = run[wf[w].run].task]
    BY <1>2 DEF BeginTask
  <2>3. /\ wf'[w].pc \notin {"marked", "completed"}
        /\ \A v \in Workflows \ {w} : wf'[v] = wf[v]
    BY <1>0, <2>2 DEF WfState
  <2>4. /\ DOMAIN run' = DOMAIN run
        /\ \A k \in Runs : run'[k].wf = run[k].wf /\ run'[k].status = run[k].status
    BY <1>0, <2>1 DEF RunRow
  <2>5. QED
    BY <2>3, <2>4
<1>3. CASE EndTask(w)
  <2>1. PICK verdict \in {"succeeded", "failed"} :
          /\ wf' = [wf EXCEPT ![w].pc = "verdict", ![w].verdict = verdict]
          /\ run' = [run EXCEPT ![wf[w].run].task = verdict]
    BY <1>3 DEF EndTask
  <2>2. /\ wf'[w].pc \notin {"marked", "completed"}
        /\ \A v \in Workflows \ {w} : wf'[v] = wf[v]
    BY <1>0, <2>1 DEF WfState
  <2>3. /\ DOMAIN run' = DOMAIN run
        /\ \A k \in Runs : run'[k].wf = run[k].wf /\ run'[k].status = run[k].status
    BY <1>0, <2>1 DEF RunRow
  <2>4. QED
    BY <2>2, <2>3
<1>4. CASE MarkTerminal(w)
  <2>1. wf[w].verdict \in {"succeeded", "failed"}
    BY <1>0, <1>4 DEF MarkTerminal, WorkflowsLinked, WfState
  <2>2. \A v \in Workflows \ {w} : wf'[v] = wf[v]
    BY <1>0, <1>4 DEF MarkTerminal
  <2>3. CASE run[wf[w].run].status \in Terminal
    BY <1>4, <2>2, <2>3 DEF MarkTerminal
  <2>4. CASE run[wf[w].run].status \notin Terminal
    <3>1. run' = [run EXCEPT ![wf[w].run].status = wf[w].verdict,
                             ![wf[w].run].old = FALSE]
      BY <1>4, <2>4 DEF MarkTerminal
    <3>2. StatusSet(wf[w].run, wf[w].verdict)
      BY <1>0, <3>1, StatusUpdate
    <3>3. QED
      BY <1>0, <1>4, <2>1, <2>2, <2>4, <3>2 DEF StatusSet
  <2>5. QED
    BY <2>3, <2>4
<1>5. CASE Complete(w)
  BY <1>0, <1>5 DEF Complete
<1>6. CASE WorkflowDies(w)
  BY <1>0, <1>6 DEF WorkflowDies, WfState
<1>7. QED
  BY <1>1, <1>2, <1>3, <1>4, <1>5, <1>6 DEF WorkflowStep

\* Time changes no workflow of a row.
LEMMA TimeRows ==
  ASSUME TypeOK, BoundaryPasses \/ \E k \in Runs : GetsOld(k)
  PROVE  SameRows /\ Runs' = Runs
<1>1. CASE BoundaryPasses
  BY <1>1 DEF BoundaryPasses, SameRows, Runs
<1>2. CASE \E k \in Runs : GetsOld(k)
  BY <1>2 DEF GetsOld, SameRows, Runs, TypeOK, RunRow
<1>3. QED
  BY <1>1, <1>2

\* A claim has one holder, and nobody puts the row back meanwhile.
LEMMA ClaimsHeldStep ==
  ASSUME DriveInv, TypeOK', [Next]_vars
  PROVE  ClaimsHeld'
<1>0. /\ TypeOK /\ TicksLinked /\ WorkflowsLinked /\ ClaimsHeld
      /\ \A t \in Ticks : Holding(t) => tick[t].at \in Runs
  BY DEF DriveInv, IInv, TicksLinked, Holding
<1>1. CASE UNCHANGED vars
  BY <1>0, <1>1 DEF ClaimsHeld, Holding, vars
<1>2. CASE BoundaryPasses \/ \E k \in Runs : GetsOld(k)
  <2>1. SameRows /\ tick' = tick
    BY <1>0, <1>2, TimeRows, TimeKeepsRows
  <2>2. QED
    BY <1>0, <2>1 DEF ClaimsHeld, Holding, SameRows
<1>3. ASSUME NEW t \in Ticks, StartTick(t) \/ TickWork(t) \/ TickFault(t)
      PROVE  ClaimsHeld'
  <2>1. \A u \in Ticks : u # t => tick'[u] = tick[u]
    BY <1>0, <1>3, OtherTicks
  <2>2. Holding(t)' =>
          \/ Holding(t) /\ tick'[t].at = tick[t].at
          \/ /\ tick'[t].at \in Runs /\ run[tick'[t].at].status = "queued"
             /\ run'[tick'[t].at].status = "running"
    BY <1>0, <1>3, NewHolder DEF StatusSet
  <2>3. \A k \in Runs : run[k].status # "queued" /\ run'[k].status = "queued" =>
          Rollback(t) /\ k = tick[t].at
    BY <1>0, <1>3, QueuedAgain
  <2>4. Rollback(t) => Holding(t) /\ tick'[t].pc = "claim"
    BY <1>0 DEF Rollback, Holding, TypeOK, TickState
  <2>5. ASSUME NEW u \in Ticks, Holding(u)'
        PROVE  run'[tick'[u].at].status # "queued"
    <3>1. CASE u = t
      BY <1>0, <2>2, <2>3, <2>4, <2>5, <3>1 DEF ClaimsHeld, Holding
    <3>2. CASE u # t
      <4>1. Holding(u) /\ tick'[u].at = tick[u].at
        BY <2>1, <2>5, <3>2 DEF Holding
      <4>2. QED
        BY <1>0, <2>3, <2>4, <3>2, <4>1 DEF ClaimsHeld
    <3>3. QED
      BY <3>1, <3>2
  <2>6. ASSUME NEW u \in Ticks, u # t, Holding(u)', Holding(t)'
        PROVE  tick'[u].at # tick'[t].at
    <3>1. Holding(u) /\ tick'[u].at = tick[u].at
      BY <2>1, <2>6 DEF Holding
    <3>2. QED
      BY <1>0, <2>2, <2>6, <3>1 DEF ClaimsHeld
  <2>7. ASSUME NEW u \in Ticks, NEW v \in Ticks, Holding(u)', Holding(v)',
               tick'[u].at = tick'[v].at
        PROVE  u = v
    <3>1. CASE u = t \/ v = t
      BY <2>6, <2>7, <3>1
    <3>2. CASE u # t /\ v # t
      <4>1. Holding(u) /\ Holding(v) /\ tick[u].at = tick[v].at
        BY <2>1, <2>7, <3>2 DEF Holding
      <4>2. QED
        BY <1>0, <4>1 DEF ClaimsHeld
    <3>3. QED
      BY <3>1, <3>2
  <2>8. QED
    BY <2>5, <2>7 DEF ClaimsHeld
<1>4. ASSUME NEW w \in Workflows, WorkflowStep(w) \/ InitFails(w) \/ WorkflowDies(w)
      PROVE  ClaimsHeld'
  <2>1. tick' = tick
    BY <1>0, <1>4, WorkflowKeepsRows
  <2>2. \A k \in Runs : run[k].status # "queued" => run'[k].status # "queued"
    BY <1>0, <1>4, WorkflowStatuses
  <2>3. QED
    BY <1>0, <2>1, <2>2 DEF ClaimsHeld, Holding
<1>5. QED
  BY <1>1, <1>2, <1>3, <1>4 DEF Next

\* A new workflow takes the next number, and the others stay.
LEMMA NextWorkflow ==
  ASSUME TypeOK, NEW n \in 0..MaxWorkflows, Workflows = 1..n,
         NEW k \in Boundaries, CreateWorkflow(k)
  PROVE  /\ n + 1 \in 1..MaxWorkflows /\ Cardinality(Workflows) + 1 = n + 1
         /\ Workflows' = 1..(n + 1)
         /\ wf'[n + 1] = [run |-> k, pc |-> "started", verdict |-> "none"]
         /\ \A w \in Workflows : wf'[w] = wf[w]
<1>0. MaxWorkflows \in Nat /\ n \in Nat
  BY SchedulerBoundsAssumption
<1>1. Cardinality(Workflows) = n
  BY <1>0, FS_Interval
<1>2. 1..(n + 1) = 1..n \cup {n + 1}
  BY <1>0
<1>3. n + 1 <= MaxWorkflows
  BY <1>1 DEF CreateWorkflow
<1>4. wf' = [i \in 1..n \cup {n + 1} |->
               IF i = n + 1 THEN [run |-> k, pc |-> "started", verdict |-> "none"]
               ELSE wf[i]]
  BY <1>1 DEF CreateWorkflow
<1>5. Workflows' = 1..(n + 1)
  BY <1>2, <1>4 DEF Workflows
<1>6. \A w \in 1..n : w # n + 1
  BY <1>0
<1>7. QED
  BY <1>0, <1>1, <1>3, <1>4, <1>5, <1>6

\* A tick changes no workflow, and creates one only for the run it has claimed.
LEMMA TickNumbers ==
  ASSUME TypeOK, TicksLinked, IdsLinked, NEW t \in Ticks,
         StartTick(t) \/ TickWork(t) \/ TickFault(t)
  PROVE  /\ \E n \in 0..MaxWorkflows : Workflows' = 1..n
         /\ Workflows \subseteq Workflows'
         /\ \A w \in Workflows : wf'[w] = wf[w]
         /\ \A w \in Workflows' \ Workflows :
              /\ w = Cardinality(Workflows) + 1
              /\ wf'[w].run = tick[t].at /\ wf'[w].pc = "started"
              /\ tick[t].pc = "start"
<1>1. PICK n \in 0..MaxWorkflows : Workflows = 1..n
  BY DEF IdsLinked
<1>2. CASE wf' = wf
  BY <1>1, <1>2 DEF Workflows
<1>3. CASE tick[t].pc = "start" /\ CreateWorkflow(tick[t].at)
  <2>1. tick[t].at \in Boundaries
    BY <1>3 DEF TicksLinked, TypeOK
  <2>2. /\ n + 1 \in 1..MaxWorkflows /\ Cardinality(Workflows) + 1 = n + 1
        /\ Workflows' = 1..(n + 1)
        /\ wf'[n + 1] = [run |-> tick[t].at, pc |-> "started", verdict |-> "none"]
        /\ \A w \in Workflows : wf'[w] = wf[w]
    BY <1>1, <1>3, <2>1, NextWorkflow
  <2>3. n \in Nat /\ MaxWorkflows \in Nat
    BY SchedulerBoundsAssumption
  <2>4. n + 1 \in 0..MaxWorkflows /\ 1..n \subseteq 1..(n + 1)
    BY <2>2, <2>3
  <2>5. \A w \in 1..(n + 1) : w \notin 1..n => w = n + 1
    BY <2>3
  <2>6. QED
    BY <1>1, <1>3, <2>2, <2>4, <2>5
<1>4. QED
  BY <1>2, <1>3, TickWorkflows

\* Rows and ticks keep to workflows of their own run.
LEMMA IdsLinkedStep ==
  ASSUME DriveInv, TypeOK', [Next]_vars
  PROVE  IdsLinked'
<1>0. /\ TypeOK /\ TicksLinked /\ WorkflowsLinked /\ ClaimsHeld /\ IdsLinked
      /\ \A t \in Ticks : Holding(t) => tick[t].at \in Runs
  BY DEF DriveInv, IInv, TicksLinked, Holding
<1>1. CASE UNCHANGED vars
  BY <1>0, <1>1 DEF IdsLinked, vars, Runs, Workflows
<1>2. CASE BoundaryPasses \/ \E k \in Runs : GetsOld(k)
  <2>1. SameRows /\ Runs' = Runs /\ tick' = tick /\ wf' = wf
    BY <1>0, <1>2, TimeRows, TimeKeepsRows
  <2>2. QED
    BY <1>0, <2>1 DEF IdsLinked, SameRows, Workflows, Holding
<1>3. ASSUME NEW t \in Ticks, StartTick(t) \/ TickWork(t) \/ TickFault(t)
      PROVE  IdsLinked'
  <2>1. \A u \in Ticks : u # t => tick'[u] = tick[u]
    BY <1>0, <1>3, OtherTicks
  <2>2. /\ \E n \in 0..MaxWorkflows : Workflows' = 1..n
        /\ Workflows \subseteq Workflows'
        /\ \A w \in Workflows : wf'[w] = wf[w]
        /\ \A w \in Workflows' \ Workflows :
             /\ w = Cardinality(Workflows) + 1
             /\ wf'[w].run = tick[t].at /\ wf'[w].pc = "started"
             /\ tick[t].pc = "start"
    BY <1>0, <1>3, TickNumbers
  <2>3. ASSUME NEW k \in Runs', run'[k].wf # 0
        PROVE  run'[k].wf \in Workflows' /\ wf'[run'[k].wf].run = k
    <3>1. \/ k \in Runs /\ run'[k].wf = run[k].wf
          \/ tick[t].pc = "store" /\ k = tick[t].at /\ run'[k].wf = tick[t].child
      BY <1>0, <1>3, <2>3, NewId
    <3>2. QED
      BY <1>0, <2>2, <2>3, <3>1 DEF IdsLinked
  <2>4. ASSUME NEW u \in Ticks, tick'[u].pc = "store"
        PROVE  /\ tick'[u].child \in Workflows'
               /\ wf'[tick'[u].child].run = tick'[u].at
               /\ wf'[tick'[u].child].pc \in {"marked", "completed"} =>
                    run'[tick'[u].at].status # "running"
    <3>1. CASE u = t
      <4>1. StartWorkflow(t)
        BY <1>3, <2>4, <3>1, <1>0, TickHolds
      <4>2. /\ tick[t].pc = "start" /\ CreateWorkflow(tick[t].at)
            /\ tick'[t].child = Cardinality(Workflows) + 1 /\ tick'[t].at = tick[t].at
        BY <1>0, <4>1 DEF StartWorkflow, TypeOK, TickState
      <4>3. PICK n \in 0..MaxWorkflows : Workflows = 1..n
        BY <1>0 DEF IdsLinked
      <4>4. tick[t].at \in Boundaries
        BY <1>0, <4>2 DEF TicksLinked, TypeOK
      <4>5. /\ n + 1 \in 1..MaxWorkflows /\ tick'[t].child = n + 1
            /\ Workflows' = 1..(n + 1)
            /\ wf'[n + 1] = [run |-> tick[t].at, pc |-> "started", verdict |-> "none"]
        BY <1>0, <4>2, <4>3, <4>4, NextWorkflow
      <4>6. n + 1 \in 1..(n + 1)
        BY SchedulerBoundsAssumption
      <4>7. QED
        BY <3>1, <4>2, <4>5, <4>6
    <3>2. CASE u # t
      <4>1. tick'[u] = tick[u] /\ tick[u].pc = "store"
        BY <2>1, <2>4, <3>2
      <4>2. /\ tick[u].child \in Workflows /\ wf[tick[u].child].run = tick[u].at
            /\ wf[tick[u].child].pc \in {"marked", "completed"} =>
                 run[tick[u].at].status # "running"
        BY <1>0, <4>1 DEF IdsLinked
      <4>3. tick[u].at \in Runs /\ run[tick[u].at].status # "queued"
        BY <1>0, <4>1 DEF ClaimsHeld, Holding
      <4>4. tick[u].at \in Runs'
        BY <1>0, <1>3, <4>3, TickKeepsRows
      <4>5. run'[tick[u].at].status = "running" => run[tick[u].at].status = "running"
        BY <1>0, <1>3, <4>3, <4>4, NewRunning
      <4>6. QED
        BY <2>2, <4>1, <4>2, <4>5
    <3>3. QED
      BY <3>1, <3>2
  <2>5. QED
    BY <2>2, <2>3, <2>4 DEF IdsLinked
<1>4. ASSUME NEW w \in Workflows, WorkflowStep(w) \/ InitFails(w) \/ WorkflowDies(w)
      PROVE  IdsLinked'
  <2>1. /\ Workflows' = Workflows /\ tick' = tick
        /\ \A v \in Workflows : wf'[v].run = wf[v].run
    BY <1>0, <1>4, WorkflowKeepsRows
  <2>2. /\ Runs' = Runs
        /\ \A k \in Runs : run'[k].wf = run[k].wf
        /\ \A k \in Runs : run'[k].status = "running" => run[k].status = "running"
        /\ \A v \in Workflows \ {w} : wf'[v] = wf[v]
        /\ wf'[w].pc \in {"marked", "completed"} =>
             wf[w].pc = "marked" \/ run'[wf[w].run].status # "running"
    BY <1>0, <1>4, WorkflowRows
  <2>3. ASSUME NEW t \in Ticks, tick[t].pc = "store",
               wf'[tick[t].child].pc \in {"marked", "completed"}
        PROVE  run'[tick[t].at].status # "running"
    <3>1. /\ tick[t].child \in Workflows /\ wf[tick[t].child].run = tick[t].at
          /\ tick[t].at \in Runs
          /\ wf[tick[t].child].pc \in {"marked", "completed"} =>
               run[tick[t].at].status # "running"
      BY <1>0, <2>3 DEF IdsLinked, Holding
    <3>2. QED
      BY <2>2, <2>3, <3>1
  <2>4. QED
    BY <1>0, <2>1, <2>2, <2>3 DEF IdsLinked
<1>5. QED
  BY <1>1, <1>2, <1>3, <1>4 DEF Next

\* No step leaves a running row to nobody.
LEMMA RunningIsHeldStep ==
  ASSUME DriveInv, TypeOK', [Next]_vars
  PROVE  RunningIsHeld'
<1>0. /\ TypeOK /\ TicksLinked /\ WorkflowsLinked /\ ClaimsHeld /\ IdsLinked
      /\ RunningIsHeld
  BY DEF DriveInv, IInv
<1>1. CASE UNCHANGED vars
  BY <1>0, <1>1
  DEF RunningIsHeld, vars, given, RunsIn, RunsWith, Runs, Holding
<1>2. CASE BoundaryPasses \/ \E k \in Runs : GetsOld(k)
  <2>1. SameRows /\ Runs' = Runs /\ UNCHANGED <<given, tick, wf>>
    BY <1>0, <1>2, TimeRows, TimeKeepsRows
  <2>2. QED
    BY <1>0, <2>1
    DEF RunningIsHeld, SameRows, given, RunsIn, RunsWith, Holding
<1>3. ASSUME NEW t \in Ticks, StartTick(t) \/ TickWork(t) \/ TickFault(t),
             "tick" \notin faults,
             NEW k \in Runs', run'[k].status = "running"
      PROVE  \/ \E u \in Ticks : Holding(u)' /\ tick'[u].at = k
             \/ run'[k].wf # 0 /\ wf'[run'[k].wf].pc \notin {"marked", "completed"}
  <2>1. \A u \in Ticks : u # t => tick'[u] = tick[u]
    BY <1>0, <1>3, OtherTicks
  <2>2. \A w \in Workflows : wf'[w] = wf[w]
    BY <1>0, <1>3, TickNumbers
  <2>3. /\ k \in Runs
        /\ \/ run[k].status = "running"
           \/ tick'[t].pc = "start" /\ tick'[t].at = k
    BY <1>0, <1>3, NewRunning
  <2>4. CASE tick'[t].pc = "start" /\ tick'[t].at = k
    BY <2>4 DEF Holding
  <2>5. CASE \E u \in Ticks : Holding(u) /\ tick[u].at = k
    <3>1. PICK u \in Ticks : Holding(u) /\ tick[u].at = k
      BY <2>5
    <3>2. CASE u # t
      <4>1. Holding(u)' /\ tick'[u].at = k
        BY <2>1, <3>1, <3>2 DEF Holding
      <4>2. QED
        BY <4>1
    <3>3. CASE u = t
      <4>1. \/ Holding(t)' /\ tick'[t].at = tick[t].at
            \/ StoreWorkflow(t) \/ Rollback(t) \/ TickDies(t)
        BY <1>0, <1>3, <3>1, <3>3, TickHolds
      <4>2. CASE Holding(t)' /\ tick'[t].at = tick[t].at
        BY <3>1, <3>3, <4>2
      <4>3. CASE StoreWorkflow(t)
        <5>1. /\ tick[t].pc = "store" /\ run'[k].wf = tick[t].child
              /\ run'[k].status = run[k].status
          BY <1>0, <2>3, <3>1, <3>3, <4>3, StoreRows
        <5>2. /\ tick[t].child \in Workflows /\ tick[t].child # 0
              /\ wf[tick[t].child].pc \notin {"marked", "completed"}
          <6>1. 0 \notin Workflows
            BY <1>0 DEF IdsLinked
          <6>2. QED
            BY <1>0, <1>3, <3>1, <3>3, <5>1, <6>1 DEF IdsLinked
        <5>3. QED
          BY <2>2, <5>1, <5>2
      <4>4. CASE Rollback(t)
        BY <1>0, <1>3, <3>1, <3>3, <4>4, RollbackRows DEF StatusSet
      <4>5. CASE TickDies(t)
        BY <1>3, <4>5 DEF TickDies
      <4>6. QED
        BY <4>1, <4>2, <4>3, <4>4, <4>5
    <3>4. QED
      BY <3>2, <3>3
  <2>6. CASE /\ run[k].status = "running"
             /\ ~\E u \in Ticks : Holding(u) /\ tick[u].at = k
    <3>1. run[k].wf # 0 /\ wf[run[k].wf].pc \notin {"marked", "completed"}
      BY <1>0, <1>3, <2>3, <2>6 DEF RunningIsHeld, RunsIn, RunsWith
    <3>2. run'[k].wf = run[k].wf
      BY <1>0, <1>3, <2>3, <2>6, NewId DEF Holding
    <3>3. run[k].wf \in Workflows
      BY <1>0, <2>3, <3>1 DEF IdsLinked
    <3>4. QED
      BY <2>2, <3>1, <3>2, <3>3
  <2>7. QED
    BY <2>3, <2>4, <2>5, <2>6
<1>4. ASSUME NEW w \in Workflows, WorkflowStep(w) \/ InitFails(w) \/ WorkflowDies(w),
             "tick" \notin faults,
             NEW k \in Runs', run'[k].status = "running"
      PROVE  \/ \E u \in Ticks : Holding(u)' /\ tick'[u].at = k
             \/ run'[k].wf # 0 /\ wf'[run'[k].wf].pc \notin {"marked", "completed"}
  <2>1. tick' = tick
    BY <1>0, <1>4, WorkflowKeepsRows
  <2>2. /\ k \in Runs /\ run'[k].wf = run[k].wf /\ run[k].status = "running"
        /\ \A v \in Workflows \ {w} : wf'[v] = wf[v]
        /\ wf'[w].pc \in {"marked", "completed"} =>
             wf[w].pc = "marked" \/ run'[wf[w].run].status # "running"
    BY <1>0, <1>4, WorkflowRows
  <2>3. \/ \E u \in Ticks : Holding(u) /\ tick[u].at = k
        \/ run[k].wf # 0 /\ wf[run[k].wf].pc \notin {"marked", "completed"}
    BY <1>0, <1>4, <2>2 DEF RunningIsHeld, RunsIn, RunsWith
  <2>4. CASE \E u \in Ticks : Holding(u) /\ tick[u].at = k
    BY <2>1, <2>4 DEF Holding
  <2>5. CASE run[k].wf # 0 /\ wf[run[k].wf].pc \notin {"marked", "completed"}
    <3>1. run[k].wf \in Workflows /\ wf[run[k].wf].run = k
      BY <1>0, <2>2, <2>5 DEF IdsLinked
    <3>2. QED
      BY <1>4, <2>2, <2>5, <3>1
  <2>6. QED
    BY <2>3, <2>4, <2>5
<1>5. faults' = faults
  BY <1>0, <1>1, <1>2, TickWorkflows, WorkflowKeepsRows, TimeKeepsRows
  DEF Next, vars, given
<1>6. QED
  BY <1>1, <1>2, <1>3, <1>4, <1>5 DEF Next, RunningIsHeld, RunsIn, RunsWith

-----------------------------------------------------------------------------
(***************************************************************************)
(* The limit on running rows.                                              *)
(***************************************************************************)

\* What is counted can be counted.
LEMMA PendingType ==
  ASSUME TypeOK
  PROVE  /\ \A t \in Ticks : IsFiniteSet(tick[t].queue) /\ Pending(t) \in Nat
         /\ IsFiniteSet(RunsIn("running")) /\ IsFiniteSet(Reserved)
         /\ dag.maxActiveRuns \in Nat \ {0}
         /\ IsFiniteSet(Ticks \X (1..dag.maxActiveRuns))
<1>1. dag.maxActiveRuns \in Nat \ {0}
  BY DagsAssumption DEF TypeOK
<1>2. IsFiniteSet(Boundaries) /\ IsFiniteSet(1..dag.maxActiveRuns)
  BY <1>1, SchedulerBoundsAssumption, FS_Interval DEF Boundaries
<1>3. ASSUME NEW t \in Ticks
      PROVE  IsFiniteSet(tick[t].queue) /\ Pending(t) \in Nat
  <2>1. tick[t].queue \in SUBSET Boundaries /\ tick[t].slots \in Nat
    BY DEF TypeOK, TickState
  <2>2. IsFiniteSet(tick[t].queue)
    BY <1>2, <2>1, FS_Subset
  <2>3. Cardinality(tick[t].queue) \in Nat
    BY <2>2, FS_CardinalityType
  <2>4. QED
    BY <2>1, <2>2, <2>3 DEF Pending
<1>4. RunsIn("running") \in SUBSET Boundaries
  BY DEF RunsIn, RunsWith, TypeOK
<1>5. IsFiniteSet(RunsIn("running"))
  BY <1>2, <1>4, FS_Subset
<1>6. IsFiniteSet(Ticks \X (1..dag.maxActiveRuns))
  BY <1>2, TicksAssumption, FS_Product
<1>7. Reserved \in SUBSET (Ticks \X (1..dag.maxActiveRuns))
  BY DEF Reserved
<1>8. IsFiniteSet(Reserved)
  BY <1>6, <1>7, FS_Subset
<1>9. QED
  BY <1>1, <1>3, <1>5, <1>6, <1>8

\* Only a count of the running rows adds to what a tick may still claim, and a
\* claim takes one from it.
LEMMA TickPending ==
  ASSUME TypeOK, NEW t \in Ticks, StartTick(t) \/ TickWork(t) \/ TickFault(t)
  PROVE  \/ Pending(t)' <= Pending(t) /\ ~Claim(t)
         \/ Claim(t) /\ Pending(t)' = Pending(t) - 1 /\ Pending(t) >= 1
         \/ /\ CountRunning(t)
            /\ Pending(t)' = dag.maxActiveRuns - Cardinality(RunsIn("running"))
            /\ Pending(t)' > 0
<1>0. DOMAIN tick = Ticks /\ tick[t] \in TickState
  BY DEF TypeOK
<1>a. /\ IsFiniteSet(tick[t].queue) /\ Pending(t) \in Nat
      /\ Cardinality(tick[t].queue) \in Nat /\ tick[t].slots \in Nat
  BY <1>0, PendingType, FS_CardinalityType DEF TickState
<1>b. Pending(t)' = tick'[t].slots + Cardinality(tick'[t].queue)
  BY DEF Pending
<1>c. ASSUME tick'[t].slots = tick[t].slots, tick'[t].queue = tick[t].queue
      PROVE  Pending(t)' <= Pending(t)
  BY <1>a, <1>b, <1>c DEF Pending
<1>d. ASSUME tick'[t].slots = 0, tick'[t].queue = {}
      PROVE  Pending(t)' <= Pending(t)
  BY <1>a, <1>b, <1>d, FS_EmptySet
<1>e. CASE Claim(t)
  <2>1. PICK k \in Runs : k \in tick[t].queue /\ tick'[t].queue = tick[t].queue \ {k}
    BY <1>e, ClaimRows DEF IsNext
  <2>2. tick'[t].slots = tick[t].slots
    BY <1>0, <1>e DEF Claim, TickState
  <2>3. Cardinality(tick'[t].queue) = Cardinality(tick[t].queue) - 1
    BY ZenonT(40), <1>a, <2>1, FS_RemoveElement
  <2>4. Cardinality(tick[t].queue) >= 1
    <3>1. Cardinality(tick[t].queue) # 0
      BY <1>a, <2>1, FS_EmptySet
    <3>2. QED
      BY <1>a, <3>1
  <2>5. QED
    BY <1>a, <1>b, <1>e, <2>2, <2>3, <2>4 DEF Pending
<1>f. CASE ~Claim(t)
  <2>1. CASE StartTick(t)
    <3>1. tick'[t].slots = 0 /\ tick'[t].queue = {}
      BY <1>0, <2>1 DEF StartTick, IdleTick
    <3>2. QED
      BY <1>d, <1>f, <3>1
  <2>2. CASE SelectOrphans(t)
    <3>1. tick'[t].slots = tick[t].slots /\ tick'[t].queue = tick[t].queue
      BY <1>0, <2>2 DEF SelectOrphans, TickState
    <3>2. QED
      BY <1>c, <1>f, <3>1
  <2>3. CASE CheckOrphan(t)
    <3> DEFINE rest(x) == [tick[t] EXCEPT !.todo = @ \ {x}]
    <3>1. \E x \in tick[t].todo :
            tick'[t] \in {rest(x), [rest(x) EXCEPT !.pc = "mirror", !.at = x[1],
                                                  !.status = wf[x[2]].pc]}
      BY <1>0, <2>3 DEF CheckOrphan
    <3>2. tick'[t].slots = tick[t].slots /\ tick'[t].queue = tick[t].queue
      BY <1>0, <3>1 DEF TickState
    <3>3. QED
      BY <1>c, <1>f, <3>2
  <2>4. CASE MirrorRun(t)
    <3>1. tick'[t].slots = tick[t].slots /\ tick'[t].queue = tick[t].queue
      BY <1>0, <2>4 DEF MirrorRun, TickState
    <3>2. QED
      BY <1>c, <1>f, <3>1
  <2>5. CASE MirrorTask(t)
    <3>1. tick'[t].slots = tick[t].slots /\ tick'[t].queue = tick[t].queue
      BY <1>0, <2>5 DEF MirrorTask, TickState
    <3>2. QED
      BY <1>c, <1>f, <3>1
  <2>6. CASE Enqueue(t)
    <3>1. \/ tick'[t] = [IdleTick EXCEPT !.pc = "count"]
          \/ \E latest \in Missed(t) :
               tick'[t] = [IdleTick EXCEPT !.pc = "bookmark", !.latest = latest]
      BY <1>0, <2>6 DEF Enqueue
    <3>2. tick'[t].slots = 0 /\ tick'[t].queue = {}
      BY <3>1 DEF IdleTick
    <3>3. QED
      BY <1>d, <1>f, <3>2
  <2>7. CASE SetBookmark(t)
    <3>1. tick'[t].slots = tick[t].slots /\ tick'[t].queue = tick[t].queue
      BY <1>0, <2>7 DEF SetBookmark, TickState
    <3>2. QED
      BY <1>c, <1>f, <3>1
  <2>8. CASE CountRunning(t)
    <3> DEFINE active == Cardinality(RunsIn("running"))
    <3>0. active \in Nat /\ dag.maxActiveRuns \in Nat
      BY CountType, PendingType
    <3>1. CASE active >= dag.maxActiveRuns
      <4>1. tick'[t] = IdleTick
        BY <1>0, <2>8, <3>1 DEF CountRunning
      <4>2. QED
        BY <1>d, <1>f, <4>1 DEF IdleTick
    <3>2. CASE ~(active >= dag.maxActiveRuns)
      <4>1. tick'[t] = [IdleTick EXCEPT !.pc = "pick",
                                        !.slots = dag.maxActiveRuns - active]
        BY <1>0, <2>8, <3>2 DEF CountRunning
      <4>2. tick'[t].slots = dag.maxActiveRuns - active /\ tick'[t].queue = {}
        BY <4>1 DEF IdleTick
      <4>3. Pending(t)' = dag.maxActiveRuns - active
        BY <1>b, <3>0, <4>2, FS_EmptySet
      <4>4. QED
        BY <2>8, <3>0, <3>2, <4>3
    <3>3. QED
      BY <3>1, <3>2
  <2>9. CASE PickQueued(t)
    <3>1. PICK queue \in SUBSET RunsIn("queued") :
            /\ Cardinality(queue) <= tick[t].slots
            /\ tick' = [tick EXCEPT ![t].pc = "claim", ![t].queue = queue,
                                    ![t].slots = 0]
      BY <2>9 DEF PickQueued
    <3>2. tick'[t].queue = queue /\ tick'[t].slots = 0
      BY <1>0, <3>1 DEF TickState
    <3>3. Cardinality(queue) \in Nat
      <4>1. IsFiniteSet(Boundaries)
        BY SchedulerBoundsAssumption, FS_Interval DEF Boundaries
      <4>2. queue \in SUBSET Boundaries
        BY DEF RunsIn, RunsWith, TypeOK
      <4>3. QED
        BY <4>1, <4>2, FS_Subset, FS_CardinalityType
    <3>4. QED
      BY <1>a, <1>b, <1>f, <3>1, <3>2, <3>3 DEF Pending
  <2>10. CASE EndTick(t)
    <3>1. tick'[t].slots = 0 /\ tick'[t].queue = {}
      BY <1>0, <2>10 DEF EndTick, IdleTick
    <3>2. QED
      BY <1>d, <1>f, <3>1
  <2>11. CASE StartWorkflow(t)
    <3>1. tick'[t].slots = tick[t].slots /\ tick'[t].queue = tick[t].queue
      BY <1>0, <2>11 DEF StartWorkflow, TickState
    <3>2. QED
      BY <1>c, <1>f, <3>1
  <2>12. CASE StoreWorkflow(t)
    <3>1. tick'[t].slots = tick[t].slots /\ tick'[t].queue = tick[t].queue
      BY <1>0, <2>12 DEF StoreWorkflow, TickState
    <3>2. QED
      BY <1>c, <1>f, <3>1
  <2>13. CASE Rollback(t)
    <3>1. tick'[t].slots = tick[t].slots /\ tick'[t].queue = tick[t].queue
      BY <1>0, <2>13 DEF Rollback, TickState
    <3>2. QED
      BY <1>c, <1>f, <3>1
  <2>14. CASE StartFails(t)
    <3>1. tick'[t].slots = tick[t].slots /\ tick'[t].queue = tick[t].queue
      BY <1>0, <2>14 DEF StartFails, TickState
    <3>2. QED
      BY <1>c, <1>f, <3>1
  <2>15. CASE StoreFails(t)
    <3>1. tick'[t].slots = tick[t].slots /\ tick'[t].queue = tick[t].queue
      BY <1>0, <2>15 DEF StoreFails, TickState
    <3>2. QED
      BY <1>c, <1>f, <3>1
  <2>16. CASE ReconcileFails(t)
    <3>1. tick'[t].slots = 0 /\ tick'[t].queue = {}
      BY <1>0, <2>16 DEF ReconcileFails, IdleTick
    <3>2. QED
      BY <1>d, <1>f, <3>1
  <2>17. CASE TickDies(t)
    <3>1. tick'[t].slots = 0 /\ tick'[t].queue = {}
      BY <1>0, <2>17 DEF TickDies, IdleTick
    <3>2. QED
      BY <1>d, <1>f, <3>1
  <2>18. QED
    BY <1>f, <2>1, <2>2, <2>3, <2>4, <2>5, <2>6, <2>7, <2>8, <2>9,
       <2>10, <2>11, <2>12, <2>13, <2>14, <2>15, <2>16, <2>17
    DEF TickWork, TickFault
<1>g. QED
  BY <1>e, <1>f

\* A tick claims a number of runs in the next state, too.
LEMMA PendingNext ==
  ASSUME TypeOK'
  PROVE  \A t \in Ticks : Pending(t)' \in Nat
<1> SUFFICES ASSUME NEW t \in Ticks
             PROVE  Pending(t)' \in Nat
  OBVIOUS
<1>1. tick'[t].queue \in SUBSET Boundaries /\ tick'[t].slots \in Nat
  BY DEF TypeOK, TickState
<1>2. IsFiniteSet(Boundaries)
  BY SchedulerBoundsAssumption, FS_Interval DEF Boundaries
<1>3. Cardinality(tick'[t].queue) \in Nat
  BY <1>1, <1>2, FS_Subset, FS_CardinalityType
<1>4. QED
  BY <1>1, <1>3 DEF Pending

\* Neither more rows run nor may ticks claim more: the sum has not grown.
LEMMA FewerReserved ==
  ASSUME TypeOK, TypeOK', ActiveIsReserved, dag' = dag,
         RunsIn("running")' \subseteq RunsIn("running"),
         \A t \in Ticks : Pending(t)' <= Pending(t)
  PROVE  ActiveIsReserved'
<1>0. /\ \A t \in Ticks : Pending(t) \in Nat /\ Pending(t)' \in Nat
      /\ IsFiniteSet(RunsIn("running")) /\ IsFiniteSet(Reserved)
      /\ dag.maxActiveRuns \in Nat
  BY PendingType, PendingNext
<1>1. Reserved' \in SUBSET Reserved
  BY <1>0 DEF Reserved
<1>2. /\ Cardinality(Reserved') <= Cardinality(Reserved)
      /\ Cardinality(Reserved) \in Nat /\ Cardinality(Reserved') \in Nat
  BY <1>0, <1>1, FS_Subset, FS_CardinalityType
<1>3. /\ Cardinality(RunsIn("running")') <= Cardinality(RunsIn("running"))
      /\ Cardinality(RunsIn("running")) \in Nat
      /\ Cardinality(RunsIn("running")') \in Nat
  BY <1>0, FS_Subset, FS_CardinalityType
<1>4. Cardinality(Ticks) \in Nat
  BY TicksAssumption, FS_CardinalityType
<1> DEFINE limit == Cardinality(Ticks) * dag.maxActiveRuns
<1>5. limit \in Int /\ limit' = limit
  BY <1>0, <1>4
<1>6. Cardinality(RunsIn("running")) + Cardinality(Reserved) <= limit
  BY DEF ActiveIsReserved
<1> HIDE DEF limit
<1>7. Cardinality(RunsIn("running")') + Cardinality(Reserved') <= limit'
  BY <1>2, <1>3, <1>5, <1>6
<1>8. \A t \in Ticks : Pending(t)' <= dag'.maxActiveRuns
  BY <1>0 DEF ActiveIsReserved
<1>9. QED
  BY <1>7, <1>8 DEF ActiveIsReserved, limit

\* A claim turns what a tick may still claim into a row that runs.
LEMMA ClaimReserved ==
  ASSUME TypeOK, TypeOK', ActiveIsReserved, dag' = dag, NEW t \in Ticks, NEW k,
         RunsIn("running")' \subseteq RunsIn("running") \cup {k},
         Pending(t)' = Pending(t) - 1, Pending(t) >= 1,
         \A u \in Ticks : u # t => Pending(u)' = Pending(u)
  PROVE  ActiveIsReserved'
<1>0. /\ \A u \in Ticks : Pending(u) \in Nat /\ Pending(u)' \in Nat
      /\ IsFiniteSet(RunsIn("running")) /\ IsFiniteSet(Reserved)
      /\ dag.maxActiveRuns \in Nat
  BY PendingType, PendingNext
<1> DEFINE x == <<t, Pending(t)>>
<1>1. x \in Reserved
  BY <1>0 DEF Reserved, ActiveIsReserved
<1>2. ASSUME NEW y \in Reserved'
      PROVE  y \in Reserved \ {x}
  <2>1. /\ y \in Ticks \X (1..dag.maxActiveRuns)
        /\ y[2] <= Pending(y[1])'
    BY <1>2 DEF Reserved
  <2>2. y[1] \in Ticks /\ y[2] \in Nat /\ y = <<y[1], y[2]>>
    BY <1>0, <2>1
  <2>3. CASE y[1] = t
    BY <1>0, <2>1, <2>2, <2>3 DEF Reserved
  <2>4. CASE y[1] # t
    <3>1. y[2] <= Pending(y[1])
      BY <2>1, <2>2, <2>4
    <3>2. QED
      BY <2>1, <2>2, <2>4, <3>1 DEF Reserved
  <2>5. QED
    BY <2>3, <2>4
<1>3. /\ IsFiniteSet(Reserved \ {x})
      /\ Cardinality(Reserved \ {x}) = Cardinality(Reserved) - 1
  BY <1>0, <1>1, FS_RemoveElement
<1>4. /\ Cardinality(Reserved') <= Cardinality(Reserved) - 1
      /\ Cardinality(Reserved) \in Nat /\ Cardinality(Reserved') \in Nat
  <2>1. Reserved' \in SUBSET (Reserved \ {x})
    BY <1>2
  <2>2. QED
    BY <1>0, <1>3, <2>1, FS_Subset, FS_CardinalityType
<1>5. /\ IsFiniteSet(RunsIn("running") \cup {k})
      /\ Cardinality(RunsIn("running") \cup {k}) <= Cardinality(RunsIn("running")) + 1
      /\ Cardinality(RunsIn("running")) \in Nat
      /\ Cardinality(RunsIn("running") \cup {k}) \in Nat
  <2> DEFINE S == RunsIn("running")
  <2>1. IsFiniteSet(S) /\ Cardinality(S) \in Nat
    BY <1>0, FS_CardinalityType
  <2> HIDE DEF S
  <2>2. /\ IsFiniteSet(S \cup {k})
        /\ Cardinality(S \cup {k}) = IF k \in S THEN Cardinality(S) ELSE Cardinality(S) + 1
    BY <2>1, FS_AddElement
  <2>3. QED
    BY <2>1, <2>2 DEF S
<1>6. /\ Cardinality(RunsIn("running")') <= Cardinality(RunsIn("running")) + 1
      /\ Cardinality(RunsIn("running")') \in Nat
  BY <1>5, FS_Subset, FS_CardinalityType
<1>7. Cardinality(Ticks) \in Nat
  BY TicksAssumption, FS_CardinalityType
<1> DEFINE limit == Cardinality(Ticks) * dag.maxActiveRuns
<1>8. limit \in Int /\ limit' = limit
  BY <1>0, <1>7
<1>9. Cardinality(RunsIn("running")) + Cardinality(Reserved) <= limit
  BY DEF ActiveIsReserved
<1> HIDE DEF limit, x
<1>10. Cardinality(RunsIn("running")') + Cardinality(Reserved') <= limit'
  BY <1>4, <1>5, <1>6, <1>8, <1>9
<1>11. \A u \in Ticks : Pending(u)' <= dag'.maxActiveRuns
  BY <1>0 DEF ActiveIsReserved
<1>12. QED
  BY <1>10, <1>11 DEF ActiveIsReserved, limit

\* The other ticks have their limits, and the one that counts takes what the
\* running rows leave of its own.
LEMMA CountReserved ==
  ASSUME TypeOK, TypeOK', ActiveIsReserved, dag' = dag, NEW t \in Ticks,
         RunsIn("running")' = RunsIn("running"),
         Pending(t)' = dag.maxActiveRuns - Cardinality(RunsIn("running")),
         \A u \in Ticks : u # t => Pending(u)' = Pending(u)
  PROVE  ActiveIsReserved'
<1> DEFINE M == dag.maxActiveRuns
           active == Cardinality(RunsIn("running"))
           others == (Ticks \ {t}) \X (1..M)
           own == {t} \X (1..(M - active))
<1>0. /\ \A u \in Ticks : Pending(u) \in Nat /\ Pending(u)' \in Nat
      /\ M \in Nat /\ active \in Nat
  BY PendingType, PendingNext, CountType
<1>1. /\ Cardinality(Ticks) \in Nat
      /\ IsFiniteSet(Ticks \ {t}) /\ Cardinality(Ticks \ {t}) = Cardinality(Ticks) - 1
  BY TicksAssumption, FS_CardinalityType, FS_RemoveElement
<1>2. M - active \in Nat
  BY <1>0
<1>3. /\ IsFiniteSet(1..M) /\ Cardinality(1..M) = M
      /\ IsFiniteSet(1..(M - active)) /\ Cardinality(1..(M - active)) = M - active
  <2>1. ASSUME NEW n \in Nat
        PROVE  IsFiniteSet(1..n) /\ Cardinality(1..n) = n
    BY FS_Interval
  <2> HIDE DEF M, active
  <2>2. QED
    BY <1>0, <1>2, <2>1
<1>4. /\ IsFiniteSet(others)
      /\ Cardinality(others) = (Cardinality(Ticks) - 1) * M
  <2> HIDE DEF M
  <2>1. /\ IsFiniteSet(others)
        /\ Cardinality(others) = Cardinality(Ticks \ {t}) * Cardinality(1..M)
    BY <1>1, <1>3, FS_Product
  <2>2. QED
    BY <1>1, <1>3, <2>1
<1>5. /\ IsFiniteSet(own)
      /\ Cardinality(own) = 1 * (M - active)
  <2> HIDE DEF M, active
  <2>1. IsFiniteSet({t}) /\ Cardinality({t}) = 1
    BY FS_Singleton
  <2>2. /\ IsFiniteSet(own)
        /\ Cardinality(own) = Cardinality({t}) * Cardinality(1..(M - active))
    BY <1>3, <2>1, FS_Product
  <2>3. QED
    BY <1>3, <2>1, <2>2
<1>6. ASSUME NEW y \in Reserved'
      PROVE  y \in others \cup own
  <2>1. /\ y \in Ticks \X (1..M)
        /\ y[2] <= Pending(y[1])'
    BY <1>6 DEF Reserved
  <2>2. CASE y[1] = t
    BY <1>0, <1>2, <2>1, <2>2
  <2>3. CASE y[1] # t
    BY <2>1, <2>3
  <2>4. QED
    BY <2>2, <2>3
<1>7. /\ IsFiniteSet(others \cup own)
      /\ Cardinality(others \cup own) <= Cardinality(others) + Cardinality(own)
  <2>1. /\ IsFiniteSet(others \cup own)
        /\ Cardinality(others \cup own)
             = Cardinality(others) + Cardinality(own) - Cardinality(others \cap own)
    BY <1>4, <1>5, FS_Union
  <2>2. others \cap own \in SUBSET others
    OBVIOUS
  <2>3. Cardinality(others \cap own) \in Nat
    BY <1>4, <2>2, FS_Subset, FS_CardinalityType
  <2>4. Cardinality(others) \in Nat /\ Cardinality(own) \in Nat
    BY <1>4, <1>5, FS_CardinalityType
  <2>5. QED
    BY <2>1, <2>3, <2>4
<1>8. /\ Cardinality(Reserved') <= Cardinality(others \cup own)
      /\ Cardinality(Reserved') \in Nat /\ Cardinality(others \cup own) \in Nat
  <2>1. Reserved' \in SUBSET (others \cup own)
    BY <1>6
  <2>2. QED
    BY <1>7, <2>1, FS_Subset, FS_CardinalityType
<1>9. (Cardinality(Ticks) - 1) * M + M = Cardinality(Ticks) * M
  <2>1. ASSUME NEW n \in Nat, NEW m \in Nat
        PROVE  (n - 1) * m + m = n * m
    OBVIOUS
  <2> HIDE DEF M
  <2>2. QED
    BY <1>0, <1>1, <2>1
<1>10. Cardinality(others) \in Nat /\ Cardinality(own) \in Nat
  BY <1>4, <1>5, FS_CardinalityType
<1>11. /\ active + Cardinality(others) + Cardinality(own) = Cardinality(Ticks) * M
       /\ M' = M /\ active' = active
  BY <1>0, <1>2, <1>4, <1>5, <1>9, <1>10
<1>12. Cardinality(Ticks) * M \in Int
  BY <1>0, <1>1
<1> DEFINE limit == Cardinality(Ticks) * M
<1>13. active' + Cardinality(Reserved') <= limit
  <2>1. /\ limit \in Int /\ active' = active
        /\ active + Cardinality(others) + Cardinality(own) = limit
    BY <1>11, <1>12
  <2> HIDE DEF limit, others, own, active, M
  <2>2. QED
    BY <1>0, <1>7, <1>8, <1>10, <2>1
<1>14. \A u \in Ticks : Pending(u)' <= M'
  BY <1>0, <1>11 DEF ActiveIsReserved
<1>15. QED
  BY <1>11, <1>13, <1>14 DEF ActiveIsReserved

\* No step lets more rows run than the ticks that overlap allow.
LEMMA ActiveIsReservedStep ==
  ASSUME DriveInv, TypeOK', [Next]_vars
  PROVE  ActiveIsReserved'
<1>0. TypeOK /\ TicksLinked /\ WorkflowsLinked /\ ActiveIsReserved
  BY DEF DriveInv, IInv
<1>1. ASSUME dag' = dag, tick' = tick,
             RunsIn("running")' \subseteq RunsIn("running")
      PROVE  ActiveIsReserved'
  <2>1. \A t \in Ticks : Pending(t)' = Pending(t) /\ Pending(t) \in Nat
    BY <1>0, <1>1, PendingType DEF Pending
  <2>2. \A t \in Ticks : Pending(t)' <= Pending(t)
    BY <2>1
  <2>3. QED
    BY <1>0, <1>1, <2>2, FewerReserved
<1>2. CASE UNCHANGED vars
  BY <1>1, <1>2 DEF vars, given, RunsIn, RunsWith, Runs
<1>3. CASE BoundaryPasses \/ \E k \in Runs : GetsOld(k)
  <2>1. SameRows /\ Runs' = Runs /\ UNCHANGED <<given, tick>>
    BY <1>0, <1>3, TimeRows, TimeKeepsRows
  <2>2. QED
    BY <1>1, <2>1 DEF given, SameRows, RunsIn, RunsWith
<1>4. ASSUME NEW t \in Ticks, StartTick(t) \/ TickWork(t) \/ TickFault(t)
      PROVE  ActiveIsReserved'
  <2>1. dag' = dag
    BY <1>0, <1>4, TickBoundaries
  <2>2. \A u \in Ticks : u # t => Pending(u)' = Pending(u)
    BY <1>0, <1>4, OtherTicks DEF Pending
  <2>3. \A u \in Ticks : Pending(u) \in Nat
    BY <1>0, PendingType
  <2>4. ASSUME ~Claim(t)
        PROVE  RunsIn("running")' \subseteq RunsIn("running")
    BY <1>0, <1>4, <2>4, NewRunning DEF RunsIn, RunsWith
  <2>5. CASE Pending(t)' <= Pending(t) /\ ~Claim(t)
    <3>1. \A u \in Ticks : Pending(u)' <= Pending(u)
      BY <2>2, <2>3, <2>5
    <3>2. QED
      BY <1>0, <2>1, <2>4, <2>5, <3>1, FewerReserved
  <2>6. CASE Claim(t) /\ Pending(t)' = Pending(t) - 1 /\ Pending(t) >= 1
    <3>1. RunsIn("running")' \subseteq RunsIn("running") \cup {tick'[t].at}
      BY <1>0, <1>4, NewRunning DEF RunsIn, RunsWith
    <3>2. QED
      BY <1>0, <2>1, <2>2, <2>6, <3>1, ClaimReserved
  <2>7. CASE /\ CountRunning(t)
             /\ Pending(t)' = dag.maxActiveRuns - Cardinality(RunsIn("running"))
    <3>1. RunsIn("running")' = RunsIn("running")
      BY <2>7 DEF CountRunning, RunsIn, RunsWith, Runs
    <3>2. QED
      BY <1>0, <2>1, <2>2, <2>7, <3>1, CountReserved
  <2>8. QED
    BY <1>0, <1>4, <2>5, <2>6, <2>7, TickPending
<1>5. ASSUME NEW w \in Workflows, WorkflowStep(w) \/ InitFails(w) \/ WorkflowDies(w)
      PROVE  ActiveIsReserved'
  <2>1. UNCHANGED <<given, tick>>
    BY <1>0, <1>5, WorkflowKeepsRows
  <2>2. RunsIn("running")' \subseteq RunsIn("running")
    BY <1>0, <1>5, WorkflowRows DEF RunsIn, RunsWith
  <2>3. QED
    BY <1>1, <2>1, <2>2 DEF given
<1>6. QED
  BY <1>2, <1>3, <1>4, <1>5 DEF Next

\* The limit and the holders give the property.
LEMMA DriveGives == DriveInv => RunningIsDriven
<1> SUFFICES ASSUME DriveInv
             PROVE  RunningIsDriven
  OBVIOUS
<1>0. /\ TypeOK /\ IdsLinked /\ RunningIsHeld /\ ActiveIsReserved
  BY DEF DriveInv, IInv
<1>1. ActiveWithinOverlap
  <2>1. Cardinality(Reserved) \in Nat /\ Cardinality(RunsIn("running")) \in Nat
    BY <1>0, PendingType, FS_CardinalityType
  <2>2. dag.maxActiveRuns \in Nat /\ Cardinality(Ticks) \in Nat
    BY <1>0, PendingType, TicksAssumption, FS_CardinalityType
  <2> DEFINE limit == Cardinality(Ticks) * dag.maxActiveRuns
  <2>3. limit \in Int
    BY <2>2
  <2>4. Cardinality(RunsIn("running")) + Cardinality(Reserved) <= limit
    BY <1>0 DEF ActiveIsReserved
  <2> HIDE DEF limit
  <2>5. Cardinality(RunsIn("running")) <= limit
    BY <2>1, <2>3, <2>4
  <2>6. QED
    BY <2>5 DEF ActiveWithinOverlap, limit
<1>2. ASSUME "tick" \notin faults, NEW k \in RunsIn("running")
      PROVE  Driven(k)
  <2>1. CASE \E t \in Ticks : Holding(t) /\ tick[t].at = k
    BY <2>1 DEF Driven, Holding
  <2>2. CASE run[k].wf # 0 /\ wf[run[k].wf].pc \notin {"marked", "completed"}
    <3>1. run[k].wf \in Workflows /\ wf[run[k].wf].run = k
      BY <1>0, <2>2 DEF IdsLinked, RunsIn, RunsWith
    <3>2. wf[run[k].wf].pc \in WfPhases
      BY <1>0, <3>1 DEF TypeOK, WfState
    <3>3. QED
      BY <2>2, <3>1, <3>2 DEF Driven, WfPhases
  <2>3. QED
    BY <1>0, <1>2, <2>1, <2>2 DEF RunningIsHeld
<1>3. QED
  BY <1>1, <1>2 DEF RunningIsDriven

\* The scheduler starts in the invariant.
LEMMA InitDrive == Init => DriveInv
<1> SUFFICES ASSUME Init
             PROVE  DriveInv
  OBVIOUS
<1>0. Runs = {} /\ Workflows = {} /\ TypeOK
  BY InitInvariant DEF Init, IInv, Runs, Workflows
<1>1. ClaimsHeld /\ RunningIsHeld
  BY <1>0 DEF Init, ClaimsHeld, RunningIsHeld, RunsIn, RunsWith, Holding, IdleTick
<1>2. IdsLinked
  <2>1. Workflows = 1..0 /\ 0 \in 0..MaxWorkflows
    BY <1>0, SchedulerBoundsAssumption
  <2>2. QED
    BY <1>0, <2>1 DEF Init, IdsLinked, IdleTick
<1>3. ActiveIsReserved
  <2>1. RunsIn("running") = {} /\ Cardinality({}) = 0
    BY <1>0, FS_EmptySet DEF RunsIn, RunsWith
  <2>2. \A t \in Ticks : Pending(t) = 0
    <3>1. \A t \in Ticks : tick[t].slots = 0 /\ tick[t].queue = {}
      BY DEF Init, IdleTick
    <3>2. QED
      BY <2>1, <3>1 DEF Pending
  <2>3. dag.maxActiveRuns \in Nat \ {0}
    BY <1>0, PendingType
  <2>4. Reserved = {}
    BY <2>2, <2>3 DEF Reserved
  <2>5. Cardinality(Ticks) \in Nat
    BY TicksAssumption, FS_CardinalityType
  <2>6. ASSUME NEW n \in Nat, NEW m \in Nat
        PROVE  n * m >= 0
    OBVIOUS
  <2>7. Cardinality(Ticks) * dag.maxActiveRuns >= 0
    BY <2>3, <2>5, <2>6
  <2>8. QED
    BY <2>1, <2>2, <2>3, <2>4, <2>7 DEF ActiveIsReserved
<1>4. QED
  BY <1>1, <1>2, <1>3, InitInvariant DEF DriveInv

\* The rows that run, the ticks that hold them and the workflows they name fit
\* together in every reachable state.
THEOREM DriveInvariance == Spec => []DriveInv
<1>1. ASSUME DriveInv, [Next]_vars
      PROVE  DriveInv'
  <2>1. IInv
    BY <1>1 DEF DriveInv
  <2>2. TypeOK'
    BY <1>1, <2>1, StepType
  <2>3. IInv'
    BY <1>1, <2>1, <2>2, TicksLinkedStep, WorkflowsLinkedStep, ClaimsStep,
       NoBoundarySkippedStep
    DEF IInv
  <2>4. QED
    BY <1>1, <2>2, <2>3, ClaimsHeldStep, IdsLinkedStep, RunningIsHeldStep,
       ActiveIsReservedStep
    DEF DriveInv
<1>2. QED
  BY InitDrive, <1>1, PTL DEF Spec

\* As few rows run as the ticks that overlap allow, and none of them is left to
\* nobody (dag-scheduler.ts:141-165, 213-226), however many ticks overlap and
\* however starts, stores and workflows fail, as long as no tick is killed.
THEOREM NoneIsAbandoned == Spec => []RunningIsDriven
BY DriveInvariance, DriveGives, PTL

-----------------------------------------------------------------------------
(***************************************************************************)
(* Runs move forward.                                                      *)
(***************************************************************************)

\* A status a tick writes is the one it mirrors, that of its claim, or that of
\* a claim undone.
LEMMA TickSets ==
  ASSUME TypeOK, TicksLinked, NEW t \in Ticks,
         StartTick(t) \/ TickWork(t) \/ TickFault(t),
         NEW k \in Runs, run'[k].status # run[k].status
  PROVE  \/ MirrorRun(t) /\ k = tick[t].at /\ run'[k].status = tick[t].status
         \/ /\ Claim(t) /\ IsNext(t, k)
            /\ run[k].status = "queued" /\ run'[k].status = "running"
         \/ Rollback(t)
<1>1. CASE SameRows
  BY <1>1 DEF SameRows
<1>2. CASE MirrorRun(t)
  BY <1>2, MirrorRows DEF StatusSet
<1>3. CASE Claim(t)
  <2>1. PICK i \in Runs :
          /\ IsNext(t, i)
          /\ \/ run[i].status = "queued" /\ StatusSet(i, "running")
             \/ run' = run
    BY <1>3, ClaimRows
  <2>2. i = k /\ run[k].status = "queued" /\ StatusSet(k, "running")
    BY <2>1 DEF StatusSet
  <2>3. QED
    BY <1>3, <2>1, <2>2 DEF StatusSet
<1>4. CASE StoreWorkflow(t) \/ StoreFails(t)
  BY <1>4, StoreRows
<1>5. QED
  BY <1>1, <1>2, <1>3, <1>4, TickRows

\* What a tick's step may do to its candidates and to the runs it selected.
LEMMA TickLists ==
  ASSUME TypeOK, NEW t \in Ticks, StartTick(t) \/ TickWork(t) \/ TickFault(t)
  PROVE  /\ tick'[t].todo \subseteq tick[t].todo \/ SelectOrphans(t)
         /\ tick'[t].queue \in {tick[t].queue, {}} \/ Claim(t) \/ PickQueued(t)
<1>0. DOMAIN tick = Ticks /\ tick[t] \in TickState
  BY DEF TypeOK
<1>1. CASE StartTick(t)
  BY <1>0, <1>1 DEF StartTick, IdleTick, TickState
<1>2. CASE SelectOrphans(t)
  BY <1>0, <1>2 DEF SelectOrphans, IdleTick, TickState
<1>3. CASE CheckOrphan(t)
  <2> DEFINE rest(x) == [tick[t] EXCEPT !.todo = @ \ {x}]
  <2>1. \E x \in tick[t].todo :
          tick'[t] \in {rest(x), [rest(x) EXCEPT !.pc = "mirror", !.at = x[1],
                                                !.status = wf[x[2]].pc]}
    BY <1>0, <1>3 DEF CheckOrphan
  <2>2. tick'[t].todo \subseteq tick[t].todo /\ tick'[t].queue = tick[t].queue
    BY ZenonT(40), <1>0, <2>1 DEF TickState
  <2>3. QED
    BY <2>2
<1>4. CASE MirrorRun(t)
  BY <1>0, <1>4 DEF MirrorRun, IdleTick, TickState
<1>5. CASE MirrorTask(t)
  BY <1>0, <1>5 DEF MirrorTask, IdleTick, TickState
<1>6. CASE Enqueue(t)
  <2>1. \/ tick'[t] = [IdleTick EXCEPT !.pc = "count"]
        \/ \E latest \in Missed(t) :
             tick'[t] = [IdleTick EXCEPT !.pc = "bookmark", !.latest = latest]
    BY <1>0, <1>6 DEF Enqueue
  <2>2. tick'[t].todo = {} /\ tick'[t].queue = {}
    BY <2>1 DEF IdleTick
  <2>3. QED
    BY <2>2
<1>7. CASE SetBookmark(t)
  BY <1>0, <1>7 DEF SetBookmark, IdleTick, TickState
<1>8. CASE CountRunning(t)
  BY <1>0, <1>8 DEF CountRunning, IdleTick, TickState
<1>9. CASE PickQueued(t)
  <2>1. tick'[t].todo = tick[t].todo
    BY <1>0, <1>9 DEF PickQueued, TickState
  <2>2. QED
    BY <1>9, <2>1
<1>10. CASE Claim(t)
  <2>1. tick'[t].todo = tick[t].todo
    BY <1>0, <1>10 DEF Claim, TickState
  <2>2. QED
    BY <1>10, <2>1
<1>11. CASE EndTick(t)
  BY <1>0, <1>11 DEF EndTick, IdleTick, TickState
<1>12. CASE StartWorkflow(t)
  BY <1>0, <1>12 DEF StartWorkflow, IdleTick, TickState
<1>13. CASE StoreWorkflow(t)
  BY <1>0, <1>13 DEF StoreWorkflow, IdleTick, TickState
<1>14. CASE Rollback(t)
  BY <1>0, <1>14 DEF Rollback, IdleTick, TickState
<1>15. CASE StartFails(t)
  BY <1>0, <1>15 DEF StartFails, IdleTick, TickState
<1>16. CASE StoreFails(t)
  BY <1>0, <1>16 DEF StoreFails, IdleTick, TickState
<1>17. CASE ReconcileFails(t)
  BY <1>0, <1>17 DEF ReconcileFails, IdleTick, TickState
<1>18. CASE TickDies(t)
  BY <1>0, <1>18 DEF TickDies, IdleTick, TickState
<1>19. QED
  BY <1>1, <1>2, <1>3, <1>4, <1>5, <1>6, <1>7, <1>8, <1>9, <1>10,
     <1>11, <1>12, <1>13, <1>14, <1>15, <1>16, <1>17, <1>18
  DEF TickWork, TickFault

\* How a workflow comes to be alive or dead.
LEMMA WorkflowPhases ==
  ASSUME TypeOK, NEW w \in Workflows,
         WorkflowStep(w) \/ InitFails(w) \/ WorkflowDies(w)
  PROVE  /\ wf[w].pc \notin {"failed", "cancelled"}
         /\ wf'[w].pc \in {"started", "task", "verdict"} =>
              wf[w].pc \in {"started", "task", "verdict"} /\ ~MarkTerminal(w)
         /\ wf'[w].pc \in {"failed", "cancelled"} =>
              /\ run' = run
              /\ \/ wf[w].pc \in {"started", "task", "verdict"}
                 \/ "late" \in faults
<1>0. DOMAIN wf = Workflows /\ wf[w] \in WfState
  BY DEF TypeOK
<1>1. CASE InitFails(w)
  BY <1>0, <1>1 DEF InitFails, WfState, MarkTerminal
<1>2. CASE BeginTask(w)
  <2>1. \/ wf' = [wf EXCEPT ![w].pc = "task"]
        \/ wf' = [wf EXCEPT ![w].pc = "verdict", ![w].verdict = run[wf[w].run].task]
    BY <1>2 DEF BeginTask
  <2>2. wf'[w].pc \in {"task", "verdict"} /\ wf[w].pc = "started"
    BY <1>0, <1>2, <2>1 DEF WfState, BeginTask
  <2>3. QED
    BY <2>2 DEF MarkTerminal
<1>3. CASE EndTask(w)
  <2>1. wf'[w].pc = "verdict" /\ wf[w].pc = "task"
    BY <1>0, <1>3 DEF WfState, EndTask
  <2>2. QED
    BY <2>1 DEF MarkTerminal
<1>4. CASE MarkTerminal(w)
  <2>1. wf'[w].pc = "marked" /\ wf[w].pc = "verdict"
    BY <1>0, <1>4 DEF WfState, MarkTerminal
  <2>2. QED
    BY <2>1
<1>5. CASE Complete(w)
  BY <1>0, <1>5 DEF Complete
<1>6. CASE WorkflowDies(w)
  <2>1. wf'[w].pc \in {"failed", "cancelled"} /\ run' = run
    BY <1>0, <1>6 DEF WorkflowDies, WfState
  <2>2. \/ wf[w].pc \in {"started", "task", "verdict"}
        \/ wf[w].pc = "marked" /\ "late" \in faults
    BY <1>6 DEF WorkflowDies
  <2>3. QED
    BY <2>1, <2>2
<1>7. QED
  BY <1>1, <1>2, <1>3, <1>4, <1>5, <1>6 DEF WorkflowStep

\* No tick has selected a run while an older one is queued that it has not.
LEMMA QueuesAreOldestStep ==
  ASSUME OrderInv, TypeOK', [Next]_vars
  PROVE  QueuesAreOldest'
<1>0. /\ TypeOK /\ TicksLinked /\ WorkflowsLinked /\ ClaimsHold /\ NoBoundarySkipped
      /\ IdsLinked /\ QueuesAreOldest
  BY DEF OrderInv, DriveInv, IInv
<1>a. dag' = dag /\ faults' = faults
  BY <1>0, TickWorkflows, TickBoundaries, WorkflowKeepsRows, TimeKeepsRows
  DEF Next, vars, given
<1> SUFFICES ASSUME dag.catchup, faults \cap {"start", "store"} = {}
             PROVE  QueuesAreOldest'
  BY <1>a DEF QueuesAreOldest
<1>b. \A t \in Ticks : \A k \in tick[t].queue :
        /\ k \in Runs
        /\ \A i \in Runs : i < k /\ i \notin tick[t].queue => run[i].status # "queued"
  BY <1>0 DEF QueuesAreOldest
<1>1. ASSUME Runs' = Runs, tick' = tick,
             \A k \in Runs : run[k].status # "queued" => run'[k].status # "queued"
      PROVE  QueuesAreOldest'
  BY <1>b, <1>1 DEF QueuesAreOldest
<1>2. CASE UNCHANGED vars
  BY <1>1, <1>2 DEF vars, Runs
<1>3. CASE BoundaryPasses \/ \E k \in Runs : GetsOld(k)
  BY <1>0, <1>1, <1>3, TimeKeepsRows
<1>4. ASSUME NEW t \in Ticks, StartTick(t) \/ TickWork(t) \/ TickFault(t),
             NEW u \in Ticks, NEW k \in tick'[u].queue
      PROVE  /\ k \in Runs'
             /\ \A i \in Runs' : i < k /\ i \notin tick'[u].queue =>
                  run'[i].status # "queued"
  <2>1. u # t => tick'[u] = tick[u]
    BY <1>0, <1>4, OtherTicks
  <2>2. tick[t].pc # "rollback"
    BY <1>0 DEF ClaimsHold
  <2>3. \A i \in Runs : run[i].status # "queued" => run'[i].status # "queued"
    BY <1>0, <1>4, <2>2, TickStatuses
  <2>4. Runs \subseteq Runs' /\ Runs' \subseteq Boundaries
    BY <1>0, <1>4, TickKeepsRows DEF TypeOK
  <2>5. ASSUME NEW j \in Runs, NEW i \in Runs', i < j
        PROVE  i \in Runs
    <3>1. i \in Nat /\ i >= 1 /\ j \in Nat
      BY <2>4, SchedulerBoundsAssumption DEF Boundaries
    <3>2. i \in 1..j
      BY <2>5, <3>1
    <3>3. QED
      BY <1>0, <3>2 DEF NoBoundarySkipped
  <2>6. CASE tick'[u].queue = tick[u].queue
    BY <1>b, <1>4, <2>3, <2>4, <2>5, <2>6
  <2>7. CASE tick'[u].queue = {}
    BY <1>4, <2>7
  <2>8. CASE u = t /\ Claim(t)
    <3>1. PICK j \in Runs :
            /\ tick'[t].queue = tick[t].queue \ {j}
            /\ \/ run[j].status = "queued" /\ StatusSet(j, "running")
               \/ run[j].status # "queued"
      BY <1>0, <2>8, ClaimRows
    <3>2. run'[j].status # "queued"
      BY <2>3, <3>1 DEF StatusSet
    <3>3. QED
      BY <1>b, <1>4, <2>3, <2>4, <2>5, <2>8, <3>1, <3>2
  <2>9. CASE u = t /\ PickQueued(t)
    <3>1. PICK queue \in SUBSET RunsIn("queued") :
            /\ \A j \in queue, i \in RunsIn("queued") \ queue : j < i
            /\ tick' = [tick EXCEPT ![t].pc = "claim", ![t].queue = queue,
                                    ![t].slots = 0]
      BY <2>9 DEF PickQueued
    <3>2. tick'[t].queue = queue /\ run' = run /\ Runs' = Runs
      BY <1>0, <2>9, <3>1 DEF PickQueued, TypeOK, TickState, Runs
    <3>3. k \in queue /\ k \in Runs
      BY <1>4, <2>9, <3>2 DEF RunsIn, RunsWith
    <3>4. ASSUME NEW i \in Runs, i < k, i \notin queue, run[i].status = "queued"
          PROVE  FALSE
      <4>1. k < i
        BY <3>1, <3>3, <3>4 DEF RunsIn, RunsWith
      <4>2. i \in Boundaries /\ k \in Boundaries
        BY <1>0, <3>3 DEF TypeOK
      <4>3. QED
        BY <3>4, <4>1, <4>2, SchedulerBoundsAssumption DEF Boundaries
    <3>5. QED
      BY <2>9, <3>2, <3>3, <3>4
  <2>10. QED
    BY <1>0, <1>4, <2>1, <2>6, <2>7, <2>8, <2>9, TickLists
<1>5. ASSUME NEW w \in Workflows, WorkflowStep(w) \/ InitFails(w) \/ WorkflowDies(w)
      PROVE  QueuesAreOldest'
  BY <1>0, <1>1, <1>5, WorkflowKeepsRows, WorkflowStatuses
<1>6. QED
  BY <1>2, <1>3, <1>4, <1>5 DEF Next, QueuesAreOldest

\* The reconciler holds runs whose own workflow died.
LEMMA OrphansLinkedStep ==
  ASSUME OrderInv, TypeOK', [Next]_vars
  PROVE  OrphansLinked'
<1>0. /\ TypeOK /\ TicksLinked /\ WorkflowsLinked /\ IdsLinked /\ OrphansLinked
      /\ \A t \in Ticks : tick[t].pc = "mirror" => tick[t].status \in {"failed", "cancelled"}
  BY DEF OrderInv, DriveInv, IInv, TypeOK, TicksLinked, TickState
<1>1. ASSUME tick' = tick, Workflows' = Workflows,
             \A v \in Workflows : wf'[v].run = wf[v].run,
             \A v \in Workflows : wf[v].pc \in {"failed", "cancelled"} =>
               wf'[v].pc = wf[v].pc
      PROVE  OrphansLinked'
  <2>1. ASSUME NEW t \in Ticks, tick[t].pc = "mirror"
        PROVE  \E v \in Workflows : wf'[v].run = tick[t].at /\ wf'[v].pc = tick[t].status
    <3>1. PICK v \in Workflows : wf[v].run = tick[t].at /\ wf[v].pc = tick[t].status
      BY <1>0, <2>1 DEF OrphansLinked
    <3>2. QED
      BY <1>0, <1>1, <2>1, <3>1
  <2>2. QED
    BY <1>0, <1>1, <2>1 DEF OrphansLinked
<1>2. CASE UNCHANGED vars
  BY <1>1, <1>2 DEF vars, Workflows
<1>3. CASE BoundaryPasses \/ \E k \in Runs : GetsOld(k)
  BY <1>0, <1>1, <1>3, TimeKeepsRows DEF Workflows
<1>4. ASSUME NEW t \in Ticks, StartTick(t) \/ TickWork(t) \/ TickFault(t)
      PROVE  OrphansLinked'
  <2>1. \A u \in Ticks : u # t => tick'[u] = tick[u]
    BY <1>0, <1>4, OtherTicks
  <2>2. Workflows \subseteq Workflows' /\ \A v \in Workflows : wf'[v] = wf[v]
    BY <1>0, <1>4, TickNumbers
  <2>3. ASSUME NEW x \in tick'[t].todo
        PROVE  x[2] \in Workflows /\ wf[x[2]].run = x[1]
    <3>1. CASE tick'[t].todo \subseteq tick[t].todo
      BY <1>0, <2>3, <3>1 DEF OrphansLinked
    <3>2. CASE SelectOrphans(t)
      <4> DEFINE orphans == {k \in Runs : /\ run[k].status = "running"
                                          /\ run[k].wf # 0
                                          /\ run[k].old}
                 todo == {<<k, run[k].wf>> : k \in orphans}
      <4>a. DOMAIN tick = Ticks /\ tick[t] \in TickState
        BY <1>0 DEF TypeOK
      <4>b. tick' = [tick EXCEPT ![t].pc = "reconcile", ![t].todo = todo]
        BY <3>2 DEF SelectOrphans
      <4>c. tick'[t].todo = todo
        <5> HIDE DEF todo
        <5>1. QED
          BY <4>a, <4>b DEF TickState
      <4>1. \E k \in Runs : run[k].wf # 0 /\ x = <<k, run[k].wf>>
        BY <2>3, <4>c
      <4>2. QED
        BY <1>0, <4>1 DEF IdsLinked
    <3>3. QED
      BY <1>0, <1>4, <3>1, <3>2, TickLists
  <2>4. ASSUME tick'[t].pc = "mirror"
        PROVE  \E v \in Workflows : wf[v].run = tick'[t].at /\ wf[v].pc = tick'[t].status
    <3>0. DOMAIN tick = Ticks /\ tick[t] \in TickState
      BY <1>0 DEF TypeOK
    <3>1. CheckOrphan(t) /\ tick[t].pc = "reconcile"
      BY <1>0, <1>4, <2>4, TickHolds DEF CheckOrphan
    <3> DEFINE rest(x) == [tick[t] EXCEPT !.todo = @ \ {x}]
    <3>2. PICK x \in tick[t].todo :
            tick'[t] \in {rest(x), [rest(x) EXCEPT !.pc = "mirror", !.at = x[1],
                                                  !.status = wf[x[2]].pc]}
      BY <3>0, <3>1 DEF CheckOrphan
    <3>3. rest(x).pc = "reconcile"
      BY <3>0, <3>1 DEF TickState
    <3>4. tick'[t] = [rest(x) EXCEPT !.pc = "mirror", !.at = x[1],
                                     !.status = wf[x[2]].pc]
      BY <2>4, <3>2, <3>3
    <3>5. tick'[t].at = x[1] /\ tick'[t].status = wf[x[2]].pc
      BY <3>0, <3>4 DEF TickState
    <3>6. QED
      BY <1>0, <3>5 DEF OrphansLinked
  <2>5. ASSUME NEW u \in Ticks, tick'[u].pc = "mirror"
        PROVE  \E v \in Workflows : wf[v].run = tick'[u].at /\ wf[v].pc = tick'[u].status
    BY <1>0, <2>1, <2>4, <2>5 DEF OrphansLinked
  <2>6. ASSUME NEW u \in Ticks, NEW x \in tick'[u].todo
        PROVE  x[2] \in Workflows /\ wf[x[2]].run = x[1]
    BY <1>0, <2>1, <2>3, <2>6 DEF OrphansLinked
  <2>7. QED
    BY <2>2, <2>5, <2>6 DEF OrphansLinked
<1>5. ASSUME NEW w \in Workflows, WorkflowStep(w) \/ InitFails(w) \/ WorkflowDies(w)
      PROVE  OrphansLinked'
  <2>1. /\ Workflows' = Workflows /\ tick' = tick
        /\ \A v \in Workflows : wf'[v].run = wf[v].run
    BY <1>0, <1>5, WorkflowKeepsRows
  <2>2. \A v \in Workflows \ {w} : wf'[v] = wf[v]
    BY <1>0, <1>5, WorkflowRows
  <2>3. wf[w].pc \notin {"failed", "cancelled"}
    BY <1>0, <1>5, WorkflowPhases
  <2>4. QED
    BY <1>1, <2>1, <2>2, <2>3
<1>6. QED
  BY <1>2, <1>3, <1>4, <1>5 DEF Next

\* While its workflow has not written a verdict, a run is running.
LEMMA RowsFollowWorkflowsStep ==
  ASSUME OrderInv, TypeOK', [Next]_vars
  PROVE  RowsFollowWorkflows'
<1>0. /\ TypeOK /\ TicksLinked /\ WorkflowsLinked /\ ClaimsHold /\ StartedOnce
      /\ IdsLinked /\ OrphansLinked /\ RowsFollowWorkflows
  BY DEF OrderInv, DriveInv, IInv
<1>a. faults' = faults
  BY <1>0, TickWorkflows, WorkflowKeepsRows, TimeKeepsRows DEF Next, vars, given
<1> DEFINE alive == {"started", "task", "verdict"}
           dead == {"failed", "cancelled"}
<1> SUFFICES ASSUME faults \cap {"start", "store"} = {}, "late" \notin faults
             PROVE  /\ \A t \in Ticks : tick'[t].pc = "start" =>
                         run'[tick'[t].at].status = "running"
                    /\ \A w \in Workflows' :
                         /\ wf'[w].pc \in alive =>
                              run'[wf'[w].run].status = "running"
                         /\ wf'[w].pc \in dead =>
                              run'[wf'[w].run].status \in {"running", wf'[w].pc}
  BY <1>a DEF RowsFollowWorkflows
<1>b. /\ \A t \in Ticks : tick[t].pc = "start" =>
           /\ tick[t].at \in Runs /\ run[tick[t].at].status = "running"
           /\ \A w \in Workflows : wf[w].run # tick[t].at
      /\ \A t \in Ticks : tick[t].pc # "rollback"
      /\ \A w \in Workflows :
           /\ wf[w].run \in Runs
           /\ wf[w].pc \in alive => run[wf[w].run].status = "running"
           /\ wf[w].pc \in dead => run[wf[w].run].status \in {"running", wf[w].pc}
      /\ \A v, w \in Workflows : wf[v].run = wf[w].run => v = w
  BY <1>0 DEF RowsFollowWorkflows, ClaimsHold, TicksLinked, WorkflowsLinked, StartedOnce
<1>1. CASE UNCHANGED vars
  BY <1>b, <1>1 DEF vars, Workflows
<1>2. CASE BoundaryPasses \/ \E k \in Runs : GetsOld(k)
  <2>1. SameRows /\ tick' = tick /\ wf' = wf
    BY <1>0, <1>2, TimeRows, TimeKeepsRows
  <2>2. QED
    BY <1>b, <2>1 DEF SameRows, Workflows
<1>3. ASSUME NEW t \in Ticks, StartTick(t) \/ TickWork(t) \/ TickFault(t)
      PROVE  /\ \A u \in Ticks : tick'[u].pc = "start" =>
                  run'[tick'[u].at].status = "running"
             /\ \A w \in Workflows' :
                  /\ wf'[w].pc \in alive =>
                       run'[wf'[w].run].status = "running"
                  /\ wf'[w].pc \in dead =>
                       run'[wf'[w].run].status \in {"running", wf'[w].pc}
  <2>1. \A u \in Ticks : u # t => tick'[u] = tick[u]
    BY <1>0, <1>3, OtherTicks
  <2>2. ASSUME NEW k \in Runs, run[k].status # "queued",
               run'[k].status # run[k].status
        PROVE  /\ MirrorRun(t) /\ k = tick[t].at
               /\ \E v \in Workflows :
                    /\ wf[v].run = k /\ wf[v].pc \in dead
                    /\ run'[k].status = wf[v].pc
    <3>1. \/ MirrorRun(t) /\ k = tick[t].at /\ run'[k].status = tick[t].status
          \/ Rollback(t)
      BY <1>0, <1>3, <2>2, TickSets
    <3>2. MirrorRun(t) /\ tick[t].pc = "mirror"
      BY <1>b, <3>1 DEF MirrorRun, Rollback
    <3>3. PICK v \in Workflows : wf[v].run = tick[t].at /\ wf[v].pc = tick[t].status
      BY <1>0, <3>2 DEF OrphansLinked
    <3>4. tick[t].status \in dead
      BY <1>0, <3>2 DEF TicksLinked, TypeOK, TickState
    <3>5. QED
      BY <1>b, <3>1, <3>2, <3>3, <3>4 DEF Rollback
  <2>3. ASSUME NEW u \in Ticks, tick'[u].pc = "start"
        PROVE  run'[tick'[u].at].status = "running"
    <3>1. CASE u = t
      <4>1. Claim(t)
        BY <1>0, <1>3, <2>3, <3>1, TickHolds
      <4>2. QED
        BY <1>0, <2>3, <3>1, <4>1, ClaimRows DEF StatusSet
    <3>2. CASE u # t
      BY <1>b, <2>1, <2>2, <2>3, <3>2
    <3>3. QED
      BY <3>1, <3>2
  <2>4. /\ \A w \in Workflows : wf'[w] = wf[w]
        /\ \A w \in Workflows' \ Workflows :
             /\ wf'[w].run = tick[t].at /\ wf'[w].pc = "started"
             /\ tick[t].pc = "start"
    BY <1>0, <1>3, TickNumbers
  <2>5. ASSUME NEW w \in Workflows' \ Workflows
        PROVE  run'[wf'[w].run].status = "running" /\ wf'[w].pc = "started"
    <3>1. ~MirrorRun(t)
      BY <2>4, <2>5 DEF MirrorRun
    <3>2. QED
      BY <1>b, <2>2, <2>4, <2>5, <3>1
  <2>6. ASSUME NEW w \in Workflows
        PROVE  /\ wf[w].pc \in alive => run'[wf[w].run].status = "running"
               /\ wf[w].pc \in dead => run'[wf[w].run].status \in {"running", wf[w].pc}
    BY <1>b, <2>2, <2>6
  <2>7. QED
    BY <2>3, <2>4, <2>5, <2>6
<1>4. ASSUME NEW w \in Workflows, WorkflowStep(w) \/ InitFails(w) \/ WorkflowDies(w)
      PROVE  /\ \A u \in Ticks : tick'[u].pc = "start" =>
                  run'[tick'[u].at].status = "running"
             /\ \A v \in Workflows' :
                  /\ wf'[v].pc \in alive =>
                       run'[wf'[v].run].status = "running"
                  /\ wf'[v].pc \in dead =>
                       run'[wf'[v].run].status \in {"running", wf'[v].pc}
  <2>1. /\ Workflows' = Workflows /\ tick' = tick
        /\ \A v \in Workflows : wf'[v].run = wf[v].run
    BY <1>0, <1>4, WorkflowKeepsRows
  <2>2. /\ \A k \in Runs :
             \/ run'[k].status = run[k].status
             \/ MarkTerminal(w) /\ k = wf[w].run
        /\ \A v \in Workflows \ {w} : wf'[v] = wf[v]
    BY <1>0, <1>4, WorkflowRows
  <2>3. /\ wf'[w].pc \in alive => wf[w].pc \in alive /\ ~MarkTerminal(w)
        /\ wf'[w].pc \in dead => run' = run /\ wf[w].pc \in alive
    BY <1>0, <1>4, WorkflowPhases
  <2>4. \A u \in Ticks : tick'[u].pc = "start" => run'[tick'[u].at].status = "running"
    BY <1>b, <2>1, <2>2
  <2>5. /\ wf'[w].pc \in alive => run'[wf'[w].run].status = "running"
        /\ wf'[w].pc \in dead => run'[wf'[w].run].status \in {"running", wf'[w].pc}
    BY <1>b, <2>1, <2>2, <2>3
  <2>6. \A v \in Workflows \ {w} :
          /\ wf'[v].pc \in alive => run'[wf'[v].run].status = "running"
          /\ wf'[v].pc \in dead => run'[wf'[v].run].status \in {"running", wf'[v].pc}
    BY <1>b, <2>1, <2>2
  <2>7. QED
    BY <2>1, <2>4, <2>5, <2>6
<1>5. QED
  BY <1>1, <1>2, <1>3, <1>4 DEF Next

\* Claims are in order, and verdicts are kept.
LEMMA ForwardStep ==
  ASSUME OrderInv, [Next]_vars, faults \cap {"start", "store"} = {}, NEW k \in Runs
  PROVE  /\ dag.catchup /\ run[k].status = "queued" /\ run'[k].status = "running" =>
              \A i \in Runs : i < k => run[i].status # "queued"
         /\ run[k].status \in Terminal /\ "late" \notin faults =>
              run'[k].status = run[k].status
<1>0. /\ TypeOK /\ TicksLinked /\ WorkflowsLinked /\ ClaimsHold
      /\ OrphansLinked /\ RowsFollowWorkflows /\ QueuesAreOldest
  BY DEF OrderInv, DriveInv, IInv
<1>1. CASE run'[k].status = run[k].status
  BY <1>1
<1>2. ASSUME run'[k].status # run[k].status,
             NEW t \in Ticks, StartTick(t) \/ TickWork(t) \/ TickFault(t)
      PROVE  /\ dag.catchup /\ run[k].status = "queued" /\ run'[k].status = "running" =>
                  \A i \in Runs : i < k => run[i].status # "queued"
             /\ run[k].status \in Terminal /\ "late" \notin faults =>
                  run'[k].status = run[k].status
  <2>1. \/ MirrorRun(t) /\ k = tick[t].at /\ run'[k].status = tick[t].status
        \/ /\ IsNext(t, k)
           /\ run[k].status = "queued" /\ run'[k].status = "running"
    BY <1>0, <1>2, TickSets DEF ClaimsHold, Rollback
  <2>2. CASE MirrorRun(t) /\ k = tick[t].at /\ run'[k].status = tick[t].status
    <3>1. tick[t].pc = "mirror" /\ tick[t].status \in {"failed", "cancelled"}
      BY <1>0, <2>2 DEF MirrorRun, TicksLinked, TypeOK, TickState
    <3>2. PICK v \in Workflows : wf[v].run = k /\ wf[v].pc = tick[t].status
      BY <1>0, <2>2, <3>1 DEF OrphansLinked
    <3>3. "late" \notin faults => run[k].status \in {"running", tick[t].status}
      BY <1>0, <3>1, <3>2 DEF RowsFollowWorkflows
    <3>4. QED
      BY <2>2, <3>1, <3>3 DEF Terminal
  <2>3. CASE /\ IsNext(t, k)
             /\ run[k].status = "queued" /\ run'[k].status = "running"
    <3>1. ASSUME dag.catchup, NEW i \in Runs, i < k
          PROVE  run[i].status # "queued"
      <4>1. i \in Nat /\ k \in Nat
        BY <1>0, SchedulerBoundsAssumption DEF TypeOK, Boundaries
      <4>2. k \in tick[t].queue /\ i \notin tick[t].queue
        BY <2>3, <3>1, <4>1 DEF IsNext
      <4>3. QED
        BY <1>0, <3>1, <4>2 DEF QueuesAreOldest
    <3>2. QED
      BY <2>3, <3>1 DEF Terminal
  <2>4. QED
    BY <2>1, <2>2, <2>3
<1>3. ASSUME run'[k].status # run[k].status,
             NEW w \in Workflows, WorkflowStep(w) \/ InitFails(w) \/ WorkflowDies(w)
      PROVE  run'[k].status # "running" /\ run[k].status \notin Terminal
  BY <1>0, <1>3, WorkflowRows
<1>4. CASE BoundaryPasses \/ \E i \in Runs : GetsOld(i)
  BY <1>0, <1>1, <1>4, TimeRows DEF SameRows
<1>5. CASE UNCHANGED vars
  BY <1>1, <1>5 DEF vars
<1>6. QED
  BY <1>1, <1>2, <1>3, <1>4, <1>5 DEF Next

\* The rows, the queues and the workflows that died fit together in every
\* reachable state.
THEOREM OrderInvariance == Spec => []OrderInv
<1>1. ASSUME OrderInv, [Next]_vars, DriveInv'
      PROVE  OrderInv'
  <2>1. TypeOK'
    BY <1>1 DEF DriveInv, IInv
  <2>2. QED
    BY <1>1, <2>1, QueuesAreOldestStep, OrphansLinkedStep, RowsFollowWorkflowsStep
    DEF OrderInv
<1>2. Init => OrderInv
  <2> SUFFICES ASSUME Init
               PROVE  OrderInv
    OBVIOUS
  <2>1. DriveInv
    BY InitDrive
  <2>2. Workflows = {}
    BY DEF Init, Workflows
  <2>3. \A t \in Ticks : tick[t] = IdleTick
    BY DEF Init
  <2>4. QED
    BY <2>1, <2>2, <2>3
    DEF OrderInv, QueuesAreOldest, OrphansLinked, RowsFollowWorkflows, IdleTick
<1>3. QED
  BY DriveInvariance, <1>1, <1>2, PTL DEF Spec

\* Runs are claimed oldest first and keep their verdicts
\* (dag-scheduler.ts:141-165, 272-280), whichever tick or workflow writes them,
\* unless the start of a workflow is retried or one dies after its verdict.
THEOREM VerdictsStay == Spec => RunsMoveForward
<1>1. ASSUME OrderInv, [Next]_vars
      PROVE  [faults \cap {"start", "store"} = {} =>
                \A k \in Runs :
                  /\ dag.catchup /\ run[k].status = "queued" /\ run'[k].status = "running" =>
                       \A i \in Runs : i < k => run[i].status # "queued"
                  /\ run[k].status \in Terminal /\ "late" \notin faults =>
                       run'[k].status = run[k].status]_run
  BY <1>1, ForwardStep
<1>2. QED
  BY OrderInvariance, <1>1, PTL DEF Spec, RunsMoveForward
=============================================================================
