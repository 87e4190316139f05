--------------------------- MODULE LattikGCProofs ---------------------------
(***************************************************************************)
(* Proofs about the garbage collection: for any number of jobs, families   *)
(* and collections, that overlap in any way, what is referenced stays, and *)
(* what is not goes, if the grace period outlasts a job and a collection.  *)
(***************************************************************************)
EXTENDS LattikGC, SequenceTheorems, TLAPS

-----------------------------------------------------------------------------
(***************************************************************************)
(* The inductive invariant.                                                *)
(***************************************************************************)

CommittedLoads == {l \in Loads : writer[l[2]] = "committed"}

\* The log holds the jobs that are committed, each version the loads of its job
\* and the loads of jobs before it.
LogSound ==
  /\ \A j \in Jobs : writer[j] = "committed" <=> Log!Committed(j)
  /\ \A v \in 1..Len(log) :
       /\ ReferencedBy(v) \subseteq CommittedLoads
       /\ \A c \in ColumnsOf[log[v].job] : log[v].columns[c] = log[v].job

\* The clock against the times that jobs and collections may take.
TimesSound ==
  /\ \A o \in DOMAIN modified : modified[o] <= now
  /\ \A j \in Jobs : \A o \in Writing(j) : now <= modified[o] + WriteTime
  /\ \A g \in Gcs :
       /\ gc[g].cutoff <= now
       /\ gc[g].pc # "idle" => gc[g].minAge \in MinAges
       /\ Selecting(g) => /\ gc[g].started <= now
                          /\ now <= gc[g].started + GcTime

\* A job commits when it has written everything.
JobsSound ==
  \A j \in Jobs : writer[j] = "committed" => ObjectsOf(j) \subseteq DOMAIN modified

\* Version v is in what collection g has read, unseen being what it could not.
Seen(g, v, unseen) ==
  /\ ReferencedBy(v) \subseteq gc[g].referenced \cup unseen
  /\ PrimaryLoad(log[v].job) \in gc[g].referenced

\* Version v was committed while collection g was at work: its job is so young
\* that its loads are.
Late(g, v) ==
  \A o \in ObjectsOf(log[v].job) : gc[g].started <= modified[o] + WriteTime

\* While the manifests are fetched, and between listing and selection.
ScanSound(g) ==
  /\ Selecting(g) => gc[g].referenced \subseteq CommittedLoads
  /\ gc[g].pc = "manifests" =>
       \A v \in 1..Len(log) :
         v \in gc[g].todo \/ Seen(g, v, gc[g].unread) \/ Late(g, v)
  /\ gc[g].pc = "listed" =>
       /\ gc[g].listed \subseteq DOMAIN modified
       /\ \A o \in objects \ gc[g].listed : gc[g].started <= modified[o]
       /\ \A v \in 1..Len(log) : Seen(g, v, missed) \/ Late(g, v)

\* No manifest that could be read, nor any commit row, names load l of a job
\* that is committed.
Unseen(l) == l \in missed /\ l # PrimaryLoad(l[2])

\* What may be deleted.
Disposable(l) ==
  \/ writer[l[2]] = "dead"
  \/ writer[l[2]] = "committed" /\ Unseen(l)

\* An object of load l is inside the grace period of collection g.
Kept(g, l) ==
  \E o \in ObjectsIn(l) \cap DOMAIN modified :
    modified[o] > gc[g].cutoff - gc[g].minAge

\* What collection g has selected, or has left behind, of load l.
SelectionSound(g) ==
  /\ gc[g].pc = "selected" => \A o \in gc[g].orphans : Disposable(o[1])
  /\ gc[g].pc \in {"selected", "done"} =>
       \A l \in Loads :
         /\ writer[l[2]] # "committed"
         /\ ObjectsIn(l) \cap objects # {}
         => \/ Kept(g, l)
            \/ gc[g].pc = "selected" /\ ObjectsIn(l) \cap objects \subseteq gc[g].orphans
            \/ gc[g].pc = "done" /\ gc[g].dryRun

\* Nothing but what may be deleted has been.
ObjectsStay ==
  \A o \in DOMAIN modified : o \in objects \/ Disposable(o[1])

IInv ==
  /\ TypeOK
  /\ LogSound
  /\ TimesSound
  /\ JobsSound
  /\ \A g \in Gcs : ScanSound(g)
  /\ GraceIsLongEnough => ObjectsStay /\ \A g \in Gcs : SelectionSound(g)

-----------------------------------------------------------------------------
(***************************************************************************)
(* Types.                                                                  *)
(***************************************************************************)

\* The log of TableLog only grows, by an entry of the job that commits.
LEMMA CommitAppends ==
  ASSUME TypeOK, NEW j \in Jobs, Log!Commit(j)
  PROVE  /\ log' \in Seq(Log!Entry)
         /\ Len(log') = Len(log) + 1 /\ Len(log) \in Nat
         /\ \A v \in 1..Len(log) : log'[v] = log[v]
         /\ log'[Len(log) + 1] = [job |-> j, columns |-> Log!Override(Log!Current, j)]
         /\ Log!Current \in Log!ColumnMap
<1>1. log \in Seq(Log!Entry)
  BY DEF TypeOK, Log!TypeOK
<1>2. Log!Current \in Log!ColumnMap
  <2>1. CASE log = << >>
    BY <2>1 DEF Log!Current, Log!NoColumns, Log!ColumnMap
  <2>2. CASE log # << >>
    <3>1. Len(log) \in 1..Len(log)
      BY <1>1, <2>2, LenProperties, EmptySeq
    <3>2. log[Len(log)] \in Log!Entry
      BY <1>1, <3>1, ElementOfSeq
    <3>3. QED
      BY <2>2, <3>2 DEF Log!Current, Log!Entry
  <2>3. QED
    BY <2>1, <2>2
<1>3. [job |-> j, columns |-> Log!Override(Log!Current, j)] \in Log!Entry
  BY <1>2 DEF Log!Entry, Log!Override, Log!ColumnMap
<1>4. log' = Append(log, [job |-> j, columns |-> Log!Override(Log!Current, j)])
  BY DEF Log!Commit
<1>5. QED
  BY <1>1, <1>2, <1>3, <1>4, AppendProperties

\* The loads of an entry of the log are loads.
LEMMA LoadsAreLoads ==
  ASSUME TypeOK, NEW v \in 1..Len(log)
  PROVE  /\ log[v] \in Log!Entry /\ log[v].job \in Jobs
         /\ PrimaryLoad(log[v].job) \in Loads
<1>1. log \in Seq(Log!Entry)
  BY DEF TypeOK, Log!TypeOK
<1>2. log[v] \in Log!Entry
  BY <1>1, ElementOfSeq
<1>3. log[v].job \in Jobs
  BY <1>2 DEF Log!Entry
<1>4. QED
  BY <1>2, <1>3, PrimaryOfAssumption, ColumnsOfAssumption DEF PrimaryLoad, Loads

\* A step of a collection leaves the others alone.
LEMMA OneCollection ==
  ASSUME TypeOK, NEW g \in Gcs, GcStep(g)
  PROVE  /\ gc' = [gc EXCEPT ![g] = gc'[g]]
         /\ UNCHANGED <<log, modified, now, writer>>
         /\ objects' \subseteq objects
         /\ missed \subseteq missed'
BY DEF TypeOK, GcState, GcStep, StartGc, FetchManifest, ManifestUnreadable, ListLoads,
       SelectOrphans, DeleteOrphans, DeleteFails, ListFails

LEMMA InitTypes == Init => TypeOK
<1>1. << >> \in [DOMAIN << >> -> Nat] /\ DOMAIN << >> = {}
  OBVIOUS
<1>2. QED
  BY <1>1, TimesAssumption, EmptySeq
  DEF Init, TypeOK, Log!Init, Log!TypeOK, WriterState, IdleGc, GcState, GcPhases

\* A collection keeps its types, whatever it does.
LEMMA CollectionTypes ==
  ASSUME TypeOK, LogSound, NEW g \in Gcs, GcStep(g)
  PROVE  gc'[g] \in GcState /\ missed' \subseteq Loads
<1>1. gc[g] \in GcState /\ now \in Nat /\ missed \subseteq Loads /\ objects \subseteq Objects
  BY TimesAssumption DEF TypeOK
<1>2. Len(log) \in Nat
  BY LenProperties DEF TypeOK, Log!TypeOK
<1>3. ASSUME StartGc(g) PROVE gc'[g] \in GcState /\ missed' \subseteq Loads
  <2>1. PICK dryRun \in BOOLEAN, minAge \in MinAges :
          gc' = [gc EXCEPT ![g] = [IdleGc EXCEPT !.pc = "manifests",
                                                 !.dryRun = dryRun,
                                                 !.minAge = minAge,
                                                 !.started = now,
                                                 !.todo = CommitsToRead]]
    BY <1>3 DEF StartGc
  <2>2. minAge \in Nat /\ CommitsToRead \subseteq Nat
    BY <1>2, TimesAssumption DEF CommitsToRead
  <2>3. gc'[g] \in GcState
    BY <1>1, <2>1, <2>2 DEF TypeOK, GcState, GcPhases, IdleGc
  <2>4. QED
    BY <1>1, <1>3, <2>3 DEF StartGc
<1>4. ASSUME NEW v \in 1..Len(log), FetchManifest(g, v) \/ ManifestUnreadable(g, v)
      PROVE  gc'[g] \in GcState /\ missed' \subseteq Loads
  <2>1. ReferencedBy(v) \in SUBSET Loads
    BY DEF LogSound, CommittedLoads
  <2>2. PrimaryLoad(log[v].job) \in Loads
    BY LoadsAreLoads
  <2>3. /\ gc[g].todo \ {v} \in SUBSET Nat
        /\ gc[g].referenced \cup ReferencedBy(v) \in SUBSET Loads
        /\ gc[g].unread \cup ReferencedBy(v) \in SUBSET Loads
        /\ gc[g].referenced \cup {PrimaryLoad(log[v].job)} \in SUBSET Loads
    BY <1>1, <2>1, <2>2 DEF GcState
  <2>4. CASE FetchManifest(g, v)
    <3>1. gc'[g] = [gc[g] EXCEPT !.todo = gc[g].todo \ {v},
                                 !.referenced = gc[g].referenced \cup ReferencedBy(v)]
      BY <2>4 DEF FetchManifest, TypeOK
    <3>2. gc'[g] \in GcState
      BY <1>1, <2>3, <3>1 DEF GcState
    <3>3. QED
      BY <1>1, <2>4, <3>2 DEF FetchManifest
  <2>5. CASE ManifestUnreadable(g, v)
    <3>1. gc'[g] = [gc[g] EXCEPT !.todo = gc[g].todo \ {v},
                                 !.referenced = gc[g].referenced \cup {PrimaryLoad(log[v].job)},
                                 !.unread = gc[g].unread \cup ReferencedBy(v)]
      BY <2>5 DEF ManifestUnreadable, TypeOK
    <3>2. gc'[g] \in GcState
      BY <1>1, <2>3, <3>1 DEF GcState
    <3>3. QED
      BY <1>1, <2>5, <3>2 DEF ManifestUnreadable
  <2>6. QED
    BY <1>4, <2>4, <2>5
<1>5. ASSUME ListLoads(g) PROVE gc'[g] \in GcState /\ missed' \subseteq Loads
  BY <1>1, <1>5 DEF ListLoads, TypeOK, GcState, GcPhases
<1>6. ASSUME SelectOrphans(g) PROVE gc'[g] \in GcState /\ missed' \subseteq Loads
  BY <1>1, <1>6 DEF SelectOrphans, TypeOK, GcState, GcPhases, IdleGc
<1>7. ASSUME DeleteOrphans(g) PROVE gc'[g] \in GcState /\ missed' \subseteq Loads
  BY <1>1, <1>7 DEF DeleteOrphans, TypeOK, GcState, GcPhases, IdleGc
<1>8. ASSUME DeleteFails(g) \/ ListFails(g) PROVE gc'[g] \in GcState /\ missed' \subseteq Loads
  <2>1. gc'[g] = IdleGc /\ missed' = missed
    BY <1>8 DEF DeleteFails, ListFails, TypeOK
  <2>2. IdleGc \in GcState
    BY DEF IdleGc, GcState, GcPhases
  <2>3. QED
    BY <1>1, <2>1, <2>2
<1>9. QED
  BY <1>3, <1>4, <1>5, <1>6, <1>7, <1>8 DEF GcStep

\* Every step keeps the types.
LEMMA StepTypes ==
  ASSUME TypeOK, LogSound, [Next]_vars
  PROVE  TypeOK'
<1>1. CASE Tick
  BY <1>1, TimesAssumption DEF Tick, TypeOK, Log!TypeOK
<1>2. ASSUME NEW j \in Jobs, NEW o \in Objects, PutObject(j, o)
      PROVE  TypeOK'
  BY <1>2, TimesAssumption DEF PutObject, TypeOK, Log!TypeOK
<1>3. ASSUME NEW j \in Jobs, CommitLoads(j)
      PROVE  TypeOK'
  BY <1>3, CommitAppends DEF CommitLoads, Becomes, WriterState, TypeOK, Log!TypeOK
<1>4. ASSUME NEW j \in Jobs, WriterDies(j)
      PROVE  TypeOK'
  BY <1>4 DEF WriterDies, Becomes, WriterState, TypeOK, Log!TypeOK
<1>5. ASSUME NEW g \in Gcs, GcStep(g)
      PROVE  TypeOK'
  <2>1. gc'[g] \in GcState /\ missed' \subseteq Loads
    BY <1>5, CollectionTypes
  <2>2. QED
    BY <1>5, <2>1, OneCollection DEF TypeOK, Log!TypeOK
<1>6. CASE UNCHANGED vars
  BY <1>6 DEF vars, TypeOK, Log!TypeOK
<1>7. QED
  BY <1>1, <1>2, <1>3, <1>4, <1>5, <1>6 DEF Next, WriterStep

-----------------------------------------------------------------------------
(***************************************************************************)
(* The log, the jobs and the clock.                                        *)
(***************************************************************************)

\* A commit leaves the versions before it as they are.
LEMMA VersionsKept ==
  ASSUME TypeOK, NEW j \in Jobs, Log!Commit(j), NEW v \in 1..Len(log)
  PROVE  /\ v \in (1..Len(log))' /\ log'[v] = log[v]
         /\ ReferencedBy(v)' = ReferencedBy(v)
<1>1. Len(log') = Len(log) + 1 /\ Len(log) \in Nat /\ log'[v] = log[v]
  BY CommitAppends
<1>2. QED
  BY <1>1 DEF ReferencedBy

\* What the manifest of a commit references: loads of the job, and loads that
\* the version before it references.
LEMMA NewVersionLoads ==
  ASSUME TypeOK, LogSound, NEW j \in Jobs, CommitLoads(j)
  PROVE  LET n == Len(log) + 1
         IN  /\ log'[n].job = j
             /\ \A c \in ColumnsOf[j] : log'[n].columns[c] = j
             /\ LoadsOf(log'[n]) \subseteq
                  {<<c, j>> : c \in ColumnsOf[j]}
                    \cup (IF Len(log) = 0 THEN {} ELSE ReferencedBy(Len(log)))
<1> DEFINE n == Len(log) + 1
<1>1. /\ Len(log) \in Nat
      /\ log'[n] = [job |-> j, columns |-> Log!Override(Log!Current, j)]
  BY CommitAppends DEF CommitLoads
<1>2. ColumnsOf[j] \subseteq Columns /\ PrimaryOf[j] \in ColumnsOf[j]
  BY ColumnsOfAssumption, PrimaryOfAssumption
<1>3. log'[n].job = j /\ \A c \in Columns :
        log'[n].columns[c] = IF c \in ColumnsOf[j] THEN j ELSE Log!Current[c]
  BY <1>1 DEF Log!Override
<1>4. PrimaryLoad(j) \in {<<c, j>> : c \in ColumnsOf[j]}
  BY <1>2 DEF PrimaryLoad
<1>5. ASSUME NEW c \in Columns \ ColumnsOf[j], Log!Current[c] # NoLoad
      PROVE  Len(log) # 0 /\ <<c, Log!Current[c]>> \in ReferencedBy(Len(log))
  <2>1. log # << >> /\ Log!Current = log[Len(log)].columns
    BY <1>5 DEF Log!Current, Log!NoColumns
  <2>2. Len(log) # 0
    BY <2>1, EmptySeq DEF TypeOK, Log!TypeOK
  <2>3. QED
    BY <1>5, <2>1, <2>2 DEF ReferencedBy, LoadsOf
<1>6. LoadsOf(log'[n]) = {<<c, log'[n].columns[c]>> :
                            c \in {d \in Columns : log'[n].columns[d] # NoLoad}}
                           \cup {PrimaryLoad(j)}
  BY <1>1 DEF LoadsOf
<1> HIDE DEF n
<1>7. ASSUME NEW l \in LoadsOf(log'[n])
      PROVE  l \in {<<c, j>> : c \in ColumnsOf[j]}
                     \cup (IF Len(log) = 0 THEN {} ELSE ReferencedBy(Len(log)))
  BY <1>3, <1>4, <1>5, <1>6, <1>7
<1>8. QED
  BY <1>2, <1>3, <1>7 DEF n

LEMMA StepLog ==
  ASSUME TypeOK, LogSound, [Next]_vars
  PROVE  LogSound'
<1>1. CASE UNCHANGED <<log, writer>>
  BY <1>1 DEF LogSound, CommittedLoads, ReferencedBy, Log!Committed
<1>2. ASSUME NEW j \in Jobs, CommitLoads(j)
      PROVE  LogSound'
  <2>1. /\ Len(log) \in Nat /\ Len(log') = Len(log) + 1
        /\ \A v \in 1..Len(log) : log'[v] = log[v] /\ ReferencedBy(v)' = ReferencedBy(v)
    BY <1>2, CommitAppends, VersionsKept DEF CommitLoads
  <2>2. writer' = [writer EXCEPT ![j] = "committed"] /\ writer \in [Jobs -> WriterState]
    BY <1>2 DEF CommitLoads, Becomes, TypeOK
  <2>3. CommittedLoads \subseteq CommittedLoads'
    BY <2>2 DEF CommittedLoads, Loads
  <2>4. {<<c, j>> : c \in ColumnsOf[j]} \subseteq CommittedLoads'
    <3>1. ASSUME NEW c \in ColumnsOf[j]
          PROVE  <<c, j>> \in Loads /\ writer'[<<c, j>>[2]] = "committed"
      BY <2>2, ColumnsOfAssumption DEF Loads
    <3>2. QED
      BY <3>1 DEF CommittedLoads
  <2>5. LoadsOf(log'[Len(log) + 1]) \subseteq CommittedLoads'
    BY <1>2, <2>1, <2>3, <2>4, NewVersionLoads DEF LogSound
  <2>6. \A k \in Jobs : writer'[k] = "committed" <=> Log!Committed(k)'
    <3>1. log'[Len(log) + 1].job = j
      BY <1>2, NewVersionLoads
    <3>2. QED
      BY <2>1, <2>2, <3>1 DEF LogSound, Log!Committed
  <2>7. \A v \in 1..Len(log') :
          /\ ReferencedBy(v)' \subseteq CommittedLoads'
          /\ \A c \in ColumnsOf[log'[v].job] : log'[v].columns[c] = log'[v].job
    <3>1. ASSUME NEW v \in 1..Len(log)
          PROVE  /\ ReferencedBy(v)' \subseteq CommittedLoads'
                 /\ \A c \in ColumnsOf[log'[v].job] : log'[v].columns[c] = log'[v].job
      BY <2>1, <2>3 DEF LogSound
    <3>2. \A c \in ColumnsOf[log'[Len(log) + 1].job] :
            log'[Len(log) + 1].columns[c] = log'[Len(log) + 1].job
      BY <1>2, NewVersionLoads
    <3>3. \A v \in 1..Len(log') : v \in 1..Len(log) \/ v = Len(log) + 1
      BY <2>1
    <3>4. QED
      BY <2>5, <3>1, <3>2, <3>3 DEF ReferencedBy
  <2>8. QED
    BY <2>6, <2>7 DEF LogSound
<1>3. ASSUME NEW j \in Jobs, WriterDies(j)
      PROVE  LogSound'
  <2>1. log' = log /\ writer' = [writer EXCEPT ![j] = "dead"] /\ writer[j] = "writing"
    BY <1>3 DEF WriterDies, Becomes
  <2>2. \A k \in Jobs : writer'[k] = "committed" <=> writer[k] = "committed"
    BY <2>1 DEF TypeOK
  <2>3. CommittedLoads' = CommittedLoads
    BY <2>2 DEF CommittedLoads, Loads
  <2>4. QED
    BY <2>1, <2>2, <2>3 DEF LogSound, ReferencedBy, Log!Committed
<1>4. ASSUME NEW g \in Gcs, GcStep(g) PROVE UNCHANGED <<log, writer>>
  BY <1>4, OneCollection
<1>5. QED
  BY <1>1, <1>2, <1>3, <1>4 DEF Next, WriterStep, Tick, PutObject, vars

LEMMA StepJobs ==
  ASSUME TypeOK, JobsSound, [Next]_vars
  PROVE  JobsSound'
<1>1. DOMAIN modified \subseteq DOMAIN modified'
  BY OneCollection
  DEF Next, WriterStep, Tick, PutObject, CommitLoads, WriterDies, vars
<1>2. ASSUME NEW j \in Jobs, writer'[j] = "committed"
      PROVE  writer[j] = "committed" \/ Put(j) = ObjectsOf(j)
  BY <1>2, OneCollection
  DEF Next, WriterStep, Tick, PutObject, CommitLoads, WriterDies, Becomes, vars, TypeOK
<1>3. QED
  BY <1>1, <1>2 DEF JobsSound, Put, ObjectsOf

\* The times of a collection that takes a step.
LEMMA CollectionTimes ==
  ASSUME TypeOK, TimesSound, NEW g \in Gcs, GcStep(g)
  PROVE  /\ now' = now /\ gc'[g].cutoff <= now
         /\ gc'[g].pc # "idle" => gc'[g].minAge \in MinAges
         /\ Selecting(g)' => /\ gc'[g].started <= now
                             /\ now <= gc'[g].started + GcTime
<1> DEFINE Goal == /\ now' = now /\ gc'[g].cutoff <= now
                   /\ gc'[g].pc # "idle" => gc'[g].minAge \in MinAges
                   /\ Selecting(g)' => /\ gc'[g].started <= now
                                       /\ now <= gc'[g].started + GcTime
<1>1. gc[g] \in GcState /\ now \in Nat /\ GcTime \in Nat
  BY TimesAssumption DEF TypeOK
<1>2. /\ gc[g].cutoff <= now
      /\ gc[g].pc # "idle" => gc[g].minAge \in MinAges
      /\ Selecting(g) => gc[g].started <= now /\ now <= gc[g].started + GcTime
  BY DEF TimesSound
<1>3. ASSUME StartGc(g) PROVE Goal
  <2>1. PICK dryRun \in BOOLEAN, minAge \in MinAges :
          gc'[g] = [IdleGc EXCEPT !.pc = "manifests", !.dryRun = dryRun,
                                  !.minAge = minAge, !.started = now,
                                  !.todo = CommitsToRead]
    BY <1>3 DEF StartGc, TypeOK
  <2>2. /\ gc'[g].cutoff = 0 /\ gc'[g].minAge = minAge /\ gc'[g].started = now
        /\ now' = now
    BY <1>3, <2>1 DEF StartGc, IdleGc
  <2>3. QED
    BY <1>1, <2>2
<1>4. ASSUME NEW v \in 1..Len(log), FetchManifest(g, v) \/ ManifestUnreadable(g, v)
      PROVE  Goal
  <2>1. /\ gc'[g].cutoff = gc[g].cutoff /\ gc'[g].pc = gc[g].pc
        /\ gc'[g].minAge = gc[g].minAge /\ gc'[g].started = gc[g].started
        /\ now' = now
    BY <1>1, <1>4 DEF FetchManifest, ManifestUnreadable, TypeOK, GcState
  <2>2. QED
    BY <1>2, <2>1 DEF Selecting
<1>5. ASSUME ListLoads(g) PROVE Goal
  <2>1. /\ gc'[g].cutoff = gc[g].cutoff /\ gc[g].pc = "manifests"
        /\ gc'[g].minAge = gc[g].minAge /\ gc'[g].started = gc[g].started
        /\ now' = now
    BY <1>1, <1>5 DEF ListLoads, TypeOK, GcState
  <2>2. QED
    BY <1>2, <2>1 DEF Selecting
<1>6. ASSUME SelectOrphans(g) PROVE Goal
  <2>1. /\ gc[g].pc = "listed" /\ now' = now
        /\ gc'[g] = [IdleGc EXCEPT !.pc = "selected", !.dryRun = gc[g].dryRun,
                       !.minAge = gc[g].minAge, !.cutoff = now,
                       !.orphans = {o \in gc[g].listed : Orphan(g, o[1])}]
    BY <1>6 DEF SelectOrphans, TypeOK
  <2>2. QED
    BY <1>1, <1>2, <2>1 DEF IdleGc, Selecting
<1>7. ASSUME DeleteOrphans(g) PROVE Goal
  <2>1. /\ gc[g].pc = "selected" /\ now' = now
        /\ gc'[g] = [IdleGc EXCEPT !.pc = "done", !.dryRun = gc[g].dryRun,
                       !.minAge = gc[g].minAge, !.cutoff = gc[g].cutoff]
    BY <1>7 DEF DeleteOrphans, TypeOK
  <2>2. QED
    BY <1>1, <1>2, <2>1 DEF IdleGc, Selecting
<1>8. ASSUME DeleteFails(g) \/ ListFails(g) PROVE Goal
  <2>1. gc'[g] = IdleGc /\ now' = now
    BY <1>8 DEF DeleteFails, ListFails, TypeOK
  <2>2. QED
    BY <1>1, <2>1 DEF IdleGc, Selecting
<1>9. QED
  BY <1>3, <1>4, <1>5, <1>6, <1>7, <1>8 DEF GcStep

\* Nothing takes longer than it may.
LEMMA StepTimes ==
  ASSUME TypeOK, TimesSound, [Next]_vars
  PROVE  TimesSound'
<1>1. now \in Nat /\ WriteTime \in Nat /\ GcTime \in Nat
  BY TimesAssumption DEF TypeOK
<1>2. CASE Tick
  <2>1. /\ now' = now + 1
        /\ UNCHANGED <<log, objects, modified, writer, gc, missed>>
    BY <1>2 DEF Tick
  <2>2. \A o \in DOMAIN modified : modified[o] \in Nat
    BY DEF TypeOK
  <2>3. \A j \in Jobs : \A o \in Writing(j) : now + 1 <= modified[o] + WriteTime
    <3>1. ASSUME NEW j \in Jobs, NEW o \in Writing(j)
          PROVE  now + 1 <= modified[o] + WriteTime
      <4>1. now - modified[o] < WriteTime /\ modified[o] \in Nat
        BY <1>2, <2>2 DEF Tick, Writing, Put
      <4>2. QED
        BY <1>1, <4>1
    <3>2. QED
      BY <3>1
  <2>4. \A g \in Gcs : gc[g].started \in Nat /\ gc[g].cutoff \in Nat
    BY DEF TypeOK, GcState
  <2>5. ASSUME NEW g \in Gcs, Selecting(g)
        PROVE  gc[g].started <= now + 1 /\ now + 1 <= gc[g].started + GcTime
    <3>1. now - gc[g].started < GcTime /\ gc[g].started <= now
      BY <1>2, <2>5 DEF Tick, TimesSound
    <3>2. QED
      BY <1>1, <2>4, <3>1
  <2>6. \A o \in DOMAIN modified : modified[o] <= now + 1
    BY <1>1, <2>2 DEF TimesSound
  <2>7. \A g \in Gcs : gc[g].cutoff <= now + 1
    BY <1>1, <2>4 DEF TimesSound
  <2>8. \A g \in Gcs : gc[g].pc # "idle" => gc[g].minAge \in MinAges
    BY DEF TimesSound
  <2>9. QED
    BY <2>1, <2>3, <2>5, <2>6, <2>7, <2>8
    DEF TimesSound, Writing, Put, Selecting
<1>3. ASSUME NEW j \in Jobs, NEW o \in Objects, PutObject(j, o)
      PROVE  TimesSound'
  <2>1. /\ DOMAIN modified' = DOMAIN modified \cup {o}
        /\ \A i \in DOMAIN modified' : modified'[i] = IF i = o THEN now ELSE modified[i]
        /\ UNCHANGED <<now, writer, gc>>
    BY <1>3 DEF PutObject
  <2>2. \A k \in Jobs : Writing(k)' \subseteq Writing(k) \cup {o}
    BY <2>1 DEF Writing, Put
  <2>3. QED
    BY <1>1, <2>1, <2>2 DEF TimesSound, Selecting, Writing, Put
<1>4. ASSUME NEW j \in Jobs, CommitLoads(j) \/ WriterDies(j)
      PROVE  TimesSound'
  <2>1. /\ UNCHANGED <<modified, now, gc>>
        /\ writer' = [writer EXCEPT ![j] = "committed"] \/ writer' = [writer EXCEPT ![j] = "dead"]
    BY <1>4 DEF CommitLoads, WriterDies, Becomes
  <2>2. \A k \in Jobs : Writing(k)' \subseteq Writing(k)
    BY <2>1 DEF Writing, Put, TypeOK
  <2>3. QED
    BY <2>1, <2>2 DEF TimesSound, Selecting
<1>5. ASSUME NEW g \in Gcs, GcStep(g)
      PROVE  TimesSound'
  <2>1. /\ UNCHANGED <<modified, writer, now>>
        /\ \A h \in Gcs : h # g => gc'[h] = gc[h]
    BY <1>5, OneCollection, CollectionTimes DEF TypeOK
  <2>2. /\ gc'[g].cutoff <= now
        /\ gc'[g].pc # "idle" => gc'[g].minAge \in MinAges
        /\ Selecting(g)' => /\ gc'[g].started <= now
                            /\ now <= gc'[g].started + GcTime
    BY <1>5, CollectionTimes
  <2>3. QED
    BY <2>1, <2>2 DEF TimesSound, Selecting, Writing, Put
<1>6. CASE UNCHANGED vars
  BY <1>6 DEF vars, TimesSound, Selecting, Writing, Put
<1>7. QED
  BY <1>2, <1>3, <1>4, <1>5, <1>6 DEF Next, WriterStep

-----------------------------------------------------------------------------
(***************************************************************************)
(* The scan of the manifests.                                              *)
(***************************************************************************)

\* What no step takes back: versions, times, committed jobs, missed loads.
LEMMA StepGrows ==
  ASSUME TypeOK, [Next]_vars
  PROVE  /\ \A v \in 1..Len(log) : /\ v \in 1..Len(log') /\ log'[v] = log[v]
                                  /\ ReferencedBy(v)' = ReferencedBy(v)
         /\ DOMAIN modified \subseteq DOMAIN modified'
         /\ \A o \in DOMAIN modified : modified'[o] = modified[o]
         /\ CommittedLoads \subseteq CommittedLoads'
         /\ missed \subseteq missed'
<1>1. /\ DOMAIN modified \subseteq DOMAIN modified'
      /\ \A o \in DOMAIN modified : modified'[o] = modified[o]
  BY OneCollection
  DEF Next, WriterStep, Tick, PutObject, CommitLoads, WriterDies, vars, Put, ObjectsOf
<1>2. \A j \in Jobs : writer[j] = "committed" => writer'[j] = "committed"
  BY OneCollection
  DEF Next, WriterStep, Tick, PutObject, CommitLoads, WriterDies, Becomes, vars, TypeOK
<1>3. missed \subseteq missed'
  BY OneCollection DEF Next, WriterStep, Tick, PutObject, CommitLoads, WriterDies, vars
<1>4. log' = log \/ \E j \in Jobs : Log!Commit(j)
  BY OneCollection DEF Next, WriterStep, Tick, PutObject, CommitLoads, WriterDies, vars
<1>5. \A v \in 1..Len(log) : /\ v \in 1..Len(log') /\ log'[v] = log[v]
                            /\ ReferencedBy(v)' = ReferencedBy(v)
  BY <1>4, VersionsKept DEF ReferencedBy
<1>6. QED
  BY <1>1, <1>2, <1>3, <1>5 DEF CommittedLoads, Loads

\* A version that is young enough stays so, as the objects of its job are
\* written.
LEMMA LateKept ==
  ASSUME IInv, [Next]_vars, NEW g \in Gcs, gc'[g].started = gc[g].started,
         NEW v \in 1..Len(log), Late(g, v)
  PROVE  Late(g, v)'
<1>1. ObjectsOf(log[v].job) \subseteq DOMAIN modified
  <2>1. TypeOK /\ LogSound /\ JobsSound
    BY DEF IInv
  <2>2. log[v].job \in Jobs
    BY <2>1, LoadsAreLoads
  <2>3. QED
    BY <2>1, <2>2 DEF LogSound, JobsSound, Log!Committed
<1>2. log'[v] = log[v] /\ \A o \in DOMAIN modified : modified'[o] = modified[o]
  BY StepGrows DEF IInv
<1>3. QED
  BY <1>1, <1>2 DEF Late, ObjectsOf

\* A collection that does nothing keeps what it knows, unless a job commits.
LEMMA ScanKept ==
  ASSUME IInv, [Next]_vars, NEW g \in Gcs, gc'[g] = gc[g],
         log' = log,
         \A o \in objects' \ objects : now <= modified'[o]
  PROVE  ScanSound(g)'
<1>1. /\ TypeOK /\ TimesSound /\ ScanSound(g)
  BY DEF IInv
<1>2. /\ CommittedLoads \subseteq CommittedLoads' /\ missed \subseteq missed'
      /\ DOMAIN modified \subseteq DOMAIN modified'
      /\ \A o \in DOMAIN modified : modified'[o] = modified[o]
  BY <1>1, StepGrows
<1>3. \A v \in 1..Len(log') : /\ v \in 1..Len(log)
                              /\ Late(g, v) => Late(g, v)'
                              /\ Seen(g, v, gc[g].unread) => Seen(g, v, gc[g].unread)'
                              /\ Seen(g, v, missed) => Seen(g, v, missed)'
  BY <1>2, LateKept DEF Seen, ReferencedBy
<1>4. Selecting(g)' => gc'[g].referenced \subseteq CommittedLoads'
  BY <1>1, <1>2 DEF ScanSound, Selecting
<1>5. ASSUME gc[g].pc = "listed"
      PROVE  \A o \in objects' \ gc[g].listed : gc[g].started <= modified'[o]
  <2>1. gc[g].started <= now /\ gc[g].started \in Nat /\ now \in Nat
    BY <1>1, <1>5, TimesAssumption DEF TimesSound, Selecting, TypeOK, GcState
  <2>2. ASSUME NEW o \in objects' \ objects
        PROVE  gc[g].started <= modified'[o]
    <3>1. now <= modified'[o]
      BY <2>2
    <3>2. o \in DOMAIN modified' /\ modified'[o] \in Nat
      BY <1>1, StepTypes DEF IInv, TypeOK
    <3>3. QED
      BY <2>1, <3>1, <3>2
  <2>3. ASSUME NEW o \in objects \ gc[g].listed
        PROVE  gc[g].started <= modified'[o]
    BY <1>1, <1>2, <1>5 DEF ScanSound, TypeOK
  <2>4. QED
    BY <2>2, <2>3
<1>6. QED
  BY <1>1, <1>2, <1>3, <1>4, <1>5 DEF ScanSound

\* A job that commits is late for every collection on its way.
LEMMA ScanOfCommit ==
  ASSUME IInv, NEW j \in Jobs, CommitLoads(j), NEW g \in Gcs
  PROVE  ScanSound(g)'
<1>1. TypeOK /\ TimesSound /\ ScanSound(g) /\ [Next]_vars
  BY DEF IInv, Next, WriterStep
<1>2. UNCHANGED <<gc, missed, modified, objects>>
  BY DEF CommitLoads
<1>3. \A v \in 1..Len(log) :
        /\ Late(g, v) => Late(g, v)'
        /\ Seen(g, v, gc[g].unread) => Seen(g, v, gc[g].unread)'
        /\ Seen(g, v, missed) => Seen(g, v, missed)'
  BY <1>1, <1>2, LateKept, StepGrows DEF Seen, ReferencedBy
<1>4. /\ Len(log) \in Nat /\ Len(log') = Len(log) + 1
      /\ log'[Len(log) + 1].job = j
  BY <1>1, CommitAppends, NewVersionLoads DEF IInv, CommitLoads
<1>5. ASSUME Selecting(g), NEW v \in 1..Len(log'), v = Len(log) + 1
      PROVE  Late(g, v)'
  <2>1. gc[g].started <= now /\ gc[g].started \in Nat /\ now \in Nat
    BY <1>1, <1>5, TimesAssumption DEF TimesSound, TypeOK, GcState
  <2>2. \A o \in ObjectsOf(j) : o \in Writing(j)
    BY DEF CommitLoads, Writing
  <2>3. \A o \in ObjectsOf(j) : now <= modified[o] + WriteTime /\ modified[o] \in Nat
    BY <1>1, <2>2 DEF TimesSound, TypeOK, Writing, Put
  <2>4. \A o \in ObjectsOf(j) : gc[g].started <= modified[o] + WriteTime
    BY <2>1, <2>3, TimesAssumption
  <2>5. QED
    BY <1>2, <1>4, <1>5, <2>4 DEF Late, ObjectsOf
<1>6. \A v \in 1..Len(log') : v \in 1..Len(log) \/ v = Len(log) + 1
  BY <1>4
<1>7. CommittedLoads \subseteq CommittedLoads'
  BY <1>1, StepGrows
<1>8. QED
  BY <1>1, <1>2, <1>3, <1>5, <1>6, <1>7 DEF ScanSound, Selecting

\* The collection that reads.
LEMMA ScanOfRead ==
  ASSUME IInv, NEW g \in Gcs, NEW v \in 1..Len(log),
         FetchManifest(g, v) \/ ManifestUnreadable(g, v)
  PROVE  ScanSound(g)'
<1>1. /\ TypeOK /\ LogSound /\ ScanSound(g) /\ gc[g].pc = "manifests" /\ gc[g] \in GcState
      /\ UNCHANGED <<log, objects, modified, now, writer, missed>>
  BY DEF IInv, TypeOK, FetchManifest, ManifestUnreadable
<1>2. /\ gc'[g].pc = "manifests" /\ gc'[g].started = gc[g].started
      /\ gc'[g].todo = gc[g].todo \ {v}
      /\ \/ /\ gc'[g].referenced = gc[g].referenced \cup ReferencedBy(v)
            /\ gc'[g].unread = gc[g].unread
         \/ /\ gc'[g].referenced = gc[g].referenced \cup {PrimaryLoad(log[v].job)}
            /\ gc'[g].unread = gc[g].unread \cup ReferencedBy(v)
  BY <1>1 DEF FetchManifest, ManifestUnreadable, TypeOK, GcState
<1>3. ReferencedBy(v) \subseteq CommittedLoads /\ PrimaryLoad(log[v].job) \in ReferencedBy(v)
  BY <1>1 DEF LogSound, ReferencedBy, LoadsOf
<1>4. gc'[g].referenced \subseteq CommittedLoads'
  BY <1>1, <1>2, <1>3 DEF ScanSound, Selecting, CommittedLoads
<1>5. ASSUME NEW w \in 1..Len(log)
      PROVE  w \in gc'[g].todo \/ Seen(g, w, gc[g].unread)' \/ Late(g, w)'
  <2>1. CASE w = v
    BY <1>1, <1>2, <1>3, <2>1 DEF Seen, ReferencedBy
  <2>2. CASE w # v
    BY <1>1, <1>2, <2>2 DEF ScanSound, Seen, Late, ReferencedBy
  <2>3. QED
    BY <2>1, <2>2
<1>6. QED
  BY <1>1, <1>2, <1>4, <1>5 DEF ScanSound

\* The collection that lists the loads has read or missed every version, or the
\* version is late.
LEMMA ScanOfListing ==
  ASSUME IInv, NEW g \in Gcs, ListLoads(g)
  PROVE  ScanSound(g)'
<1>1. /\ TypeOK /\ ScanSound(g) /\ gc[g].pc = "manifests" /\ gc[g].todo = {}
      /\ UNCHANGED <<log, objects, modified, now, writer>>
      /\ missed' = missed \cup (gc[g].unread \ gc[g].referenced)
  BY DEF IInv, ListLoads
<1>2. /\ gc'[g].pc = "listed" /\ gc'[g].listed = objects
      /\ gc'[g].referenced = gc[g].referenced /\ gc'[g].started = gc[g].started
  BY <1>1 DEF ListLoads, TypeOK, GcState
<1>3. ASSUME NEW v \in 1..Len(log)
      PROVE  Seen(g, v, missed)' \/ Late(g, v)'
  BY <1>1, <1>2 DEF ScanSound, Seen, Late, ReferencedBy
<1>4. gc'[g].referenced \subseteq CommittedLoads'
  BY <1>1, <1>2 DEF ScanSound, Selecting, CommittedLoads
<1>5. QED
  BY <1>1, <1>2, <1>3, <1>4 DEF ScanSound, TypeOK

LEMMA StepScan ==
  ASSUME IInv, [Next]_vars, NEW h \in Gcs
  PROVE  ScanSound(h)'
<1>1. TypeOK /\ TimesSound /\ now \in Nat
  BY TimesAssumption DEF IInv, TypeOK
<1>2. CASE UNCHANGED <<log, gc, objects>>
  BY <1>2, ScanKept
<1>3. ASSUME NEW j \in Jobs, NEW o \in Objects, PutObject(j, o)
      PROVE  ScanSound(h)'
  <2>1. /\ UNCHANGED <<log, gc>>
        /\ \A i \in objects' \ objects : i = o
        /\ modified'[o] = now
    BY <1>3 DEF PutObject
  <2>2. QED
    BY <1>1, <2>1, ScanKept
<1>4. ASSUME NEW j \in Jobs, CommitLoads(j)
      PROVE  ScanSound(h)'
  BY <1>4, ScanOfCommit
<1>5. ASSUME NEW g \in Gcs, GcStep(g), g # h
      PROVE  ScanSound(h)'
  <2>1. /\ gc'[h] = gc[h] /\ log' = log /\ objects' \subseteq objects
    BY <1>1, <1>5, OneCollection DEF TypeOK
  <2>2. QED
    BY <2>1, ScanKept
<1>6. ASSUME GcStep(h)
      PROVE  ScanSound(h)'
  <2>1. CASE StartGc(h)
    <3>1. /\ gc'[h].pc = "manifests" /\ gc'[h].referenced = {}
          /\ gc'[h].todo = 1..Len(log) /\ log' = log
      BY <1>1, <2>1 DEF StartGc, IdleGc, TypeOK, CommitsToRead
    <3>2. QED
      BY <3>1 DEF ScanSound
  <2>2. CASE \E v \in 1..Len(log) : FetchManifest(h, v) \/ ManifestUnreadable(h, v)
    BY <2>2, ScanOfRead
  <2>3. CASE ListLoads(h)
    BY <2>3, ScanOfListing
  <2>4. CASE SelectOrphans(h) \/ DeleteOrphans(h) \/ DeleteFails(h) \/ ListFails(h)
    <3>1. SelectOrphans(h) => gc'[h].pc = "selected"
      BY <1>1 DEF SelectOrphans, IdleGc, TypeOK
    <3>2. DeleteOrphans(h) => gc'[h].pc = "done"
      BY <1>1 DEF DeleteOrphans, IdleGc, TypeOK
    <3>3. DeleteFails(h) \/ ListFails(h) => gc'[h].pc = "idle"
      BY <1>1 DEF DeleteFails, ListFails, IdleGc, TypeOK
    <3>4. QED
      BY <2>4, <3>1, <3>2, <3>3 DEF ScanSound, Selecting
  <2>5. QED
    BY <1>6, <2>1, <2>2, <2>3, <2>4 DEF GcStep
<1>7. QED
  BY <1>2, <1>3, <1>4, <1>5, <1>6 DEF Next, WriterStep, Tick, WriterDies, vars

-----------------------------------------------------------------------------
(***************************************************************************)
(* What is selected, what is deleted.                                      *)
(***************************************************************************)

\* What may be deleted once may be deleted for ever.
LEMMA DisposableKept ==
  ASSUME IInv, [Next]_vars, NEW l \in Loads, Disposable(l)
  PROVE  Disposable(l)'
<1>1. TypeOK /\ l[2] \in Jobs
  BY DEF IInv, Loads
<1>2. \A j \in Jobs : writer[j] # "writing" => writer'[j] = writer[j]
  BY <1>1, OneCollection
  DEF Next, WriterStep, Tick, PutObject, CommitLoads, WriterDies, Becomes, vars, TypeOK
<1>3. missed \subseteq missed'
  BY <1>1, StepGrows DEF IInv
<1>4. QED
  BY <1>1, <1>2, <1>3 DEF Disposable, Unseen, PrimaryLoad

\* The loads of a job that is writing, or of a version that is late, are young
\* when a collection selects.
LEMMA SelectedAreDisposable ==
  ASSUME IInv, GraceIsLongEnough, NEW g \in Gcs, gc[g].pc = "listed",
         NEW o \in gc[g].listed, Orphan(g, o[1])
  PROVE  Disposable(o[1])
<1> DEFINE l == o[1]
           j == o[1][2]
<1>1. /\ TypeOK /\ LogSound /\ TimesSound /\ ScanSound(g)
      /\ gc[g] \in GcState /\ now \in Nat
  BY TimesAssumption DEF IInv, TypeOK
<1>2. /\ o \in DOMAIN modified /\ o \in Objects /\ modified[o] \in Nat
      /\ l \in Loads /\ j \in Jobs /\ o \in ObjectsOf(j)
  BY <1>1 DEF ScanSound, TypeOK, Objects, Loads, ObjectsOf
<1>3. /\ gc[g].minAge \in Nat /\ gc[g].started \in Nat
      /\ WriteTime + GcTime < gc[g].minAge
      /\ gc[g].started <= now /\ now <= gc[g].started + GcTime
  BY <1>1, TimesAssumption DEF GraceIsLongEnough, TimesSound, Selecting, GcState
<1>4. /\ l \notin gc[g].referenced
      /\ ~ (modified[o] > now - gc[g].minAge)
  BY DEF Orphan, Young, KeysOf
<1>5. writer[j] # "writing"
  <2>1. SUFFICES ASSUME writer[j] = "writing" PROVE FALSE
    OBVIOUS
  <2>2. now <= modified[o] + WriteTime
    BY <1>1, <1>2, <2>1 DEF TimesSound, Writing, Put
  <2>3. QED
    BY <1>1, <1>2, <1>3, <1>4, <2>2, TimesAssumption
<1>6. ASSUME writer[j] = "committed"
      PROVE  Unseen(l)
  <2>1. PICK v \in 1..Len(log) : log[v].job = j
    BY <1>1, <1>2, <1>6 DEF LogSound, Log!Committed
  <2>2. ~ Late(g, v)
    <3>1. SUFFICES ASSUME Late(g, v) PROVE FALSE
      OBVIOUS
    <3>2. gc[g].started <= modified[o] + WriteTime
      BY <1>2, <2>1, <3>1 DEF Late
    <3>3. QED
      BY <1>1, <1>2, <1>3, <1>4, <3>2, TimesAssumption
  <2>3. Seen(g, v, missed)
    BY <1>1, <2>2 DEF ScanSound
  <2>4. l \in ReferencedBy(v)
    <3>1. l[1] \in ColumnsOf[j] /\ l = <<l[1], j>> /\ l[1] \in Columns
      BY <1>2 DEF Loads
    <3>2. log[v].columns[l[1]] = j /\ j # NoLoad
      BY <1>1, <1>2, <2>1, <3>1, NoLoadAssumption DEF LogSound
    <3>3. QED
      BY <3>1, <3>2 DEF ReferencedBy, LoadsOf
  <2>5. QED
    BY <1>4, <2>1, <2>3, <2>4 DEF Seen, Unseen
<1>7. QED
  BY <1>1, <1>2, <1>5, <1>6 DEF Disposable, TypeOK, WriterState

\* Only a deletion takes objects away, and only those selected.
LEMMA StepDeletes ==
  ASSUME TypeOK, [Next]_vars, NEW o \in objects \ objects'
  PROVE  \E g \in Gcs : gc[g].pc = "selected" /\ o \in gc[g].orphans
<1>1. ASSUME NEW g \in Gcs, GcStep(g)
      PROVE  gc[g].pc = "selected" /\ o \in gc[g].orphans
  BY <1>1
  DEF GcStep, StartGc, FetchManifest, ManifestUnreadable, ListLoads,
      SelectOrphans, DeleteOrphans, DeleteFails, ListFails, Deleted
<1>2. QED
  BY <1>1 DEF Next, WriterStep, Tick, PutObject, CommitLoads, WriterDies, vars

LEMMA StepStay ==
  ASSUME IInv, GraceIsLongEnough, [Next]_vars
  PROVE  ObjectsStay'
<1>1. /\ TypeOK /\ ObjectsStay /\ \A g \in Gcs : SelectionSound(g)
  BY DEF IInv
<1>2. ASSUME NEW o \in DOMAIN modified'
      PROVE  o \in objects' \/ Disposable(o[1])'
  <2>1. CASE o \in DOMAIN modified
    <3>1. o[1] \in Loads
      BY <1>1, <2>1 DEF TypeOK, Objects
    <3>2. o \notin objects' => Disposable(o[1])
      <4>1. ASSUME o \in objects, o \notin objects'
            PROVE  Disposable(o[1])
        BY <1>1, <4>1, StepDeletes DEF SelectionSound
      <4>2. QED
        BY <1>1, <2>1, <4>1 DEF ObjectsStay
    <3>3. Disposable(o[1]) => Disposable(o[1])'
      BY <3>1, DisposableKept
    <3>4. QED
      BY <3>2, <3>3
  <2>2. CASE o \notin DOMAIN modified
    BY <1>1, <2>2, OneCollection
    DEF Next, WriterStep, Tick, PutObject, CommitLoads, WriterDies, vars
  <2>3. QED
    BY <2>1, <2>2
<1>3. QED
  BY <1>2 DEF ObjectsStay

\* What a collection has selected or left behind, while it does nothing.
LEMMA SelectionKept ==
  ASSUME IInv, GraceIsLongEnough, [Next]_vars, NEW g \in Gcs, gc'[g] = gc[g]
  PROVE  SelectionSound(g)'
<1>1. /\ TypeOK /\ TimesSound /\ SelectionSound(g) /\ gc[g] \in GcState /\ now \in Nat
  BY TimesAssumption DEF IInv, TypeOK
<1>2. /\ DOMAIN modified \subseteq DOMAIN modified'
      /\ \A o \in DOMAIN modified : modified'[o] = modified[o]
      /\ CommittedLoads \subseteq CommittedLoads'
  BY <1>1, StepGrows DEF IInv
<1>3. ASSUME gc[g].pc = "selected", NEW o \in gc[g].orphans
      PROVE  Disposable(o[1])'
  <2>1. o[1] \in Loads /\ Disposable(o[1])
    BY <1>1, <1>3 DEF SelectionSound, GcState, Objects
  <2>2. QED
    BY <2>1, DisposableKept
<1>4. \A l \in Loads : Kept(g, l) => Kept(g, l)'
  BY <1>2 DEF Kept, ObjectsIn
<1>5. \A o \in objects' \ objects : o \in DOMAIN modified' /\ modified'[o] = now
  BY <1>1, OneCollection
  DEF Next, WriterStep, Tick, PutObject, CommitLoads, WriterDies, vars
<1>6. ASSUME gc[g].pc \in {"selected", "done"}, NEW l \in Loads,
             NEW o \in ObjectsIn(l), o \in objects' \ objects
      PROVE  Kept(g, l)'
  <2>1. /\ gc[g].cutoff <= now /\ gc[g].cutoff \in Nat /\ gc[g].minAge \in Nat
        /\ gc[g].minAge > 0
    BY <1>1, <1>6, TimesAssumption DEF TimesSound, GcState, GraceIsLongEnough
  <2>2. now > gc[g].cutoff - gc[g].minAge
    BY <1>1, <2>1
  <2>3. QED
    BY <1>5, <1>6, <2>2 DEF Kept, ObjectsIn
<1>7. ASSUME gc[g].pc \in {"selected", "done"}, NEW l \in Loads,
             writer'[l[2]] # "committed", ObjectsIn(l) \cap objects' # {},
             ~ Kept(g, l)'
      PROVE  \/ gc[g].pc = "selected" /\ ObjectsIn(l) \cap objects' \subseteq gc[g].orphans
             \/ gc[g].pc = "done" /\ gc[g].dryRun
  <2>1. ObjectsIn(l) \cap objects' \subseteq ObjectsIn(l) \cap objects
    BY <1>6, <1>7
  <2>2. writer[l[2]] # "committed"
    BY <1>2, <1>7 DEF CommittedLoads
  <2>3. ~ Kept(g, l)
    BY <1>4, <1>7
  <2>4. QED
    BY <1>1, <1>7, <2>1, <2>2, <2>3 DEF SelectionSound
<1>8. QED
  BY <1>3, <1>7 DEF SelectionSound, ObjectsIn

\* What is left behind of a load when a collection selects is in the selection
\* or inside the grace period.
LEMMA SelectionOfOrphans ==
  ASSUME IInv, GraceIsLongEnough, NEW g \in Gcs, SelectOrphans(g)
  PROVE  SelectionSound(g)'
<1>1. /\ TypeOK /\ LogSound /\ TimesSound /\ ScanSound(g)
      /\ gc[g].pc = "listed" /\ gc[g] \in GcState /\ now \in Nat
      /\ UNCHANGED <<log, objects, modified, now, writer, missed>>
  BY TimesAssumption DEF IInv, TypeOK, SelectOrphans
<1>2. /\ gc'[g].pc = "selected" /\ gc'[g].minAge = gc[g].minAge
      /\ gc'[g].cutoff = now
      /\ gc'[g].orphans = {o \in gc[g].listed : Orphan(g, o[1])}
  BY <1>1 DEF SelectOrphans, TypeOK, IdleGc
<1>3. \A o \in gc'[g].orphans : Disposable(o[1])'
  <2>1. ASSUME NEW o \in gc'[g].orphans
        PROVE  Disposable(o[1])'
    <3>1. Disposable(o[1])
      BY <1>1, <1>2, SelectedAreDisposable
    <3>2. QED
      BY <1>1, <3>1 DEF Disposable, Unseen, PrimaryLoad
  <2>2. QED
    BY <2>1
<1>4. ASSUME NEW l \in Loads, writer[l[2]] # "committed",
             NEW o \in ObjectsIn(l) \cap objects, o \notin gc'[g].orphans
      PROVE  \E i \in ObjectsIn(l) \cap DOMAIN modified : modified[i] > now - gc[g].minAge
  <2>1. o \in DOMAIN modified /\ modified[o] \in Nat /\ o[1] = l
    BY <1>1, <1>4 DEF TypeOK, ObjectsIn
  <2>2. CASE o \in gc[g].listed
    <3>1. l \notin gc[g].referenced
      BY <1>1, <1>4 DEF ScanSound, Selecting, CommittedLoads
    <3>2. Young(KeysOf(g, l), gc[g].minAge)
      BY <1>2, <1>4, <2>1, <2>2, <3>1 DEF Orphan
    <3>3. PICK i \in gc[g].listed : i[1] = l /\ modified[i] > now - gc[g].minAge
      BY <3>2 DEF Young, KeysOf
    <3>4. i \in DOMAIN modified /\ i \in Objects
      BY <1>1, <3>3 DEF ScanSound, TypeOK
    <3>5. i \in ObjectsIn(l)
      BY <3>3, <3>4 DEF Objects, ObjectsIn
    <3>6. QED
      BY <3>3, <3>4, <3>5
  <2>3. CASE o \notin gc[g].listed
    <3>1. gc[g].started <= modified[o]
      BY <1>1, <1>4, <2>3 DEF ScanSound
    <3>2. /\ now <= gc[g].started + GcTime /\ gc[g].started \in Nat
          /\ gc[g].minAge \in Nat /\ WriteTime + GcTime < gc[g].minAge
      BY <1>1, TimesAssumption DEF TimesSound, Selecting, GraceIsLongEnough, GcState
    <3>3. modified[o] > now - gc[g].minAge
      BY <1>1, <2>1, <3>1, <3>2, TimesAssumption
    <3>4. QED
      BY <1>4, <2>1, <3>3
  <2>4. QED
    BY <2>2, <2>3
<1>5. ASSUME NEW l \in Loads, writer[l[2]] # "committed"
      PROVE  ObjectsIn(l) \cap objects \subseteq gc'[g].orphans \/ Kept(g, l)'
  BY <1>1, <1>2, <1>4, <1>5 DEF Kept, ObjectsIn
<1>6. QED
  BY <1>1, <1>2, <1>3, <1>5 DEF SelectionSound, ObjectsIn

\* What is left behind when the selection is deleted.
LEMMA SelectionOfDeletion ==
  ASSUME IInv, GraceIsLongEnough, NEW g \in Gcs, DeleteOrphans(g)
  PROVE  SelectionSound(g)'
<1>1. /\ TypeOK /\ SelectionSound(g) /\ gc[g].pc = "selected"
      /\ UNCHANGED <<log, modified, now, writer, missed>>
      /\ objects' = objects \ Deleted(g)
  BY DEF IInv, DeleteOrphans
<1>2. /\ gc'[g].pc = "done" /\ gc'[g].minAge = gc[g].minAge
      /\ gc'[g].cutoff = gc[g].cutoff /\ gc'[g].dryRun = gc[g].dryRun
  BY <1>1 DEF DeleteOrphans, TypeOK, IdleGc
<1>3. ASSUME NEW l \in Loads, writer[l[2]] # "committed",
             ObjectsIn(l) \cap objects' # {}, ~ gc[g].dryRun
      PROVE  Kept(g, l)
  BY <1>1, <1>3 DEF SelectionSound, Deleted
<1>4. \A l \in Loads : Kept(g, l) => Kept(g, l)'
  BY <1>1, <1>2 DEF Kept, ObjectsIn
<1>5. QED
  BY <1>1, <1>2, <1>3, <1>4 DEF SelectionSound, ObjectsIn

LEMMA StepSelection ==
  ASSUME IInv, GraceIsLongEnough, [Next]_vars, NEW h \in Gcs
  PROVE  SelectionSound(h)'
<1>1. TypeOK
  BY DEF IInv
<1>2. CASE gc'[h] = gc[h]
  BY <1>2, SelectionKept
<1>3. ASSUME GcStep(h)
      PROVE  SelectionSound(h)'
  <2>1. CASE SelectOrphans(h)
    BY <2>1, SelectionOfOrphans
  <2>2. CASE DeleteOrphans(h)
    BY <2>2, SelectionOfDeletion
  <2>3. CASE gc'[h].pc \notin {"selected", "done"}
    BY <2>3 DEF SelectionSound
  <2>4. StartGc(h) => gc'[h].pc = "manifests"
    BY <1>1 DEF StartGc, TypeOK, IdleGc
  <2>5. \A v \in 1..Len(log) :
          FetchManifest(h, v) \/ ManifestUnreadable(h, v) => gc'[h].pc = "manifests"
    BY <1>1 DEF FetchManifest, ManifestUnreadable, TypeOK, GcState
  <2>6. ListLoads(h) => gc'[h].pc = "listed"
    BY <1>1 DEF ListLoads, TypeOK, GcState
  <2>7. DeleteFails(h) \/ ListFails(h) => gc'[h].pc = "idle"
    BY <1>1 DEF DeleteFails, ListFails, IdleGc, TypeOK
  <2>8. QED
    BY <1>3, <2>1, <2>2, <2>3, <2>4, <2>5, <2>6, <2>7 DEF GcStep
<1>4. ASSUME NEW g \in Gcs, GcStep(g), g # h
      PROVE  gc'[h] = gc[h]
  BY <1>1, <1>4, OneCollection DEF TypeOK
<1>5. QED
  BY <1>2, <1>3, <1>4
  DEF Next, WriterStep, Tick, PutObject, CommitLoads, WriterDies, vars

-----------------------------------------------------------------------------
(***************************************************************************)
(* Theorems.                                                               *)
(***************************************************************************)

LEMMA InitIInv == Init => IInv
<1> SUFFICES ASSUME Init PROVE IInv
  OBVIOUS
<1>1. /\ TypeOK /\ log = << >> /\ Len(log) = 0 /\ DOMAIN modified = {} /\ now = 0
      /\ objects = {} /\ writer = [j \in Jobs |-> "writing"]
      /\ gc = [g \in Gcs |-> IdleGc]
  BY InitTypes, EmptySeq DEF Init, Log!Init
<1>2. LogSound
  BY <1>1 DEF LogSound, Log!Committed
<1>3. TimesSound
  BY <1>1 DEF TimesSound, Writing, Put, IdleGc, Selecting
<1>4. JobsSound /\ ObjectsStay
  BY <1>1 DEF JobsSound, ObjectsStay
<1>5. \A g \in Gcs : gc[g].pc = "idle"
  BY <1>1 DEF IdleGc
<1>6. QED
  BY <1>1, <1>2, <1>3, <1>4, <1>5 DEF IInv, ScanSound, SelectionSound, Selecting

LEMMA StepIInv == IInv /\ [Next]_vars => IInv'
<1> SUFFICES ASSUME IInv, [Next]_vars PROVE IInv'
  OBVIOUS
<1>1. /\ TypeOK /\ LogSound /\ TimesSound /\ JobsSound
  BY DEF IInv
<1>2. TypeOK' /\ LogSound' /\ TimesSound' /\ JobsSound'
  BY <1>1, StepTypes, StepLog, StepTimes, StepJobs
<1>3. \A g \in Gcs : ScanSound(g)'
  BY StepScan
<1>4. GraceIsLongEnough => ObjectsStay' /\ \A g \in Gcs : SelectionSound(g)'
  BY StepStay, StepSelection
<1>5. QED
  BY <1>2, <1>3, <1>4 DEF IInv, GraceIsLongEnough

LEMMA IInvImpliesGcInv == IInv => GcInv
<1> SUFFICES ASSUME IInv, GraceIsLongEnough, NEW v \in 1..Len(log)
    PROVE  TypeOK /\ (\A l \in ReferencedBy(v) \ missed : Whole(l))
             /\ Whole(PrimaryLoad(log[v].job))
  BY DEF IInv, GcInv, ReferencedLoadsAreWhole
<1>1. TypeOK /\ LogSound /\ JobsSound /\ ObjectsStay
  BY DEF IInv
<1>2. ASSUME NEW l \in CommittedLoads, ~ Unseen(l)
      PROVE  Whole(l)
  <2>1. l \in Loads /\ l[2] \in Jobs /\ writer[l[2]] = "committed"
    BY <1>2 DEF CommittedLoads, Loads
  <2>2. ASSUME NEW o \in ObjectsIn(l)
        PROVE  o \in objects
    <3>1. o \in ObjectsOf(l[2]) /\ o[1] = l
      BY <2>1, <2>2 DEF ObjectsIn, ObjectsOf, Objects
    <3>2. o \in DOMAIN modified
      BY <1>1, <2>1, <3>1 DEF JobsSound
    <3>3. QED
      BY <1>1, <1>2, <2>1, <3>1, <3>2 DEF ObjectsStay, Disposable
  <2>3. QED
    BY <2>2 DEF Whole
<1>3. ReferencedBy(v) \subseteq CommittedLoads /\ PrimaryLoad(log[v].job) \in ReferencedBy(v)
  BY <1>1 DEF LogSound, ReferencedBy, LoadsOf
<1>4. \A l \in ReferencedBy(v) \ missed : Whole(l)
  BY <1>2, <1>3 DEF Unseen
<1>5. ~ Unseen(PrimaryLoad(log[v].job))
  BY DEF Unseen, PrimaryLoad
<1>6. QED
  BY <1>1, <1>2, <1>3, <1>4, <1>5

LEMMA IInvImpliesCollected == IInv => OrphansAreCollected
<1> SUFFICES ASSUME IInv, GraceIsLongEnough
    PROVE  /\ \A j \in Jobs : Writing(j) \subseteq objects
           /\ \A g \in Gcs, l \in Loads :
                /\ gc[g].pc = "done" /\ ~gc[g].dryRun
                /\ writer[l[2]] = "dead"
                /\ ObjectsIn(l) \cap objects # {}
                => \E o \in ObjectsIn(l) \cap DOMAIN modified :
                     modified[o] > gc[g].cutoff - gc[g].minAge
  BY DEF OrphansAreCollected
<1>1. TypeOK /\ ObjectsStay /\ \A g \in Gcs : SelectionSound(g)
  BY DEF IInv
<1>2. ASSUME NEW j \in Jobs, NEW o \in Writing(j)
      PROVE  o \in objects
  <2>1. o \in DOMAIN modified /\ writer[o[1][2]] = "writing"
    BY <1>2 DEF Writing, Put, ObjectsOf
  <2>2. QED
    BY <1>1, <2>1 DEF ObjectsStay, Disposable
<1>3. QED
  BY <1>1, <1>2 DEF SelectionSound, Kept

\* The collector, for any jobs, families and collections, overlapping in any
\* order and with every fault: the types, and whatever a manifest references
\* keeps its objects when the grace period outlasts a job and a collection
\* (gc/route.ts:53-58, 136-172, 203-211).
THEOREM ReferencedIsKept == Spec => []GcInv
<1>1. Spec => []IInv
  BY InitIInv, StepIInv, PTL DEF Spec
<1>2. QED
  BY <1>1, IInvImpliesGcInv, PTL

\* And it takes nothing of a job at work, and leaves nothing of a lost one but
\* what is inside the grace period (gc/route.ts:109-139, 203-217).
THEOREM OrphansAreTaken == Spec => []OrphansAreCollected
<1>1. Spec => []IInv
  BY InitIInv, StepIInv, PTL DEF Spec
<1>2. QED
  BY <1>1, IInvImpliesCollected, PTL
=============================================================================
