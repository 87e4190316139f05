------------------------------ MODULE LattikGC ------------------------------
(***************************************************************************)
(* The garbage collection of a Lattik Table's loads, next to the drivers   *)
(* that write loads and to the log of manifests that makes them visible.   *)
(*                                                                         *)
(* The log is the abstract one of TableLog, which the commit protocol is   *)
(* shown to implement; a load is the pair <<c, j>> of a column family and  *)
(* the job that computed it, a directory of objects in the bucket.  Time   *)
(* is explicit: the collector tells an orphan from a load that is about to *)
(* be committed by nothing but its age.                                    *)
(***************************************************************************)
EXTENDS LattikTypes, Integers, Sequences, FiniteSets

CONSTANTS
  PrimaryOf,   \* PrimaryOf[j]: the first column family of job j
  Gcs,         \* the collection requests
  MinAges,     \* the min_age_seconds of the requests
  WriteTime,   \* the longest a job takes from its first object to its commit
  GcTime,      \* the longest a collection takes to select the orphans
  MaxTime,     \* bound: the length of a behaviour
  Faults       \* which faults may happen: a subset of FaultKinds

FaultKinds == {"manifest", "storage", "driver"}

ASSUME PrimaryOfAssumption ==
  /\ DOMAIN PrimaryOf = Jobs
  /\ \A j \in Jobs : PrimaryOf[j] \in ColumnsOf[j]
ASSUME TimesAssumption ==
  /\ WriteTime \in Nat /\ GcTime \in Nat /\ MaxTime \in Nat
  /\ MinAges \subseteq Nat
ASSUME FaultsAssumption == Faults \subseteq FaultKinds

VARIABLES
  log,      \* the committed manifests, as in TableLog
  objects,  \* the objects under loads/, each <<load, part>>
  modified, \* when each object was last modified, also of those deleted since
  now,      \* the time, for the bucket and for the collector
  writer,   \* the drivers: "writing", "committed" or "dead"
  gc,       \* the collections
  missed    \* history: the loads some collection knew from no manifest it could read

vars == <<log, objects, modified, now, writer, gc, missed>>

Log == INSTANCE TableLog

Loads == {l \in Columns \X Jobs : l[1] \in ColumnsOf[l[2]]}

\* A load is its load.json, written first, and its data.
Parts == {"meta", "data"}
Objects == Loads \X Parts
ObjectsOf(j) == {o \in Objects : o[1][2] = j}

-----------------------------------------------------------------------------
WriterState == {"writing", "committed", "dead"}

GcPhases == {"idle", "manifests", "listed", "selected", "done"}

\* The locals of gcOneTable: the commits not read yet, referenced, the listing
\* and orphanKeys, with the time of the query and that of the cutoff.  unread is
\* history: what the manifests that could not be read reference.
GcState ==
  [pc : GcPhases, dryRun : BOOLEAN, minAge : Nat,
   started : Nat, todo : SUBSET Nat, referenced : SUBSET Loads,
   unread : SUBSET Loads, listed : SUBSET Objects, orphans : SUBSET Objects, cutoff : Nat]

IdleGc == [pc |-> "idle", dryRun |-> TRUE, minAge |-> 0, started |-> 0,
           todo |-> {}, referenced |-> {}, unread |-> {}, listed |-> {},
           orphans |-> {}, cutoff |-> 0]

TypeOK ==
  /\ Log!TypeOK
  /\ objects \subseteq DOMAIN modified
  /\ DOMAIN modified \subseteq Objects
  /\ modified \in [DOMAIN modified -> Nat]
  /\ now \in 0..MaxTime
  /\ writer \in [Jobs -> WriterState]
  /\ gc \in [Gcs -> GcState]
  /\ missed \subseteq Loads

Init ==
  /\ Log!Init
  /\ objects = {}
  /\ modified = << >>
  /\ now = 0
  /\ writer = [j \in Jobs |-> "writing"]
  /\ gc = [g \in Gcs |-> IdleGc]
  /\ missed = {}

-----------------------------------------------------------------------------
(***************************************************************************)
(* The drivers.                                                            *)
(***************************************************************************)

\* The objects that the driver of job j has written.
Put(j) == ObjectsOf(j) \cap DOMAIN modified

\* write_load: load.json before the data, the families in any order.  The name
\* of a load is a fresh UUID: no object is written twice.
PutObject(j, o) ==
  /\ writer[j] = "writing"
  /\ o \in ObjectsOf(j) \ Put(j)
  /\ o[2] = "data" => <<o[1], "meta">> \in Put(j)
  /\ objects' = objects \cup {o}
  /\ modified' = [i \in DOMAIN modified \cup {o} |->
                    IF i = o THEN now ELSE modified[i]]
  /\ UNCHANGED <<log, now, writer, gc, missed>>

Becomes(j, state) == writer' = [writer EXCEPT ![j] = state]

\* commit_via_api, once all the loads of the job are written.
CommitLoads(j) ==
  /\ writer[j] = "writing"
  /\ Put(j) = ObjectsOf(j)
  /\ Log!Commit(j)
  /\ Becomes(j, "committed")
  /\ UNCHANGED <<objects, modified, now, gc, missed>>

\* The driver is lost before it commits.
WriterDies(j) ==
  /\ "driver" \in Faults
  /\ writer[j] = "writing"
  /\ Put(j) # {}
  /\ Becomes(j, "dead")
  /\ UNCHANGED <<log, objects, modified, now, gc, missed>>

-----------------------------------------------------------------------------
(***************************************************************************)
(* POST /api/lattik/gc.                                                    *)
(***************************************************************************)

\* Mutant: only the latest manifest is scanned.
CommitsToReadLatest == {Len(log)} \ {0}

\* Every committed version, not just the latest.
CommitsToRead == 1..Len(log)

\* Step 1: select the commits.
StartGc(g) ==
  /\ gc[g].pc \in {"idle", "done"}
  /\ \E dryRun \in BOOLEAN, minAge \in MinAges :
       gc' = [gc EXCEPT ![g] = [IdleGc EXCEPT !.pc = "manifests",
                                              !.dryRun = dryRun,
                                              !.minAge = minAge,
                                              !.started = now,
                                              !.todo = CommitsToRead]]
  /\ UNCHANGED <<log, objects, modified, now, writer, missed>>

PrimaryLoad(j) == <<PrimaryOf[j], j>>

\* The loads in the column map of a manifest, and its own manifestLoadId.
LoadsOf(manifest) ==
  LET columns == manifest.columns
  IN  {<<c, columns[c]>> : c \in {d \in Columns : columns[d] # NoLoad}}
        \cup {PrimaryLoad(manifest.job)}

ReferencedBy(v) == LoadsOf(log[v])

\* Step 2: fetch a manifest, the manifests in any order.
FetchManifest(g, v) ==
  /\ gc[g].pc = "manifests"
  /\ v \in gc[g].todo
  /\ gc' = [gc EXCEPT ![g].todo = @ \ {v},
                      ![g].referenced = @ \cup ReferencedBy(v)]
  /\ UNCHANGED <<log, objects, modified, now, writer, missed>>

\* The manifest cannot be read: log a warning, and go on with the load id that
\* the commit row names.
ManifestUnreadable(g, v) ==
  /\ "manifest" \in Faults
  /\ gc[g].pc = "manifests"
  /\ v \in gc[g].todo
  /\ gc' = [gc EXCEPT ![g].todo = @ \ {v},
                      ![g].referenced = @ \cup {PrimaryLoad(log[v].job)},
                      ![g].unread = @ \cup ReferencedBy(v)]
  /\ UNCHANGED <<log, objects, modified, now, writer, missed>>

\* Step 3: list the objects, with the time each was last modified.
ListLoads(g) ==
  /\ gc[g].pc = "manifests"
  /\ gc[g].todo = {}
  /\ gc' = [gc EXCEPT ![g].pc = "listed", ![g].listed = objects]
  /\ missed' = missed \cup (gc[g].unread \ gc[g].referenced)
  /\ UNCHANGED <<log, objects, modified, now, writer>>

\* Mutant: no grace period.
YoungNever(keys, minAge) == FALSE

\* newestMs > cutoffMs.
Young(keys, minAge) == \E o \in keys : modified[o] > now - minAge

\* The listing by load.
KeysOf(g, l) == {o \in gc[g].listed : o[1] = l}

\* A load that no manifest references and that is old enough.
Orphan(g, l) == l \notin gc[g].referenced /\ ~Young(KeysOf(g, l), gc[g].minAge)

\* Step 4: the keys of the orphans.
SelectOrphans(g) ==
  /\ gc[g].pc = "listed"
  /\ gc' = [gc EXCEPT ![g] =
              [IdleGc EXCEPT !.pc = "selected",
                             !.dryRun = gc[g].dryRun,
                             !.minAge = gc[g].minAge,
                             !.cutoff = now,
                             !.orphans = {o \in gc[g].listed : Orphan(g, o[1])}]]
  /\ UNCHANGED <<log, objects, modified, now, writer, missed>>

\* What a run that succeeds deletes.
Deleted(g) == IF gc[g].dryRun THEN {} ELSE gc[g].orphans

\* Step 5: delete, unless dry run, and report.
DeleteOrphans(g) ==
  /\ gc[g].pc = "selected"
  /\ objects' = objects \ Deleted(g)
  /\ gc' = [gc EXCEPT ![g] = [IdleGc EXCEPT !.pc = "done",
                                            !.dryRun = gc[g].dryRun,
                                            !.minAge = gc[g].minAge,
                                            !.cutoff = gc[g].cutoff]]
  /\ UNCHANGED <<log, modified, now, writer, missed>>

\* The batched deletion throws between two batches, or within one.
DeleteFails(g) ==
  /\ "storage" \in Faults
  /\ gc[g].pc = "selected"
  /\ \E deleted \in SUBSET Deleted(g) : objects' = objects \ deleted
  /\ gc' = [gc EXCEPT ![g] = IdleGc]
  /\ UNCHANGED <<log, modified, now, writer, missed>>

\* The listing throws.
ListFails(g) ==
  /\ "storage" \in Faults
  /\ gc[g].pc = "manifests"
  /\ gc[g].todo = {}
  /\ gc' = [gc EXCEPT ![g] = IdleGc]
  /\ UNCHANGED <<log, objects, modified, now, writer, missed>>

-----------------------------------------------------------------------------
\* The objects of the driver of job j, while it runs.
Writing(j) == IF writer[j] = "writing" THEN Put(j) ELSE {}
Selecting(g) == gc[g].pc \in {"manifests", "listed"}

\* Time passes, no further than the jobs and the collections on their way may
\* take, and not after the last of them is over.
Tick ==
  /\ now < MaxTime
  /\ \A j \in Jobs : \A o \in Writing(j) : now - modified[o] < WriteTime
  /\ \A g \in Gcs : Selecting(g) => now - gc[g].started < GcTime
  /\ now' = now + 1
  /\ UNCHANGED <<log, objects, modified, writer, gc, missed>>

WriterStep(j) ==
  \/ \E o \in Objects : PutObject(j, o)
  \/ CommitLoads(j)
  \/ WriterDies(j)

GcStep(g) ==
  \/ StartGc(g)
  \/ \E v \in 1..Len(log) : FetchManifest(g, v) \/ ManifestUnreadable(g, v)
  \/ ListLoads(g)
  \/ SelectOrphans(g)
  \/ DeleteOrphans(g)
  \/ DeleteFails(g)
  \/ ListFails(g)

Next ==
  \/ Tick
  \/ \E j \in Jobs : WriterStep(j)
  \/ \E g \in Gcs : GcStep(g)

Spec == Init /\ [][Next]_vars

-----------------------------------------------------------------------------
(***************************************************************************)
(* Properties.                                                             *)
(***************************************************************************)

\* The grace period has to outlast a job and a collection together: the load a
\* collection deletes may be as old as the job that commits it after the
\* commits were read.  Nothing in the code relates the three times.
GraceIsLongEnough ==
  \A age \in MinAges : WriteTime + GcTime < age

ObjectsIn(l) == {l} \X Parts
Whole(l) == ObjectsIn(l) \subseteq objects

\* A load that some manifest references, time travel included, keeps its
\* objects (gc/route.ts:53-58), whatever commits while the collection runs:
\* every load, but for those a collection knew from no manifest it could read,
\* and of each version at least the load that its commit row names.
ReferencedLoadsAreWhole ==
  GraceIsLongEnough =>
    \A v \in 1..Len(log) :
      /\ \A l \in ReferencedBy(v) \ missed : Whole(l)
      /\ Whole(PrimaryLoad(log[v].job))

\* The types, and the safety of what is referenced.
GcInv == TypeOK /\ ReferencedLoadsAreWhole

\* With a grace period that is long enough, a collection takes the orphans and
\* nothing else: a driver that is still writing finds its objects where it put
\* them, and a collection that succeeds leaves nothing of the load of a lost
\* driver, unless an object of it was inside the grace period
\* (gc/route.ts:109-139).
OrphansAreCollected ==
  GraceIsLongEnough =>
    /\ \A j \in Jobs : Writing(j) \subseteq objects
    /\ \A g \in Gcs, l \in Loads :
         /\ gc[g].pc = "done" /\ ~gc[g].dryRun
         /\ writer[l[2]] = "dead"
         /\ ObjectsIn(l) \cap objects # {}
         => \E o \in ObjectsIn(l) \cap DOMAIN modified :
              modified[o] > gc[g].cutoff - gc[g].minAge
=============================================================================
