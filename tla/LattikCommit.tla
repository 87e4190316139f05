---------------------------- MODULE LattikCommit ----------------------------
(***************************************************************************)
(* The commit protocol of one Lattik Table: write jobs (the Spark drivers' *)
(* commit_via_api loop) on one side, the POST handler of                   *)
(* /api/lattik/commit on the other, over an S3 bucket that holds the       *)
(* manifests and a Postgres database that holds lattik_table_commit and    *)
(* lattik_column_load.                                                     *)
(*                                                                         *)
(* Each request runs its own instance of the handler; between two awaits   *)
(* of a handler every other handler and every job may take a step.         *)
(***************************************************************************)
EXTENDS LattikTypes, FiniteSets

CONSTANTS
  Partitions,   \* the (ds, hour) pairs jobs write, as [ds, hour] records of
                \* numbers: hour h is h + 1, and 0 is null (daily cadence)
  PartitionOf,  \* PartitionOf[j]: the partition job j writes
  Attempts,     \* Attempts[j]: attempts_remaining of job j, or what the races with
                \* jobs that are not modelled leave of the code's 50
  MaxRequests,  \* bound: the number of POSTs of a behaviour
  Faults        \* which faults may happen: a subset of FaultKinds

\* "wrapped": the database library may throw an error of its own, which does not
\* have the SQLSTATE in the code property, where the handler looks for it.
FaultKinds == {"s3", "db", "timeout", "server", "driver", "wrapped"}

ASSUME PartitionsAssumption == Partitions \subseteq [ds : Nat, hour : Nat]
ASSUME PartitionOfAssumption == PartitionOf \in [Jobs -> Partitions]
ASSUME BoundsAssumption == Attempts \in [Jobs -> Nat \ {0}] /\ MaxRequests \in Nat
ASSUME FaultsAssumption == Faults \subseteq FaultKinds

VARIABLES
  commits,      \* lattik_table_commit: a partial function version -> [job, at]
  columnLoads,  \* lattik_column_load: <<column, partition>> -> [job, version]
  manifests,    \* the S3 manifests: <<version, job>> -> column map
  clock,        \* the database's clock: one tick per transaction started
  job,          \* the drivers
  req,          \* the handlers
  sent          \* the number of POSTs sent so far

vars == <<commits, columnLoads, manifests, clock, job, req, sent>>
db == <<commits, columnLoads, clock>>

Requests == 1..MaxRequests
Versions == DOMAIN commits

-----------------------------------------------------------------------------
(***************************************************************************)
(* Queries.                                                                *)
(***************************************************************************)

\* orderBy(desc(manifestVersion)).limit(1), and 0 when the table has no row.
IsLatest(v) ==
  /\ v \in Versions \cup {0}
  /\ \A u \in Versions : u <= v

\* The rows the idempotency check selects for a load id, of which it takes one.
RowsOf(j) == {v \in Versions : commits[v].job = j}

\* f with key k bound to x: an INSERT, an upsert or an object PUT.
Put(f, k, x) == [i \in DOMAIN f \cup {k} |-> IF i = k THEN x ELSE f[i]]

-----------------------------------------------------------------------------
JobPhases == {"new", "writing", "posting", "waiting", "committed",
              "unreachable", "failed"}

\* base is base_version, start its value when commit_via_api was called, left
\* is attempts_remaining, and request the POST the driver waits for.
JobState == [pc : JobPhases, start : Nat, base : Nat, left : Nat,
             request : Nat]

RequestPhases == {"free", "lookup", "put", "begin", "insert", "conflict",
                  "committed", "rebase", "error", "dead"}

\* found says which of the two parallel lookups have returned: existing is the
\* version the idempotency check selected (0: none), baseJob the load id of the
\* base commit.  columns is baseColumns, at the instant the transaction began,
\* and answer the version, or the base version, of the response.
RequestState ==
  [pc : RequestPhases, job : Jobs \cup {NoLoad}, base : Nat,
   found : SUBSET {"existing", "base"}, existing : Nat,
   baseJob : Jobs \cup {NoLoad}, columns : ColumnMap, at : Nat, answer : Nat]

FreeRequest ==
  [pc |-> "free", job |-> NoLoad, base |-> 0, found |-> {}, existing |-> 0,
   baseJob |-> NoLoad, columns |-> NoColumns, at |-> 0, answer |-> 0]

TypeOK ==
  /\ Versions \subseteq Nat \ {0}
  /\ commits \in [Versions -> [job : Jobs, at : Nat]]
  /\ DOMAIN columnLoads \subseteq Columns \X Partitions
  /\ columnLoads \in [DOMAIN columnLoads -> [job : Jobs, version : Nat]]
  /\ DOMAIN manifests \subseteq (Nat \X Jobs)
  /\ manifests \in [DOMAIN manifests -> ColumnMap]
  /\ clock \in Nat
  /\ job \in [Jobs -> JobState]
  /\ req \in [Requests -> RequestState]
  /\ sent \in 0..MaxRequests

Init ==
  /\ commits = << >>
  /\ columnLoads = << >>
  /\ manifests = << >>
  /\ clock = 0
  /\ job = [j \in Jobs |-> [pc |-> "new", start |-> 0, base |-> 0, left |-> 0,
                            request |-> 0]]
  /\ req = [r \in Requests |-> FreeRequest]
  /\ sent = 0

-----------------------------------------------------------------------------
(***************************************************************************)
(* The drivers.                                                            *)
(***************************************************************************)

\* The driver reads the latest version (0 on a 404) before it writes its loads.
ReadLatest(j) ==
  /\ job[j].pc = "new"
  /\ \E v \in Versions \cup {0} :
       /\ IsLatest(v)
       /\ job' = [job EXCEPT ![j].pc = "writing", ![j].base = v]
  /\ UNCHANGED <<db, manifests, req, sent>>

\* The backfill driver reads the latest version once per family: the job of the
\* next ds starts from the version the previous ds was committed at.
ContinueFrom(j, k) ==
  /\ job[j].pc = "new"
  /\ job[k].pc = "committed"
  /\ job' = [job EXCEPT ![j].pc = "writing", ![j].base = job[k].base]
  /\ UNCHANGED <<db, manifests, req, sent>>

\* The loads are written and commit_via_api is called.
CallCommit(j) ==
  /\ job[j].pc = "writing"
  /\ job' = [job EXCEPT ![j].pc = "posting", ![j].start = job[j].base,
                        ![j].left = Attempts[j]]
  /\ UNCHANGED <<db, manifests, req, sent>>

\* The loop is entered with attempts left: POST and wait.
Post(j) ==
  /\ job[j].pc = "posting"
  /\ job[j].left > 0
  /\ sent < MaxRequests
  /\ sent' = sent + 1
  /\ job' = [job EXCEPT ![j].pc = "waiting", ![j].left = job[j].left - 1,
                        ![j].request = sent']
  /\ req' = [req EXCEPT ![sent'] = [FreeRequest EXCEPT !.pc = "lookup",
                                                       !.job = j,
                                                       !.base = job[j].base]]
  /\ UNCHANGED <<db, manifests>>

\* "gave up after exhausting OCC conflict retries"
GiveUp(j) ==
  /\ job[j].pc = "posting"
  /\ job[j].left = 0
  /\ job' = [job EXCEPT ![j].pc = "failed"]
  /\ UNCHANGED <<db, manifests, req, sent>>

\* Status "committed": commit_via_api returns the version, which the backfill
\* driver keeps as base_version.
OnCommitted(j) ==
  /\ job[j].pc = "waiting"
  /\ req[job[j].request].pc = "committed"
  /\ job' = [job EXCEPT ![j].pc = "committed",
                        ![j].base = req[job[j].request].answer]
  /\ UNCHANGED <<db, manifests, req, sent>>

\* Status "conflict": rebase and go round the loop.
OnConflict(j) ==
  /\ job[j].pc = "waiting"
  /\ req[job[j].request].pc = "rebase"
  /\ job' = [job EXCEPT ![j].pc = "posting",
                        ![j].base = req[job[j].request].answer]
  /\ UNCHANGED <<db, manifests, req, sent>>

\* raise_for_status on a 500 or 503, a connection that broke, or the 60 second
\* timeout while the handler is still running: commit_via_api raises.
OnError(j) ==
  /\ job[j].pc = "waiting"
  /\ \/ req[job[j].request].pc \in {"error", "dead"}
     \/ "timeout" \in Faults
  /\ job' = [job EXCEPT ![j].pc = "unreachable"]
  /\ UNCHANGED <<db, manifests, req, sent>>

\* A caller retries the call that raised, with the arguments it first passed.
CallAgain(j) ==
  /\ job[j].pc = "unreachable"
  /\ job' = [job EXCEPT ![j].pc = "posting", ![j].base = job[j].start,
                        ![j].left = Attempts[j]]
  /\ UNCHANGED <<db, manifests, req, sent>>

\* The driver's pod is lost.  Its POST, if any, keeps running.
DriverDies(j) ==
  /\ "driver" \in Faults
  /\ job[j].pc \in {"writing", "posting", "waiting", "unreachable"}
  /\ job' = [job EXCEPT ![j].pc = "failed"]
  /\ UNCHANGED <<db, manifests, req, sent>>

-----------------------------------------------------------------------------
(***************************************************************************)
(* The handler of POST /api/lattik/commit.                                 *)
(***************************************************************************)

\* The handler returns: its locals are gone, only the response is left.
Reply(r, pc, answer) ==
  req' = [req EXCEPT ![r] = [FreeRequest EXCEPT !.pc = pc,
                                                !.job = req[r].job,
                                                !.answer = answer]]

\* The handler answers an error: the client sees a 500 or a 503.
Fail(r) == Reply(r, "error", 0)

\* Mutant: a lookup that misses the committed load.
FindExistingMisses(r) ==
  /\ req[r].pc = "lookup"
  /\ "existing" \notin req[r].found
  /\ req' = [req EXCEPT ![r].found = @ \cup {"existing"}]
  /\ UNCHANGED <<db, manifests, job, sent>>

\* First of the two parallel lookups: is this load id committed already?
FindExisting(r) ==
  /\ req[r].pc = "lookup"
  /\ "existing" \notin req[r].found
  /\ \E v \in IF RowsOf(req[r].job) = {} THEN {0} ELSE RowsOf(req[r].job) :
       req' = [req EXCEPT ![r].found = @ \cup {"existing"},
                          ![r].existing = v]
  /\ UNCHANGED <<db, manifests, job, sent>>

\* Second of the two parallel lookups: the commit row of base_version.
FindBase(r) ==
  /\ req[r].pc = "lookup"
  /\ "base" \notin req[r].found
  /\ req' = [req EXCEPT ![r].found = @ \cup {"base"},
                        ![r].baseJob = IF req[r].base \in Versions
                                       THEN commits[req[r].base].job
                                       ELSE NoLoad]
  /\ UNCHANGED <<db, manifests, job, sent>>

LookedUp(r) ==
  /\ req[r].pc = "lookup"
  /\ req[r].found = {"existing", "base"}

\* Mutant: the replay echoes the base version of the request.
ReplayEchoesBase(r) ==
  /\ LookedUp(r)
  /\ req[r].existing # 0
  /\ Reply(r, "committed", req[r].base)
  /\ UNCHANGED <<db, manifests, job, sent>>

\* The load id is committed: answer with its version, change nothing.
Replay(r) ==
  /\ LookedUp(r)
  /\ req[r].existing # 0
  /\ Reply(r, "committed", req[r].existing)
  /\ UNCHANGED <<db, manifests, job, sent>>

\* baseColumns: the columns of the base manifest, and none when there is no
\* base commit or when S3 answers NoSuchKey.
BaseColumns(r) ==
  LET key == <<req[r].base, req[r].baseJob>>
  IN  IF req[r].baseJob # NoLoad /\ key \in DOMAIN manifests
      THEN manifests[key]
      ELSE NoColumns

FetchBase(r) ==
  /\ LookedUp(r)
  /\ req[r].existing = 0
  /\ req' = [req EXCEPT ![r].pc = "put", ![r].columns = BaseColumns(r)]
  /\ UNCHANGED <<db, manifests, job, sent>>

\* Mutant: an unreadable base manifest is taken for an empty one.
FetchBaseSwallows(r) ==
  /\ "s3" \in Faults
  /\ LookedUp(r)
  /\ req[r].existing = 0
  /\ req[r].baseJob # NoLoad
  /\ req' = [req EXCEPT ![r].pc = "put", ![r].columns = NoColumns]
  /\ UNCHANGED <<db, manifests, job, sent>>

\* The base manifest cannot be read: 503.
FetchBaseFails(r) ==
  /\ "s3" \in Faults
  /\ LookedUp(r)
  /\ req[r].existing = 0
  /\ req[r].baseJob # NoLoad
  /\ Fail(r)
  /\ UNCHANGED <<db, manifests, job, sent>>

\* Mutant: off by one.
NewVersionOff(r) == req[r].base

NewVersion(r) == req[r].base + 1

\* The new manifest is written before the commit row that publishes it.
WriteManifest(r) ==
  manifests' = Put(manifests, <<NewVersion(r), req[r].job>>,
                   Override(req[r].columns, req[r].job))

PutManifest(r) ==
  /\ req[r].pc = "put"
  /\ WriteManifest(r)
  /\ req' = [req EXCEPT ![r].pc = "begin"]
  /\ UNCHANGED <<db, job, sent>>

\* putObject throws, after S3 stored the object or before.
PutManifestFails(r) ==
  /\ "s3" \in Faults
  /\ req[r].pc = "put"
  /\ WriteManifest(r) \/ UNCHANGED manifests
  /\ Fail(r)
  /\ UNCHANGED <<db, job, sent>>

\* BEGIN: the instant now() stands for in this transaction.
BeginTx(r) ==
  /\ req[r].pc = "begin"
  /\ clock' = clock + 1
  /\ req' = [req EXCEPT ![r].pc = "insert", ![r].at = clock']
  /\ UNCHANGED <<commits, columnLoads, manifests, job, sent>>

\* Mutant: ON CONFLICT DO NOTHING.
InsertRowsOnce(r) ==
  LET j == req[r].job
      v == NewVersion(r)
      keys == ColumnsOf[j] \X {PartitionOf[j]}
  IN  /\ commits' = Put(commits, v, [job |-> j, at |-> req[r].at])
      /\ columnLoads' = [k \in DOMAIN columnLoads \cup keys |->
                           IF k \in DOMAIN columnLoads THEN columnLoads[k]
                           ELSE [job |-> j, version |-> v]]

\* The transaction's two statements, applied when it commits.
InsertRows(r) ==
  LET j == req[r].job
      v == NewVersion(r)
      keys == ColumnsOf[j] \X {PartitionOf[j]}
  IN  /\ commits' = Put(commits, v, [job |-> j, at |-> req[r].at])
      /\ columnLoads' = [k \in DOMAIN columnLoads \cup keys |->
                           IF k \in keys THEN [job |-> j, version |-> v]
                           ELSE columnLoads[k]]

\* Mutant: no primary key, the row of the version is overwritten.
CommitTxUnchecked(r) ==
  /\ req[r].pc = "insert"
  /\ InsertRows(r)
  /\ Reply(r, "committed", NewVersion(r))
  /\ UNCHANGED <<clock, manifests, job, sent>>

\* The primary key (table, version) is the optimistic lock.
CommitTx(r) ==
  /\ req[r].pc = "insert"
  /\ NewVersion(r) \notin Versions
  /\ InsertRows(r)
  /\ Reply(r, "committed", NewVersion(r))
  /\ UNCHANGED <<clock, manifests, job, sent>>

\* 23505: another writer took the version.
ConflictTx(r) ==
  /\ req[r].pc = "insert"
  /\ NewVersion(r) \in Versions
  /\ req' = [req EXCEPT ![r].pc = "conflict"]
  /\ UNCHANGED <<db, manifests, job, sent>>

\* The same, when the error does not show its code: it is thrown again, a 500.
ConflictUnseen(r) ==
  /\ "wrapped" \in Faults
  /\ req[r].pc = "insert"
  /\ NewVersion(r) \in Versions
  /\ Fail(r)
  /\ UNCHANGED <<db, manifests, job, sent>>

\* The connection breaks: the transaction is rolled back, or it is committed
\* and the handler never learns.
TxFails(r) ==
  /\ "db" \in Faults
  /\ req[r].pc = "insert"
  /\ \/ NewVersion(r) \notin Versions /\ InsertRows(r)
     \/ UNCHANGED <<commits, columnLoads>>
  /\ Fail(r)
  /\ UNCHANGED <<clock, manifests, job, sent>>

\* Mutant: the conflict sends back the base version of the request.
AnswerConflictStale(r) ==
  /\ req[r].pc = "conflict"
  /\ Reply(r, "rebase", req[r].base)
  /\ UNCHANGED <<db, manifests, job, sent>>

\* Answer a conflict with the latest version, to rebase on.
AnswerConflict(r) ==
  /\ req[r].pc = "conflict"
  /\ \E v \in Versions \cup {0} :
       /\ IsLatest(v)
       /\ Reply(r, "rebase", IF v = 0 THEN req[r].base ELSE v)
  /\ UNCHANGED <<db, manifests, job, sent>>

\* The function instance is killed: no answer, and nothing more is done.
ServerDies(r) ==
  /\ "server" \in Faults
  /\ req[r].pc \in {"lookup", "put", "begin", "insert", "conflict"}
  /\ Reply(r, "dead", 0)
  /\ UNCHANGED <<db, manifests, job, sent>>

-----------------------------------------------------------------------------
(***************************************************************************)
(* The handler of GET /api/lattik/commit: which loads a reader is sent to. *)
(***************************************************************************)

\* mode=wall_time: orderBy(desc(committedAt)).limit(1) of the rows up to ts.
WallTimeVersions(ts) ==
  LET before == {v \in Versions : commits[v].at <= ts}
  IN  {v \in before : \A u \in before : commits[u].at <= commits[v].at}

\* "If hour not specified, pick the latest hour per column".
NewestRows(rows) ==
  {k \in rows : \A i \in rows : i[1] = k[1] => i[2].hour <= k[2].hour}

Hours == {p.hour : p \in Partitions}

\* mode=ds: the <<column, load>> pairs of a ds, with the hours asked for (all
\* of them, or one) and the columns asked for ({}: not specified).  The answer
\* is empty, a 404, when a column asked for has no row.
DsRead(ds, hours, requested) ==
  LET rows == NewestRows({k \in DOMAIN columnLoads :
                            k[2].ds = ds /\ k[2].hour \in hours})
  IN  IF requested \subseteq {k[1] : k \in rows}
      THEN {<<k[1], columnLoads[k].job>> : k \in rows}
      ELSE {}

-----------------------------------------------------------------------------
DriverStep(j) ==
  \/ ReadLatest(j)
  \/ \E k \in Jobs : ContinueFrom(j, k)
  \/ CallCommit(j)
  \/ Post(j)
  \/ GiveUp(j)
  \/ OnCommitted(j)
  \/ OnConflict(j)
  \/ OnError(j)
  \/ CallAgain(j)
  \/ DriverDies(j)

HandlerStep(r) ==
  \/ FindExisting(r)
  \/ FindBase(r)
  \/ Replay(r)
  \/ FetchBase(r)
  \/ PutManifest(r)
  \/ BeginTx(r)
  \/ CommitTx(r)
  \/ ConflictTx(r)
  \/ ConflictUnseen(r)
  \/ AnswerConflict(r)

HandlerFault(r) ==
  \/ FetchBaseFails(r)
  \/ PutManifestFails(r)
  \/ TxFails(r)
  \/ ServerDies(r)

Next ==
  \/ \E j \in Jobs : DriverStep(j)
  \/ \E r \in Requests : HandlerStep(r) \/ HandlerFault(r)

Spec == Init /\ [][Next]_vars

\* A job whose process lives keeps going, and so does a handler that is not
\* killed.  Nothing obliges a new job to start.
Fairness ==
  /\ \A j \in Jobs : WF_vars(CallCommit(j) \/ Post(j) \/ GiveUp(j) \/
                             OnCommitted(j) \/ OnConflict(j))
  /\ \A r \in Requests : WF_vars(HandlerStep(r))

FairSpec == Spec /\ Fairness

-----------------------------------------------------------------------------
(***************************************************************************)
(* Properties.                                                             *)
(***************************************************************************)

ManifestOf(v) == manifests[<<v, commits[v].job>>]

\* The commit log has no gap: the base version of a request is never checked
\* against the log (route.ts:126-147), so that no request commits past the end
\* of it is up to where the drivers learn their bases from.
LogIsDense == \A v \in Versions : 1..v \subseteq Versions

\* A load id is committed at one version at most, whatever is retried, by
\* whom, and however many of its requests are still running on the server.
\* No constraint of the database says so, and the idempotency check
\* (route.ts:126-162) is not in the transaction that inserts.
AtMostOneCommitPerLoad ==
  \A u, v \in Versions : commits[u].job = commits[v].job => u = v

\* No update is lost: the manifest of every version exists, and it is the
\* manifest of the version before it, overridden by the columns of the job
\* that committed it, although it was computed and written before the
\* transaction that decided the order (route.ts:164-205).
CarriesForward ==
  \A v \in Versions :
    /\ <<v, commits[v].job>> \in DOMAIN manifests
    /\ ManifestOf(v) =
         Override(IF v = 1 THEN NoColumns ELSE ManifestOf(v - 1),
                  commits[v].job)

\* AS OF wall time sees a prefix of the log: the version that the newest
\* committed_at not after ts belongs to is also the highest of the versions
\* committed not after ts.  committed_at is the start of the transaction, so
\* the order of the starts has to be the order of the versions.
WallTimeReadsPrefix ==
  \A ts \in 0..clock : \A v \in WallTimeVersions(ts) :
    \A u \in Versions : u <= v <=> commits[u].at <= ts

\* lattik_column_load follows the log: the row of a column and a partition
\* names the last committed job that wrote that column for that partition.
Writers(c, p) ==
  {v \in Versions : c \in ColumnsOf[commits[v].job]
                      /\ PartitionOf[commits[v].job] = p}

ColumnLoadsFollowLog ==
  \A c \in Columns, p \in Partitions :
    IF Writers(c, p) = {}
    THEN <<c, p>> \notin DOMAIN columnLoads
    ELSE /\ <<c, p>> \in DOMAIN columnLoads
         /\ LET row == columnLoads[<<c, p>>]
            IN  /\ row.version \in Writers(c, p)
                /\ \A u \in Writers(c, p) : u <= row.version
                /\ row.job = commits[row.version].job

\* AS OF a ds sends the reader of a column to the load of the newest hour
\* committed for that ds, the last one committed when that hour was written
\* more than once, and misses no column that has a committed load.
AsOfDsIsNewest ==
  \A ds \in {p.ds : p \in Partitions}, hours \in {Hours} \cup {{h} : h \in Hours} :
    LET read == DsRead(ds, hours, {})
        writes(c) == {v \in Versions :
                        LET j == commits[v].job
                        IN  /\ c \in ColumnsOf[j]
                            /\ PartitionOf[j].ds = ds
                            /\ PartitionOf[j].hour \in hours}
        hour(v) == PartitionOf[commits[v].job].hour
        newest(v, c) == \A u \in writes(c) : \/ hour(u) < hour(v)
                                             \/ hour(u) = hour(v) /\ u <= v
    IN  \A c \in Columns :
          {x[2] : x \in {y \in read : y[1] = c}} =
            {commits[v].job : v \in {u \in writes(c) : newest(u, c)}}

\* What the three ways of reading return follows the log: the rows of
\* lattik_column_load, the version of a wall-clock time, the loads of a ds.
ReadsFollowLog == ColumnLoadsFollowLog /\ WallTimeReadsPrefix /\ AsOfDsIsNewest

\* A driver that is told "committed" is told the truth: its load is in the log
\* at the version it is given, also when the answer is a replay.
ToldCommitted ==
  \A j \in Jobs : job[j].pc = "committed" =>
    job[j].base \in Versions /\ commits[job[j].base].job = j

\* A manifest object never changes once written, although the same load may be
\* put at the same version by several requests ("immutable, filename includes
\* load_id to avoid collision", route.ts:197).
ManifestsImmutable ==
  [][\A k \in DOMAIN manifests :
       k \in DOMAIN manifests' /\ manifests'[k] = manifests[k]]_manifests

\* Without faults every job that calls commit_via_api is committed in the end.
JobsGetCommitted ==
  \A j \in Jobs : job[j].pc = "posting" ~> job[j].pc = "committed"

-----------------------------------------------------------------------------
(***************************************************************************)
(* The inductive invariant.                                                *)
(***************************************************************************)

\* A version the log has reached, and the version a job is committed at.
InLog(v, log) == v \in DOMAIN log \cup {0}
IsOf(v, j, log) == v \in DOMAIN log /\ log[v].job = j

\* Every base version a driver holds is one the log has reached.
DriverKnows(j, s, log) ==
  /\ InLog(s.base, log) /\ InLog(s.start, log)
  /\ s.pc = "committed" => IsOf(s.base, j, log)

FoundNothing(s) == "existing" \in s.found /\ s.existing = 0

\* So is the base version of a handler, and what it found and answered is what
\* the log says.  A handler that found no commit of its load may be overtaken
\* by one that commits it, but only past the base version it builds on.
HandlerKnows(s, log) ==
  /\ s.job \in Jobs /\ s.pc # "free"
  /\ InLog(s.base, log)
  /\ s.existing # 0 => IsOf(s.existing, s.job, log)
  /\ s.pc = "committed" => IsOf(s.answer, s.job, log)
  /\ s.pc = "rebase" => InLog(s.answer, log)
  /\ s.pc \in {"put", "begin", "insert", "conflict"} => FoundNothing(s)
  /\ FoundNothing(s) =>
       \A v \in DOMAIN log : log[v].job = s.job => v > s.base

\* The handlers that run are those of the POSTs sent so far, and a driver waits
\* for a handler of its own.
RequestsOfJobs ==
  /\ \A r \in Requests : r > sent => req[r] = FreeRequest
  /\ \A j \in Jobs : job[j].pc = "waiting" =>
       job[j].request \in 1..sent /\ req[job[j].request].job = j

Knowledge ==
  /\ \A j \in Jobs : DriverKnows(j, job[j], commits)
  /\ \A r \in 1..sent : HandlerKnows(req[r], commits)

\* The conjunction that every step preserves: that a load is committed once
\* follows from the density of the log and from what the handlers know of it
\* together, and each of the two needs the bases to be in the log.
IInv ==
  /\ TypeOK
  /\ LogIsDense
  /\ AtMostOneCommitPerLoad
  /\ RequestsOfJobs
  /\ Knowledge

(***************************************************************************)
(* The inductive invariant of the manifests, on top of IInv.               *)
(***************************************************************************)

\* The column map a write on base version b carries forward.
BaseMap(b) == IF b = 0 THEN NoColumns ELSE ManifestOf(b)

\* Every manifest in the bucket, the orphans of lost races included, carries a
\* committed version forward.
ManifestsSound ==
  \A k \in DOMAIN manifests :
    /\ k[1] # 0 /\ InLog(k[1] - 1, commits)
    /\ manifests[k] = Override(BaseMap(k[1] - 1), k[2])

CommitsHaveManifests ==
  \A v \in Versions : <<v, commits[v].job>> \in DOMAIN manifests

\* What a handler has read of the base it builds on, and what it has written.
HandlerCarries(r) ==
  /\ "base" \in req[r].found =>
       req[r].baseJob = IF req[r].base = 0 THEN NoLoad
                        ELSE commits[req[r].base].job
  /\ req[r].pc \in {"put", "begin", "insert", "conflict"} =>
       /\ "base" \in req[r].found
       /\ req[r].columns = BaseMap(req[r].base)
  /\ req[r].pc \in {"begin", "insert", "conflict"} =>
       <<NewVersion(r), req[r].job>> \in DOMAIN manifests

HandlersCarry == \A r \in 1..sent : HandlerCarries(r)

MInv == IInv /\ ManifestsSound /\ CommitsHaveManifests /\ HandlersCarry

-----------------------------------------------------------------------------
(***************************************************************************)
(* Refinement.                                                             *)
(***************************************************************************)

\* The committed log, as TableLog sees it.
TheLog == [v \in Versions |-> [job |-> commits[v].job,
                               columns |-> ManifestOf(v)]]

\* The protocol implements the append-only log of manifests.
Log == INSTANCE TableLog WITH log <- TheLog
ImplementsTableLog == Log!Spec
=============================================================================
