------------------------- MODULE LattikCommitProofs -------------------------
(***************************************************************************)
(* Proofs about the commit protocol, for any jobs, columns and partitions, *)
(* any number of attempts and requests, and any set of faults: commits     *)
(* happen at most once, no manifest is ever rewritten, each version        *)
(* carries the one before it forward, the log implements the abstract      *)
(* append-only log, and what the readers are sent to follows it.           *)
(***************************************************************************)
EXTENDS LattikCommit, SequenceTheorems, TLAPS

-----------------------------------------------------------------------------
(***************************************************************************)
(* The operators the actions are built from.                               *)
(***************************************************************************)

\* Overriding a column map with the columns of a job gives a column map.
LEMMA OverrideType ==
  ASSUME NEW base \in ColumnMap, NEW j \in Jobs
  PROVE  Override(base, j) \in ColumnMap
BY DEF Override, ColumnMap

\* The empty column map is a column map.
LEMMA NoColumnsType == NoColumns \in ColumnMap
BY DEF NoColumns, ColumnMap

\* A handler that has not started has the type of a handler.
LEMMA FreeRequestType == FreeRequest \in RequestState
BY NoColumnsType DEF FreeRequest, RequestState, RequestPhases

-----------------------------------------------------------------------------
(***************************************************************************)
(* Type correctness.                                                       *)
(***************************************************************************)

\* A reply is a request state.
LEMMA ReplyType ==
  ASSUME TypeOK, NEW r \in Requests, NEW pc \in RequestPhases,
         NEW answer \in Nat, Reply(r, pc, answer)
  PROVE  req' \in [Requests -> RequestState]
BY FreeRequestType DEF TypeOK, Reply, FreeRequest, RequestState

\* The rows a transaction inserts are of the tables' types.
LEMMA InsertRowsType ==
  ASSUME TypeOK, NEW r \in Requests, req[r].job \in Jobs, InsertRows(r)
  PROVE  /\ DOMAIN commits' = Versions \cup {NewVersion(r)}
         /\ commits'[NewVersion(r)] = [job |-> req[r].job, at |-> req[r].at]
         /\ \A v \in Versions :
              v # NewVersion(r) => commits'[v] = commits[v]
         /\ Versions' \subseteq Nat \ {0}
         /\ commits' \in [Versions' -> [job : Jobs, at : Nat]]
         /\ DOMAIN columnLoads' \subseteq Columns \X Partitions
         /\ columnLoads' \in
              [DOMAIN columnLoads' -> [job : Jobs, version : Nat]]
<1> DEFINE j == req[r].job
           v == NewVersion(r)
           row == [job |-> j, at |-> req[r].at]
           keys == ColumnsOf[j] \X {PartitionOf[j]}
<1>1. v \in Nat \ {0} /\ row \in [job : Jobs, at : Nat]
  BY DEF TypeOK, RequestState, NewVersion
<1>2. commits' = Put(commits, v, row)
  BY DEF InsertRows
<1>3. /\ DOMAIN commits' = Versions \cup {v}
      /\ commits'[v] = row
      /\ \A u \in Versions : u # v => commits'[u] = commits[u]
      /\ commits' \in [Versions \cup {v} -> [job : Jobs, at : Nat]]
  BY <1>1, <1>2 DEF TypeOK, Versions, Put
<1>4. keys \subseteq Columns \X Partitions
  BY ColumnsOfAssumption, PartitionOfAssumption
<1>5. columnLoads' = [k \in DOMAIN columnLoads \cup keys |->
                        IF k \in keys THEN [job |-> j, version |-> v]
                        ELSE columnLoads[k]]
  BY DEF InsertRows
<1>6. /\ DOMAIN columnLoads' \subseteq Columns \X Partitions
      /\ columnLoads' \in [DOMAIN columnLoads' -> [job : Jobs, version : Nat]]
  BY <1>1, <1>4, <1>5 DEF TypeOK
<1>7. QED
  BY <1>1, <1>3, <1>6 DEF TypeOK, Versions

\* The manifest a handler puts is of the bucket's type.
LEMMA WriteManifestType ==
  ASSUME TypeOK, NEW r \in Requests, req[r].job \in Jobs, WriteManifest(r)
  PROVE  /\ DOMAIN manifests' \subseteq Nat \X Jobs
         /\ manifests' \in [DOMAIN manifests' -> ColumnMap]
<1>1. Override(req[r].columns, req[r].job) \in ColumnMap
  BY OverrideType DEF TypeOK, RequestState
<1>2. <<NewVersion(r), req[r].job>> \in Nat \X Jobs
  BY DEF TypeOK, RequestState, NewVersion
<1>3. QED
  BY <1>1, <1>2 DEF TypeOK, WriteManifest, Put

\* A handler past its lookups runs for a job.
LEMMA HandlersHaveJobs ==
  ASSUME IInv, NEW r \in Requests, req[r].pc # "free"
  PROVE  r \in 1..sent /\ req[r].job \in Jobs
BY DEF IInv, TypeOK, RequestsOfJobs, Knowledge, HandlerKnows, Requests,
       FreeRequest

\* A driver's step that is no POST changes its own state only, and a handler's
\* step that writes nothing the state of the handler.
LEMMA DriverFrame ==
  ASSUME TypeOK, job' \in [Jobs -> JobState],
         UNCHANGED <<db, manifests, req, sent>>
  PROVE  TypeOK'
BY DEF TypeOK, db, Versions

\* A handler's step changes nothing but the handlers: the types stay.
LEMMA HandlerFrame ==
  ASSUME TypeOK, req' \in [Requests -> RequestState],
         UNCHANGED <<db, manifests, job, sent>>
  PROVE  TypeOK'
BY DEF TypeOK, db, Versions

\* Updating one job, or one handler, with a state of the right type.
LEMMA JobUpdate ==
  ASSUME TypeOK, NEW j \in Jobs, NEW s \in JobState, job' = [job EXCEPT ![j] = s]
  PROVE  job' \in [Jobs -> JobState]
BY DEF TypeOK

\* Replacing one request by a well-typed one keeps the type of the handlers.
LEMMA RequestUpdate ==
  ASSUME TypeOK, NEW r \in Requests, NEW s \in RequestState,
         req' = [req EXCEPT ![r] = s]
  PROVE  req' \in [Requests -> RequestState]
BY DEF TypeOK

\* The driver's steps keep the types.
LEMMA DriverStepType ==
  ASSUME IInv, NEW j \in Jobs, DriverStep(j)
  PROVE  TypeOK'
<1> USE BoundsAssumption DEF JobState, JobPhases
<1> TypeOK /\ RequestsOfJobs
  BY DEF IInv
<1>0. job[j] \in JobState /\ Attempts[j] \in Nat
  BY DEF TypeOK
<1>1. CASE ReadLatest(j)
  <2>1. PICK v \in Versions \cup {0} :
          job' = [job EXCEPT ![j].pc = "writing", ![j].base = v]
    BY <1>1 DEF ReadLatest
  <2>2. v \in Nat
    BY DEF TypeOK
  <2> DEFINE s == [job[j] EXCEPT !.pc = "writing", !.base = v]
  <2>3. s \in JobState
    BY <1>0, <2>2
  <2>4. job' = [job EXCEPT ![j] = s]
    BY <2>1
  <2>5. QED
    BY <1>1, <2>3, <2>4, JobUpdate, DriverFrame DEF ReadLatest
<1>2. CASE \E k \in Jobs : ContinueFrom(j, k)
  <2>1. PICK k \in Jobs : ContinueFrom(j, k)
    BY <1>2
  <2>2. job' \in [Jobs -> JobState]
    BY ZenonT(40), <2>1 DEF ContinueFrom, TypeOK
  <2>3. QED
    BY <2>1, <2>2, DriverFrame DEF ContinueFrom
<1>3. CASE CallCommit(j)
  <2> DEFINE s == [job[j] EXCEPT !.pc = "posting", !.start = job[j].base,
                                 !.left = Attempts[j]]
  <2>1. s \in JobState
    BY <1>0
  <2>2. job' = [job EXCEPT ![j] = s]
    BY <1>3 DEF CallCommit
  <2>3. QED
    BY <1>3, <2>1, <2>2, JobUpdate, DriverFrame DEF CallCommit
<1>4. CASE Post(j)
  <2>1. sent' \in 0..MaxRequests /\ sent' \in Nat
    BY <1>4 DEF Post, TypeOK
  <2>2. job[j].left - 1 \in Nat
    BY <1>4 DEF Post, TypeOK
  <2>3. job' \in [Jobs -> JobState]
    BY <1>4, <2>1, <2>2 DEF Post, TypeOK
  <2>4. [FreeRequest EXCEPT !.pc = "lookup", !.job = j, !.base = job[j].base]
          \in RequestState
    BY FreeRequestType DEF TypeOK, FreeRequest, RequestState, RequestPhases
  <2>5. req' \in [Requests -> RequestState]
    BY <1>4, <2>4 DEF Post, TypeOK
  <2>6. QED
    BY <1>4, <2>1, <2>3, <2>5 DEF Post, TypeOK, Versions, db
<1>5. CASE GiveUp(j)
  <2>1. job' \in [Jobs -> JobState]
    BY SMTT(40), <1>5 DEF GiveUp, TypeOK
  <2>2. QED
    BY <1>5, <2>1, DriverFrame DEF GiveUp
<1>6. CASE OnCommitted(j)
  <2>1. req[job[j].request].answer \in Nat
    BY <1>6 DEF OnCommitted, RequestsOfJobs, TypeOK, Requests, RequestState
  <2> DEFINE s == [job[j] EXCEPT !.pc = "committed",
                                 !.base = req[job[j].request].answer]
  <2>2. s \in JobState
    BY <1>0, <2>1
  <2>3. job' = [job EXCEPT ![j] = s]
    BY <1>6 DEF OnCommitted
  <2>4. QED
    BY <1>6, <2>2, <2>3, JobUpdate, DriverFrame DEF OnCommitted
<1>7. CASE OnConflict(j)
  <2>1. req[job[j].request].answer \in Nat
    BY <1>7 DEF OnConflict, RequestsOfJobs, TypeOK, Requests, RequestState
  <2> DEFINE s == [job[j] EXCEPT !.pc = "posting",
                                 !.base = req[job[j].request].answer]
  <2>2. s \in JobState
    BY <1>0, <2>1
  <2>3. job' = [job EXCEPT ![j] = s]
    BY <1>7 DEF OnConflict
  <2>4. QED
    BY <1>7, <2>2, <2>3, JobUpdate, DriverFrame DEF OnConflict
<1>8. CASE OnError(j)
  <2>1. job' \in [Jobs -> JobState]
    BY <1>8 DEF OnError, TypeOK
  <2>2. QED
    BY <1>8, <2>1, DriverFrame DEF OnError
<1>9. CASE CallAgain(j)
  <2> DEFINE s == [job[j] EXCEPT !.pc = "posting", !.base = job[j].start,
                                 !.left = Attempts[j]]
  <2>1. s \in JobState
    BY <1>0
  <2>2. job' = [job EXCEPT ![j] = s]
    BY <1>9 DEF CallAgain
  <2>3. QED
    BY <1>9, <2>1, <2>2, JobUpdate, DriverFrame DEF CallAgain
<1>10. CASE DriverDies(j)
  <2>1. job' \in [Jobs -> JobState]
    BY <1>10 DEF DriverDies, TypeOK
  <2>2. QED
    BY <1>10, <2>1, DriverFrame DEF DriverDies
<1>11. QED
  BY <1>1, <1>2, <1>3, <1>4, <1>5, <1>6, <1>7, <1>8, <1>9, <1>10
  DEF DriverStep

\* So do the handler's steps, with and without faults.
LEMMA HandlerStepType ==
  ASSUME IInv, NEW r \in Requests,
         HandlerStep(r) \/ HandlerFault(r)
  PROVE  TypeOK'
<1> USE DEF RequestPhases
<1> TypeOK
  BY DEF IInv
<1>0. req[r] \in RequestState
  BY DEF TypeOK
<1>1. CASE FindExisting(r)
  <2>1. PICK v \in Versions \cup {0} :
          req' = [req EXCEPT ![r].found = @ \cup {"existing"},
                             ![r].existing = v]
    BY <1>1 DEF FindExisting, RowsOf
  <2>2. v \in Nat
    BY DEF TypeOK
  <2>3. req[r].found \cup {"existing"} \in SUBSET {"existing", "base"}
    BY DEF TypeOK, RequestState
  <2> DEFINE s == [req[r] EXCEPT !.found = @ \cup {"existing"}, !.existing = v]
  <2>4. s \in RequestState
    BY <2>2, <2>3, <1>0 DEF RequestState
  <2>5. req' = [req EXCEPT ![r] = s]
    BY <2>1
  <2>6. QED
    BY <1>1, <2>4, <2>5, RequestUpdate, HandlerFrame DEF FindExisting
<1>2. CASE FindBase(r)
  <2>1. PICK k \in Jobs \cup {NoLoad} :
          req' = [req EXCEPT ![r].found = @ \cup {"base"}, ![r].baseJob = k]
    BY <1>2 DEF FindBase, TypeOK
  <2>2. req[r].found \cup {"base"} \in SUBSET {"existing", "base"}
    BY DEF TypeOK, RequestState
  <2> DEFINE s == [req[r] EXCEPT !.found = @ \cup {"base"}, !.baseJob = k]
  <2>3. s \in RequestState
    BY <2>2, <1>0 DEF RequestState
  <2>4. req' = [req EXCEPT ![r] = s]
    BY <2>1
  <2>5. QED
    BY <1>2, <2>3, <2>4, RequestUpdate, HandlerFrame DEF FindBase
<1>3. CASE Replay(r)
  <2>1. req' \in [Requests -> RequestState]
    BY <1>3, ReplyType DEF Replay, TypeOK, RequestState
  <2>2. QED
    BY <1>3, <2>1, HandlerFrame DEF Replay
<1>4. CASE FetchBase(r)
  <2>1. BaseColumns(r) \in ColumnMap
    BY NoColumnsType DEF BaseColumns, TypeOK
  <2> DEFINE s == [req[r] EXCEPT !.pc = "put", !.columns = BaseColumns(r)]
  <2>2. s \in RequestState
    BY <2>1, <1>0 DEF RequestState
  <2>3. req' = [req EXCEPT ![r] = s]
    BY <1>4 DEF FetchBase
  <2>4. QED
    BY <1>4, <2>2, <2>3, RequestUpdate, HandlerFrame DEF FetchBase
<1>5. CASE PutManifest(r)
  <2>1. WriteManifest(r) /\ req[r].job \in Jobs
    BY <1>5, HandlersHaveJobs DEF PutManifest
  <2> DEFINE s == [req[r] EXCEPT !.pc = "begin"]
  <2>2. s \in RequestState
    BY <1>0 DEF RequestState
  <2>3. req' = [req EXCEPT ![r] = s]
    BY <1>5 DEF PutManifest
  <2>4. QED
    BY <1>5, <2>1, <2>2, <2>3, RequestUpdate, WriteManifestType
    DEF PutManifest, TypeOK, Versions, db
<1>6. CASE BeginTx(r)
  <2>1. clock' \in Nat
    BY <1>6 DEF BeginTx, TypeOK
  <2> DEFINE s == [req[r] EXCEPT !.pc = "insert", !.at = clock']
  <2>2. s \in RequestState
    BY <2>1, <1>0 DEF RequestState
  <2>3. req' = [req EXCEPT ![r] = s]
    BY <1>6 DEF BeginTx
  <2>4. req' \in [Requests -> RequestState]
    BY <2>2, <2>3, RequestUpdate
  <2>5. QED
    BY <1>6, <2>1, <2>4 DEF BeginTx, TypeOK, Versions
<1>7. CASE CommitTx(r)
  <2>1. InsertRows(r) /\ req[r].job \in Jobs
    BY <1>7, HandlersHaveJobs DEF CommitTx
  <2>2. NewVersion(r) \in Nat
    BY DEF NewVersion, TypeOK, RequestState
  <2>3. req' \in [Requests -> RequestState]
    BY <1>7, <2>2, ReplyType DEF CommitTx
  <2>4. QED
    BY <1>7, <2>1, <2>3, InsertRowsType DEF CommitTx, TypeOK
<1>8. CASE ConflictTx(r)
  <2> DEFINE s == [req[r] EXCEPT !.pc = "conflict"]
  <2>1. s \in RequestState
    BY <1>0 DEF RequestState
  <2>2. req' = [req EXCEPT ![r] = s]
    BY <1>8 DEF ConflictTx
  <2>3. QED
    BY <1>8, <2>1, <2>2, RequestUpdate, HandlerFrame DEF ConflictTx
<1>9. CASE AnswerConflict(r)
  <2>1. PICK v \in Versions \cup {0} :
          Reply(r, "rebase", IF v = 0 THEN req[r].base ELSE v)
    BY <1>9 DEF AnswerConflict
  <2>2. (IF v = 0 THEN req[r].base ELSE v) \in Nat
    BY DEF TypeOK, RequestState
  <2>3. req' \in [Requests -> RequestState]
    BY <2>1, <2>2, ReplyType
  <2>4. QED
    BY <1>9, <2>3, HandlerFrame DEF AnswerConflict
<1>10. CASE FetchBaseFails(r)
  <2>1. req' \in [Requests -> RequestState]
    BY <1>10, ReplyType DEF FetchBaseFails, Fail
  <2>2. QED
    BY <1>10, <2>1, HandlerFrame DEF FetchBaseFails
<1>11. CASE PutManifestFails(r)
  <2>1. req[r].job \in Jobs
    BY <1>11, HandlersHaveJobs DEF PutManifestFails
  <2>2. req' \in [Requests -> RequestState]
    BY <1>11, ReplyType DEF PutManifestFails, Fail
  <2>3. /\ DOMAIN manifests' \subseteq Nat \X Jobs
        /\ manifests' \in [DOMAIN manifests' -> ColumnMap]
    BY <1>11, <2>1, WriteManifestType DEF PutManifestFails, TypeOK
  <2>4. QED
    BY <1>11, <2>2, <2>3 DEF PutManifestFails, TypeOK, Versions, db
<1>12. CASE TxFails(r)
  <2>1. req[r].job \in Jobs
    BY <1>12, HandlersHaveJobs DEF TxFails
  <2>2. req' \in [Requests -> RequestState]
    BY <1>12, ReplyType DEF TxFails, Fail
  <2>3. CASE InsertRows(r)
    BY <1>12, <2>1, <2>2, <2>3, InsertRowsType DEF TxFails, TypeOK
  <2>4. CASE UNCHANGED <<commits, columnLoads>>
    BY <1>12, <2>2, <2>4 DEF TxFails, TypeOK, Versions
  <2>5. QED
    BY <1>12, <2>3, <2>4 DEF TxFails
<1>13. CASE ServerDies(r)
  <2>1. req' \in [Requests -> RequestState]
    BY <1>13, ReplyType DEF ServerDies
  <2>2. QED
    BY <1>13, <2>1, HandlerFrame DEF ServerDies
<1>14. CASE ConflictUnseen(r)
  <2>1. req' \in [Requests -> RequestState]
    BY <1>14, ReplyType DEF ConflictUnseen, Fail
  <2>2. QED
    BY <1>14, <2>1, HandlerFrame DEF ConflictUnseen
<1>15. QED
  BY <1>1, <1>2, <1>3, <1>4, <1>5, <1>6, <1>7, <1>8, <1>9, <1>10, <1>11,
     <1>12, <1>13, <1>14
  DEF HandlerStep, HandlerFault

-----------------------------------------------------------------------------
(***************************************************************************)
(* The inductive invariant.                                                *)
(***************************************************************************)

\* What a driver knows stays true while the log only grows.
LEMMA DriverStillKnows ==
  ASSUME NEW log, NEW log2, NEW j, NEW s, DriverKnows(j, s, log),
         DOMAIN log \subseteq DOMAIN log2,
         \A v \in DOMAIN log : log2[v] = log[v]
  PROVE  DriverKnows(j, s, log2)
BY DEF DriverKnows, InLog, IsOf

\* What a handler knows too, but for its belief that its load is not committed
\* up to the base, which the rows added must not falsify.
LEMMA HandlerStillKnows ==
  ASSUME NEW log, NEW log2, NEW s, HandlerKnows(s, log),
         DOMAIN log \subseteq DOMAIN log2,
         \A v \in DOMAIN log : log2[v] = log[v],
         \A v \in DOMAIN log2 \ DOMAIN log : v > s.base
  PROVE  HandlerKnows(s, log2)
BY DEF HandlerKnows, InLog, IsOf, FoundNothing

\* A row inserted at a version that is free goes to the end of the log: nobody
\* holds a base past the end, so the log stays dense.  And it commits a load
\* that is not in the log: if the load were, it would be past the base of the
\* handler, and then the version would not be free.
LEMMA InsertExtendsLog ==
  ASSUME IInv, NEW r \in Requests, req[r].pc = "insert",
         NewVersion(r) \notin Versions, InsertRows(r)
  PROVE  /\ Versions' = Versions \cup {NewVersion(r)}
         /\ commits'[NewVersion(r)].job = req[r].job
         /\ \A v \in Versions : commits'[v] = commits[v]
         /\ \A v \in Versions : v < NewVersion(r)
         /\ LogIsDense'
         /\ AtMostOneCommitPerLoad'
<1> DEFINE n == NewVersion(r)
<1>1. TypeOK /\ LogIsDense /\ AtMostOneCommitPerLoad
  BY DEF IInv
<1>2. HandlerKnows(req[r], commits) /\ req[r].job \in Jobs
  BY HandlersHaveJobs DEF IInv, Knowledge
<1>3. /\ Versions' = Versions \cup {n}
      /\ commits'[n].job = req[r].job
      /\ \A v \in Versions : commits'[v] = commits[v]
  <2>1. /\ DOMAIN commits' = Versions \cup {n}
        /\ commits'[n] = [job |-> req[r].job, at |-> req[r].at]
        /\ \A v \in Versions : v # n => commits'[v] = commits[v]
    BY <1>1, <1>2, InsertRowsType
  <2>2. QED
    BY <2>1 DEF Versions
<1>4. /\ req[r].base \in Nat /\ n = req[r].base + 1
      /\ Versions \subseteq Nat \ {0}
  BY <1>1 DEF TypeOK, RequestState, NewVersion
<1>5. req[r].base \in Versions \cup {0}
  BY <1>2 DEF HandlerKnows, InLog, Versions
<1>6. \A v \in Versions : v < n
  <2> SUFFICES ASSUME NEW v \in Versions, v >= n PROVE FALSE
    BY <1>4
  <2>1. n \in 1..v
    BY <1>4
  <2>2. QED
    BY <1>1, <2>1 DEF LogIsDense
<1>7. LogIsDense'
  <2> SUFFICES ASSUME NEW v \in Versions', NEW u \in 1..v PROVE u \in Versions'
    BY DEF LogIsDense
  <2>1. CASE v \in Versions
    BY <1>1, <1>3, <2>1 DEF LogIsDense
  <2>2. CASE v = n /\ u # n
    <3>1. req[r].base \in Versions /\ u \in 1..req[r].base
      BY <1>4, <1>5, <2>2
    <3>2. QED
      BY <1>1, <1>3, <3>1 DEF LogIsDense
  <2>3. QED
    BY <1>3, <2>1, <2>2
<1>8. \A v \in Versions : commits[v].job # req[r].job
  <2>1. FoundNothing(req[r])
    BY <1>2 DEF HandlerKnows
  <2>2. \A v \in Versions : commits[v].job = req[r].job => v > req[r].base
    BY <1>2, <2>1 DEF HandlerKnows, Versions
  <2>3. QED
    BY <1>4, <1>6, <2>2
<1>9. AtMostOneCommitPerLoad'
  BY <1>1, <1>3, <1>8 DEF AtMostOneCommitPerLoad
<1>10. QED
  BY <1>3, <1>6, <1>7, <1>9

\* A driver's step that is no POST keeps the invariant when the driver only
\* takes over a version that the log has reached.
LEMMA DriverUpdate ==
  ASSUME IInv, TypeOK', NEW j \in Jobs, NEW s, job' = [job EXCEPT ![j] = s],
         UNCHANGED <<db, manifests, req, sent>>,
         DriverKnows(j, s, commits), s.pc # "waiting"
  PROVE  IInv'
<1>1. Versions' = Versions /\ commits' = commits
  BY DEF Versions, db
<1>2. job'[j] = s /\ \A k \in Jobs : k # j => job'[k] = job[k]
  BY DEF IInv, TypeOK
<1>3. LogIsDense' /\ AtMostOneCommitPerLoad'
  BY <1>1 DEF IInv, LogIsDense, AtMostOneCommitPerLoad
<1>4. RequestsOfJobs'
  BY <1>2 DEF IInv, RequestsOfJobs
<1>5. Knowledge'
  BY <1>1, <1>2 DEF IInv, Knowledge
<1>6. QED
  BY <1>3, <1>4, <1>5 DEF IInv

\* A handler's step that leaves the log alone keeps the invariant when the
\* handler knows what it says.
LEMMA HandlerUpdate ==
  ASSUME IInv, TypeOK', NEW r \in 1..sent, NEW s, req' = [req EXCEPT ![r] = s],
         UNCHANGED <<commits, job, sent>>,
         HandlerKnows(s, commits), s.job = req[r].job
  PROVE  IInv'
<1>1. Versions' = Versions
  BY DEF Versions
<1>2. r \in Requests /\ 1..sent \subseteq Requests
  BY BoundsAssumption DEF IInv, TypeOK, Requests
<1>3. req'[r] = s /\ \A q \in Requests : q # r => req'[q] = req[q]
  BY <1>2 DEF IInv, TypeOK
<1>4. LogIsDense' /\ AtMostOneCommitPerLoad'
  BY <1>1 DEF IInv, LogIsDense, AtMostOneCommitPerLoad
<1>5. RequestsOfJobs'
  <2>1. ASSUME NEW q \in Requests, q > sent PROVE req'[q] = FreeRequest
    BY <1>2, <1>3, <2>1 DEF IInv, RequestsOfJobs, TypeOK, Requests
  <2>2. \A q \in 1..sent : req'[q].job = req[q].job
    BY <1>2, <1>3
  <2>3. QED
    BY <2>1, <2>2 DEF IInv, RequestsOfJobs
<1>6. Knowledge'
  BY <1>2, <1>3 DEF IInv, Knowledge
<1>7. QED
  BY <1>4, <1>5, <1>6 DEF IInv

\* A handler's step that commits its load keeps the invariant.
LEMMA InsertUpdate ==
  ASSUME IInv, TypeOK', NEW r \in Requests, req[r].pc = "insert",
         NewVersion(r) \notin Versions, InsertRows(r),
         NEW s, req' = [req EXCEPT ![r] = s], UNCHANGED <<job, sent>>,
         s.job = req[r].job, s.base = 0, s.existing = 0, s.found = {},
         \/ s.pc = "error"
         \/ s.pc = "committed" /\ s.answer = NewVersion(r)
  PROVE  IInv'
<1>1. r \in 1..sent /\ req[r].job \in Jobs
  BY HandlersHaveJobs
<1>2. 1..sent \subseteq Requests
  BY BoundsAssumption DEF IInv, TypeOK, Requests
<1>3. req'[r] = s /\ \A q \in Requests : q # r => req'[q] = req[q]
  BY DEF IInv, TypeOK
<1>4. /\ DOMAIN commits' = DOMAIN commits \cup {NewVersion(r)}
      /\ commits'[NewVersion(r)].job = req[r].job
      /\ \A v \in DOMAIN commits : commits'[v] = commits[v]
      /\ \A v \in DOMAIN commits : v < NewVersion(r)
      /\ LogIsDense' /\ AtMostOneCommitPerLoad'
  BY InsertExtendsLog DEF Versions
<1>5. RequestsOfJobs'
  <2>1. ASSUME NEW q \in Requests, q > sent PROVE req'[q] = FreeRequest
    BY <1>1, <1>3, <2>1 DEF IInv, RequestsOfJobs, TypeOK, Requests
  <2>2. \A q \in 1..sent : req'[q].job = req[q].job
    BY <1>2, <1>3
  <2>3. QED
    BY <2>1, <2>2 DEF IInv, RequestsOfJobs
<1>6. \A j \in Jobs : DriverKnows(j, job'[j], commits')
  BY <1>4, DriverStillKnows DEF IInv, Knowledge
<1>7. ASSUME NEW q \in 1..sent, q # r PROVE HandlerKnows(req'[q], commits')
  <2>1. HandlerKnows(req[q], commits) /\ req'[q] = req[q]
    BY <1>2, <1>3, <1>7 DEF IInv, Knowledge
  <2>2. req[q].base \in Nat /\ NewVersion(r) \in Nat \ {0}
    BY <1>2 DEF IInv, TypeOK, RequestState, NewVersion
  <2>3. NewVersion(r) > req[q].base
    BY <1>4, <2>1, <2>2 DEF HandlerKnows, InLog
  <2>4. HandlerKnows(req[q], commits')
    BY <1>4, <2>1, <2>3, HandlerStillKnows
  <2>5. QED
    BY <2>1, <2>4
<1>8. HandlerKnows(s, commits')
  BY <1>1, <1>4 DEF HandlerKnows, InLog, IsOf, FoundNothing
<1>9. Knowledge'
  BY <1>3, <1>6, <1>7, <1>8 DEF Knowledge
<1>10. QED
  BY <1>4, <1>5, <1>9 DEF IInv

\* The drivers' steps preserve the invariant.
LEMMA DriverStepInv ==
  ASSUME IInv, NEW j \in Jobs, DriverStep(j)
  PROVE  IInv'
<1> TypeOK /\ TypeOK' /\ DriverKnows(j, job[j], commits) /\ job[j] \in JobState
  BY DriverStepType DEF IInv, Knowledge, TypeOK
<1>1. CASE ReadLatest(j)
  <2>1. PICK v \in Versions \cup {0} :
          job' = [job EXCEPT ![j].pc = "writing", ![j].base = v]
    BY <1>1 DEF ReadLatest
  <2> DEFINE s == [job[j] EXCEPT !.pc = "writing", !.base = v]
  <2>2. job' = [job EXCEPT ![j] = s] /\ UNCHANGED <<db, manifests, req, sent>>
    BY <1>1, <2>1 DEF ReadLatest
  <2>3. DriverKnows(j, s, commits) /\ s.pc # "waiting"
    BY DEF DriverKnows, InLog, Versions, JobState
  <2>4. QED
    BY <2>2, <2>3, DriverUpdate
<1>2. CASE \E k \in Jobs : ContinueFrom(j, k)
  <2>1. PICK k \in Jobs : ContinueFrom(j, k)
    BY <1>2
  <2>2. InLog(job[k].base, commits)
    BY DEF IInv, Knowledge, DriverKnows
  <2> DEFINE s == [job[j] EXCEPT !.pc = "writing", !.base = job[k].base]
  <2>3. job' = [job EXCEPT ![j] = s] /\ UNCHANGED <<db, manifests, req, sent>>
    BY <2>1 DEF ContinueFrom
  <2>4. DriverKnows(j, s, commits) /\ s.pc # "waiting"
    BY <2>2 DEF DriverKnows, JobState
  <2>5. QED
    BY <2>3, <2>4, DriverUpdate
<1>3. CASE CallCommit(j)
  <2> DEFINE s == [job[j] EXCEPT !.pc = "posting", !.start = job[j].base,
                                 !.left = Attempts[j]]
  <2>1. job' = [job EXCEPT ![j] = s] /\ UNCHANGED <<db, manifests, req, sent>>
    BY <1>3 DEF CallCommit
  <2>2. DriverKnows(j, s, commits) /\ s.pc # "waiting"
    BY <1>3 DEF CallCommit, DriverKnows, TypeOK, JobState
  <2>3. QED
    BY <2>1, <2>2, DriverUpdate
<1>4. CASE Post(j)
  <2> DEFINE s == [job[j] EXCEPT !.pc = "waiting", !.left = job[j].left - 1,
                                 !.request = sent']
             h == [FreeRequest EXCEPT !.pc = "lookup", !.job = j,
                                      !.base = job[j].base]
  <2>1. /\ sent' = sent + 1 /\ sent \in Nat /\ sent' \in Requests
        /\ 1..sent \subseteq Requests
    BY <1>4, BoundsAssumption DEF Post, TypeOK, Requests
  <2>2. /\ job' = [job EXCEPT ![j] = s]
        /\ req' = [req EXCEPT ![sent'] = h]
        /\ UNCHANGED <<commits, Versions>>
    BY <1>4 DEF Post, db, Versions
  <2>3. /\ job'[j] = s /\ \A k \in Jobs : k # j => job'[k] = job[k]
        /\ req'[sent'] = h /\ \A q \in Requests : q # sent' => req'[q] = req[q]
    BY <2>1, <2>2 DEF TypeOK
  <2>4. /\ s.pc = "waiting" /\ s.request = sent'
        /\ s.base = job[j].base /\ s.start = job[j].start
    BY DEF JobState
  <2>5. /\ h.pc = "lookup" /\ h.job = j /\ h.base = job[j].base
        /\ h.existing = 0 /\ h.found = {}
    BY DEF FreeRequest
  <2> HIDE DEF s, h
  <2>6. LogIsDense' /\ AtMostOneCommitPerLoad'
    BY <2>2 DEF IInv, LogIsDense, AtMostOneCommitPerLoad
  <2>7. RequestsOfJobs'
    <3>1. ASSUME NEW q \in Requests, q > sent' PROVE req'[q] = FreeRequest
      <4>1. q > sent /\ q # sent'
        BY <2>1, <3>1 DEF Requests
      <4>2. QED
        BY <2>3, <4>1 DEF IInv, RequestsOfJobs
    <3>2. ASSUME NEW k \in Jobs, job'[k].pc = "waiting"
          PROVE  job'[k].request \in 1..sent' /\ req'[job'[k].request].job = k
      <4>1. CASE k = j
        BY <2>1, <2>3, <2>4, <2>5, <4>1
      <4>2. CASE k # j
        <5>1. job[k].request \in 1..sent /\ req[job[k].request].job = k
          BY <2>3, <3>2, <4>2 DEF IInv, RequestsOfJobs
        <5>2. job[k].request \in 1..sent' /\ job[k].request # sent'
              /\ job[k].request \in Requests
          BY <2>1, <5>1
        <5>3. QED
          BY <2>3, <4>2, <5>1, <5>2
      <4>3. QED
        BY <4>1, <4>2
    <3>3. QED
      BY <3>1, <3>2 DEF RequestsOfJobs
  <2>8. Knowledge'
    <3>1. ASSUME NEW k \in Jobs PROVE DriverKnows(k, job'[k], commits)
      BY <2>3, <2>4 DEF IInv, Knowledge, DriverKnows
    <3>2. ASSUME NEW q \in 1..sent' PROVE HandlerKnows(req'[q], commits)
      <4>1. CASE q = sent'
        <5>1. HandlerKnows(h, commits)
          BY <2>5 DEF HandlerKnows, DriverKnows, FoundNothing
        <5>2. QED
          BY <2>3, <4>1, <5>1
      <4>2. CASE q # sent'
        <5>1. q \in 1..sent /\ q \in Requests
          BY <2>1, <4>2
        <5>2. QED
          BY <2>3, <4>2, <5>1 DEF IInv, Knowledge
      <4>3. QED
        BY <4>1, <4>2
    <3>3. QED
      BY <2>2, <3>1, <3>2 DEF Knowledge
  <2>9. QED
    BY <2>6, <2>7, <2>8 DEF IInv
<1>5. CASE GiveUp(j)
  <2> DEFINE s == [job[j] EXCEPT !.pc = "failed"]
  <2>1. job' = [job EXCEPT ![j] = s] /\ UNCHANGED <<db, manifests, req, sent>>
    BY <1>5 DEF GiveUp
  <2>2. DriverKnows(j, s, commits) /\ s.pc # "waiting"
    BY <1>5 DEF GiveUp, DriverKnows, TypeOK, JobState
  <2>3. QED
    BY <2>1, <2>2, DriverUpdate
<1>6. CASE OnCommitted(j)
  <2>1. /\ job[j].request \in 1..sent
        /\ req[job[j].request].job = j
        /\ HandlerKnows(req[job[j].request], commits)
    BY <1>6 DEF OnCommitted, IInv, RequestsOfJobs, Knowledge
  <2> DEFINE s == [job[j] EXCEPT !.pc = "committed",
                                 !.base = req[job[j].request].answer]
  <2>2. job' = [job EXCEPT ![j] = s] /\ UNCHANGED <<db, manifests, req, sent>>
    BY <1>6 DEF OnCommitted
  <2>3. /\ s.pc = "committed" /\ s.start = job[j].start
        /\ s.base = req[job[j].request].answer
    BY DEF JobState
  <2>4. DriverKnows(j, s, commits)
    BY <1>6, <2>1, <2>3 DEF OnCommitted, DriverKnows, HandlerKnows, IsOf, InLog
  <2>5. QED
    BY <2>2, <2>3, <2>4, DriverUpdate
<1>7. CASE OnConflict(j)
  <2>1. /\ job[j].request \in 1..sent
        /\ req[job[j].request].job = j
        /\ HandlerKnows(req[job[j].request], commits)
    BY <1>7 DEF OnConflict, IInv, RequestsOfJobs, Knowledge
  <2> DEFINE s == [job[j] EXCEPT !.pc = "posting",
                                 !.base = req[job[j].request].answer]
  <2>2. job' = [job EXCEPT ![j] = s] /\ UNCHANGED <<db, manifests, req, sent>>
    BY <1>7 DEF OnConflict
  <2>3. /\ s.pc = "posting" /\ s.start = job[j].start
        /\ s.base = req[job[j].request].answer
    BY DEF JobState
  <2>4. DriverKnows(j, s, commits)
    BY <1>7, <2>1, <2>3 DEF OnConflict, DriverKnows, HandlerKnows, IsOf, InLog
  <2>5. QED
    BY <2>2, <2>3, <2>4, DriverUpdate
<1>8. CASE OnError(j)
  <2> DEFINE s == [job[j] EXCEPT !.pc = "unreachable"]
  <2>1. job' = [job EXCEPT ![j] = s] /\ UNCHANGED <<db, manifests, req, sent>>
    BY <1>8 DEF OnError
  <2>2. DriverKnows(j, s, commits) /\ s.pc # "waiting"
    BY <1>8 DEF OnError, DriverKnows, TypeOK, JobState
  <2>3. QED
    BY <2>1, <2>2, DriverUpdate
<1>9. CASE CallAgain(j)
  <2> DEFINE s == [job[j] EXCEPT !.pc = "posting", !.base = job[j].start,
                                 !.left = Attempts[j]]
  <2>1. job' = [job EXCEPT ![j] = s] /\ UNCHANGED <<db, manifests, req, sent>>
    BY <1>9 DEF CallAgain
  <2>2. DriverKnows(j, s, commits) /\ s.pc # "waiting"
    BY <1>9 DEF CallAgain, DriverKnows, TypeOK, JobState
  <2>3. QED
    BY <2>1, <2>2, DriverUpdate
<1>10. CASE DriverDies(j)
  <2> DEFINE s == [job[j] EXCEPT !.pc = "failed"]
  <2>1. job' = [job EXCEPT ![j] = s] /\ UNCHANGED <<db, manifests, req, sent>>
    BY <1>10 DEF DriverDies
  <2>2. DriverKnows(j, s, commits) /\ s.pc # "waiting"
    BY <1>10 DEF DriverDies, DriverKnows, TypeOK, JobState
  <2>3. QED
    BY <2>1, <2>2, DriverUpdate
<1>11. QED
  BY <1>1, <1>2, <1>3, <1>4, <1>5, <1>6, <1>7, <1>8, <1>9, <1>10
  DEF DriverStep

\* The handlers' steps preserve the invariant.
LEMMA HandlerStepInv ==
  ASSUME IInv, NEW r \in Requests, HandlerStep(r) \/ HandlerFault(r)
  PROVE  IInv'
<1> TypeOK /\ TypeOK' /\ req[r] \in RequestState
  BY HandlerStepType DEF IInv, TypeOK
<1>0. r \in 1..sent /\ HandlerKnows(req[r], commits)
  <2>1. req[r].pc # "free"
    BY DEF HandlerStep, HandlerFault, FindExisting, FindBase, Replay, FetchBase,
           LookedUp, PutManifest, BeginTx, CommitTx, ConflictTx, ConflictUnseen,
           AnswerConflict, FetchBaseFails, PutManifestFails, TxFails, ServerDies
  <2>2. QED
    BY <2>1, HandlersHaveJobs DEF IInv, Knowledge
\* A reply whose answer is true.
<1>a. ASSUME NEW pc \in {"committed", "rebase", "error", "dead"}, NEW answer,
             Reply(r, pc, answer), UNCHANGED <<commits, job, sent>>,
             pc = "committed" => IsOf(answer, req[r].job, commits),
             pc = "rebase" => InLog(answer, commits)
      PROVE  IInv'
  <2> DEFINE s == [FreeRequest EXCEPT !.pc = pc, !.job = req[r].job,
                                      !.answer = answer]
  <2>1. req' = [req EXCEPT ![r] = s] /\ s.job = req[r].job
    BY <1>a DEF Reply, FreeRequest
  <2>2. HandlerKnows(s, commits)
    BY <1>0, <1>a DEF HandlerKnows, FreeRequest, FoundNothing, InLog
  <2>3. QED
    BY <1>0, <1>a, <2>1, <2>2, HandlerUpdate
\* A step on, which changes neither the log nor what is known of it.
<1>b. ASSUME NEW s, req' = [req EXCEPT ![r] = s],
             UNCHANGED <<commits, job, sent>>,
             s.job = req[r].job, s.base = req[r].base, s.found = req[r].found,
             s.existing = req[r].existing,
             s.pc \in {"put", "begin", "insert", "conflict"},
             FoundNothing(req[r])
      PROVE  IInv'
  <2>1. HandlerKnows(s, commits)
    BY <1>0, <1>b DEF HandlerKnows, FoundNothing
  <2>2. QED
    BY <1>0, <1>b, <2>1, HandlerUpdate
<1>1. CASE FindExisting(r)
  <2>1. PICK v \in Versions \cup {0} :
          /\ req' = [req EXCEPT ![r].found = @ \cup {"existing"},
                                ![r].existing = v]
          /\ v = 0 => RowsOf(req[r].job) = {}
          /\ v # 0 => v \in RowsOf(req[r].job)
    BY <1>1 DEF FindExisting, RowsOf, TypeOK
  <2> DEFINE s == [req[r] EXCEPT !.found = @ \cup {"existing"}, !.existing = v]
  <2>2. req' = [req EXCEPT ![r] = s] /\ UNCHANGED <<commits, job, sent>>
    BY <1>1, <2>1 DEF FindExisting, db
  <2>3. /\ s.job = req[r].job /\ s.base = req[r].base /\ s.pc = "lookup"
        /\ s.existing = v
    BY <1>1 DEF FindExisting, RequestState
  <2> HIDE DEF s
  <2>4. HandlerKnows(s, commits)
    BY <1>0, <2>1, <2>3
    DEF HandlerKnows, FoundNothing, RowsOf, IsOf, Versions
  <2>5. QED
    BY <1>0, <2>2, <2>3, <2>4, HandlerUpdate
<1>2. CASE FindBase(r)
  <2>1. PICK k : req' = [req EXCEPT ![r].found = @ \cup {"base"},
                                    ![r].baseJob = k]
    BY <1>2 DEF FindBase
  <2> DEFINE s == [req[r] EXCEPT !.found = @ \cup {"base"}, !.baseJob = k]
  <2>2. req' = [req EXCEPT ![r] = s] /\ UNCHANGED <<commits, job, sent>>
    BY <1>2, <2>1 DEF FindBase, db
  <2>3. /\ s.job = req[r].job /\ s.base = req[r].base /\ s.pc = "lookup"
        /\ s.existing = req[r].existing
        /\ "existing" \in s.found => "existing" \in req[r].found
    BY <1>2 DEF FindBase, RequestState
  <2> HIDE DEF s
  <2>4. HandlerKnows(s, commits)
    BY <1>0, <2>3 DEF HandlerKnows, FoundNothing
  <2>5. QED
    BY <1>0, <2>2, <2>3, <2>4, HandlerUpdate
<1>3. CASE Replay(r)
  <2>1. IsOf(req[r].existing, req[r].job, commits)
    BY <1>0, <1>3 DEF Replay, HandlerKnows
  <2>2. QED
    BY <1>3, <1>a, <2>1 DEF Replay, db
<1>4. CASE FetchBase(r)
  <2> DEFINE s == [req[r] EXCEPT !.pc = "put", !.columns = BaseColumns(r)]
  <2>1. FoundNothing(req[r])
    BY <1>4 DEF FetchBase, LookedUp, FoundNothing
  <2>2. req' = [req EXCEPT ![r] = s] /\ UNCHANGED <<commits, job, sent>>
    BY <1>4 DEF FetchBase, db
  <2>3. /\ s.job = req[r].job /\ s.base = req[r].base /\ s.pc = "put"
        /\ s.found = req[r].found /\ s.existing = req[r].existing
    BY DEF RequestState
  <2>4. QED
    BY <1>b, <2>1, <2>2, <2>3
<1>5. CASE PutManifest(r)
  <2> DEFINE s == [req[r] EXCEPT !.pc = "begin"]
  <2>1. FoundNothing(req[r])
    BY <1>0, <1>5 DEF PutManifest, HandlerKnows
  <2>2. req' = [req EXCEPT ![r] = s] /\ UNCHANGED <<commits, job, sent>>
    BY <1>5 DEF PutManifest, db
  <2>3. /\ s.job = req[r].job /\ s.base = req[r].base /\ s.pc = "begin"
        /\ s.found = req[r].found /\ s.existing = req[r].existing
    BY DEF RequestState
  <2>4. QED
    BY <1>b, <2>1, <2>2, <2>3
<1>6. CASE BeginTx(r)
  <2> DEFINE s == [req[r] EXCEPT !.pc = "insert", !.at = clock']
  <2>1. FoundNothing(req[r])
    BY <1>0, <1>6 DEF BeginTx, HandlerKnows
  <2>2. req' = [req EXCEPT ![r] = s] /\ UNCHANGED <<commits, job, sent>>
    BY <1>6 DEF BeginTx, db
  <2>3. /\ s.job = req[r].job /\ s.base = req[r].base /\ s.pc = "insert"
        /\ s.found = req[r].found /\ s.existing = req[r].existing
    BY DEF RequestState
  <2>4. QED
    BY <1>b, <2>1, <2>2, <2>3
<1>7. CASE CommitTx(r)
  <2> DEFINE s == [FreeRequest EXCEPT !.pc = "committed", !.job = req[r].job,
                                      !.answer = NewVersion(r)]
  <2>1. req' = [req EXCEPT ![r] = s]
    BY <1>7 DEF CommitTx, Reply, Fail
  <2>2. /\ s.pc = "committed" /\ s.job = req[r].job /\ s.answer = NewVersion(r)
        /\ s.base = 0 /\ s.existing = 0 /\ s.found = {}
    BY DEF FreeRequest
  <2>3. /\ req[r].pc = "insert" /\ NewVersion(r) \notin Versions
        /\ InsertRows(r) /\ UNCHANGED <<job, sent>>
    BY <1>7 DEF CommitTx
  <2>4. QED
    BY <2>1, <2>2, <2>3, InsertUpdate
<1>8. CASE ConflictTx(r)
  <2> DEFINE s == [req[r] EXCEPT !.pc = "conflict"]
  <2>1. FoundNothing(req[r])
    BY <1>0, <1>8 DEF ConflictTx, HandlerKnows
  <2>2. req' = [req EXCEPT ![r] = s] /\ UNCHANGED <<commits, job, sent>>
    BY <1>8 DEF ConflictTx, db
  <2>3. /\ s.job = req[r].job /\ s.base = req[r].base /\ s.pc = "conflict"
        /\ s.found = req[r].found /\ s.existing = req[r].existing
    BY DEF RequestState
  <2>4. QED
    BY <1>b, <2>1, <2>2, <2>3
<1>9. CASE AnswerConflict(r)
  <2>1. PICK v \in Versions \cup {0} :
          Reply(r, "rebase", IF v = 0 THEN req[r].base ELSE v)
    BY <1>9 DEF AnswerConflict
  <2>2. InLog(IF v = 0 THEN req[r].base ELSE v, commits)
    BY <1>0 DEF HandlerKnows, InLog, Versions
  <2>3. QED
    BY <1>9, <1>a, <2>1, <2>2 DEF AnswerConflict, db
<1>10. CASE FetchBaseFails(r)
  BY <1>10, <1>a DEF FetchBaseFails, Fail, db
<1>11. CASE PutManifestFails(r)
  BY <1>11, <1>a DEF PutManifestFails, Fail, db
<1>12. CASE TxFails(r) /\ NewVersion(r) \notin Versions /\ InsertRows(r)
  <2> DEFINE s == [FreeRequest EXCEPT !.pc = "error", !.job = req[r].job,
                                      !.answer = 0]
  <2>1. req' = [req EXCEPT ![r] = s]
    BY <1>12 DEF TxFails, Reply, Fail
  <2>2. /\ s.pc = "error" /\ s.job = req[r].job /\ s.answer = 0
        /\ s.base = 0 /\ s.existing = 0 /\ s.found = {}
    BY DEF FreeRequest
  <2>3. /\ req[r].pc = "insert" /\ NewVersion(r) \notin Versions
        /\ InsertRows(r) /\ UNCHANGED <<job, sent>>
    BY <1>12 DEF TxFails
  <2>4. QED
    BY <2>1, <2>2, <2>3, InsertUpdate
<1>13. CASE TxFails(r) /\ UNCHANGED <<commits, columnLoads>>
  BY <1>13, <1>a DEF TxFails, Fail
<1>14. CASE ServerDies(r)
  BY <1>14, <1>a DEF ServerDies, db
<1>15. CASE ConflictUnseen(r)
  BY <1>15, <1>a DEF ConflictUnseen, Fail, db
<1>16. QED
  BY <1>1, <1>2, <1>3, <1>4, <1>5, <1>6, <1>7, <1>8, <1>9, <1>10, <1>11,
     <1>12, <1>13, <1>14, <1>15
  DEF HandlerStep, HandlerFault, TxFails

-----------------------------------------------------------------------------
\* Initially the log is empty and nobody knows anything.
LEMMA InitInv == Init => IInv
<1> SUFFICES ASSUME Init PROVE IInv
  OBVIOUS
<1>1. Versions = {}
  BY DEF Init, Versions
<1>2. TypeOK
  <2>1. req \in [Requests -> RequestState]
    BY FreeRequestType DEF Init
  <2>2. job \in [Jobs -> JobState]
    BY BoundsAssumption DEF Init, JobState, JobPhases
  <2>3. QED
    BY <1>1, <2>1, <2>2, BoundsAssumption DEF Init, TypeOK
<1>3. LogIsDense /\ AtMostOneCommitPerLoad
  BY <1>1 DEF LogIsDense, AtMostOneCommitPerLoad
<1>4. RequestsOfJobs
  BY DEF Init, RequestsOfJobs
<1>5. Knowledge
  BY DEF Init, Knowledge, DriverKnows, InLog
<1>6. QED
  BY <1>2, <1>3, <1>4, <1>5 DEF IInv

\* Every step preserves the invariant, a stuttering step included.
LEMMA StepInv == IInv /\ [Next]_vars => IInv'
<1> SUFFICES ASSUME IInv, [Next]_vars PROVE IInv'
  OBVIOUS
<1>1. CASE Next
  BY <1>1, DriverStepInv, HandlerStepInv DEF Next
<1>2. CASE UNCHANGED vars
  BY <1>2
  DEF vars, IInv, TypeOK, Versions, LogIsDense, AtMostOneCommitPerLoad,
      RequestsOfJobs, Knowledge
<1>3. QED
  BY <1>1, <1>2

\* The inductive invariant holds in every reachable state.
THEOREM Invariance == Spec => []IInv
BY InitInv, StepInv, PTL DEF Spec

\* The tables, the bucket, the drivers and the handlers keep their types.
THEOREM TypeCorrect == Spec => []TypeOK
<1>1. IInv => TypeOK
  BY DEF IInv
<1>2. QED
  BY <1>1, Invariance, PTL

\* The versions of a table have no gap, although the base version of a POST is
\* never checked against the log.
THEOREM DenseLog == Spec => []LogIsDense
<1>1. IInv => LogIsDense
  BY DEF IInv
<1>2. QED
  BY <1>1, Invariance, PTL

\* A load is committed at most once, whatever is retried and whatever fails:
\* the claim of commit_via_api that a retry won't create a duplicate manifest.
THEOREM CommitOnce == Spec => []AtMostOneCommitPerLoad
<1>1. IInv => AtMostOneCommitPerLoad
  BY DEF IInv
<1>2. QED
  BY <1>1, Invariance, PTL

\* A driver that is told "committed" finds its load in the log.
THEOREM CommittedIsTrue == Spec => []ToldCommitted
<1>1. IInv => ToldCommitted
  BY DEF IInv, Knowledge, DriverKnows, IsOf, ToldCommitted, Versions
<1>2. QED
  BY <1>1, Invariance, PTL

-----------------------------------------------------------------------------
(***************************************************************************)
(* What a step may do to the log and to the bucket.                        *)
(***************************************************************************)

\* Only the insertion of a commit row changes the log, and only writing a
\* manifest changes the bucket.
LEMMA LogSteps ==
  ASSUME Next
  PROVE  \/ UNCHANGED commits
         \/ /\ UNCHANGED <<manifests, sent, job>>
            /\ \E r \in Requests :
                 /\ req[r].pc = "insert" /\ NewVersion(r) \notin Versions
                 /\ InsertRows(r)
<1>1. ASSUME NEW j \in Jobs, DriverStep(j) PROVE UNCHANGED commits
  BY <1>1
  DEF DriverStep, ReadLatest, ContinueFrom, CallCommit, Post, GiveUp,
      OnCommitted, OnConflict, OnError, CallAgain, DriverDies, db
<1>2. ASSUME NEW r \in Requests, HandlerStep(r) \/ HandlerFault(r),
             ~(CommitTx(r) \/ TxFails(r))
      PROVE  UNCHANGED commits
  BY <1>2
  DEF HandlerStep, HandlerFault, FindExisting, FindBase, Replay, FetchBase,
      PutManifest, BeginTx, ConflictTx, ConflictUnseen, AnswerConflict,
      FetchBaseFails,
      PutManifestFails, ServerDies, db
<1>3. ASSUME NEW r \in Requests, CommitTx(r) \/ TxFails(r)
      PROVE  \/ UNCHANGED commits
             \/ /\ UNCHANGED <<manifests, sent, job>>
                /\ req[r].pc = "insert" /\ NewVersion(r) \notin Versions
                /\ InsertRows(r)
  BY <1>3 DEF CommitTx, TxFails
<1>4. QED
  BY <1>1, <1>2, <1>3 DEF Next

\* The bucket changes only by the PUT of a handler that is about to write.
LEMMA BucketSteps ==
  ASSUME Next
  PROVE  \/ UNCHANGED manifests
         \/ \E r \in Requests : req[r].pc = "put" /\ WriteManifest(r)
<1>1. ASSUME NEW j \in Jobs, DriverStep(j) PROVE UNCHANGED manifests
  BY <1>1
  DEF DriverStep, ReadLatest, ContinueFrom, CallCommit, Post, GiveUp,
      OnCommitted, OnConflict, OnError, CallAgain, DriverDies
<1>2. ASSUME NEW r \in Requests, HandlerStep(r) \/ HandlerFault(r)
      PROVE  UNCHANGED manifests \/ (req[r].pc = "put" /\ WriteManifest(r))
  BY <1>2
  DEF HandlerStep, HandlerFault, FindExisting, FindBase, Replay, FetchBase,
      PutManifest, BeginTx, CommitTx, ConflictTx, ConflictUnseen,
      AnswerConflict, FetchBaseFails, PutManifestFails, TxFails, ServerDies
<1>3. QED
  BY <1>1, <1>2 DEF Next

\* The log only grows.
LEMMA LogGrows ==
  ASSUME IInv, Next
  PROVE  /\ Versions \subseteq Versions'
         /\ \A v \in Versions : commits'[v] = commits[v]
<1>1. CASE UNCHANGED commits
  BY <1>1 DEF Versions
<1>2. ASSUME NEW r \in Requests, req[r].pc = "insert",
             NewVersion(r) \notin Versions, InsertRows(r)
      PROVE  /\ Versions \subseteq Versions'
             /\ \A v \in Versions : commits'[v] = commits[v]
  BY <1>2, InsertExtendsLog
<1>3. QED
  BY <1>1, <1>2, LogSteps

\* The manifest a handler writes carries its base forward, and so does the one
\* that may be there already under the same name.
LEMMA WriteCarries ==
  ASSUME MInv, NEW r \in Requests, req[r].pc = "put", WriteManifest(r)
  PROVE  LET key == <<NewVersion(r), req[r].job>>
         IN  /\ key[1] = req[r].base + 1 /\ key[2] = req[r].job
             /\ DOMAIN manifests' = DOMAIN manifests \cup {key}
             /\ manifests'[key] = Override(BaseMap(req[r].base), req[r].job)
             /\ \A k \in DOMAIN manifests : manifests'[k] = manifests[k]
<1> DEFINE key == <<NewVersion(r), req[r].job>>
           new == Override(BaseMap(req[r].base), req[r].job)
<1>1. r \in 1..sent /\ req[r].base \in Nat
  BY HandlersHaveJobs DEF MInv, IInv, TypeOK, RequestState
<1>2. req[r].columns = BaseMap(req[r].base)
  BY <1>1 DEF MInv, HandlersCarry, HandlerCarries
<1>3. manifests' = [k \in DOMAIN manifests \cup {key} |->
                      IF k = key THEN new ELSE manifests[k]]
  BY <1>2 DEF WriteManifest, Put
<1>4. key[1] = req[r].base + 1 /\ key[2] = req[r].job /\ key[1] - 1 = req[r].base
  BY <1>1 DEF NewVersion
<1>5. key \in DOMAIN manifests => manifests[key] = new
  BY <1>4 DEF MInv, ManifestsSound
<1> HIDE DEF key, new
<1>6. /\ DOMAIN manifests' = DOMAIN manifests \cup {key}
      /\ manifests'[key] = new
      /\ \A k \in DOMAIN manifests : manifests'[k] = manifests[k]
  BY <1>3, <1>5
<1>7. QED
  BY <1>4, <1>6 DEF key, new

\* No manifest is ever changed or removed.
LEMMA BucketGrows ==
  ASSUME MInv, Next
  PROVE  \A k \in DOMAIN manifests :
           k \in DOMAIN manifests' /\ manifests'[k] = manifests[k]
BY BucketSteps, WriteCarries

\* The column map of a committed version is fixed for ever.
LEMMA BaseMapKept ==
  ASSUME MInv, Next, NEW b \in Versions \cup {0}
  PROVE  BaseMap(b)' = BaseMap(b)
<1>1. CASE b = 0
  BY <1>1 DEF BaseMap
<1>2. CASE b \in Versions /\ b # 0
  <2>1. commits'[b] = commits[b]
    BY <1>2, LogGrows DEF MInv
  <2>2. <<b, commits[b].job>> \in DOMAIN manifests
    BY <1>2 DEF MInv, CommitsHaveManifests
  <2>3. manifests'[<<b, commits[b].job>>] = manifests[<<b, commits[b].job>>]
    BY <2>2, BucketGrows
  <2>4. QED
    BY <2>1, <2>3 DEF BaseMap, ManifestOf
<1>3. QED
  BY <1>1, <1>2

-----------------------------------------------------------------------------
(***************************************************************************)
(* What a step may do to a handler.                                        *)
(***************************************************************************)

\* The handler is there since this step, or has returned.
Fresh(s) == s.found = {} /\ s.pc \notin {"put", "begin", "insert", "conflict"}

\* The handler keeps what the request said and what it read of the base.
KeepsBase(r) ==
  /\ req'[r].base = req[r].base
  /\ req'[r].job = req[r].job
  /\ req'[r].baseJob = req[r].baseJob

\* A handler that has answered holds nothing of what it had read.
LEMMA ReplyIsFresh ==
  ASSUME TypeOK, NEW r \in Requests, NEW answer,
         NEW pc \in {"committed", "rebase", "error", "dead"},
         Reply(r, pc, answer)
  PROVE  /\ Fresh(req'[r])
         /\ \A q \in Requests : q # r => req'[q] = req[q]
<1> DEFINE s == [FreeRequest EXCEPT !.pc = pc, !.job = req[r].job,
                                    !.answer = answer]
<1>1. req' = [req EXCEPT ![r] = s]
  BY DEF Reply
<1>2. s.pc = pc /\ s.found = {}
  BY DEF FreeRequest
<1> HIDE DEF s
<1>3. QED
  BY <1>1, <1>2 DEF Fresh, TypeOK

\* A POST adds one handler, which has read nothing.
LEMMA PostAddsFresh ==
  ASSUME TypeOK, NEW j \in Jobs, Post(j)
  PROVE  \A q \in 1..sent' : IF q = sent' THEN Fresh(req'[q])
                             ELSE q \in 1..sent /\ req'[q] = req[q]
<1> DEFINE h == [FreeRequest EXCEPT !.pc = "lookup", !.job = j,
                                    !.base = job[j].base]
<1>1. /\ sent' = sent + 1 /\ sent \in Nat
      /\ 1..sent' \subseteq Requests /\ sent' \in Requests
  BY BoundsAssumption DEF Post, TypeOK, Requests
<1>2. req' = [req EXCEPT ![sent'] = h]
  BY DEF Post
<1>3. Fresh(h)
  BY DEF Fresh, FreeRequest
<1> HIDE DEF h
<1>4. req'[sent'] = h /\ \A q \in Requests : q # sent' => req'[q] = req[q]
  BY <1>1, <1>2 DEF TypeOK
<1>5. ASSUME NEW q \in 1..sent', q # sent'
      PROVE  q \in 1..sent /\ req'[q] = req[q]
  BY <1>1, <1>4, <1>5
<1>6. QED
  BY <1>3, <1>4, <1>5

\* A step of a handler on its way, and the handlers it leaves alone.
LEMMA HandlerMoves ==
  ASSUME TypeOK, NEW r \in Requests, HandlerStep(r) \/ HandlerFault(r)
  PROVE  /\ \A q \in Requests : q # r => req'[q] = req[q]
         /\ \/ Fresh(req'[r])
            \/ /\ FindExisting(r) /\ KeepsBase(r)
               /\ req'[r].found = req[r].found \cup {"existing"}
               /\ req'[r].pc = "lookup"
            \/ FindBase(r)
            \/ FetchBase(r) /\ KeepsBase(r)
               /\ req'[r].found = req[r].found
               /\ req'[r].columns = BaseColumns(r) /\ req'[r].pc = "put"
            \/ /\ PutManifest(r) /\ KeepsBase(r)
               /\ req'[r].found = req[r].found
               /\ req'[r].columns = req[r].columns /\ req'[r].pc = "begin"
            \/ /\ req[r].pc \in {"begin", "insert"} /\ KeepsBase(r)
               /\ req'[r].found = req[r].found
               /\ req'[r].columns = req[r].columns
               /\ req'[r].pc \in {"insert", "conflict"}
<1> req[r] \in RequestState
  BY DEF TypeOK
<1>1. CASE FindExisting(r)
  <2>1. PICK v : req' = [req EXCEPT ![r].found = @ \cup {"existing"},
                                    ![r].existing = v]
    BY <1>1 DEF FindExisting
  <2>2. req[r].pc = "lookup"
    BY <1>1 DEF FindExisting
  <2>3. QED
    BY <1>1, <2>1, <2>2 DEF TypeOK, RequestState, KeepsBase
<1>2. CASE FindBase(r)
  BY <1>2 DEF FindBase, TypeOK
<1>3. CASE FetchBase(r)
  BY <1>3 DEF FetchBase, TypeOK, RequestState, KeepsBase
<1>4. CASE PutManifest(r)
  BY <1>4 DEF PutManifest, TypeOK, RequestState, KeepsBase
<1>5. CASE BeginTx(r)
  BY <1>5 DEF BeginTx, TypeOK, RequestState, KeepsBase
<1>6. CASE ConflictTx(r)
  BY <1>6 DEF ConflictTx, TypeOK, RequestState, KeepsBase
<1>7. CASE \/ Replay(r) \/ CommitTx(r) \/ ConflictUnseen(r)
           \/ AnswerConflict(r) \/ HandlerFault(r)
  BY <1>7, ReplyIsFresh
  DEF Replay, CommitTx, ConflictUnseen, AnswerConflict, HandlerFault,
      FetchBaseFails, PutManifestFails, TxFails, ServerDies, Fail
<1>8. QED
  BY <1>1, <1>2, <1>3, <1>4, <1>5, <1>6, <1>7 DEF HandlerStep

\* A handler that has read nothing and is past nothing carries nothing.
LEMMA FreshCarries ==
  ASSUME NEW r, Fresh(req'[r])
  PROVE  HandlerCarries(r)'
BY DEF Fresh, HandlerCarries

\* What a handler has read of its base, and the base's columns, do not change.
LEMMA BaseStays ==
  ASSUME MInv, Next, NEW r \in 1..sent, KeepsBase(r)
  PROVE  /\ BaseMap(req[r].base)' = BaseMap(req[r].base)
         /\ "base" \in req[r].found =>
              req'[r].baseJob = IF req'[r].base = 0 THEN NoLoad
                                ELSE commits'[req'[r].base].job
<1>1. req[r].base \in Versions \cup {0}
  BY DEF MInv, IInv, Knowledge, HandlerKnows, InLog, Versions
<1>2. /\ req[r].base \in Nat /\ req'[r].base = req[r].base
      /\ req'[r].baseJob = req[r].baseJob
  BY <1>1 DEF MInv, IInv, TypeOK, KeepsBase
<1>3. req[r].base # 0 => commits'[req[r].base] = commits[req[r].base]
  BY <1>1, LogGrows DEF MInv
<1>4. HandlerCarries(r)
  BY DEF MInv, HandlersCarry
<1>5. QED
  BY <1>1, <1>2, <1>3, <1>4, BaseMapKept DEF HandlerCarries

\* A handler that no step touches still carries what it carried.
LEMMA StillCarries ==
  ASSUME MInv, Next, NEW r \in 1..sent, req'[r] = req[r]
  PROVE  HandlerCarries(r)'
<1>1. HandlerCarries(r)
  BY DEF MInv, HandlersCarry
<1>2. KeepsBase(r)
  BY DEF KeepsBase
<1>3. /\ BaseMap(req[r].base)' = BaseMap(req[r].base)
      /\ "base" \in req[r].found =>
           req'[r].baseJob = IF req'[r].base = 0 THEN NoLoad
                             ELSE commits'[req'[r].base].job
  BY <1>2, BaseStays
<1>4. DOMAIN manifests \subseteq DOMAIN manifests'
  BY BucketGrows
<1>5. NewVersion(r)' = NewVersion(r)
  BY DEF NewVersion
<1>6. QED
  BY <1>1, <1>3, <1>4, <1>5 DEF HandlerCarries

\* So does the handler that takes a step.
LEMMA MovesCarry ==
  ASSUME MInv, Next, NEW r \in 1..sent, r \in Requests,
         HandlerStep(r) \/ HandlerFault(r)
  PROVE  HandlerCarries(r)'
<1>0. TypeOK /\ HandlerCarries(r) /\ HandlerKnows(req[r], commits)
  BY DEF MInv, IInv, HandlersCarry, Knowledge
<1>1. req[r].base \in Versions \cup {0} /\ Versions \subseteq Nat \ {0}
  BY <1>0 DEF HandlerKnows, InLog, Versions, TypeOK
<1>2. CASE Fresh(req'[r])
  BY <1>2, FreshCarries
<1>3. CASE FindBase(r)
  <2>1. /\ req[r].pc = "lookup" /\ UNCHANGED commits
        /\ req' = [req EXCEPT ![r].found = @ \cup {"base"},
                              ![r].baseJob = IF req[r].base \in Versions
                                             THEN commits[req[r].base].job
                                             ELSE NoLoad]
    BY <1>3 DEF FindBase, db
  <2>2. req[r].base \in Versions <=> req[r].base # 0
    BY <1>1
  <2>3. /\ req'[r].pc = "lookup" /\ req'[r].base = req[r].base
        /\ req'[r].baseJob = IF req[r].base \in Versions
                             THEN commits[req[r].base].job
                             ELSE NoLoad
    BY <1>0, <2>1 DEF TypeOK, RequestState
  <2>4. QED
    BY <2>1, <2>2, <2>3 DEF HandlerCarries
<1>4. ASSUME KeepsBase(r)
      PROVE  /\ BaseMap(req[r].base)' = BaseMap(req[r].base)
             /\ "base" \in req[r].found =>
                  req'[r].baseJob = IF req'[r].base = 0 THEN NoLoad
                                    ELSE commits'[req'[r].base].job
             /\ NewVersion(r)' = NewVersion(r)
  BY <1>4, BaseStays DEF KeepsBase, NewVersion
<1>5. CASE /\ FindExisting(r) /\ KeepsBase(r)
           /\ req'[r].found = req[r].found \cup {"existing"}
           /\ req'[r].pc = "lookup"
  BY <1>4, <1>5 DEF HandlerCarries
<1>6. CASE /\ FetchBase(r) /\ KeepsBase(r)
           /\ req'[r].found = req[r].found
           /\ req'[r].columns = BaseColumns(r) /\ req'[r].pc = "put"
  <2>1. "base" \in req[r].found
    BY <1>6 DEF FetchBase, LookedUp
  <2>2. req[r].baseJob = IF req[r].base = 0 THEN NoLoad
                         ELSE commits[req[r].base].job
    BY <1>0, <2>1 DEF HandlerCarries
  <2>3. BaseColumns(r) = BaseMap(req[r].base)
    <3>1. CASE req[r].base = 0
      BY <2>2, <3>1 DEF BaseColumns, BaseMap
    <3>2. CASE req[r].base # 0
      <4>1. req[r].base \in Versions /\ commits[req[r].base].job \in Jobs
        BY <1>0, <1>1, <3>2 DEF TypeOK
      <4>2. <<req[r].base, req[r].baseJob>> \in DOMAIN manifests
        BY <2>2, <3>2, <4>1 DEF MInv, CommitsHaveManifests
      <4>3. QED
        BY <2>2, <3>2, <4>1, <4>2, NoLoadAssumption
        DEF BaseColumns, BaseMap, ManifestOf
    <3>3. QED
      BY <3>1, <3>2
  <2>4. QED
    BY <1>4, <1>6, <2>1, <2>3 DEF HandlerCarries
<1>7. CASE /\ PutManifest(r) /\ KeepsBase(r)
           /\ req'[r].found = req[r].found
           /\ req'[r].columns = req[r].columns /\ req'[r].pc = "begin"
  <2>1. req[r].pc = "put" /\ WriteManifest(r)
    BY <1>7 DEF PutManifest
  <2>2. <<NewVersion(r), req[r].job>> \in DOMAIN manifests'
    BY <2>1, WriteCarries
  <2>3. QED
    BY <1>0, <1>4, <1>7, <2>1, <2>2 DEF HandlerCarries, KeepsBase
<1>8. CASE /\ req[r].pc \in {"begin", "insert"} /\ KeepsBase(r)
           /\ req'[r].found = req[r].found
           /\ req'[r].columns = req[r].columns
           /\ req'[r].pc \in {"insert", "conflict"}
  <2>1. DOMAIN manifests \subseteq DOMAIN manifests'
    BY BucketGrows
  <2>2. QED
    BY <1>0, <1>4, <1>8, <2>1 DEF HandlerCarries, KeepsBase
<1>9. QED
  BY <1>0, <1>2, <1>3, <1>5, <1>6, <1>7, <1>8, HandlerMoves

-----------------------------------------------------------------------------
(***************************************************************************)
(* The inductive invariant of the manifests.                               *)
(***************************************************************************)

\* Every manifest still carries a committed version forward, the one the step
\* writes included.
LEMMA BucketStaysSound ==
  ASSUME MInv, Next
  PROVE  ManifestsSound'
<1>1. Versions \subseteq Versions'
  BY LogGrows DEF MInv
<1>2. ASSUME NEW k \in DOMAIN manifests, manifests'[k] = manifests[k]
      PROVE  /\ k[1] # 0 /\ InLog(k[1] - 1, commits')
             /\ manifests'[k] = Override(BaseMap(k[1] - 1)', k[2])
  <2>1. /\ k[1] # 0 /\ k[1] - 1 \in Versions \cup {0}
        /\ manifests[k] = Override(BaseMap(k[1] - 1), k[2])
    BY DEF MInv, ManifestsSound, InLog, Versions
  <2>2. BaseMap(k[1] - 1)' = BaseMap(k[1] - 1)
    BY <2>1, BaseMapKept
  <2>3. QED
    BY <1>1, <1>2, <2>1, <2>2 DEF InLog, Versions
<1>3. CASE UNCHANGED manifests
  BY <1>2, <1>3 DEF ManifestsSound
<1>4. ASSUME NEW r \in Requests, req[r].pc = "put", WriteManifest(r)
      PROVE  ManifestsSound'
  <2> DEFINE key == <<NewVersion(r), req[r].job>>
             b == req[r].base
  <2>1. /\ key[1] = b + 1 /\ key[2] = req[r].job
        /\ DOMAIN manifests' = DOMAIN manifests \cup {key}
        /\ manifests'[key] = Override(BaseMap(b), req[r].job)
        /\ \A k \in DOMAIN manifests : manifests'[k] = manifests[k]
    BY <1>4, WriteCarries
  <2>2. r \in 1..sent
    BY <1>4, HandlersHaveJobs DEF MInv
  <2>3. b \in Versions \cup {0} /\ b \in Nat
    BY <2>2 DEF MInv, IInv, Knowledge, HandlerKnows, InLog, Versions, TypeOK
  <2>4. \A v \in Versions \cup {0} : BaseMap(v)' = BaseMap(v)
    BY BaseMapKept
  <2> HIDE DEF key
  <2>5. ASSUME NEW k \in DOMAIN manifests', k = key
        PROVE  /\ k[1] # 0 /\ InLog(k[1] - 1, commits')
               /\ manifests'[k] = Override(BaseMap(k[1] - 1)', k[2])
    <3>1. k[1] # 0 /\ k[1] - 1 = b
      BY <2>1, <2>3, <2>5
    <3>2. InLog(b, commits')
      BY <1>1, <2>3 DEF InLog, Versions
    <3>3. BaseMap(k[1] - 1)' = BaseMap(b)
      BY <2>3, <2>4, <3>1
    <3>4. QED
      BY <2>1, <2>5, <3>1, <3>2, <3>3
  <2>6. QED
    BY <1>2, <2>1, <2>5 DEF ManifestsSound
<1>5. QED
  BY <1>3, <1>4, BucketSteps

\* The transaction publishes a manifest that is in the bucket.
LEMMA CommitsKeepManifests ==
  ASSUME MInv, Next
  PROVE  CommitsHaveManifests'
<1>1. /\ \A v \in Versions : <<v, commits[v].job>> \in DOMAIN manifests
      /\ DOMAIN manifests \subseteq DOMAIN manifests'
  BY BucketGrows DEF MInv, CommitsHaveManifests
<1>2. CASE UNCHANGED commits
  BY <1>1, <1>2 DEF CommitsHaveManifests, Versions
<1>3. ASSUME NEW r \in Requests, req[r].pc = "insert",
             NewVersion(r) \notin Versions, InsertRows(r)
      PROVE  CommitsHaveManifests'
  <2>1. /\ Versions' = Versions \cup {NewVersion(r)}
        /\ commits'[NewVersion(r)].job = req[r].job
        /\ \A v \in Versions : commits'[v] = commits[v]
    BY <1>3, InsertExtendsLog DEF MInv
  <2>2. r \in 1..sent
    BY <1>3, HandlersHaveJobs DEF MInv
  <2>3. <<NewVersion(r), req[r].job>> \in DOMAIN manifests
    BY <1>3, <2>2 DEF MInv, HandlersCarry, HandlerCarries
  <2>4. QED
    BY <1>1, <2>1, <2>3 DEF CommitsHaveManifests
<1>4. QED
  BY <1>2, <1>3, LogSteps

\* Every handler still knows its base.
LEMMA HandlersStillCarry ==
  ASSUME MInv, Next
  PROVE  HandlersCarry'
<1>0. TypeOK /\ 1..sent \subseteq Requests
  BY BoundsAssumption DEF MInv, IInv, TypeOK, Requests
<1>1. ASSUME NEW j \in Jobs, Post(j) PROVE HandlersCarry'
  <2>1. ASSUME NEW q \in 1..sent' PROVE HandlerCarries(q)'
    <3>1. CASE Fresh(req'[q])
      BY <3>1, FreshCarries
    <3>2. CASE q \in 1..sent /\ req'[q] = req[q]
      BY <3>2, StillCarries
    <3>3. QED
      BY <1>0, <1>1, <3>1, <3>2, PostAddsFresh
  <2>2. QED
    BY <2>1 DEF HandlersCarry
<1>2. ASSUME NEW j \in Jobs, DriverStep(j), ~Post(j) PROVE HandlersCarry'
  <2>1. UNCHANGED <<req, sent>>
    BY <1>2
    DEF DriverStep, ReadLatest, ContinueFrom, CallCommit, GiveUp,
        OnCommitted, OnConflict, OnError, CallAgain, DriverDies
  <2>2. QED
    BY <2>1, StillCarries DEF HandlersCarry
<1>3. ASSUME NEW r \in Requests, HandlerStep(r) \/ HandlerFault(r)
      PROVE  HandlersCarry'
  <2>1. sent' = sent
    BY <1>3
    DEF HandlerStep, HandlerFault, FindExisting, FindBase, Replay, FetchBase,
        PutManifest, BeginTx, CommitTx, ConflictTx, ConflictUnseen,
        AnswerConflict, FetchBaseFails, PutManifestFails, TxFails, ServerDies
  <2>2. ASSUME NEW q \in 1..sent PROVE HandlerCarries(q)'
    <3>1. CASE q = r
      BY <1>3, <3>1, MovesCarry
    <3>2. CASE q # r
      BY <1>0, <1>3, <3>2, HandlerMoves, StillCarries
    <3>3. QED
      BY <3>1, <3>2
  <2>3. QED
    BY <2>1, <2>2 DEF HandlersCarry
<1>4. QED
  BY <1>1, <1>2, <1>3 DEF Next

\* The invariant of the manifests holds initially.
LEMMA InitMInv == Init => MInv
BY InitInv
DEF Init, MInv, ManifestsSound, CommitsHaveManifests, HandlersCarry, Versions

\* Every step preserves it.
LEMMA StepMInv == MInv /\ [Next]_vars => MInv'
<1>1. ASSUME MInv, Next PROVE MInv'
  BY <1>1, StepInv, BucketStaysSound, CommitsKeepManifests, HandlersStillCarry
  DEF MInv
<1>2. ASSUME MInv, UNCHANGED vars PROVE MInv'
  <2>1. IInv'
    BY <1>2, StepInv DEF MInv
  <2>2. ManifestsSound'
    BY <1>2 DEF vars, MInv, ManifestsSound, BaseMap, ManifestOf
  <2>3. CommitsHaveManifests'
    BY <1>2 DEF vars, MInv, CommitsHaveManifests, Versions
  <2>4. HandlersCarry'
    BY <1>2
    DEF vars, MInv, HandlersCarry, HandlerCarries, BaseMap, ManifestOf,
        NewVersion
  <2>5. QED
    BY <2>1, <2>2, <2>3, <2>4 DEF MInv
<1>3. QED
  BY <1>1, <1>2

\* The invariant of the manifests holds in every reachable state.
THEOREM ManifestInvariance == Spec => []MInv
BY InitMInv, StepMInv, PTL DEF Spec

\* No update is lost: the manifest of every version exists and is the manifest
\* of the version before it, overridden by the columns of its job.
THEOREM NoLostUpdate == Spec => []CarriesForward
<1>1. MInv => CarriesForward
  <2> SUFFICES ASSUME MInv, NEW v \in Versions
               PROVE  /\ <<v, commits[v].job>> \in DOMAIN manifests
                      /\ ManifestOf(v) =
                           Override(IF v = 1 THEN NoColumns
                                    ELSE ManifestOf(v - 1),
                                    commits[v].job)
    BY DEF CarriesForward
  <2> DEFINE key == <<v, commits[v].job>>
  <2>1. v \in Nat \ {0} /\ key \in DOMAIN manifests
    BY DEF MInv, IInv, TypeOK, CommitsHaveManifests
  <2>2. manifests[key] = Override(BaseMap(v - 1), commits[v].job)
    BY <2>1 DEF MInv, ManifestsSound
  <2>3. BaseMap(v - 1) = IF v = 1 THEN NoColumns ELSE ManifestOf(v - 1)
    BY <2>1 DEF BaseMap
  <2>4. QED
    BY <2>1, <2>2, <2>3 DEF ManifestOf
<1>2. QED
  BY <1>1, ManifestInvariance, PTL

\* A manifest object is never changed and never removed, although several
\* requests may put the same one.
THEOREM BucketIsImmutable == Spec => ManifestsImmutable
<1>1. MInv /\ [Next]_vars =>
        [\A k \in DOMAIN manifests :
           k \in DOMAIN manifests' /\ manifests'[k] = manifests[k]]_manifests
  BY BucketGrows DEF vars
<1>2. QED
  BY <1>1, ManifestInvariance, PTL DEF Spec, ManifestsImmutable

-----------------------------------------------------------------------------
(***************************************************************************)
(* The log has a length.                                                   *)
(***************************************************************************)

\* The versions are 1 to some number.
HasLength == \E m \in Nat : Versions = 1..m

\* An insertion makes the log one version longer.
LEMMA InsertLengthens ==
  ASSUME IInv, NEW m \in Nat, Versions = 1..m, NEW r \in Requests,
         req[r].pc = "insert", NewVersion(r) \notin Versions, InsertRows(r)
  PROVE  NewVersion(r) = m + 1 /\ Versions' = 1..(m + 1)
<1>1. /\ Versions' = Versions \cup {NewVersion(r)}
      /\ \A v \in Versions : v < NewVersion(r)
  BY InsertExtendsLog
<1>2. /\ req[r].base \in Nat /\ NewVersion(r) = req[r].base + 1
      /\ req[r].base \in Versions \cup {0}
  BY HandlersHaveJobs
  DEF IInv, TypeOK, RequestState, NewVersion, Knowledge, HandlerKnows, InLog,
      Versions
<1>3. NewVersion(r) = m + 1
  BY <1>1, <1>2
<1>4. QED
  BY <1>1, <1>3

\* Every step leaves it so.
LEMMA StepLength == IInv /\ HasLength /\ [Next]_vars => HasLength'
<1> SUFFICES ASSUME IInv, HasLength, [Next]_vars PROVE HasLength'
  OBVIOUS
<1>1. CASE UNCHANGED commits
  BY <1>1 DEF HasLength, Versions
<1>2. ASSUME NEW r \in Requests, req[r].pc = "insert",
             NewVersion(r) \notin Versions, InsertRows(r)
      PROVE  HasLength'
  BY <1>2, InsertLengthens DEF HasLength
<1>3. QED
  BY <1>1, <1>2, LogSteps DEF vars

\* The versions of a table are 1 to some length, in every reachable state.
LEMMA LengthInvariance == Spec => [](MInv /\ HasLength)
<1>1. Init => MInv /\ HasLength
  <2>1. Init => Versions = 1..0
    BY DEF Init, Versions
  <2>2. QED
    BY <2>1, InitMInv DEF HasLength
<1>2. MInv /\ HasLength /\ [Next]_vars => (MInv /\ HasLength)'
  BY StepMInv, StepLength DEF MInv
<1>3. QED
  BY <1>1, <1>2, PTL DEF Spec

-----------------------------------------------------------------------------
(***************************************************************************)
(* The refinement.                                                         *)
(***************************************************************************)

\* The log the tables and the bucket stand for is a sequence.
LEMMA TheLogIsSequence ==
  ASSUME MInv, NEW m \in Nat, Versions = 1..m
  PROVE  /\ TheLog \in Seq([job : Jobs, columns : ColumnMap])
         /\ Len(TheLog) = m
         /\ \A v \in 1..m : TheLog[v] = [job |-> commits[v].job,
                                         columns |-> ManifestOf(v)]
<1>1. \A v \in 1..m : commits[v].job \in Jobs /\ ManifestOf(v) \in ColumnMap
  BY DEF MInv, IInv, TypeOK, CommitsHaveManifests, ManifestOf
<1>2. TheLog \in [1..m -> [job : Jobs, columns : ColumnMap]]
  BY <1>1 DEF TheLog
<1>3. QED
  BY <1>2 DEF TheLog

\* Appending to a sequence, as a function on its indices.
LEMMA AppendAsFunction ==
  ASSUME NEW S, NEW seq \in Seq(S), NEW x \in S,
         NEW f, f = [v \in 1..(Len(seq) + 1) |->
                       IF v = Len(seq) + 1 THEN x ELSE seq[v]]
  PROVE  f = Append(seq, x)
<1>1. /\ Append(seq, x) \in Seq(S)
      /\ Len(Append(seq, x)) = Len(seq) + 1
      /\ \A v \in 1..Len(seq) : Append(seq, x)[v] = seq[v]
      /\ Append(seq, x)[Len(seq) + 1] = x
  BY AppendProperties
<1>2. /\ Len(seq) \in Nat
      /\ Append(seq, x) \in [1..(Len(seq) + 1) -> S]
  BY <1>1, LenProperties
<1>3. \A v \in 1..(Len(seq) + 1) : v # Len(seq) + 1 => v \in 1..Len(seq)
  BY <1>2
<1>4. \A v \in 1..(Len(seq) + 1) : f[v] = Append(seq, x)[v]
  BY <1>1, <1>3
<1>5. QED
  BY <1>2, <1>4

\* Initially the log is empty.
LEMMA InitRefines == Init => Log!Init
<1> SUFFICES ASSUME Init PROVE Log!Init
  OBVIOUS
<1>1. Versions = {}
  BY DEF Init, Versions
<1>2. QED
  BY <1>1 DEF TheLog, Log!Init

\* A step that leaves the log of commits alone is a stutter.
LEMMA SameLog ==
  ASSUME MInv, Next, UNCHANGED commits
  PROVE  UNCHANGED TheLog
<1>1. Versions' = Versions /\ 0 \notin Versions
  BY DEF Versions, MInv, IInv, TypeOK
<1>2. \A v \in Versions : ManifestOf(v)' = ManifestOf(v)
  BY <1>1, BaseMapKept DEF BaseMap
<1>3. QED
  BY <1>1, <1>2 DEF TheLog

\* An insertion appends the job, with its columns over the current ones.
LEMMA InsertRefines ==
  ASSUME MInv, HasLength, MInv', Next, UNCHANGED manifests,
         NEW r \in Requests, req[r].pc = "insert",
         NewVersion(r) \notin Versions, InsertRows(r)
  PROVE  Log!Next
<1> DEFINE j == req[r].job
           entry == [job |-> j, columns |-> Override(Log!Current, j)]
<1>1. PICK m \in Nat : Versions = 1..m
  BY DEF HasLength
<1>2. NewVersion(r) = m + 1 /\ Versions' = 1..(m + 1)
  BY <1>1, InsertLengthens DEF MInv
<1>3. /\ commits'[m + 1].job = j
      /\ \A v \in 1..m : commits'[v] = commits[v]
      /\ AtMostOneCommitPerLoad'
  BY <1>1, <1>2, InsertExtendsLog DEF MInv
<1>4. j \in Jobs
  BY HandlersHaveJobs DEF MInv
<1>5. /\ Len(TheLog) = m
      /\ TheLog \in Seq([job : Jobs, columns : ColumnMap])
      /\ \A v \in 1..m : TheLog[v] = [job |-> commits[v].job,
                                      columns |-> ManifestOf(v)]
  BY <1>1, TheLogIsSequence
<1>6. Log!Current = BaseMap(m)
  <2>1. Log!NoColumns = NoColumns
    BY DEF Log!NoColumns, NoColumns
  <2>2. m = 0 <=> TheLog = << >>
    BY <1>5
  <2>3. QED
    BY <1>5, <2>1, <2>2 DEF Log!Current, BaseMap
<1>7. ~Log!Committed(j)
  <2>1. ASSUME NEW v \in 1..m, commits[v].job = j PROVE FALSE
    BY <1>2, <1>3, <2>1 DEF AtMostOneCommitPerLoad
  <2>2. QED
    BY <1>5, <2>1 DEF Log!Committed
<1>8. ManifestOf(m + 1)' = Override(BaseMap(m), j)
  <2>1. <<m + 1, j>> \in DOMAIN manifests
    BY <1>2, <1>3 DEF MInv, CommitsHaveManifests
  <2>2. manifests[<<m + 1, j>>] = Override(BaseMap(m), j)
    BY <2>1 DEF MInv, ManifestsSound
  <2>3. QED
    BY <1>3, <2>2 DEF ManifestOf
<1>9. \A v \in 1..m : ManifestOf(v)' = ManifestOf(v)
  BY <1>3 DEF ManifestOf
<1>10. TheLog' = [v \in 1..(m + 1) |->
                    IF v = m + 1 THEN entry ELSE TheLog[v]]
  <2>1. TheLog' = [v \in 1..(m + 1) |-> [job |-> commits'[v].job,
                                         columns |-> ManifestOf(v)']]
    BY <1>2 DEF TheLog
  <2>2. [job |-> commits'[m + 1].job, columns |-> ManifestOf(m + 1)'] = entry
    BY <1>3, <1>6, <1>8
  <2>3. ASSUME NEW v \in 1..(m + 1), v # m + 1
        PROVE  [job |-> commits'[v].job, columns |-> ManifestOf(v)'] = TheLog[v]
    <3>1. v \in 1..m
      BY <2>3
    <3>2. QED
      BY <1>3, <1>5, <1>9, <3>1
  <2> HIDE DEF entry
  <2>4. QED
    BY <2>1, <2>2, <2>3
<1>11. TheLog' = Append(TheLog, entry)
  <2>1. entry \in [job : Jobs, columns : ColumnMap]
    <3>1. BaseMap(m) \in ColumnMap
      BY <1>1, NoColumnsType
      DEF BaseMap, ManifestOf, MInv, IInv, TypeOK, CommitsHaveManifests
    <3>2. QED
      BY <1>4, <1>6, <3>1, OverrideType
  <2> HIDE DEF entry
  <2>2. QED
    BY <1>5, <1>10, <2>1, AppendAsFunction
<1>12. QED
  BY <1>4, <1>7, <1>11 DEF Log!Next, Log!Commit, Log!Override, Override

\* What the tables and the bucket hold is an append-only log, each entry of
\* which overrides the previous one with the columns of a job of its own.
THEOREM Refinement == Spec => ImplementsTableLog
<1>1. Init => Log!Init
  BY InitRefines
<1>2. MInv /\ HasLength /\ [Next]_vars => [Log!Next]_TheLog
  <2> SUFFICES ASSUME MInv, HasLength, [Next]_vars
               PROVE  [Log!Next]_TheLog
    OBVIOUS
  <2>1. CASE Next
    <3>1. MInv'
      BY <2>1, StepMInv
    <3>2. CASE UNCHANGED commits
      BY <2>1, <3>2, SameLog
    <3>3. ASSUME NEW r \in Requests, UNCHANGED manifests,
                 req[r].pc = "insert", NewVersion(r) \notin Versions,
                 InsertRows(r)
          PROVE  Log!Next
      BY <2>1, <3>1, <3>3, InsertRefines
    <3>4. QED
      BY <2>1, <3>2, <3>3, LogSteps
  <2>2. CASE UNCHANGED vars
    BY <2>2 DEF vars, TheLog, Versions, ManifestOf
  <2>3. QED
    BY <2>1, <2>2
<1>3. QED
  BY <1>1, <1>2, LengthInvariance, PTL DEF Spec, ImplementsTableLog, Log!Spec

-----------------------------------------------------------------------------
(***************************************************************************)
(* Reading: the times and the rows of the column loads follow the log.     *)
(***************************************************************************)

\* The transactions began in the order of the versions they commit, since each
\* builds on a version that was committed before its handler looked.
TimesFollowLog ==
  /\ \A v \in Versions : commits[v].at <= clock
  /\ \A u, v \in Versions : u < v => commits[u].at < commits[v].at
  /\ \A r \in Requests : req[r].pc = "insert" =>
       /\ req[r].at <= clock
       /\ \A u \in Versions : u <= req[r].base => commits[u].at < req[r].at

RInv == IInv /\ ColumnLoadsFollowLog /\ TimesFollowLog

\* The tables change by the insertion of a version, and by nothing else.
LEMMA TableSteps ==
  ASSUME Next
  PROVE  \/ UNCHANGED <<commits, columnLoads>>
         \/ \E r \in Requests : /\ req[r].pc = "insert" /\ NewVersion(r) \notin Versions
                                /\ InsertRows(r)
<1>1. ASSUME NEW j \in Jobs, DriverStep(j) PROVE UNCHANGED <<commits, columnLoads>>
  BY <1>1
  DEF DriverStep, ReadLatest, ContinueFrom, CallCommit, Post, GiveUp,
      OnCommitted, OnConflict, OnError, CallAgain, DriverDies, db
<1>2. ASSUME NEW r \in Requests, HandlerStep(r) \/ HandlerFault(r),
             ~(CommitTx(r) \/ TxFails(r))
      PROVE  UNCHANGED <<commits, columnLoads>>
  BY <1>2
  DEF HandlerStep, HandlerFault, FindExisting, FindBase, Replay, FetchBase,
      PutManifest, BeginTx, ConflictTx, ConflictUnseen, AnswerConflict,
      FetchBaseFails, PutManifestFails, ServerDies, db
<1>3. ASSUME NEW r \in Requests, CommitTx(r) \/ TxFails(r)
      PROVE  \/ UNCHANGED <<commits, columnLoads>>
             \/ req[r].pc = "insert" /\ NewVersion(r) \notin Versions /\ InsertRows(r)
  BY <1>3 DEF CommitTx, TxFails
<1>4. QED
  BY <1>1, <1>2, <1>3 DEF Next

\* A transaction begins at a new time, and keeps it.
LEMMA ClockSteps ==
  ASSUME TypeOK, Next
  PROVE  /\ clock' \in {clock, clock + 1}
         /\ \A r \in Requests : req'[r].pc = "insert" =>
              \/ /\ req[r].pc = "insert"
                 /\ req'[r].at = req[r].at /\ req'[r].base = req[r].base
              \/ clock' = clock + 1 /\ req'[r].at = clock' /\ UNCHANGED commits
<1> DEFINE Kept(q) == req'[q].pc = "insert" => /\ req[q].pc = "insert"
                                               /\ req'[q].at = req[q].at
                                               /\ req'[q].base = req[q].base
<1>1. ASSUME NEW j \in Jobs, DriverStep(j)
      PROVE  UNCHANGED clock /\ \A q \in Requests : Kept(q)
  <2>1. CASE Post(j)
    <3> DEFINE h == [FreeRequest EXCEPT !.pc = "lookup", !.job = j, !.base = job[j].base]
    <3>1. req' = [req EXCEPT ![sent'] = h] /\ UNCHANGED clock
      BY <2>1 DEF Post, db
    <3>2. h.pc # "insert"
      BY DEF FreeRequest
    <3> HIDE DEF h
    <3>3. \A q \in Requests : req'[q] = req[q] \/ req'[q] = h
      BY <3>1 DEF TypeOK
    <3>4. QED
      BY <3>1, <3>2, <3>3
  <2>2. CASE ~Post(j)
    BY <1>1, <2>2
    DEF DriverStep, ReadLatest, ContinueFrom, CallCommit, GiveUp,
        OnCommitted, OnConflict, OnError, CallAgain, DriverDies, db
  <2>3. QED
    BY <2>1, <2>2
<1>2. ASSUME NEW r \in Requests, HandlerStep(r) \/ HandlerFault(r), ~BeginTx(r)
      PROVE  UNCHANGED clock /\ \A q \in Requests : Kept(q)
  <2>1. UNCHANGED clock
    BY <1>2
    DEF HandlerStep, HandlerFault, FindExisting, FindBase, Replay, FetchBase,
        PutManifest, CommitTx, ConflictTx, ConflictUnseen, AnswerConflict,
        FetchBaseFails, PutManifestFails, TxFails, ServerDies, db
  <2>2. \A q \in Requests : q # r => req'[q] = req[q]
    BY <1>2, HandlerMoves
  <2>3. req'[r].pc # "insert"
    <3>1. CASE \/ Replay(r) \/ CommitTx(r) \/ ConflictUnseen(r)
               \/ AnswerConflict(r) \/ HandlerFault(r)
      <4>1. \E answer : \E pc \in {"committed", "rebase", "error", "dead"} :
                Reply(r, pc, answer)
        BY <3>1
        DEF Replay, CommitTx, ConflictUnseen, AnswerConflict, HandlerFault,
            FetchBaseFails, PutManifestFails, TxFails, ServerDies, Fail
      <4>2. QED
        BY <4>1, ReplyIsFresh DEF Fresh
    <3>2. CASE FindExisting(r) \/ FindBase(r)
      <4>1. req[r] \in RequestState /\ req[r].pc = "lookup"
        BY <3>2 DEF FindExisting, FindBase, TypeOK
      <4>2. CASE FindExisting(r)
        <5>1. PICK v : req' = [req EXCEPT ![r].found = @ \cup {"existing"}, ![r].existing = v]
          BY <4>2 DEF FindExisting
        <5>2. QED
          BY <4>1, <5>1 DEF TypeOK, RequestState
      <4>3. CASE FindBase(r)
        BY <4>1, <4>3 DEF FindBase, TypeOK, RequestState
      <4>4. QED
        BY <3>2, <4>2, <4>3
    <3>3. CASE FetchBase(r) \/ PutManifest(r) \/ ConflictTx(r)
      <4>1. req[r] \in RequestState
        BY DEF TypeOK
      <4>2. QED
        BY <3>3, <4>1 DEF FetchBase, PutManifest, ConflictTx, TypeOK, RequestState
    <3>4. QED
      BY <1>2, <3>1, <3>2, <3>3 DEF HandlerStep
  <2>4. QED
    BY <2>1, <2>2, <2>3
<1>3. ASSUME NEW r \in Requests, BeginTx(r)
      PROVE  /\ clock' = clock + 1 /\ UNCHANGED commits /\ req'[r].at = clock'
             /\ \A q \in Requests : q # r => req'[q] = req[q]
  BY <1>3 DEF BeginTx, TypeOK, RequestState
<1>4. QED
  BY <1>1, <1>2, <1>3 DEF Next

LEMMA InsertKeepsOrder ==
  ASSUME RInv, Next, NEW r \in Requests, req[r].pc = "insert",
         NewVersion(r) \notin Versions, InsertRows(r)
  PROVE  TimesFollowLog'
<1> DEFINE n == NewVersion(r)
<1>1. IInv /\ TypeOK /\ TimesFollowLog
  BY DEF RInv, IInv
<1>2. /\ Versions' = Versions \cup {n}
      /\ \A v \in Versions : commits'[v] = commits[v] /\ v < n
  BY <1>1, InsertExtendsLog
<1>3. commits'[n].at = req[r].at
  <2>1. commits'[n] = [job |-> req[r].job, at |-> req[r].at]
    BY <1>1, HandlersHaveJobs, InsertRowsType
  <2>2. QED
    BY <2>1
<1>4. /\ req[r].base \in Nat /\ n = req[r].base + 1 /\ req[r].at \in Nat /\ clock \in Nat
      /\ Versions \subseteq Nat /\ \A v \in Versions : commits[v].at \in Nat
  BY <1>1 DEF TypeOK, RequestState, NewVersion
<1> HIDE DEF n
<1>5. /\ \A v \in Versions : commits[v].at < req[r].at
      /\ req[r].at <= clock
  BY <1>1, <1>2, <1>4 DEF TimesFollowLog
<1>6. commits' # commits
  BY <1>2 DEF Versions, n
<1>7. clock' \in {clock, clock + 1}
  BY <1>1, ClockSteps
<1>8. \A v \in Versions' : commits'[v].at <= clock'
  BY <1>1, <1>2, <1>3, <1>4, <1>5, <1>7 DEF TimesFollowLog
<1>9. ASSUME NEW u \in Versions', NEW v \in Versions', u < v
      PROVE  commits'[u].at < commits'[v].at
  <2>1. u \in Versions /\ (v \in Versions \/ v = n)
    BY <1>2, <1>4, <1>9
  <2>2. CASE v \in Versions
    BY <1>1, <1>2, <1>9, <2>1, <2>2 DEF TimesFollowLog
  <2>3. CASE v = n
    BY <1>2, <1>3, <1>5, <2>1, <2>3
  <2>4. QED
    BY <2>1, <2>2, <2>3
<1>10. ASSUME NEW q \in Requests, req'[q].pc = "insert"
       PROVE  /\ req'[q].at <= clock'
              /\ \A u \in Versions' : u <= req'[q].base => commits'[u].at < req'[q].at
  <2>1. req[q].pc = "insert" /\ req'[q].at = req[q].at /\ req'[q].base = req[q].base
    BY <1>1, <1>6, <1>10, ClockSteps
  <2>2. req[q].base \in Versions \cup {0} /\ req[q].base \in Nat /\ req[q].at \in Nat
    BY <1>1, <2>1, HandlersHaveJobs
    DEF IInv, Knowledge, HandlerKnows, InLog, Versions, TypeOK, RequestState
  <2>3. ~(n <= req[q].base)
    BY <1>2, <1>4, <2>2
  <2>4. req[q].at <= clock
    BY <1>1, <2>1 DEF TimesFollowLog
  <2>5. \A u \in Versions : u <= req[q].base => commits[u].at < req[q].at
    BY <1>1, <2>1 DEF TimesFollowLog
  <2>6. QED
    BY <1>2, <1>4, <1>7, <2>1, <2>2, <2>3, <2>4, <2>5
<1>11. QED
  BY <1>8, <1>9, <1>10 DEF TimesFollowLog

LEMMA InsertKeepsLoads ==
  ASSUME RInv, Next, NEW r \in Requests, req[r].pc = "insert",
         NewVersion(r) \notin Versions, InsertRows(r)
  PROVE  ColumnLoadsFollowLog'
<1> DEFINE n == NewVersion(r)
           j == req[r].job
           keys == ColumnsOf[j] \X {PartitionOf[j]}
<1>1. IInv /\ TypeOK /\ ColumnLoadsFollowLog
  BY DEF RInv, IInv
<1>2. /\ Versions' = Versions \cup {n} /\ commits'[n].job = j
      /\ \A v \in Versions : commits'[v] = commits[v] /\ v < n
  BY <1>1, InsertExtendsLog
<1>3. n \in Nat /\ Versions \subseteq Nat /\ n \notin Versions
  BY <1>1 DEF TypeOK, RequestState, NewVersion
<1>4. columnLoads' = [k \in DOMAIN columnLoads \cup keys |->
                        IF k \in keys THEN [job |-> j, version |-> n]
                        ELSE columnLoads[k]]
  BY DEF InsertRows
<1> HIDE DEF n
<1>5. ASSUME NEW c \in Columns, NEW p \in Partitions
      PROVE  /\ <<c, p>> \in keys => Writers(c, p)' = Writers(c, p) \cup {n}
             /\ <<c, p>> \notin keys => Writers(c, p)' = Writers(c, p)
  <2>1. \A v \in Versions : commits'[v].job = commits[v].job
    BY <1>2
  <2>2. <<c, p>> \in keys <=> c \in ColumnsOf[j] /\ PartitionOf[j] = p
    OBVIOUS
  <2> HIDE DEF j, keys
  <2>3. \A v : v \in Writers(c, p)' <=>
               \/ v \in Writers(c, p)
               \/ v = n /\ c \in ColumnsOf[j] /\ PartitionOf[j] = p
    BY <1>2, <1>3, <2>1 DEF Writers
  <2>4. QED
    BY <2>2, <2>3
<1>6. SUFFICES ASSUME NEW c \in Columns, NEW p \in Partitions
      PROVE  IF Writers(c, p)' = {}
             THEN <<c, p>> \notin DOMAIN columnLoads'
             ELSE /\ <<c, p>> \in DOMAIN columnLoads'
                  /\ columnLoads'[<<c, p>>].version \in Writers(c, p)'
                  /\ \A u \in Writers(c, p)' : u <= columnLoads'[<<c, p>>].version
                  /\ columnLoads'[<<c, p>>].job = commits'[columnLoads'[<<c, p>>].version].job
  BY DEF ColumnLoadsFollowLog
<1>7. CASE <<c, p>> \in keys
  <2>1. <<c, p>> \in DOMAIN columnLoads' /\ columnLoads'[<<c, p>>] = [job |-> j, version |-> n]
    BY <1>4, <1>7
  <2>2. columnLoads'[<<c, p>>].version = n /\ columnLoads'[<<c, p>>].job = j
    BY <2>1
  <2>3. Writers(c, p)' = Writers(c, p) \cup {n} /\ Writers(c, p) \subseteq Versions
    BY <1>5, <1>7 DEF Writers
  <2>4. \A u \in Versions \cup {n} : u <= n
    BY <1>2, <1>3
  <2>5. n \in Writers(c, p)' /\ \A u \in Writers(c, p)' : u <= n
    BY <2>3, <2>4
  <2>6. QED
    BY <1>2, <2>1, <2>2, <2>5
<1>8. CASE <<c, p>> \notin keys
  <2>1. /\ <<c, p>> \in DOMAIN columnLoads' <=> <<c, p>> \in DOMAIN columnLoads
        /\ <<c, p>> \in DOMAIN columnLoads => columnLoads'[<<c, p>>] = columnLoads[<<c, p>>]
    BY <1>4, <1>8
  <2>2. Writers(c, p)' = Writers(c, p) /\ Writers(c, p) \subseteq Versions
    BY <1>5, <1>8 DEF Writers
  <2>3. IF Writers(c, p) = {}
        THEN <<c, p>> \notin DOMAIN columnLoads
        ELSE /\ <<c, p>> \in DOMAIN columnLoads
             /\ columnLoads[<<c, p>>].version \in Writers(c, p)
             /\ \A u \in Writers(c, p) : u <= columnLoads[<<c, p>>].version
             /\ columnLoads[<<c, p>>].job = commits[columnLoads[<<c, p>>].version].job
    BY <1>1 DEF ColumnLoadsFollowLog
  <2>4. QED
    BY <1>2, <2>1, <2>2, <2>3
<1>9. QED
  BY <1>7, <1>8

LEMMA InitRInv == Init => RInv
<1> SUFFICES ASSUME Init PROVE RInv
  OBVIOUS
<1>1. Versions = {} /\ DOMAIN columnLoads = {}
  BY DEF Init, Versions
<1>2. \A r \in Requests : req[r].pc # "insert"
  BY DEF Init, FreeRequest
<1>3. ColumnLoadsFollowLog /\ TimesFollowLog
  BY <1>1, <1>2 DEF ColumnLoadsFollowLog, Writers, TimesFollowLog
<1>4. QED
  BY <1>3, InitInv DEF RInv

LEMMA StepRInv == RInv /\ [Next]_vars => RInv'
<1> SUFFICES ASSUME RInv, [Next]_vars PROVE RInv'
  OBVIOUS
<1>1. IInv /\ TypeOK /\ ColumnLoadsFollowLog /\ TimesFollowLog
  BY DEF RInv, IInv
<1>2. IInv'
  BY <1>1, StepInv
<1>3. ASSUME UNCHANGED <<commits, columnLoads>>
      PROVE  ColumnLoadsFollowLog'
  <2>1. \A c, p : Writers(c, p)' = Writers(c, p)
    BY <1>3 DEF Writers, Versions
  <2>2. QED
    BY <1>1, <1>3, <2>1 DEF ColumnLoadsFollowLog
<1>4. ASSUME Next, UNCHANGED <<commits, columnLoads>>
      PROVE  TimesFollowLog'
  <2>1. clock \in Nat /\ \A v \in Versions : commits[v].at \in Nat
    BY <1>1 DEF TypeOK
  <2>2. clock' \in {clock, clock + 1} /\ Versions' = Versions
    BY <1>1, <1>4, ClockSteps DEF Versions
  <2>3. \A v \in Versions : commits[v].at <= clock
    BY <1>1 DEF TimesFollowLog
  <2>4. ASSUME NEW q \in Requests, req'[q].pc = "insert"
        PROVE  /\ req'[q].at <= clock'
               /\ \A u \in Versions : u <= req'[q].base => commits[u].at < req'[q].at
    <3>1. CASE req[q].pc = "insert" /\ req'[q].at = req[q].at /\ req'[q].base = req[q].base
      <4>1. req[q].at \in Nat /\ req[q].at <= clock
        BY <1>1, <3>1 DEF TimesFollowLog, TypeOK, RequestState
      <4>2. QED
        BY <1>1, <2>1, <2>2, <3>1, <4>1 DEF TimesFollowLog
    <3>2. CASE clock' = clock + 1 /\ req'[q].at = clock'
      BY <2>1, <2>3, <3>2
    <3>3. QED
      BY <1>1, <1>4, <2>4, <3>1, <3>2, ClockSteps
  <2>5. QED
    BY <1>1, <1>4, <2>1, <2>2, <2>3, <2>4 DEF TimesFollowLog
<1>5. CASE UNCHANGED vars
  BY <1>1, <1>2, <1>3, <1>5 DEF vars, TimesFollowLog, Versions, RInv
<1>6. CASE Next
  BY <1>2, <1>3, <1>4, <1>6, TableSteps, InsertKeepsLoads, InsertKeepsOrder DEF RInv
<1>7. QED
  BY <1>5, <1>6

\* The newest time not after ts belongs to the highest version not after ts.
LEMMA TimesMakePrefixes == RInv => WallTimeReadsPrefix
<1> SUFFICES ASSUME RInv, NEW ts \in 0..clock, NEW v \in WallTimeVersions(ts), NEW u \in Versions
             PROVE  u <= v <=> commits[u].at <= ts
  BY DEF WallTimeReadsPrefix
<1>1. TypeOK /\ TimesFollowLog
  BY DEF RInv, IInv
<1>2. /\ Versions \subseteq Nat /\ clock \in Nat /\ ts \in Nat
      /\ \A x \in Versions : commits[x].at \in Nat
  BY <1>1 DEF TypeOK
<1>3. /\ v \in Versions /\ commits[v].at <= ts
      /\ \A x \in Versions : commits[x].at <= ts => commits[x].at <= commits[v].at
  BY DEF WallTimeVersions
<1>4. u < v => commits[u].at < commits[v].at
  BY <1>1, <1>3 DEF TimesFollowLog
<1>5. v < u => commits[v].at < commits[u].at
  BY <1>1, <1>3 DEF TimesFollowLog
<1>6. QED
  BY <1>2, <1>3, <1>4, <1>5

\* The rows of a ds send the readers to the last commits of its newest hours.
LEMMA RowsAreNewest == TypeOK /\ ColumnLoadsFollowLog => AsOfDsIsNewest
<1> SUFFICES ASSUME TypeOK, ColumnLoadsFollowLog, NEW ds \in {p.ds : p \in Partitions},
                    NEW hours \in {Hours} \cup {{h} : h \in Hours}, NEW c \in Columns
             PROVE  LET read == DsRead(ds, hours, {})
                        writes(d) == {v \in Versions :
                                        LET j == commits[v].job
                                        IN  /\ d \in ColumnsOf[j]
                                            /\ PartitionOf[j].ds = ds
                                            /\ PartitionOf[j].hour \in hours}
                        hour(v) == PartitionOf[commits[v].job].hour
                        newest(v, d) == \A u \in writes(d) : \/ hour(u) < hour(v)
                                                             \/ hour(u) = hour(v) /\ u <= v
                    IN  {x[2] : x \in {y \in read : y[1] = c}} =
                          {commits[v].job : v \in {u \in writes(c) : newest(u, c)}}
  BY DEF AsOfDsIsNewest
<1> DEFINE W == {v \in Versions : /\ c \in ColumnsOf[commits[v].job]
                                  /\ PartitionOf[commits[v].job].ds = ds
                                  /\ PartitionOf[commits[v].job].hour \in hours}
           At(v) == PartitionOf[commits[v].job]
           Newest(v) == \A u \in W : \/ At(u).hour < At(v).hour
                                     \/ At(u).hour = At(v).hour /\ u <= v
           Found == {k \in DOMAIN columnLoads : k[2].ds = ds /\ k[2].hour \in hours}
<1>1. /\ \A v \in Versions : commits[v].job \in Jobs /\ At(v) \in Partitions /\ v \in Nat
      /\ \A p \in Partitions : p.hour \in Nat
      /\ \A p, q \in Partitions : p.ds = q.ds /\ p.hour = q.hour => p = q
  BY PartitionsAssumption, PartitionOfAssumption DEF TypeOK
<1>2. \A k \in DOMAIN columnLoads : /\ k[1] \in Columns /\ k[2] \in Partitions /\ k = <<k[1], k[2]>>
                                    /\ columnLoads[k].version \in Nat
  BY DEF TypeOK
<1>3. \A v \in W : v \in Versions /\ v \in Writers(c, At(v)) /\ At(v).ds = ds /\ At(v).hour \in hours
  BY DEF Writers
<1>4. DsRead(ds, hours, {}) = {<<k[1], columnLoads[k].job>> : k \in NewestRows(Found)}
  BY DEF DsRead
<1>5. {x[2] : x \in {y \in DsRead(ds, hours, {}) : y[1] = c}} =
        {columnLoads[k].job : k \in {i \in NewestRows(Found) : i[1] = c}}
  <2>1. ASSUME NEW k \in {i \in NewestRows(Found) : i[1] = c}
        PROVE  columnLoads[k].job \in {x[2] : x \in {y \in DsRead(ds, hours, {}) : y[1] = c}}
    <3>1. <<k[1], columnLoads[k].job>> \in DsRead(ds, hours, {})
      BY <1>4
    <3>2. QED
      BY <3>1
  <2>2. ASSUME NEW x \in DsRead(ds, hours, {}), x[1] = c
        PROVE  x[2] \in {columnLoads[k].job : k \in {i \in NewestRows(Found) : i[1] = c}}
    <3>1. PICK k \in NewestRows(Found) : x = <<k[1], columnLoads[k].job>>
      BY <1>4
    <3>2. QED
      BY <2>2, <3>1
  <2>3. QED
    BY <2>1, <2>2
<1>6. \A v \in W : /\ <<c, At(v)>> \in Found
                   /\ columnLoads[<<c, At(v)>>].version \in Writers(c, At(v))
                   /\ v <= columnLoads[<<c, At(v)>>].version
                   /\ columnLoads[<<c, At(v)>>].job = commits[columnLoads[<<c, At(v)>>].version].job
  <2> SUFFICES ASSUME NEW v \in W
               PROVE  /\ <<c, At(v)>> \in Found
                      /\ columnLoads[<<c, At(v)>>].version \in Writers(c, At(v))
                      /\ v <= columnLoads[<<c, At(v)>>].version
                      /\ columnLoads[<<c, At(v)>>].job =
                           commits[columnLoads[<<c, At(v)>>].version].job
    OBVIOUS
  <2>1. v \in Writers(c, At(v)) /\ At(v) \in Partitions
    BY <1>1, <1>3
  <2>2. QED
    BY <1>3, <2>1 DEF ColumnLoadsFollowLog
<1>7. \A k \in Found : k[1] = c =>
        /\ columnLoads[k].version \in W /\ At(columnLoads[k].version) = k[2]
        /\ columnLoads[k].job = commits[columnLoads[k].version].job
        /\ \A u \in Writers(c, k[2]) : u <= columnLoads[k].version
  <2> SUFFICES ASSUME NEW k \in Found, k[1] = c
               PROVE  /\ columnLoads[k].version \in W /\ At(columnLoads[k].version) = k[2]
                      /\ columnLoads[k].job = commits[columnLoads[k].version].job
                      /\ \A u \in Writers(c, k[2]) : u <= columnLoads[k].version
    OBVIOUS
  <2>1. k = <<c, k[2]>> /\ k[2] \in Partitions /\ k \in DOMAIN columnLoads
    BY <1>2
  <2>2. /\ columnLoads[k].version \in Writers(c, k[2])
        /\ columnLoads[k].job = commits[columnLoads[k].version].job
        /\ \A u \in Writers(c, k[2]) : u <= columnLoads[k].version
    BY <2>1 DEF ColumnLoadsFollowLog
  <2>3. QED
    BY <2>2 DEF Writers
<1> HIDE DEF W, Found
<1>8. ASSUME NEW k \in NewestRows(Found), k[1] = c
      PROVE  columnLoads[k].version \in {u \in W : Newest(u)}
  <2> DEFINE v == columnLoads[k].version
  <2>1. k \in Found /\ \A i \in Found : i[1] = c => i[2].hour <= k[2].hour
    BY <1>8 DEF NewestRows
  <2>2. v \in W /\ At(v) = k[2] /\ \A u \in Writers(c, k[2]) : u <= v
    BY <1>7, <1>8, <2>1
  <2> HIDE DEF v
  <2>3. ASSUME NEW u \in W
        PROVE  At(u).hour < At(v).hour \/ (At(u).hour = At(v).hour /\ u <= v)
    <3>1. <<c, At(u)>> \in Found /\ <<c, At(u)>>[1] = c /\ <<c, At(u)>>[2] = At(u)
      BY <1>6
    <3>2. At(u).hour <= At(v).hour
      BY <2>1, <2>2, <3>1
    <3>3. At(u).hour = At(v).hour => At(u) = At(v)
      BY <1>1, <1>3, <2>2
    <3>4. At(u) = At(v) => u <= v
      BY <1>3, <2>2
    <3>5. At(u).hour \in Nat /\ At(v).hour \in Nat
      BY <1>1, <1>3, <2>2
    <3>6. QED
      BY <3>2, <3>3, <3>4, <3>5
  <2>4. QED
    BY <2>2, <2>3 DEF v
<1>9. ASSUME NEW v \in W, Newest(v)
      PROVE  /\ <<c, At(v)>> \in NewestRows(Found)
             /\ columnLoads[<<c, At(v)>>].job = commits[v].job
  <2> DEFINE k == <<c, At(v)>>
             w == columnLoads[k].version
  <2>1. /\ k \in Found /\ k[1] = c /\ k[2] = At(v) /\ v <= w
        /\ columnLoads[k].job = commits[w].job
    BY <1>6
  <2>2. w \in W /\ At(w) = At(v)
    BY <1>7, <2>1
  <2> HIDE DEF k
  <2>3. w <= v
    <3>1. At(w).hour = At(v).hour /\ At(v).hour \in Nat
      BY <1>1, <1>3, <2>2
    <3> HIDE DEF w
    <3>2. QED
      BY <1>9, <2>2, <3>1
  <2>4. w = v
    <3>1. w \in Nat /\ v \in Nat
      BY <1>1, <1>3, <2>2
    <3>2. QED
      BY <2>1, <2>3, <3>1
  <2>5. ASSUME NEW i \in Found, i[1] = c PROVE i[2].hour <= k[2].hour
    <3>1. /\ columnLoads[i].version \in W /\ At(columnLoads[i].version) = i[2]
      BY <1>7, <2>5
    <3>2. i[2].hour < At(v).hour \/ i[2].hour = At(v).hour
      BY <1>9, <3>1
    <3>3. i[2].hour \in Nat /\ At(v).hour \in Nat
      BY <1>1, <1>3, <3>1
    <3>4. QED
      BY <2>1, <3>2, <3>3
  <2>6. k \in NewestRows(Found)
    BY <2>1, <2>5 DEF NewestRows
  <2>7. QED
    BY <2>1, <2>4, <2>6 DEF k
<1>10. {columnLoads[k].job : k \in {i \in NewestRows(Found) : i[1] = c}} =
         {commits[v].job : v \in {u \in W : Newest(u)}}
  <2>1. ASSUME NEW k \in {i \in NewestRows(Found) : i[1] = c}
        PROVE  columnLoads[k].job \in {commits[v].job : v \in {u \in W : Newest(u)}}
    <3>1. k \in Found
      BY DEF NewestRows
    <3>2. columnLoads[k].job = commits[columnLoads[k].version].job
      BY <1>7, <3>1
    <3>3. QED
      BY <1>8, <3>2
  <2>2. ASSUME NEW v \in {u \in W : Newest(u)}
        PROVE  commits[v].job \in {columnLoads[k].job : k \in {i \in NewestRows(Found) : i[1] = c}}
    <3>1. /\ <<c, At(v)>> \in NewestRows(Found) /\ <<c, At(v)>>[1] = c
          /\ columnLoads[<<c, At(v)>>].job = commits[v].job
      BY <1>9
    <3>2. QED
      BY <3>1
  <2>3. QED
    BY <2>1, <2>2
<1>11. QED
  BY <1>5, <1>10 DEF W

\* The rows of lattik_column_load name the last committed writers, AS OF a
\* wall-clock time sees a prefix of the log, and AS OF a ds the newest hours of
\* it, whatever is retried, times out or crashes; for any number of jobs,
\* columns and partitions.
THEOREM ReadersFollowLog == Spec => []ReadsFollowLog
<1>1. RInv => ReadsFollowLog
  BY TimesMakePrefixes, RowsAreNewest DEF RInv, IInv, ReadsFollowLog
<1>2. QED
  BY <1>1, InitRInv, StepRInv, PTL DEF Spec
=============================================================================
