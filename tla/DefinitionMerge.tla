--------------------------- MODULE DefinitionMerge ---------------------------
(***************************************************************************)
(* The life of a definition between the pipelines repository, the          *)
(* definitions table and the packages made of it.  The Data Architect      *)
(* saves drafts and opens pull requests (definition-flow.ts, submit-pr.ts, *)
(* delete-definition.ts); the webhook of a merge reconciles the rows with  *)
(* the files of the pull request (route.ts, reconcile-definitions.ts) and  *)
(* starts a workflow (post-pipeline-pr-merge.ts) that creates the stream   *)
(* and publishes the SDK of every logger table (firehose.ts,               *)
(* github-packages.ts, logger-sdk-version.ts).                             *)
(*                                                                         *)
(* A merge may be delivered again, while an earlier delivery of it is      *)
(* still handled or after it; any process may die between two steps.       *)
(***************************************************************************)
EXTENDS Integers, Sequences, FiniteSets

CONSTANTS
  Tables,         \* names of logger tables: a file and a row each
  Specs,          \* contents whose shape is valid
  Bad,            \* a content that is not
  Columns,        \* column names
  Signature,      \* the columns of a spec: a function to types, or Absent
  Absent, Null,
  Drafts,         \* the drafts that are saved: a table and a spec
  Proposals,      \* pull requests: their file changes, and whether the
                  \* Data Architect opens them (told)
  MaxPRs,         \* bound: pull requests
  MaxDeliveries,  \* bound: deliveries of webhooks
  MaxCrashes,     \* bound: deaths of a handler or a step
  FaultSets       \* sets of: overlap, early, close, draft, fetch, aws

PRs == 1..MaxPRs
Deliveries == 1..MaxDeliveries
Contents == Specs \cup {Bad}
Files == Contents \cup {Absent}
Changes == [table : Tables, content : Files]
Statuses == {"draft", "pending_review", "pending_deletion", "merged", "invalid"}
StepStatuses == {"pending", "running", "succeeded", "failed", "skipped"}
Steps == 1..2           \* LOGGER_TABLE_STEPS: the stream, the package
RowState == [id : Nat, spec : Contents, status : Statuses, pr : 0..MaxPRs]
Versions == Nat \X Nat \X Nat
Publications == [version : Versions, spec : Specs]

ASSUME MergeAssumption ==
  /\ Bad \notin Specs /\ Absent \notin Specs \cup {Bad}
  /\ Null \notin RowState \cup Versions \cup Publications \cup Specs
  /\ MaxPRs \in Nat /\ MaxDeliveries \in Nat /\ MaxCrashes \in Nat

\* GitHub lists a file of a pull request once.
ASSUME InputsAssumption ==
  /\ Drafts \subseteq [table : Tables, content : Contents]
  /\ Proposals \subseteq [changes : Seq(Changes) \ {<<>>}, told : BOOLEAN]
  /\ \A proposal \in Proposals : \A i, j \in DOMAIN proposal.changes :
       proposal.changes[i].table = proposal.changes[j].table => i = j

VARIABLES
  main,     \* the files of the main branch
  pr,       \* the pull requests
  row,      \* the definitions table, by name: unique (kind, name)
  nextId,   \* the id of the next row
  job,      \* per delivery: the handler of the webhook, then its workflow run
  streams,  \* tables that have a delivery stream
  npm,      \* per table: the published versions, oldest first
  latest,   \* per table: the version the tag latest names, 0 for none
  crashes, faults

vars == <<main, pr, row, nextId, job, streams, npm, latest, crashes, faults>>

-----------------------------------------------------------------------------
(***************************************************************************)
(* Versions of a package: diffBump, computeVersionBump,                    *)
(* decidePublishAction.                                                    *)
(***************************************************************************)

ColumnsOf(spec) == {c \in Columns : Signature[spec][c] # Absent}

\* Mutant: a column that is gone is an addition the other way round.
DiffBumpMinor(prev, next) ==
  IF ColumnsOf(next) # ColumnsOf(prev) THEN "minor" ELSE "patch"

DiffBump(prev, next) ==
  IF \E c \in ColumnsOf(prev) : Signature[next][c] # Signature[prev][c] THEN "major"
  ELSE IF ColumnsOf(next) # ColumnsOf(prev) THEN "minor" ELSE "patch"

Bumped(v, bump) ==
  CASE bump = "major" -> <<v[1] + 1, 0, 0>>
    [] bump = "minor" -> <<v[1], v[2] + 1, 0>>
    [] bump = "patch" -> <<v[1], v[2], v[3] + 1>>

Newer(v, w) ==
  \E i \in 1..3 : v[i] > w[i] /\ \A k \in 1..i-1 : v[k] = w[k]

\* Mutant: a table is only published again when it has more columns.
DecideAdded(state, spec) ==
  IF state = Null THEN <<1, 0, 0>>
  ELSE IF ColumnsOf(spec) \subseteq ColumnsOf(state.spec) THEN Null
  ELSE Bumped(state.version, DiffBump(state.spec, spec))

\* The version to publish, or Null when the published schema is the same.
Decide(state, spec) ==
  IF state = Null THEN <<1, 0, 0>>
  ELSE IF Signature[state.spec] = Signature[spec] THEN Null
  ELSE Bumped(state.version, DiffBump(state.spec, spec))

-----------------------------------------------------------------------------

NoPR == [state |-> "none", changes |-> <<>>, tree |-> <<>>, told |-> FALSE]

NoJob ==
  [pc |-> "none", pr |-> 0, todo |-> <<>>, known |-> [t \in Tables |-> 0],
   valid |-> <<>>, left |-> <<>>, spec |-> Null, fetched |-> Null,
   steps |-> [t \in Tables |-> [s \in Steps |-> "pending"]], run |-> "none"]

Init ==
  /\ main = [t \in Tables |-> Absent]
  /\ pr = [p \in PRs |-> NoPR]
  /\ row = [t \in Tables |-> Null] /\ nextId = 1
  /\ job = [d \in Deliveries |-> NoJob]
  /\ streams = {} /\ npm = [t \in Tables |-> <<>>] /\ latest = [t \in Tables |-> 0]
  /\ crashes = 0 /\ faults \in FaultSets

\* The table of the definition with an id.
Named(id) == CHOOSE t \in Tables : row[t] # Null /\ row[t].id = id
Exists(id) == \E t \in Tables : row[t] # Null /\ row[t].id = id

Insert(t, spec, status, p) ==
  /\ row' = [row EXCEPT ![t] = [id |-> nextId, spec |-> spec, status |-> status, pr |-> p]]
  /\ nextId' = nextId + 1

Working == {d \in Deliveries : job[d].pc \notin {"none", "done", "failed"}}

-----------------------------------------------------------------------------
(***************************************************************************)
(* The tools of the Data Architect, and GitHub.                            *)
(***************************************************************************)

\* updateDefinition saves the canvas: the spec of a row there is, whatever
\* its status, or a new draft.
SaveDraft(t, spec) ==
  /\ row[t] # Null => row[t].spec # spec /\ (row[t].status = "draft" \/ "draft" \in faults)
  /\ nextId <= MaxDeliveries
  /\ IF row[t] = Null THEN Insert(t, spec, "draft", 0)
     ELSE /\ row' = [row EXCEPT ![t].spec = spec]
          /\ UNCHANGED nextId
  /\ UNCHANGED <<main, pr, job, streams, npm, latest, crashes, faults>>

\* A branch off main with some changes becomes a pull request.  Those of the
\* agent (told) go on to mark the row.
Applied(tree, changes) ==
  [t \in Tables |->
     LET of == {i \in DOMAIN changes : changes[i].table = t}
     IN IF of = {} THEN tree[t] ELSE changes[CHOOSE i \in of : TRUE].content]

\* The webhook of a merge has been handled, and its workflow has run.
Settled(p) ==
  /\ \E d \in Deliveries : job[d].pr = p /\ job[d].pc = "done"
  /\ \A d \in Deliveries : job[d].pr = p => d \notin Working

\* Unless they overlap, a pull request is merged when the merges before it are
\* settled, and opened when each has been handled once.
OpenPR(p, proposal) ==
  LET changes == proposal.changes IN
  /\ pr[p].state = "none"
  /\ \A q \in PRs : q < p => \/ pr[q].state = "closed"
                            \/ (pr[q].state = "merged" /\ ("overlap" \in faults \/ Settled(q)))
  /\ Applied(main, changes) # main
  /\ \A i \in DOMAIN changes : changes[i].content = Absent => main[changes[i].table] # Absent
  /\ pr' = [pr EXCEPT ![p] = [state |-> "open", changes |-> changes,
                              tree |-> Applied(main, changes), told |-> proposal.told]]
  /\ UNCHANGED <<main, row, nextId, job, streams, npm, latest, crashes, faults>>

\* submitPR and deleteDefinition end by marking the row they find by name
\* (submit-pr.ts) or found before (delete-definition.ts).
MarkPending(p) ==
  /\ pr[p].told /\ pr' = [pr EXCEPT ![p].told = FALSE]
  /\ LET c == pr[p].changes[1]
     IN row' = IF row[c.table] = Null THEN row
               ELSE [row EXCEPT ![c.table].pr = p,
                                ![c.table].status = IF c.content = Absent
                                                      THEN "pending_deletion"
                                                      ELSE "pending_review"]
  /\ UNCHANGED <<main, nextId, job, streams, npm, latest, crashes, faults>>

\* A person merges, once the tool has answered unless it is early.
MergePR(p) ==
  /\ pr[p].state = "open" /\ ("early" \in faults \/ ~pr[p].told)
  /\ "overlap" \notin faults => \A q \in PRs : q < p /\ pr[q].state = "merged" => Settled(q)
  /\ pr' = [pr EXCEPT ![p].state = "merged"] /\ main' = pr[p].tree
  /\ UNCHANGED <<row, nextId, job, streams, npm, latest, crashes, faults>>

ClosePR(p) ==
  /\ "close" \in faults /\ pr[p].state = "open" /\ ~pr[p].told
  /\ pr' = [pr EXCEPT ![p].state = "closed"]
  /\ UNCHANGED <<main, row, nextId, job, streams, npm, latest, crashes, faults>>

-----------------------------------------------------------------------------
(***************************************************************************)
(* The webhook.                                                            *)
(***************************************************************************)

\* A merge is delivered, or delivered again, until the next pull request is
\* merged.
Deliver(d, p) ==
  /\ job[d].pc = "none" /\ \A e \in Deliveries : e < d => job[e].pc # "none"
  /\ pr[p].state = "merged"
  /\ "overlap" \notin faults => \A q \in PRs : q > p => pr[q].state # "merged"
  /\ job' = [job EXCEPT ![d] = [NoJob EXCEPT !.pc = "look", !.pr = p,
                                             !.todo = pr[p].changes]]
  /\ UNCHANGED <<main, pr, row, nextId, streams, npm, latest, crashes, faults>>

\* loadExistingRows: the ids of the rows the pull request touches.
Look(d) ==
  /\ job[d].pc = "look"
  /\ job' = [job EXCEPT ![d].pc = "apply",
                        ![d].known = [t \in Tables |-> IF row[t] = Null THEN 0 ELSE row[t].id]]
  /\ UNCHANGED <<main, pr, row, nextId, streams, npm, latest, crashes, faults>>

\* A removed file: the row is deleted by the id it had.
DeleteRow(d) ==
  /\ job[d].pc = "apply" /\ job[d].todo # <<>> /\ Head(job[d].todo).content = Absent
  /\ LET t == Head(job[d].todo).table
         id == job[d].known[t]
     IN /\ row' = IF id # 0 /\ Exists(id) THEN [row EXCEPT ![Named(id)] = Null] ELSE row
        /\ job' = [job EXCEPT ![d].todo = Tail(@), ![d].known[t] = 0]
  /\ UNCHANGED <<main, pr, nextId, streams, npm, latest, crashes, faults>>

StatusOf(content) == IF content = Bad THEN "invalid" ELSE "merged"

\* Mutant: an update leaves the status alone.
UpdatedSpecOnly(r, content, p) == [r EXCEPT !.spec = content, !.pr = p]

\* upsertRow on a row that exists.
Updated(r, content, p) ==
  [r EXCEPT !.spec = content, !.status = StatusOf(content), !.pr = p]

\* An added or modified file: its content at the merge commit is upserted by
\* the id the row had.  Two handlers that both found no row both insert, and
\* the second one fails on the unique (kind, name).
Upsert(d) ==
  /\ job[d].pc = "apply" /\ job[d].todo # <<>> /\ Head(job[d].todo).content # Absent
  /\ LET c == Head(job[d].todo)
         id == job[d].known[c.table]
         applied(i) == [job[d] EXCEPT !.todo = Tail(@),
                          !.valid = IF c.content = Bad THEN @
                                    ELSE Append(@, [table |-> c.table, id |-> i])]
     IN \/ /\ id # 0
           /\ row' = IF Exists(id)
                       THEN [row EXCEPT ![Named(id)] = Updated(@, c.content, job[d].pr)]
                       ELSE row
           /\ job' = [job EXCEPT ![d] = applied(id)] /\ UNCHANGED nextId
        \/ /\ id = 0 /\ row[c.table] = Null
           /\ Insert(c.table, c.content, StatusOf(c.content), job[d].pr)
           /\ job' = [job EXCEPT ![d] = applied(nextId)]
        \/ /\ id = 0 /\ row[c.table] # Null
           /\ job' = [job EXCEPT ![d].pc = "failed", ![d].run = "failed"]
           /\ UNCHANGED <<row, nextId>>
  /\ UNCHANGED <<main, pr, streams, npm, latest, crashes, faults>>

\* A file that cannot be fetched leaves its row as it is, or a stub.
FetchFails(d) ==
  /\ "fetch" \in faults
  /\ job[d].pc = "apply" /\ job[d].todo # <<>> /\ Head(job[d].todo).content # Absent
  /\ LET t == Head(job[d].todo).table
     IN \/ /\ job[d].known[t] # 0 /\ UNCHANGED <<row, nextId>>
           /\ job' = [job EXCEPT ![d].todo = Tail(@)]
        \/ /\ job[d].known[t] = 0 /\ row[t] = Null
           /\ Insert(t, Bad, "invalid", job[d].pr)
           /\ job' = [job EXCEPT ![d].todo = Tail(@)]
        \/ /\ job[d].known[t] = 0 /\ row[t] # Null /\ UNCHANGED <<row, nextId>>
           /\ job' = [job EXCEPT ![d].pc = "failed", ![d].run = "failed"]
  /\ UNCHANGED <<main, pr, streams, npm, latest, crashes, faults>>

\* The audit rows, the run row, and the workflow for the valid definitions.
StartRun(d) ==
  /\ job[d].pc = "apply" /\ job[d].todo = <<>>
  /\ job' = [job EXCEPT ![d].pc = "table", ![d].run = "running", ![d].left = job[d].valid,
                        ![d].known = NoJob.known]
  /\ UNCHANGED <<main, pr, row, nextId, streams, npm, latest, crashes, faults>>

-----------------------------------------------------------------------------
(***************************************************************************)
(* The workflow: runLoggerTableStepsStep, table after table.               *)
(***************************************************************************)

Mark(j, s, status) == [j EXCEPT !.steps[Head(j.left).table][s] = status]
NextTable(j) == [j EXCEPT !.pc = "table", !.left = Tail(@), !.spec = Null, !.fetched = Null]

\* The spec is read again by id.  One that is gone or not a logger table fails
\* the chain.
NoSpec(d) ==
  /\ job[d].pc = "table" /\ job[d].left # <<>>
  /\ ~(Exists(Head(job[d].left).id) /\ row[Named(Head(job[d].left).id)].spec \in Specs)
  /\ job' = [job EXCEPT ![d] = NextTable(Mark(Mark(@, 1, "failed"), 2, "failed"))]
  /\ UNCHANGED <<main, pr, row, nextId, streams, npm, latest, crashes, faults>>

\* createLoggerDeliveryStream: a stream that exists is as good; a failure ends
\* the chain of the table.
CreateStream(d) ==
  /\ job[d].pc = "table" /\ job[d].left # <<>>
  /\ Exists(Head(job[d].left).id) /\ row[Named(Head(job[d].left).id)].spec \in Specs
  /\ streams' = streams \cup {Head(job[d].left).table}
  /\ job' = [job EXCEPT ![d] = [Mark(Mark(@, 1, "succeeded"), 2, "running") EXCEPT
                                 !.pc = "fetch", !.spec = row[Named(Head(job[d].left).id)].spec]]
  /\ UNCHANGED <<main, pr, row, nextId, npm, latest, crashes, faults>>

StreamFails(d) ==
  /\ "aws" \in faults /\ job[d].pc = "table" /\ job[d].left # <<>>
  /\ job' = [job EXCEPT ![d] = NextTable(Mark(Mark(@, 1, "failed"), 2, "skipped"))]
  /\ UNCHANGED <<main, pr, row, nextId, streams, npm, latest, crashes, faults>>

\* fetchPublishedState and decidePublishAction.
FetchPublished(d) ==
  /\ job[d].pc = "fetch"
  /\ LET t == Head(job[d].left).table
         state == IF latest[t] = 0 THEN Null ELSE npm[t][latest[t]]
         v == Decide(state, job[d].spec)
     IN job' = [job EXCEPT ![d] =
          IF v = Null THEN NextTable(Mark(@, 2, "succeeded"))
          ELSE [@ EXCEPT !.pc = "publish", !.fetched = v]]
  /\ UNCHANGED <<main, pr, row, nextId, streams, npm, latest, crashes, faults>>

\* Publish the version and move the tag; a version that is there is taken for
\* this one.
Publish(d) ==
  /\ job[d].pc = "publish"
  /\ LET t == Head(job[d].left).table
         v == job[d].fetched
         taken == \E i \in DOMAIN npm[t] : npm[t][i].version = v
     IN IF taken THEN UNCHANGED <<npm, latest>>
        ELSE /\ npm' = [npm EXCEPT ![t] = Append(@, [version |-> v, spec |-> job[d].spec])]
             /\ latest' = [latest EXCEPT ![t] = Len(npm[t]) + 1]
  /\ job' = [job EXCEPT ![d].pc = "marking"]
  /\ UNCHANGED <<main, pr, row, nextId, streams, crashes, faults>>

MarkPublished(d) ==
  /\ job[d].pc = "marking"
  /\ job' = [job EXCEPT ![d] = NextTable(Mark(@, 2, "succeeded"))]
  /\ UNCHANGED <<main, pr, row, nextId, streams, npm, latest, crashes, faults>>

\* Mutant: the run has succeeded whatever its steps.
RollUpBlind(j) == "succeeded"

\* rollUpRunStatus: one failed step fails the run.
RollUp(j) ==
  IF \E i \in DOMAIN j.valid : \E s \in Steps : j.steps[j.valid[i].table][s] = "failed"
    THEN "failed" ELSE "succeeded"

FinishRun(d) ==
  /\ job[d].pc = "table" /\ job[d].left = <<>>
  /\ job' = [job EXCEPT ![d].pc = "done", ![d].run = RollUp(job[d])]
  /\ UNCHANGED <<main, pr, row, nextId, streams, npm, latest, crashes, faults>>

\* The process dies.  A handler is gone, and what it has written stays; the
\* workflow runs its step from the first table again.
Crash(d) ==
  /\ d \in Working /\ crashes < MaxCrashes /\ crashes' = crashes + 1
  /\ job' = [job EXCEPT ![d] =
       IF @.run = "none" THEN [@ EXCEPT !.pc = "failed"]
       ELSE [@ EXCEPT !.pc = "table", !.left = job[d].valid,
                      !.spec = Null, !.fetched = Null]]
  /\ UNCHANGED <<main, pr, row, nextId, streams, npm, latest, faults>>

Work(d) ==
  \/ Look(d) \/ DeleteRow(d) \/ Upsert(d) \/ FetchFails(d) \/ StartRun(d)
  \/ NoSpec(d) \/ CreateStream(d) \/ StreamFails(d) \/ FetchPublished(d)
  \/ Publish(d) \/ MarkPublished(d) \/ FinishRun(d)

Next ==
  \/ \E draft \in Drafts : SaveDraft(draft.table, draft.content)
  \/ \E p \in PRs : \/ MarkPending(p) \/ MergePR(p) \/ ClosePR(p)
                    \/ \E proposal \in Proposals : OpenPR(p, proposal)
                    \/ \E d \in Deliveries : Deliver(d, p)
  \/ \E d \in Deliveries : Work(d) \/ Crash(d)

Spec == Init /\ [][Next]_vars

-----------------------------------------------------------------------------
(***************************************************************************)
(* Properties.                                                             *)
(***************************************************************************)

PRState == [state : {"none", "open", "merged", "closed"}, changes : Seq(Changes),
            tree : [Tables -> Files] \cup {<<>>}, told : BOOLEAN]

Targets == [table : Tables, id : Nat]

JobState ==
  [pc : {"none", "look", "apply", "table", "fetch", "publish", "marking", "done",
         "failed"},
   pr : 0..MaxPRs, todo : Seq(Changes), known : [Tables -> Nat],
   valid : Seq(Targets), left : Seq(Targets), spec : Specs \cup {Null},
   fetched : Versions \cup {Null}, steps : [Tables -> [Steps -> StepStatuses]],
   run : {"none", "running", "succeeded", "failed"}]

Types ==
  /\ main \in [Tables -> Files]
  /\ pr \in [PRs -> PRState]
  /\ row \in [Tables -> RowState \cup {Null}]
  /\ nextId \in Nat \ {0}
  /\ job \in [Deliveries -> JobState]
  /\ streams \subseteq Tables
  /\ npm \in [Tables -> Seq(Publications)]
  /\ latest \in [Tables -> Nat]
  /\ crashes \in 0..MaxCrashes /\ faults \in FaultSets

\* No two rows have the same id, nor will the next one.
IdsUnique ==
  \A t \in Tables : row[t] # Null =>
    /\ row[t].id \in 1..nextId-1
    /\ \A u \in Tables \ {t} : row[u] # Null => row[u].id # row[t].id

TypeOK == Types /\ IdsUnique

\* Every merge has been handled to its end, and nothing is under way.
Reconciled ==
  /\ Working = {}
  /\ \A p \in PRs : pr[p].state = "merged" => Settled(p)
  /\ \A p \in PRs : pr[p].state # "open"

\* When all merges have been reconciled, whatever was delivered twice, at the
\* same time, or broken off, a table has the row of its file on main: the
\* content, merged or invalid; and the row of a removed file is gone
\* (reconcile-definitions.ts:53-56).
RowsFollowMain ==
  faults \cap {"overlap", "fetch", "early", "draft"} = {} /\ Reconciled =>
    \A t \in Tables :
      IF main[t] = Absent
        THEN row[t] # Null => row[t].status \in {"draft", "pending_review"}
        ELSE row[t] # Null /\ row[t].spec = main[t]
             /\ (row[t].status = StatusOf(main[t]) \/ "close" \in faults)

\* A row that awaits a pull request awaits one that is open or whose merge is
\* still to be handled, where none is closed unmerged or merged before the
\* tool has marked the row (submit-pr.ts:129, route.ts:136).
PendingIsAnswered ==
  faults \cap {"fetch", "early", "close"} = {} =>
    \A t \in Tables :
      row[t] # Null /\ row[t].status \in {"pending_review", "pending_deletion"} =>
        pr[row[t].pr].state = "open" \/ ~Settled(row[t].pr)

\* reconcile-definitions.ts:53-56, submit-pr.ts:129, route.ts:136: the rows are
\* rows, follow the main branch, and do not wait for nothing.
DefinitionsInv == TypeOK /\ RowsFollowMain /\ PendingIsAnswered

\* The package of a table on main has the schema of the file once the merges
\* are reconciled and no run has failed (github-packages.ts:213).
SdkFollowsMain ==
  faults \cap {"overlap", "fetch", "early", "draft"} = {} /\ Reconciled =>
    \A t \in Tables :
      (main[t] \in Specs /\ \A d \in Deliveries : job[d].run # "failed") =>
        latest[t] # 0 /\ Signature[npm[t][latest[t]].spec] = Signature[main[t]]

\* The tag latest only moves to a newer version, and to a new major version
\* when a column of the one before is gone or has another type
\* (logger-sdk-version.ts:37-50).  A draft saved over the row between two
\* deliveries of a merge gives them different specs, and the one that decided
\* first may publish last.
SdkKeepsSemver ==
  [][\A t \in Tables : faults \cap {"overlap", "draft"} = {}
       /\ latest'[t] # latest[t] /\ latest[t] # 0 =>
       LET old == npm[t][latest[t]]
           new == npm'[t][latest'[t]]
       IN /\ Newer(new.version, old.version)
          /\ (\E c \in ColumnsOf(old.spec) : Signature[new.spec][c] # Signature[old.spec][c])
               => new.version[1] > old.version[1]]_vars

\* A run is shown as succeeded only if each of its tables got its stream and
\* a package, in whichever attempt (post-pipeline-pr-merge.ts:272).
VerdictMatchesSteps ==
  \A d \in Deliveries : job[d].run = "succeeded" =>
    \A i \in DOMAIN job[d].valid :
      job[d].valid[i].table \in streams /\ latest[job[d].valid[i].table] # 0
-----------------------------------------------------------------------------
(***************************************************************************)
(* The inductive invariant.                                                *)
(***************************************************************************)

Touched(p) == {pr[p].changes[i].table : i \in DOMAIN pr[p].changes}

\* A pull request has a tree, with what it changes, from the day it is opened.
PrsLinked ==
  \A p \in PRs :
    /\ pr[p].told => pr[p].state # "none"
    /\ pr[p].state # "none" =>
         /\ pr[p].tree \in [Tables -> Files]
         /\ pr[p].changes # <<>>
         /\ \A i, j \in DOMAIN pr[p].changes :
              pr[p].changes[i].table = pr[p].changes[j].table => i = j
         /\ \A i \in DOMAIN pr[p].changes :
              pr[p].tree[pr[p].changes[i].table] = pr[p].changes[i].content

\* A row with this id is the row of t, now and later.
IdOf(id, t) ==
  id \in 0..nextId-1 /\ \A u \in Tables : row[u] # Null /\ row[u].id = id => u = t

Target(d) == Head(job[d].left).table

\* A job and its run go through their phases together.
PhasesLinked(d) ==
  /\ job[d].pc \in {"none", "look", "apply"} => job[d].run = "none"
  /\ job[d].pc \in {"table", "fetch", "publish", "marking"} => job[d].run = "running"
  /\ job[d].pc = "done" => job[d].run \in {"succeeded", "failed"}
  /\ job[d].pc = "failed" => job[d].run \in {"none", "failed"}
  /\ job[d].pc \in {"none", "table", "fetch", "publish", "marking", "done"} => job[d].todo = <<>>
  /\ job[d].pc \in {"fetch", "publish", "marking"} =>
       job[d].left # <<>> /\ job[d].spec \in Specs /\ Target(d) \in streams
  /\ job[d].pc = "publish" => job[d].fetched # Null

\* A job handles changes of a pull request that is merged.
ChangesLinked(d) ==
  job[d].pc # "none" =>
    /\ job[d].pr \in PRs /\ pr[job[d].pr].state = "merged"
    /\ \A i \in DOMAIN job[d].todo :
         \E j \in DOMAIN pr[job[d].pr].changes : pr[job[d].pr].changes[j] = job[d].todo[i]
    /\ \A i, j \in DOMAIN job[d].todo : job[d].todo[i].table = job[d].todo[j].table => i = j
    /\ \A i \in DOMAIN job[d].valid : job[d].valid[i].table \in Touched(job[d].pr)

\* The ids a job remembers are those of the tables it remembers them for.
TargetsLinked(d) ==
  /\ \A i \in DOMAIN job[d].left : \E j \in DOMAIN job[d].valid :
       job[d].left[i] = job[d].valid[j]
  /\ \A i \in DOMAIN job[d].valid : IdOf(job[d].valid[i].id, job[d].valid[i].table)
  /\ \A t \in Tables : job[d].known[t] # 0 => IdOf(job[d].known[t], t)

JobsLinked == \A d \in Deliveries : PhasesLinked(d) /\ ChangesLinked(d) /\ TargetsLinked(d)

\* The tag latest names the version published last.
LatestIsLast == \A t \in Tables : latest[t] = Len(npm[t])

InLeft(d, t) == \E i \in DOMAIN job[d].left : job[d].left[i].table = t
StepFailed(d, t) == \E s \in Steps : job[d].steps[t][s] = "failed"

\* A table of a run is still to be done, or it has its stream and its package,
\* or one of its steps is marked as failed, in whichever attempt.
StepsDone(d) ==
  /\ job[d].pc = "marking" => latest[Target(d)] # 0
  /\ job[d].run = "running" =>
       \A i \in DOMAIN job[d].valid :
         LET t == job[d].valid[i].table
         IN InLeft(d, t) \/ (t \in streams /\ latest[t] # 0) \/ StepFailed(d, t)

\* post-pipeline-pr-merge.ts:62-300: what holds under every fault.
IInv ==
  /\ TypeOK
  /\ PrsLinked
  /\ JobsLinked
  /\ LatestIsLast
  /\ \A d \in Deliveries : StepsDone(d)
  /\ VerdictMatchesSteps

Calm(kinds) == faults \cap kinds = {}

IsLast(p) == pr[p].state = "merged" /\ \A q \in PRs : q > p => pr[q].state # "merged"

\* An open pull request is the only one, from a branch off the main branch as
\* it is, and every merge before it has been handled once.
OpenAlone(p) ==
  /\ \A q \in PRs : q < p => \/ pr[q].state = "closed"
                            \/ /\ pr[q].state = "merged"
                               /\ \E d \in Deliveries : job[d].pr = q /\ job[d].pc = "done"
  /\ \A q \in PRs : q > p => pr[q].state = "none"
  /\ \A t \in Tables \ Touched(p) : pr[p].tree[t] = main[t]
  /\ \A i \in DOMAIN pr[p].changes :
       pr[p].changes[i].content = Absent => main[pr[p].changes[i].table] # Absent

\* Without overlap only the last merge is being handled, and its changes are on
\* main.
OneMerge ==
  Calm({"overlap"}) =>
    /\ \A d \in Working : IsLast(job[d].pr)
    /\ \A p, q \in PRs : p < q /\ pr[q].state # "none" => pr[p].state # "none"
    /\ \A p \in PRs : pr[p].state = "open" => OpenAlone(p)
    /\ \A p \in PRs : IsLast(p) => \A t \in Touched(p) : main[t] = pr[p].tree[t]

\* What the registry says of a package: fetchPublishedState.
StateOf(t) == IF latest[t] = 0 THEN Null ELSE npm[t][latest[t]]

\* Whether the version a job decided on is published.
Taken(d) == \E i \in DOMAIN npm[Target(d)] : npm[Target(d)][i].version = job[d].fetched

\* A row a job has applied is no draft, and has the content of the merge.
ValidRow(d) ==
  \A i \in DOMAIN job[d].valid :
    LET t == job[d].valid[i].table
    IN row[t] # Null /\ row[t].id = job[d].valid[i].id =>
         row[t].status # "draft" /\ row[t].spec = pr[job[d].pr].tree[t]

\* A job publishes the content of the merge, as the version that is next now,
\* or as one that another job has published meanwhile.
SpecAgrees(d) ==
  /\ job[d].pc \in {"fetch", "publish", "marking"} =>
       job[d].spec = pr[job[d].pr].tree[Target(d)]
  /\ job[d].pc = "publish" => Taken(d) \/ job[d].fetched = Decide(StateOf(Target(d)), job[d].spec)

\* logger-sdk-version.ts:37-50: two deliveries of one merge publish one version.
SemverInv ==
  Calm({"overlap", "draft"}) =>
    \A d \in Deliveries : (d \in Working => ValidRow(d)) /\ SpecAgrees(d)

\* Versions grow, so none is published twice.
VersionsGrow ==
  Calm({"overlap", "draft"}) =>
    \A t \in Tables : \A i, j \in DOMAIN npm[t] :
      i < j => Newer(npm[t][j].version, npm[t][i].version)

\* submit-pr.ts:129: the tool has marked its row before the merge.
MarkedWhenOpen == Calm({"early"}) => \A p \in PRs : pr[p].told => pr[p].state = "open"

Pending(t) == row[t] # Null /\ row[t].status \in {"pending_review", "pending_deletion"}

\* A pending row waits for a pull request that changes its file.
PendingTouched ==
  \A t \in Tables : Pending(t) =>
    row[t].pr \in PRs /\ pr[row[t].pr].state # "none" /\ t \in Touched(row[t].pr)

InTodo(d, t) == \E i \in DOMAIN job[d].todo : job[d].todo[i].table = t

\* No delivery of the merge has come to the file.
Unhandled(p, t) ==
  /\ t \in Touched(p)
  /\ \A d \in Deliveries : job[d].pc # "none" /\ job[d].pr = p => InTodo(d, t)

\* What may be left of a table without a file.
Unpublished(t) == row[t] # Null => row[t].status \in {"draft", "pending_review"}

\* The row follows the file: its content, with the status it was given or
\* waiting for a pull request.
Follows(t) ==
  IF main[t] = Absent THEN Unpublished(t)
  ELSE /\ row[t] # Null /\ row[t].spec = main[t]
       /\ \/ row[t].status = StatusOf(main[t])
          \/ Pending(t) /\ ("close" \in faults \/ pr[row[t].pr].state = "open")

\* A handler between its look and its writes knows the row of each file it has
\* to write, or there is none; of one it has to remove no row is left to remove.
KnowsRows(d) ==
  job[d].pc = "apply" =>
    \A i \in DOMAIN job[d].todo :
      LET t == job[d].todo[i].table
      IN \/ row[t] # Null /\ job[d].known[t] = row[t].id
         \/ IF job[d].todo[i].content = Absent THEN Unpublished(t) ELSE job[d].known[t] = 0

\* reconcile-definitions.ts:53-56: a row follows its file, or the last merge
\* changes the file and no delivery of it has come to it.
RowsInv ==
  Calm({"overlap", "fetch", "early", "draft"}) =>
    /\ \A t \in Tables : Follows(t) \/ \E p \in PRs : IsLast(p) /\ Unhandled(p, t)
    /\ \A d \in Deliveries : KnowsRows(d)

\* route.ts:136: a pending row waits for an open pull request, or for a merge
\* each handler of which has yet to write the row, and knows it.
PendingInv ==
  Calm({"fetch", "early", "close"}) =>
    \A t \in Tables : Pending(t) =>
      LET p == row[t].pr
      IN \/ pr[p].state = "open"
         \/ /\ pr[p].state = "merged" /\ Unhandled(p, t)
            /\ \A d \in Deliveries : job[d].pr = p /\ job[d].pc = "apply" =>
                 job[d].known[t] = row[t].id

\* The package has the schema of a content.
HasSchema(t, spec) ==
  latest[t] # 0 /\ Signature[npm[t][latest[t]].spec] = Signature[spec]

IsValid(d, t) == \E i \in DOMAIN job[d].valid : job[d].valid[i].table = t

\* A job publishes the schema of the merge, or finds it published.
JobPublishes(d) ==
  LET t == Target(d)
  IN /\ job[d].pc = "publish" =>
          HasSchema(t, job[d].spec) \/ job[d].fetched = Decide(StateOf(t), job[d].spec)
     /\ job[d].pc = "marking" => HasSchema(t, job[d].spec)

\* A file of the merge of a job is to be applied, or valid; and then to be
\* published, or published, or it fails the run.
RunReaches(d) ==
  \A t \in Touched(job[d].pr) : pr[job[d].pr].tree[t] \in Specs =>
    /\ InTodo(d, t) \/ IsValid(d, t)
    /\ job[d].run = "running" =>
         InLeft(d, t) \/ HasSchema(t, pr[job[d].pr].tree[t]) \/ StepFailed(d, t)

\* github-packages.ts:213: a package follows its file, or a run has failed, or
\* no run of the last merge, which changes the file, has come to its end.
SdkInv ==
  Calm({"overlap", "fetch", "early", "draft"}) =>
    /\ \A d \in Deliveries : JobPublishes(d) /\ (d \in Working => RunReaches(d))
    /\ \/ \E d \in Deliveries : job[d].run = "failed"
       \/ \A t \in Tables : main[t] \in Specs =>
            \/ HasSchema(t, main[t])
            \/ \E p \in PRs : /\ IsLast(p) /\ t \in Touched(p)
                              /\ \A d \in Deliveries : job[d].pr = p => job[d].pc # "done"
=============================================================================
