----------------------- MODULE DefinitionMergeProofs -----------------------
(***************************************************************************)
(* Proofs about the life of a definition: for any tables, specs, pull      *)
(* requests, deliveries, deaths and sets of faults, a run is shown as      *)
(* succeeded only with its streams and packages, a package keeps semver,   *)
(* and the rows and packages follow the main branch.                       *)
(***************************************************************************)
EXTENDS DefinitionMerge, SequenceTheorems, TLAPS

-----------------------------------------------------------------------------
(***************************************************************************)
(* What the helpers do to a job.                                           *)
(***************************************************************************)

\* The fields of a job a workflow leaves alone.
SameTask(j, k) ==
  k.pr = j.pr /\ k.todo = j.todo /\ k.known = j.known /\ k.valid = j.valid

LEMMA TargetIsTable ==
  ASSUME NEW j \in JobState, j.left # <<>>
  PROVE  Head(j.left) \in Targets /\ Head(j.left).table \in Tables
<1>1. j.left \in Seq(Targets)
  BY DEF JobState
<1>2. Head(j.left) \in Targets
  BY <1>1, HeadTailProperties
<1>3. QED
  BY <1>2 DEF Targets

LEMMA MarkIs ==
  ASSUME NEW j \in JobState, j.left # <<>>, NEW s \in Steps, NEW status \in StepStatuses
  PROVE  LET k == Mark(j, s, status)
             t == Head(j.left).table
         IN /\ k \in JobState /\ SameTask(j, k)
            /\ k.pc = j.pc /\ k.left = j.left /\ k.spec = j.spec
            /\ k.fetched = j.fetched /\ k.run = j.run
            /\ k.steps[t][s] = status
            /\ \A o \in Steps : o # s => k.steps[t][o] = j.steps[t][o]
            /\ \A u \in Tables : u # t => k.steps[u] = j.steps[u]
<1> DEFINE t == Head(j.left).table
           k == Mark(j, s, status)
<1>1. t \in Tables
  BY TargetIsTable
<1>2. j.steps \in [Tables -> [Steps -> StepStatuses]]
  BY DEF JobState
<1>3. k.steps = [j.steps EXCEPT ![t] = [@ EXCEPT ![s] = status]]
  BY DEF Mark, JobState
<1>4. k = [j EXCEPT !.steps = k.steps]
  BY DEF Mark, JobState
<1>5. k.steps \in [Tables -> [Steps -> StepStatuses]]
  BY <1>1, <1>2, <1>3
<1> HIDE DEF k
<1>6. /\ k \in JobState
      /\ SameTask(j, k) /\ k.pc = j.pc /\ k.left = j.left /\ k.spec = j.spec
      /\ k.fetched = j.fetched /\ k.run = j.run
  BY <1>4, <1>5 DEF JobState, SameTask
<1>7. /\ k.steps[t][s] = status
      /\ \A o \in Steps : o # s => k.steps[t][o] = j.steps[t][o]
      /\ \A u \in Tables : u # t => k.steps[u] = j.steps[u]
  BY <1>1, <1>2, <1>3
<1>8. QED
  BY <1>6, <1>7 DEF k

LEMMA NextIs ==
  ASSUME NEW j \in JobState, j.left # <<>>
  PROVE  LET k == NextTable(j)
         IN /\ k \in JobState /\ SameTask(j, k)
            /\ k.pc = "table" /\ k.left = Tail(j.left) /\ k.spec = Null
            /\ k.fetched = Null /\ k.run = j.run /\ k.steps = j.steps
<1>1. Tail(j.left) \in Seq(Targets)
  <2>1. j.left \in Seq(Targets)
    BY DEF JobState
  <2>2. QED
    BY <2>1, HeadTailProperties
<1>2. QED
  BY <1>1 DEF JobState, NextTable, SameTask

\* A tail holds what is not its head.
LEMMA TailHolds ==
  ASSUME NEW S, NEW seq \in Seq(S), seq # <<>>
  PROVE  /\ \A i \in DOMAIN Tail(seq) :
              i + 1 \in DOMAIN seq /\ Tail(seq)[i] = seq[i + 1]
         /\ \A i \in DOMAIN seq : i # 1 => i - 1 \in DOMAIN Tail(seq) /\ Tail(seq)[i - 1] = seq[i]
         /\ 1 \in DOMAIN seq /\ Head(seq) = seq[1]
<1>1. /\ Tail(seq) \in Seq(S) /\ Len(Tail(seq)) = Len(seq) - 1
      /\ \A i \in 1..Len(Tail(seq)) : Tail(seq)[i] = seq[i + 1]
  BY HeadTailProperties
<1>2. DOMAIN Tail(seq) = 1..Len(Tail(seq)) /\ DOMAIN seq = 1..Len(seq) /\ Len(seq) \in Nat
  BY <1>1, LenProperties
<1>3. Len(seq) # 0
  BY EmptySeq
<1>4. Head(seq) = seq[1]
  BY <1>3
<1>5. QED
  BY <1>1, <1>2, <1>3, <1>4

LEMMA AppendHolds ==
  ASSUME NEW S, NEW seq \in Seq(S), NEW e \in S
  PROVE  /\ Append(seq, e) \in Seq(S)
         /\ \A i \in DOMAIN Append(seq, e) :
              Append(seq, e)[i] = e \/ (i \in DOMAIN seq /\ Append(seq, e)[i] = seq[i])
         /\ \A i \in DOMAIN seq : i \in DOMAIN Append(seq, e) /\ Append(seq, e)[i] = seq[i]
         /\ Len(seq) + 1 \in DOMAIN Append(seq, e) /\ Append(seq, e)[Len(seq) + 1] = e
<1>1. /\ Append(seq, e) \in Seq(S) /\ Len(Append(seq, e)) = Len(seq) + 1
      /\ \A i \in 1..Len(seq) : Append(seq, e)[i] = seq[i]
      /\ Append(seq, e)[Len(seq) + 1] = e
  BY AppendProperties
<1>2. DOMAIN Append(seq, e) = 1..Len(Append(seq, e)) /\ DOMAIN seq = 1..Len(seq) /\ Len(seq) \in Nat
  BY <1>1, LenProperties
<1>3. QED
  BY <1>1, <1>2

-----------------------------------------------------------------------------
(***************************************************************************)
(* What each step does to the jobs.                                        *)
(***************************************************************************)

\* The fields a handler of the webhook leaves alone.
SameChain(j, k) ==
  k.left = j.left /\ k.spec = j.spec /\ k.fetched = j.fetched /\ k.steps = j.steps

JobMoves(d) ==
  /\ job' \in [Deliveries -> JobState]
  /\ \A e \in Deliveries : e # d => job'[e] = job[e]

\* The chain of a table has ended.
ChainEnds(j, k) ==
  /\ SameTask(j, k) /\ k.pc = "table" /\ k.left = Tail(j.left) /\ k.spec = Null
  /\ k.fetched = Null /\ k.run = j.run
  /\ \A u \in Tables : u # Head(j.left).table => k.steps[u] = j.steps[u]

LEMMA OneJob ==
  ASSUME Types, NEW d \in Deliveries, NEW k \in JobState, job' = [job EXCEPT ![d] = k]
  PROVE  JobMoves(d) /\ job'[d] = k
BY DEF Types, JobMoves

LEMMA NoJobTyped == NoJob \in JobState
<1>1. <<>> \in Seq(Changes) /\ <<>> \in Seq(Targets)
  BY EmptySeq
<1>2. [t \in Tables |-> [s \in Steps |-> "pending"]] \in [Tables -> [Steps -> StepStatuses]]
  BY DEF StepStatuses
<1>3. [t \in Tables |-> 0] \in [Tables -> Nat]
  OBVIOUS
<1>4. 0 \in 0..MaxPRs
  BY MergeAssumption
<1>5. QED
  BY <1>1, <1>2, <1>3, <1>4 DEF NoJob, JobState

LEMMA DeliverDoes ==
  ASSUME Types, NEW d \in Deliveries, NEW p \in PRs, Deliver(d, p)
  PROVE  /\ JobMoves(d) /\ job[d].pc = "none"
         /\ job'[d].pc = "look" /\ job'[d].pr = p /\ job'[d].todo = pr[p].changes
         /\ job'[d].run = "none" /\ job'[d].valid = <<>> /\ job'[d].left = <<>>
         /\ job'[d].known = NoJob.known
<1> DEFINE k == [NoJob EXCEPT !.pc = "look", !.pr = p, !.todo = pr[p].changes]
<1>1. p \in 0..MaxPRs
  BY MergeAssumption DEF PRs
<1>2. pr[p].changes \in Seq(Changes)
  BY DEF Types, PRState
<1>3. k \in JobState
  <2>1. \A j \in JobState :
          [j EXCEPT !.pc = "look", !.pr = p, !.todo = pr[p].changes] \in JobState
    BY <1>1, <1>2 DEF JobState
  <2>2. QED
    BY <2>1, NoJobTyped
<1>4. job' = [job EXCEPT ![d] = k] /\ job[d].pc = "none"
  BY DEF Deliver
<1>5. /\ k.pc = "look" /\ k.pr = p /\ k.todo = pr[p].changes
      /\ k.run = "none" /\ k.valid = <<>> /\ k.left = <<>> /\ k.known = NoJob.known
  BY DEF NoJob
<1> HIDE DEF k
<1>6. JobMoves(d) /\ job'[d] = k
  BY <1>3, <1>4, OneJob
<1>7. QED
  BY <1>4, <1>5, <1>6

LEMMA LookDoes ==
  ASSUME Types, NEW d \in Deliveries, Look(d)
  PROVE  /\ JobMoves(d) /\ job[d].pc = "look"
         /\ SameChain(job[d], job'[d])
         /\ job'[d].pc = "apply" /\ job'[d].pr = job[d].pr /\ job'[d].todo = job[d].todo
         /\ job'[d].run = job[d].run /\ job'[d].valid = job[d].valid
         /\ \A t \in Tables : job'[d].known[t] = IF row[t] = Null THEN 0 ELSE row[t].id
<1> DEFINE known == [t \in Tables |-> IF row[t] = Null THEN 0 ELSE row[t].id]
           k == [job[d] EXCEPT !.pc = "apply", !.known = known]
<1>1. known \in [Tables -> Nat]
  BY DEF Types, RowState
<1>2. k \in JobState
  <2>1. job[d] \in JobState
    BY DEF Types
  <2> HIDE DEF known
  <2>2. QED
    BY <1>1, <2>1 DEF JobState
<1>3. job' = [job EXCEPT ![d] = k] /\ job[d].pc = "look"
  BY DEF Look
<1>4. /\ SameChain(job[d], k)
      /\ k.pc = "apply" /\ k.pr = job[d].pr /\ k.todo = job[d].todo
      /\ k.run = job[d].run /\ k.valid = job[d].valid /\ k.known = known
  BY DEF Types, JobState, SameChain
<1>5. \A t \in Tables : known[t] = IF row[t] = Null THEN 0 ELSE row[t].id
  OBVIOUS
<1> HIDE DEF k, known
<1>6. JobMoves(d) /\ job'[d] = k
  BY <1>2, <1>3, OneJob
<1>7. QED
  BY <1>3, <1>4, <1>5, <1>6

LEMMA TodoIsTyped ==
  ASSUME NEW j \in JobState, j.todo # <<>>
  PROVE  /\ Head(j.todo) \in Changes /\ Tail(j.todo) \in Seq(Changes)
         /\ Head(j.todo).table \in Tables /\ Head(j.todo).content \in Files
<1>1. j.todo \in Seq(Changes)
  BY DEF JobState
<1>2. Head(j.todo) \in Changes /\ Tail(j.todo) \in Seq(Changes)
  BY <1>1, HeadTailProperties
<1>3. QED
  BY <1>2 DEF Changes

LEMMA DeleteRowDoes ==
  ASSUME Types, NEW d \in Deliveries, DeleteRow(d)
  PROVE  /\ JobMoves(d) /\ job[d].pc = "apply" /\ job[d].todo # <<>>
         /\ SameChain(job[d], job'[d])
         /\ job'[d].pc = "apply" /\ job'[d].pr = job[d].pr /\ job'[d].todo = Tail(job[d].todo)
         /\ job'[d].run = job[d].run /\ job'[d].valid = job[d].valid
         /\ job'[d].known[Head(job[d].todo).table] = 0
         /\ \A t \in Tables : t # Head(job[d].todo).table => job'[d].known[t] = job[d].known[t]
<1> DEFINE u == Head(job[d].todo).table
           known == [job[d].known EXCEPT ![u] = 0]
           k == [job[d] EXCEPT !.todo = Tail(@), !.known = known]
<1>1. job[d] \in JobState /\ job[d].pc = "apply" /\ job[d].todo # <<>>
  BY DEF Types, DeleteRow
<1>2. u \in Tables /\ Tail(job[d].todo) \in Seq(Changes)
  BY <1>1, TodoIsTyped
<1>3. job[d].known \in [Tables -> Nat]
  BY <1>1 DEF JobState
<1>4. known \in [Tables -> Nat] /\ known[u] = 0
      /\ \A t \in Tables : t # u => known[t] = job[d].known[t]
  BY <1>2, <1>3
<1>5. job' = [job EXCEPT ![d].todo = Tail(@), ![d].known = known]
  BY DEF DeleteRow
<1> HIDE DEF known
<1>6. job' = [job EXCEPT ![d] = k]
  BY <1>5 DEF Types, JobState
<1>7. k \in JobState
  BY <1>1, <1>2, <1>4 DEF JobState
<1>8. /\ SameChain(job[d], k)
      /\ k.pc = job[d].pc /\ k.pr = job[d].pr /\ k.todo = Tail(job[d].todo)
      /\ k.run = job[d].run /\ k.valid = job[d].valid /\ k.known = known
  BY <1>1 DEF JobState, SameChain
<1> HIDE DEF k
<1>9. JobMoves(d) /\ job'[d] = k
  BY <1>6, <1>7, OneJob
<1>10. QED
  BY <1>1, <1>4, <1>8, <1>9

\* A handler gives up: the unique (kind, name), or a process that dies.
GivesUp(j, k) ==
  /\ SameTask(j, k) /\ SameChain(j, k) /\ k.pc = "failed" /\ k.run = "failed"

\* A handler has applied the first of its changes, as the row with an id.
Applies(j, k, id) ==
  /\ SameChain(j, k) /\ k.pc = "apply" /\ k.pr = j.pr /\ k.todo = Tail(j.todo)
  /\ k.run = j.run /\ k.known = j.known
  /\ k.valid = IF Head(j.todo).content = Bad THEN j.valid
               ELSE Append(j.valid, [table |-> Head(j.todo).table, id |-> id])

LEMMA GivesUpTyped ==
  ASSUME NEW j \in JobState
  PROVE  LET k == [j EXCEPT !.pc = "failed", !.run = "failed"]
         IN k \in JobState /\ GivesUp(j, k)
BY DEF JobState, GivesUp, SameTask, SameChain

LEMMA GivesUpDoes ==
  ASSUME Types, NEW d \in Deliveries,
         job' = [job EXCEPT ![d].pc = "failed", ![d].run = "failed"]
  PROVE  JobMoves(d) /\ GivesUp(job[d], job'[d])
<1> DEFINE k == [job[d] EXCEPT !.pc = "failed", !.run = "failed"]
<1>1. job[d] \in JobState
  BY DEF Types
<1>2. job' = [job EXCEPT ![d] = k]
  BY <1>1 DEF Types, JobState
<1>3. k \in JobState /\ GivesUp(job[d], k)
  BY <1>1, GivesUpTyped
<1> HIDE DEF k
<1>4. JobMoves(d) /\ job'[d] = k
  BY <1>2, <1>3, OneJob
<1>5. QED
  BY <1>3, <1>4

LEMMA AppliesTyped ==
  ASSUME NEW j \in JobState, j.pc = "apply", j.todo # <<>>, NEW id \in Nat
  PROVE  LET c == Head(j.todo)
             k == [j EXCEPT !.todo = Tail(@),
                            !.valid = IF c.content = Bad THEN @
                                      ELSE Append(@, [table |-> c.table, id |-> id])]
         IN k \in JobState /\ Applies(j, k, id)
<1>1. /\ Tail(j.todo) \in Seq(Changes) /\ Head(j.todo).table \in Tables
      /\ j.valid \in Seq(Targets)
  BY TodoIsTyped DEF JobState
<1>2. [table |-> Head(j.todo).table, id |-> id] \in Targets
  BY <1>1 DEF Targets
<1>3. Append(j.valid, [table |-> Head(j.todo).table, id |-> id]) \in Seq(Targets)
  BY <1>1, <1>2, AppendProperties
<1> DEFINE valid == IF Head(j.todo).content = Bad THEN j.valid
                    ELSE Append(j.valid, [table |-> Head(j.todo).table, id |-> id])
<1>4. valid \in Seq(Targets)
  BY <1>1, <1>3
<1>5. [j EXCEPT !.todo = Tail(j.todo), !.valid = valid] \in JobState
      /\ Applies(j, [j EXCEPT !.todo = Tail(j.todo), !.valid = valid], id)
  <2> HIDE DEF valid
  <2>1. [j EXCEPT !.todo = Tail(j.todo), !.valid = valid] \in JobState
    BY <1>1, <1>4 DEF JobState
  <2>2. LET k == [j EXCEPT !.todo = Tail(j.todo), !.valid = valid]
        IN /\ SameChain(j, k) /\ k.pc = j.pc /\ k.pr = j.pr /\ k.todo = Tail(j.todo)
           /\ k.run = j.run /\ k.known = j.known /\ k.valid = valid
    BY DEF JobState, SameChain
  <2>3. QED
    BY <2>1, <2>2 DEF Applies, valid
<1>6. QED
  BY <1>5

UpsertUpdates(d) ==
  LET c == Head(job[d].todo)
      id == job[d].known[c.table]
  IN /\ id # 0 /\ UNCHANGED nextId
     /\ row' = IF Exists(id)
                 THEN [row EXCEPT ![Named(id)] = Updated(@, c.content, job[d].pr)]
                 ELSE row
     /\ JobMoves(d) /\ Applies(job[d], job'[d], id)

UpsertInserts(d) ==
  LET c == Head(job[d].todo)
  IN /\ job[d].known[c.table] = 0 /\ row[c.table] = Null
     /\ Insert(c.table, c.content, StatusOf(c.content), job[d].pr)
     /\ JobMoves(d) /\ Applies(job[d], job'[d], nextId)

UpsertFails(d) ==
  /\ UNCHANGED <<row, nextId>>
  /\ JobMoves(d) /\ GivesUp(job[d], job'[d])

LEMMA UpsertDoes ==
  ASSUME Types, NEW d \in Deliveries, Upsert(d)
  PROVE  /\ job[d].pc = "apply" /\ job[d].todo # <<>>
         /\ Head(job[d].todo).content \in Contents
         /\ UpsertUpdates(d) \/ UpsertInserts(d) \/ UpsertFails(d)
<1> DEFINE c == Head(job[d].todo)
           id == job[d].known[c.table]
           k(i) == [job[d] EXCEPT !.todo = Tail(@),
                          !.valid = IF c.content = Bad THEN @
                                    ELSE Append(@, [table |-> c.table, id |-> i])]
<1>1. job[d] \in JobState /\ job[d].pc = "apply" /\ job[d].todo # <<>>
  BY DEF Types, Upsert
<1>2. c.table \in Tables /\ c.content \in Contents
  BY <1>1, TodoIsTyped DEF Upsert, Files
<1>3. id \in Nat /\ nextId \in Nat
  BY <1>1, <1>2 DEF JobState, Types
<1>4. \A i \in Nat : k(i) \in JobState /\ Applies(job[d], k(i), i)
  BY <1>1, AppliesTyped
<1>5. \/ /\ id # 0
         /\ row' = IF Exists(id)
                     THEN [row EXCEPT ![Named(id)] = Updated(@, c.content, job[d].pr)]
                     ELSE row
         /\ job' = [job EXCEPT ![d] = k(id)] /\ UNCHANGED nextId
      \/ /\ id = 0 /\ row[c.table] = Null
         /\ Insert(c.table, c.content, StatusOf(c.content), job[d].pr)
         /\ job' = [job EXCEPT ![d] = k(nextId)]
      \/ /\ id = 0 /\ row[c.table] # Null
         /\ job' = [job EXCEPT ![d].pc = "failed", ![d].run = "failed"]
         /\ UNCHANGED <<row, nextId>>
  BY DEF Upsert
<1>6. \A i \in Nat : job' = [job EXCEPT ![d] = k(i)] =>
        JobMoves(d) /\ Applies(job[d], job'[d], i)
  <2> SUFFICES ASSUME NEW i \in Nat, job' = [job EXCEPT ![d] = k(i)]
               PROVE  JobMoves(d) /\ Applies(job[d], job'[d], i)
    OBVIOUS
  <2>1. k(i) \in JobState /\ Applies(job[d], k(i), i)
    BY <1>4
  <2> HIDE DEF k
  <2>2. JobMoves(d) /\ job'[d] = k(i)
    BY <2>1, OneJob
  <2>3. QED
    BY <2>1, <2>2
<1>7. job' = [job EXCEPT ![d].pc = "failed", ![d].run = "failed"] =>
        JobMoves(d) /\ GivesUp(job[d], job'[d])
  BY GivesUpDoes
<1> HIDE DEF k
<1>8. UpsertUpdates(d) \/ UpsertInserts(d) \/ UpsertFails(d)
  BY <1>3, <1>5, <1>6, <1>7 DEF UpsertUpdates, UpsertInserts, UpsertFails
<1>9. QED
  BY <1>1, <1>2, <1>8

\* A handler leaves out the first of its changes.
LeavesOut(j, k) ==
  /\ SameChain(j, k) /\ k.pc = "apply" /\ k.pr = j.pr /\ k.todo = Tail(j.todo)
  /\ k.run = j.run /\ k.known = j.known /\ k.valid = j.valid

LEMMA FetchFailsDoes ==
  ASSUME Types, NEW d \in Deliveries, FetchFails(d)
  PROVE  /\ job[d].pc = "apply" /\ job[d].todo # <<>> /\ JobMoves(d)
         /\ \/ /\ LeavesOut(job[d], job'[d])
               /\ \/ UNCHANGED <<row, nextId>>
                  \/ /\ row[Head(job[d].todo).table] = Null
                     /\ Insert(Head(job[d].todo).table, Bad, "invalid", job[d].pr)
            \/ UNCHANGED <<row, nextId>> /\ GivesUp(job[d], job'[d])
<1> DEFINE k == [job[d] EXCEPT !.todo = Tail(@)]
<1>1. job[d] \in JobState /\ job[d].pc = "apply" /\ job[d].todo # <<>>
  BY DEF Types, FetchFails
<1>2. Tail(job[d].todo) \in Seq(Changes)
  BY <1>1, TodoIsTyped
<1>3. k \in JobState /\ LeavesOut(job[d], k)
  BY <1>1, <1>2 DEF JobState, LeavesOut, SameChain
<1>4. job' = [job EXCEPT ![d].todo = Tail(@)] => job' = [job EXCEPT ![d] = k]
  BY DEF Types
<1> HIDE DEF k
<1>5. job' = [job EXCEPT ![d].todo = Tail(@)] => JobMoves(d) /\ LeavesOut(job[d], job'[d])
  BY <1>3, <1>4, OneJob
<1>6. job' = [job EXCEPT ![d].pc = "failed", ![d].run = "failed"] =>
        JobMoves(d) /\ GivesUp(job[d], job'[d])
  BY GivesUpDoes
<1>7. \/ UNCHANGED <<row, nextId>> /\ job' = [job EXCEPT ![d].todo = Tail(@)]
      \/ /\ row[Head(job[d].todo).table] = Null
         /\ Insert(Head(job[d].todo).table, Bad, "invalid", job[d].pr)
         /\ job' = [job EXCEPT ![d].todo = Tail(@)]
      \/ UNCHANGED <<row, nextId>> /\ job' = [job EXCEPT ![d].pc = "failed", ![d].run = "failed"]
  BY DEF FetchFails
<1>8. QED
  BY <1>1, <1>5, <1>6, <1>7

LEMMA StepsAre ==
  /\ 1 \in Steps /\ 2 \in Steps
  /\ "failed" \in StepStatuses /\ "succeeded" \in StepStatuses
  /\ "running" \in StepStatuses /\ "skipped" \in StepStatuses
BY DEF Steps, StepStatuses

LEMMA MarkSecond ==
  ASSUME NEW j \in JobState, j.left # <<>>, NEW status \in StepStatuses
  PROVE  Mark(j, 2, status).steps[Head(j.left).table][1] = j.steps[Head(j.left).table][1]
<1> DEFINE k == Mark(j, 2, status)
<1>1. \A o \in Steps : o # 2 => k.steps[Head(j.left).table][o] = j.steps[Head(j.left).table][o]
  BY StepsAre, MarkIs
<1> HIDE DEF k
<1>2. k.steps[Head(j.left).table][1] = j.steps[Head(j.left).table][1]
  BY <1>1, StepsAre
<1>3. QED
  BY <1>2 DEF k

LEMMA StartRunDoes ==
  ASSUME Types, NEW d \in Deliveries, StartRun(d)
  PROVE  /\ JobMoves(d) /\ job[d].pc = "apply" /\ job[d].todo = <<>>
         /\ job'[d].pc = "table" /\ job'[d].run = "running" /\ job'[d].left = job[d].valid
         /\ job'[d].pr = job[d].pr /\ job'[d].todo = job[d].todo /\ job'[d].valid = job[d].valid
         /\ job'[d].known = NoJob.known
<1> DEFINE k == [job[d] EXCEPT !.pc = "table", !.run = "running", !.left = job[d].valid,
                               !.known = NoJob.known]
<1>1. job[d] \in JobState /\ job[d].pc = "apply" /\ job[d].todo = <<>>
  BY DEF Types, StartRun
<1>2. NoJob.known \in [Tables -> Nat]
  BY DEF NoJob
<1>3. k \in JobState
  <2>1. job[d].valid \in Seq(Targets)
    BY <1>1 DEF JobState
  <2>2. \A known \in [Tables -> Nat], left \in Seq(Targets) :
          [job[d] EXCEPT !.pc = "table", !.run = "running", !.left = left,
                         !.known = known] \in JobState
    BY <1>1 DEF JobState
  <2>3. QED
    BY <1>2, <2>1, <2>2
<1>4. job' = [job EXCEPT ![d] = k]
  BY <1>1 DEF StartRun, Types, JobState
<1>5. /\ k.pc = "table" /\ k.run = "running" /\ k.left = job[d].valid
      /\ k.pr = job[d].pr /\ k.todo = job[d].todo /\ k.valid = job[d].valid
      /\ k.known = NoJob.known
  BY <1>1 DEF JobState
<1> HIDE DEF k
<1>6. JobMoves(d) /\ job'[d] = k
  BY <1>3, <1>4, OneJob
<1>7. QED
  BY <1>1, <1>5, <1>6

LEMMA NoSpecDoes ==
  ASSUME Types, NEW d \in Deliveries, NoSpec(d)
  PROVE  /\ JobMoves(d) /\ job[d].pc = "table" /\ job[d].left # <<>>
         /\ ChainEnds(job[d], job'[d])
         /\ job'[d].steps[Target(d)][1] = "failed"
<1> DEFINE j == job[d]
           k1 == Mark(j, 1, "failed")
           k2 == Mark(k1, 2, "failed")
           k == NextTable(k2)
<1>1. j \in JobState /\ j.pc = "table" /\ j.left # <<>> /\ job' = [job EXCEPT ![d] = k]
  BY DEF Types, NoSpec
<1>2. Head(j.left).table \in Tables
  BY <1>1, TargetIsTable
<1>3. /\ k1 \in JobState /\ SameTask(j, k1) /\ k1.left = j.left /\ k1.run = j.run
      /\ k1.steps[Head(j.left).table][1] = "failed"
      /\ \A u \in Tables : u # Head(j.left).table => k1.steps[u] = j.steps[u]
  BY <1>1, StepsAre, MarkIs
<1> HIDE DEF k1
<1>4. /\ k2 \in JobState /\ SameTask(k1, k2) /\ k2.left = k1.left /\ k2.run = k1.run
      /\ k2.steps[Head(k1.left).table][1] = k1.steps[Head(k1.left).table][1]
      /\ \A u \in Tables : u # Head(k1.left).table => k2.steps[u] = k1.steps[u]
  <2>1. /\ k2 \in JobState /\ SameTask(k1, k2) /\ k2.left = k1.left /\ k2.run = k1.run
        /\ \A u \in Tables : u # Head(k1.left).table => k2.steps[u] = k1.steps[u]
    BY <1>1, <1>3, StepsAre, MarkIs
  <2>2. k2.steps[Head(k1.left).table][1] = k1.steps[Head(k1.left).table][1]
    BY <1>1, <1>3, StepsAre, MarkSecond
  <2>3. QED
    BY <2>1, <2>2
<1> HIDE DEF k2
<1>5. /\ k \in JobState /\ SameTask(k2, k)
      /\ k.pc = "table" /\ k.left = Tail(k2.left) /\ k.spec = Null
      /\ k.fetched = Null /\ k.run = k2.run /\ k.steps = k2.steps
  BY <1>1, <1>3, <1>4, NextIs
<1> HIDE DEF k
<1>6. JobMoves(d) /\ job'[d] = k
  BY <1>1, <1>5, OneJob
<1>7. ChainEnds(j, k) /\ k.steps[Head(j.left).table][1] = "failed"
  BY <1>2, <1>3, <1>4, <1>5 DEF ChainEnds, SameTask
<1>8. QED
  BY <1>1, <1>6, <1>7 DEF Target

LEMMA StreamFailsDoes ==
  ASSUME Types, NEW d \in Deliveries, StreamFails(d)
  PROVE  /\ JobMoves(d) /\ job[d].pc = "table" /\ job[d].left # <<>>
         /\ ChainEnds(job[d], job'[d])
         /\ job'[d].steps[Target(d)][1] = "failed"
<1> DEFINE j == job[d]
           k1 == Mark(j, 1, "failed")
           k2 == Mark(k1, 2, "skipped")
           k == NextTable(k2)
<1>1. j \in JobState /\ j.pc = "table" /\ j.left # <<>> /\ job' = [job EXCEPT ![d] = k]
  BY DEF Types, StreamFails
<1>2. Head(j.left).table \in Tables
  BY <1>1, TargetIsTable
<1>3. /\ k1 \in JobState /\ SameTask(j, k1) /\ k1.left = j.left /\ k1.run = j.run
      /\ k1.steps[Head(j.left).table][1] = "failed"
      /\ \A u \in Tables : u # Head(j.left).table => k1.steps[u] = j.steps[u]
  BY <1>1, StepsAre, MarkIs
<1> HIDE DEF k1
<1>4. /\ k2 \in JobState /\ SameTask(k1, k2) /\ k2.left = k1.left /\ k2.run = k1.run
      /\ k2.steps[Head(k1.left).table][1] = k1.steps[Head(k1.left).table][1]
      /\ \A u \in Tables : u # Head(k1.left).table => k2.steps[u] = k1.steps[u]
  <2>1. /\ k2 \in JobState /\ SameTask(k1, k2) /\ k2.left = k1.left /\ k2.run = k1.run
        /\ \A u \in Tables : u # Head(k1.left).table => k2.steps[u] = k1.steps[u]
    BY <1>1, <1>3, StepsAre, MarkIs
  <2>2. k2.steps[Head(k1.left).table][1] = k1.steps[Head(k1.left).table][1]
    BY <1>1, <1>3, StepsAre, MarkSecond
  <2>3. QED
    BY <2>1, <2>2
<1> HIDE DEF k2
<1>5. /\ k \in JobState /\ SameTask(k2, k)
      /\ k.pc = "table" /\ k.left = Tail(k2.left) /\ k.spec = Null
      /\ k.fetched = Null /\ k.run = k2.run /\ k.steps = k2.steps
  BY <1>1, <1>3, <1>4, NextIs
<1> HIDE DEF k
<1>6. JobMoves(d) /\ job'[d] = k
  BY <1>1, <1>5, OneJob
<1>7. ChainEnds(j, k) /\ k.steps[Head(j.left).table][1] = "failed"
  BY <1>2, <1>3, <1>4, <1>5 DEF ChainEnds, SameTask
<1>8. QED
  BY <1>1, <1>6, <1>7 DEF Target

LEMMA CreateStreamDoes ==
  ASSUME Types, NEW d \in Deliveries, CreateStream(d)
  PROVE  LET r == row[Named(Head(job[d].left).id)]
         IN /\ JobMoves(d) /\ job[d].pc = "table" /\ job[d].left # <<>>
            /\ Exists(Head(job[d].left).id) /\ r.spec \in Specs
            /\ streams' = streams \cup {Target(d)} /\ Target(d) \in Tables
            /\ SameTask(job[d], job'[d])
            /\ job'[d].pc = "fetch" /\ job'[d].left = job[d].left /\ job'[d].spec = r.spec
            /\ job'[d].run = job[d].run
            /\ \A u \in Tables : u # Target(d) => job'[d].steps[u] = job[d].steps[u]
<1> DEFINE j == job[d]
           spec == row[Named(Head(j.left).id)].spec
           k1 == Mark(j, 1, "succeeded")
           k2 == Mark(k1, 2, "running")
           k == [k2 EXCEPT !.pc = "fetch", !.spec = spec]
<1>1. /\ j \in JobState /\ j.pc = "table" /\ j.left # <<>> /\ spec \in Specs
      /\ Exists(Head(j.left).id)
      /\ job' = [job EXCEPT ![d] = k] /\ streams' = streams \cup {Head(j.left).table}
  BY DEF Types, CreateStream
<1>2. Head(j.left).table \in Tables
  BY <1>1, TargetIsTable
<1> HIDE DEF spec
<1>3. /\ k1 \in JobState /\ SameTask(j, k1) /\ k1.left = j.left /\ k1.run = j.run
      /\ \A u \in Tables : u # Head(j.left).table => k1.steps[u] = j.steps[u]
  BY <1>1, StepsAre, MarkIs
<1> HIDE DEF k1
<1>4. /\ k2 \in JobState /\ SameTask(k1, k2) /\ k2.left = k1.left /\ k2.run = k1.run
      /\ \A u \in Tables : u # Head(k1.left).table => k2.steps[u] = k1.steps[u]
  BY <1>1, <1>3, StepsAre, MarkIs
<1> HIDE DEF k2
<1>5. /\ k \in JobState /\ SameTask(k2, k) /\ k.pc = "fetch" /\ k.left = k2.left
      /\ k.spec = spec /\ k.run = k2.run /\ k.steps = k2.steps
  BY <1>1, <1>4 DEF JobState, SameTask
<1> HIDE DEF k
<1>6. JobMoves(d) /\ job'[d] = k
  BY <1>1, <1>5, OneJob
<1>7. /\ SameTask(j, k) /\ k.left = j.left /\ k.run = j.run
      /\ \A u \in Tables : u # Head(j.left).table => k.steps[u] = j.steps[u]
  BY <1>2, <1>3, <1>4, <1>5 DEF SameTask
<1>8. QED
  BY <1>1, <1>2, <1>5, <1>6, <1>7 DEF Target, spec

-----------------------------------------------------------------------------
(***************************************************************************)
(* Versions.                                                               *)
(***************************************************************************)

LEMMA BumpedIsNewer ==
  ASSUME NEW v \in Versions, NEW bump \in {"major", "minor", "patch"}
  PROVE  /\ Bumped(v, bump) \in Versions /\ Newer(Bumped(v, bump), v)
         /\ bump = "major" => Bumped(v, bump)[1] > v[1]
<1>1. v[1] \in Nat /\ v[2] \in Nat /\ v[3] \in Nat
  BY DEF Versions
<1>2. CASE bump = "major"
  <2>1. Bumped(v, bump) = <<v[1] + 1, 0, 0>>
    BY <1>2 DEF Bumped
  <2>2. QED
    BY <1>1, <2>1 DEF Versions, Newer
<1>3. CASE bump = "minor"
  <2>1. Bumped(v, bump) = <<v[1], v[2] + 1, 0>>
    BY <1>3 DEF Bumped
  <2>2. \A k \in 1..2-1 : <<v[1], v[2] + 1, 0>>[k] = v[k]
    BY <1>1
  <2>3. QED
    BY <1>1, <1>3, <2>1, <2>2 DEF Versions, Newer
<1>4. CASE bump = "patch"
  <2>1. Bumped(v, bump) = <<v[1], v[2], v[3] + 1>>
    BY <1>4 DEF Bumped
  <2>2. \A k \in 1..3-1 : <<v[1], v[2], v[3] + 1>>[k] = v[k]
    BY <1>1
  <2>3. QED
    BY <1>1, <1>4, <2>1, <2>2 DEF Versions, Newer
<1>5. QED
  BY <1>2, <1>3, <1>4

LEMMA BumpKinds ==
  ASSUME NEW prev, NEW next
  PROVE  DiffBump(prev, next) \in {"major", "minor", "patch"}
BY DEF DiffBump

LEMMA StateIsTyped ==
  ASSUME Types, LatestIsLast, NEW t \in Tables
  PROVE  /\ StateOf(t) = Null <=> latest[t] = 0
         /\ latest[t] # 0 =>
              /\ latest[t] \in DOMAIN npm[t]
              /\ StateOf(t) = npm[t][latest[t]] /\ StateOf(t) \in Publications
<1>1. npm[t] \in Seq(Publications) /\ latest[t] \in Nat /\ latest[t] = Len(npm[t])
  BY DEF Types, LatestIsLast
<1>2. latest[t] # 0 => latest[t] \in 1..Len(npm[t])
  BY <1>1
<1>3. latest[t] # 0 => npm[t][latest[t]] \in Publications
  BY <1>1, <1>2, ElementOfSeq
<1>4. Null \notin Publications
  BY MergeAssumption
<1>5. DOMAIN npm[t] = 1..Len(npm[t])
  BY <1>1, LenProperties
<1>6. QED
  BY <1>2, <1>3, <1>4, <1>5 DEF StateOf

LEMMA DecideIsTyped ==
  ASSUME NEW state \in Publications \cup {Null}, NEW spec
  PROVE  /\ Decide(state, spec) \in Versions \cup {Null}
         /\ state = Null => Decide(state, spec) # Null
<1>1. Null \notin Versions
  BY MergeAssumption
<1>2. <<1, 0, 0>> \in Versions
  BY DEF Versions
<1>3. CASE state = Null
  BY <1>1, <1>2, <1>3 DEF Decide
<1>4. CASE state # Null
  <2>1. state.version \in Versions
    BY <1>4 DEF Publications
  <2>2. Bumped(state.version, DiffBump(state.spec, spec)) \in Versions
    BY <2>1, BumpKinds, BumpedIsNewer
  <2>3. QED
    BY <1>4, <2>2 DEF Decide
<1>5. QED
  BY <1>3, <1>4

LEMMA FetchPublishedDoes ==
  ASSUME Types, LatestIsLast, NEW d \in Deliveries, FetchPublished(d),
         job[d].left # <<>>
  PROVE  LET v == Decide(StateOf(Target(d)), job[d].spec)
         IN /\ JobMoves(d) /\ job[d].pc = "fetch"
            /\ \/ v = Null /\ latest[Target(d)] # 0 /\ ChainEnds(job[d], job'[d])
               \/ /\ v # Null /\ SameTask(job[d], job'[d])
                  /\ job'[d].pc = "publish" /\ job'[d].fetched = v
                  /\ job'[d].left = job[d].left /\ job'[d].spec = job[d].spec
                  /\ job'[d].run = job[d].run /\ job'[d].steps = job[d].steps
<1> DEFINE j == job[d]
           t == Target(d)
           v == Decide(StateOf(t), j.spec)
           k1 == NextTable(Mark(j, 2, "succeeded"))
           k2 == [j EXCEPT !.pc = "publish", !.fetched = v]
<1>1. j \in JobState /\ j.pc = "fetch"
      /\ job' = [job EXCEPT ![d] = IF v = Null THEN k1 ELSE k2]
  BY DEF Types, FetchPublished, StateOf, Target
<1>2. t \in Tables
  BY <1>1, TargetIsTable DEF Target
<1>3. StateOf(t) \in Publications \cup {Null} /\ (StateOf(t) = Null <=> latest[t] = 0)
  BY <1>2, StateIsTyped
<1>4. v \in Versions \cup {Null} /\ (StateOf(t) = Null => v # Null)
  BY <1>3, DecideIsTyped
<1>5. k1 \in JobState /\ ChainEnds(j, k1)
  <2> DEFINE m == Mark(j, 2, "succeeded")
  <2>1. /\ m \in JobState /\ SameTask(j, m) /\ m.left = j.left /\ m.run = j.run
        /\ \A u \in Tables : u # Head(j.left).table => m.steps[u] = j.steps[u]
    BY <1>1, StepsAre, MarkIs
  <2> HIDE DEF m
  <2>2. LET k == NextTable(m)
        IN /\ k \in JobState /\ SameTask(m, k)
           /\ k.pc = "table" /\ k.left = Tail(m.left) /\ k.spec = Null
           /\ k.fetched = Null /\ k.run = m.run /\ k.steps = m.steps
    BY <2>1, NextIs
  <2>3. QED
    BY <2>1, <2>2 DEF ChainEnds, SameTask, m
<1> HIDE DEF v
<1>6. /\ k2 \in JobState /\ SameTask(j, k2) /\ k2.pc = "publish" /\ k2.fetched = v
      /\ k2.left = j.left /\ k2.spec = j.spec /\ k2.run = j.run /\ k2.steps = j.steps
  BY <1>1, <1>4 DEF JobState, SameTask
<1> HIDE DEF k1, k2
<1>7. CASE v = Null
  <2>1. JobMoves(d) /\ job'[d] = k1
    BY <1>1, <1>5, <1>7, OneJob
  <2>2. QED
    BY <1>1, <1>3, <1>4, <1>5, <1>7, <2>1 DEF v
<1>8. CASE v # Null
  <2>1. JobMoves(d) /\ job'[d] = k2
    BY <1>1, <1>6, <1>8, OneJob
  <2>2. QED
    BY <1>1, <1>6, <1>8, <2>1 DEF v
<1>9. QED
  BY <1>7, <1>8

LEMMA PublishDoes ==
  ASSUME Types, NEW d \in Deliveries, Publish(d)
  PROVE  /\ JobMoves(d) /\ job[d].pc = "publish"
         /\ SameTask(job[d], job'[d]) /\ SameChain(job[d], job'[d])
         /\ job'[d].pc = "marking" /\ job'[d].run = job[d].run
<1> DEFINE k == [job[d] EXCEPT !.pc = "marking"]
<1>1. job[d] \in JobState /\ job[d].pc = "publish" /\ job' = [job EXCEPT ![d] = k]
  BY DEF Types, Publish
<1>2. /\ k \in JobState /\ SameTask(job[d], k) /\ SameChain(job[d], k)
      /\ k.pc = "marking" /\ k.run = job[d].run
  BY <1>1 DEF JobState, SameTask, SameChain
<1> HIDE DEF k
<1>3. JobMoves(d) /\ job'[d] = k
  BY <1>1, <1>2, OneJob
<1>4. QED
  BY <1>1, <1>2, <1>3

LEMMA MarkPublishedDoes ==
  ASSUME Types, NEW d \in Deliveries, MarkPublished(d), job[d].left # <<>>
  PROVE  /\ JobMoves(d) /\ job[d].pc = "marking" /\ ChainEnds(job[d], job'[d])
<1> DEFINE j == job[d]
           m == Mark(j, 2, "succeeded")
           k == NextTable(m)
<1>1. j \in JobState /\ j.pc = "marking" /\ job' = [job EXCEPT ![d] = k]
  BY DEF Types, MarkPublished
<1>2. /\ m \in JobState /\ SameTask(j, m) /\ m.left = j.left /\ m.run = j.run
      /\ \A u \in Tables : u # Head(j.left).table => m.steps[u] = j.steps[u]
  BY <1>1, StepsAre, MarkIs
<1> HIDE DEF m
<1>3. /\ k \in JobState /\ SameTask(m, k)
      /\ k.pc = "table" /\ k.left = Tail(m.left) /\ k.spec = Null
      /\ k.fetched = Null /\ k.run = m.run /\ k.steps = m.steps
  BY <1>1, <1>2, NextIs
<1> HIDE DEF k
<1>4. JobMoves(d) /\ job'[d] = k
  BY <1>1, <1>3, OneJob
<1>5. ChainEnds(j, k)
  BY <1>2, <1>3 DEF ChainEnds, SameTask
<1>6. QED
  BY <1>1, <1>4, <1>5

LEMMA FinishRunDoes ==
  ASSUME Types, NEW d \in Deliveries, FinishRun(d)
  PROVE  /\ JobMoves(d) /\ job[d].pc = "table" /\ job[d].left = <<>>
         /\ SameTask(job[d], job'[d]) /\ SameChain(job[d], job'[d])
         /\ job'[d].pc = "done" /\ job'[d].run = RollUp(job[d])
<1> DEFINE k == [job[d] EXCEPT !.pc = "done", !.run = RollUp(job[d])]
<1>1. job[d] \in JobState /\ job[d].pc = "table" /\ job[d].left = <<>>
  BY DEF Types, FinishRun
<1>2. RollUp(job[d]) \in {"succeeded", "failed"}
  BY DEF RollUp
<1>3. job' = [job EXCEPT ![d] = k]
  BY <1>1 DEF Types, JobState, FinishRun
<1>4. /\ k \in JobState /\ SameTask(job[d], k) /\ SameChain(job[d], k)
      /\ k.pc = "done" /\ k.run = RollUp(job[d])
  BY <1>1, <1>2 DEF JobState, SameTask, SameChain
<1> HIDE DEF k
<1>5. JobMoves(d) /\ job'[d] = k
  BY <1>3, <1>4, OneJob
<1>6. QED
  BY <1>1, <1>4, <1>5

LEMMA CrashDoes ==
  ASSUME Types, NEW d \in Deliveries, Crash(d)
  PROVE  /\ JobMoves(d) /\ d \in Working
         /\ SameTask(job[d], job'[d]) /\ job'[d].run = job[d].run
         /\ IF job[d].run = "none"
              THEN job'[d].pc = "failed" /\ SameChain(job[d], job'[d])
              ELSE job'[d].pc = "table" /\ job'[d].left = job[d].valid
                   /\ job'[d].steps = job[d].steps
<1> DEFINE j == job[d]
           k1 == [j EXCEPT !.pc = "failed"]
           k2 == [j EXCEPT !.pc = "table", !.left = j.valid, !.spec = Null, !.fetched = Null]
<1>1. /\ j \in JobState /\ d \in Working
      /\ job' = [job EXCEPT ![d] = IF j.run = "none" THEN k1 ELSE k2]
  BY DEF Types, Crash
<1>2. /\ k1 \in JobState /\ SameTask(j, k1) /\ k1.run = j.run /\ k1.pc = "failed"
      /\ SameChain(j, k1)
  BY <1>1 DEF JobState, SameTask, SameChain
<1>3. /\ k2 \in JobState /\ SameTask(j, k2) /\ k2.run = j.run /\ k2.pc = "table"
      /\ k2.left = j.valid /\ k2.steps = j.steps
  BY <1>1 DEF JobState, SameTask
<1> HIDE DEF k1, k2
<1>4. CASE j.run = "none"
  <2>1. JobMoves(d) /\ job'[d] = k1
    BY <1>1, <1>2, <1>4, OneJob
  <2>2. QED
    BY <1>1, <1>2, <1>4, <2>1
<1>5. CASE j.run # "none"
  <2>1. JobMoves(d) /\ job'[d] = k2
    BY <1>1, <1>3, <1>5, OneJob
  <2>2. QED
    BY <1>1, <1>3, <1>5, <2>1
<1>6. QED
  BY <1>4, <1>5

-----------------------------------------------------------------------------
(***************************************************************************)
(* What each step does to the rows.                                        *)
(***************************************************************************)

Inserts(t) ==
  /\ nextId' = nextId + 1 /\ row'[t] \in RowState /\ row'[t].id = nextId
  /\ row[t] = Null /\ \A u \in Tables : u # t => row'[u] = row[u]

KeepsIds ==
  /\ nextId' = nextId
  /\ \A u \in Tables : row'[u] # Null => row[u] # Null /\ row'[u].id = row[u].id

RowsMove ==
  /\ row' \in [Tables -> RowState \cup {Null}]
  /\ KeepsIds \/ \E t \in Tables : Inserts(t)

LEMMA NullIsNoRow == Null \notin RowState
BY MergeAssumption

LEMMA RowsStay ==
  ASSUME Types, UNCHANGED <<row, nextId>>
  PROVE  RowsMove
BY DEF Types, RowsMove, KeepsIds

LEMMA NamedIs ==
  ASSUME NEW id, Exists(id)
  PROVE  Named(id) \in Tables /\ row[Named(id)] # Null /\ row[Named(id)].id = id
BY DEF Named, Exists

LEMMA InsertRow ==
  ASSUME Types, NEW t \in Tables, row[t] = Null, NEW spec \in Contents,
         NEW status \in Statuses, NEW p \in 0..MaxPRs, Insert(t, spec, status, p)
  PROVE  RowsMove
<1>1. [id |-> nextId, spec |-> spec, status |-> status, pr |-> p] \in RowState
  BY DEF Types, RowState
<1>2. row' \in [Tables -> RowState \cup {Null}] /\ nextId' = nextId + 1
      /\ row'[t] = [id |-> nextId, spec |-> spec, status |-> status, pr |-> p]
      /\ \A u \in Tables : u # t => row'[u] = row[u]
  BY <1>1 DEF Types, Insert
<1>3. Inserts(t)
  BY <1>1, <1>2 DEF Inserts
<1>4. QED
  BY <1>2, <1>3 DEF RowsMove

\* One row becomes another one with the same id.
LEMMA ChangeRow ==
  ASSUME Types, NEW t \in Tables, row[t] # Null, NEW r \in RowState,
         r.id = row[t].id, row' = [row EXCEPT ![t] = r], nextId' = nextId
  PROVE  RowsMove
BY DEF Types, RowsMove, KeepsIds

LEMMA DropRow ==
  ASSUME Types, NEW t \in Tables, row' = [row EXCEPT ![t] = Null], nextId' = nextId
  PROVE  RowsMove
BY DEF Types, RowsMove, KeepsIds

LEMMA UpdatedIs ==
  ASSUME NEW r \in RowState, NEW content \in Contents, NEW p \in 0..MaxPRs
  PROVE  LET k == Updated(r, content, p)
         IN /\ k \in RowState /\ k.id = r.id /\ k.spec = content
            /\ k.status = StatusOf(content) /\ k.pr = p
BY DEF Updated, RowState, StatusOf, Statuses

LEMMA UpsertRows ==
  ASSUME TypeOK, NEW d \in Deliveries, job[d].pr \in 0..MaxPRs, Upsert(d)
  PROVE  RowsMove
<1> DEFINE c == Head(job[d].todo)
           id == job[d].known[c.table]
<1>1. /\ job[d] \in JobState /\ job[d].todo # <<>> /\ c.content \in Contents
      /\ UpsertUpdates(d) \/ UpsertInserts(d) \/ UpsertFails(d)
  BY UpsertDoes DEF TypeOK, Types
<1>2. c.table \in Tables
  BY <1>1, TodoIsTyped
<1>3. CASE UpsertUpdates(d)
  <2>1. CASE Exists(id)
    <3> DEFINE r == Updated(row[Named(id)], c.content, job[d].pr)
    <3>1. Named(id) \in Tables /\ row[Named(id)] # Null /\ row[Named(id)] \in RowState
      BY <2>1, NamedIs DEF TypeOK, Types
    <3>2. r \in RowState /\ r.id = row[Named(id)].id
      BY <1>1, <3>1, UpdatedIs
    <3>3. row' = [row EXCEPT ![Named(id)] = r] /\ nextId' = nextId
      BY <1>3, <2>1 DEF UpsertUpdates
    <3> HIDE DEF r
    <3>4. QED
      BY <3>1, <3>2, <3>3, ChangeRow DEF TypeOK
  <2>2. CASE ~Exists(id)
    BY <1>3, <2>2, RowsStay DEF UpsertUpdates, TypeOK
  <2>3. QED
    BY <2>1, <2>2
<1>4. CASE UpsertInserts(d)
  <2>1. StatusOf(c.content) \in Statuses
    BY DEF StatusOf, Statuses
  <2>2. QED
    BY <1>1, <1>2, <1>4, <2>1, InsertRow DEF UpsertInserts, TypeOK
<1>5. CASE UpsertFails(d)
  BY <1>5, RowsStay DEF UpsertFails, TypeOK
<1>6. QED
  BY <1>1, <1>3, <1>4, <1>5

LEMMA FetchFailsRows ==
  ASSUME TypeOK, NEW d \in Deliveries, job[d].pr \in 0..MaxPRs, FetchFails(d)
  PROVE  RowsMove
<1> DEFINE t == Head(job[d].todo).table
<1>1. \/ UNCHANGED <<row, nextId>>
      \/ row[t] = Null /\ Insert(t, Bad, "invalid", job[d].pr)
  BY FetchFailsDoes DEF TypeOK
<1>2. t \in Tables
  BY FetchFailsDoes, TodoIsTyped DEF TypeOK, Types
<1>3. Bad \in Contents /\ "invalid" \in Statuses
  BY DEF Contents, Statuses
<1>4. QED
  BY <1>1, <1>2, <1>3, InsertRow, RowsStay DEF TypeOK

LEMMA DeleteRows ==
  ASSUME TypeOK, NEW d \in Deliveries, DeleteRow(d)
  PROVE  RowsMove
<1> DEFINE id == job[d].known[Head(job[d].todo).table]
<1>1. /\ nextId' = nextId
      /\ row' = IF id # 0 /\ Exists(id) THEN [row EXCEPT ![Named(id)] = Null] ELSE row
  BY DEF DeleteRow
<1>2. CASE id # 0 /\ Exists(id)
  BY <1>1, <1>2, NamedIs, DropRow DEF TypeOK
<1>3. CASE ~(id # 0 /\ Exists(id))
  BY <1>1, <1>3, RowsStay DEF TypeOK
<1>4. QED
  BY <1>2, <1>3

LEMMA SaveDraftRows ==
  ASSUME TypeOK, NEW draft \in Drafts, SaveDraft(draft.table, draft.content)
  PROVE  RowsMove
<1> DEFINE t == draft.table
           spec == draft.content
<1>1. t \in Tables /\ spec \in Contents
  BY InputsAssumption
<1>2. CASE row[t] = Null
  <2>1. Insert(t, spec, "draft", 0)
    BY <1>2 DEF SaveDraft
  <2>2. 0 \in 0..MaxPRs /\ "draft" \in Statuses
    BY MergeAssumption DEF Statuses
  <2>3. QED
    BY <1>1, <1>2, <2>1, <2>2, InsertRow DEF TypeOK
<1>3. CASE row[t] # Null
  <2> DEFINE r == [row[t] EXCEPT !.spec = spec]
  <2>1. row' = [row EXCEPT ![t] = r] /\ nextId' = nextId
    BY <1>3 DEF SaveDraft
  <2>2. row[t] \in RowState
    BY <1>1, <1>3 DEF TypeOK, Types
  <2>3. r \in RowState /\ r.id = row[t].id
    BY <1>1, <2>2 DEF RowState
  <2> HIDE DEF r
  <2>4. QED
    BY <1>1, <1>3, <2>1, <2>3, ChangeRow DEF TypeOK
<1>4. QED
  BY <1>2, <1>3

\* The row a tool of the agent marks.
Marked(p, c) ==
  [row[c.table] EXCEPT !.pr = p, !.status = IF c.content = Absent THEN "pending_deletion"
                                            ELSE "pending_review"]

LEMMA MarkPendingDoes ==
  ASSUME TypeOK, PrsLinked, NEW p \in PRs, MarkPending(p)
  PROVE  LET c == pr[p].changes[1]
         IN /\ 1 \in DOMAIN pr[p].changes /\ c \in Changes /\ c.table \in Tables
            /\ pr[p].state # "none" /\ pr[p].told /\ nextId' = nextId
            /\ row[c.table] = Null => row' = row
            /\ row[c.table] # Null =>
                 /\ row' = [row EXCEPT ![c.table] = Marked(p, c)]
                 /\ Marked(p, c) \in RowState /\ Marked(p, c).id = row[c.table].id
                 /\ Marked(p, c).spec = row[c.table].spec /\ Marked(p, c).pr = p
                 /\ Marked(p, c).status = IF c.content = Absent THEN "pending_deletion"
                                          ELSE "pending_review"
<1> DEFINE c == pr[p].changes[1]
<1>1. pr[p].told /\ pr[p].state # "none" /\ pr[p].changes # <<>> /\ nextId' = nextId
  BY DEF MarkPending, PrsLinked
<1>2. pr[p].changes \in Seq(Changes)
  BY DEF TypeOK, Types, PRState
<1>3. 1 \in DOMAIN pr[p].changes
  BY <1>1, <1>2, TailHolds
<1>4. c \in Changes
  BY <1>2, <1>3, ElementOfSeq, LenProperties
<1>5. c.table \in Tables
  BY <1>4 DEF Changes
<1>6. p \in 0..MaxPRs
  BY MergeAssumption DEF PRs
<1>7. row[c.table] = Null => row' = row
  BY DEF MarkPending
<1>8. ASSUME row[c.table] # Null
      PROVE  /\ row' = [row EXCEPT ![c.table] = Marked(p, c)]
             /\ Marked(p, c) \in RowState /\ Marked(p, c).id = row[c.table].id
             /\ Marked(p, c).spec = row[c.table].spec /\ Marked(p, c).pr = p
             /\ Marked(p, c).status = IF c.content = Absent THEN "pending_deletion"
                                      ELSE "pending_review"
  <2> DEFINE status == IF c.content = Absent THEN "pending_deletion" ELSE "pending_review"
             r == [row[c.table] EXCEPT !.pr = p, !.status = status]
  <2>1. row[c.table] \in RowState
    BY <1>5, <1>8 DEF TypeOK, Types
  <2>2. row' = [row EXCEPT ![c.table].pr = p, ![c.table].status = status]
    BY <1>8 DEF MarkPending
  <2>3. status \in Statuses
    BY DEF Statuses
  <2>4. row \in [Tables -> RowState \cup {Null}]
    BY DEF TypeOK, Types
  <2> HIDE DEF status, c
  <2>5. row' = [row EXCEPT ![c.table] = r]
    BY <1>5, <2>1, <2>2, <2>4 DEF RowState
  <2>6. /\ r \in RowState /\ r.id = row[c.table].id
        /\ r.spec = row[c.table].spec /\ r.pr = p /\ r.status = status
    BY <1>6, <2>1, <2>3 DEF RowState
  <2>7. QED
    BY <2>5, <2>6 DEF Marked, status
<1>9. QED
  BY <1>1, <1>3, <1>4, <1>5, <1>7, <1>8

LEMMA MarkPendingRows ==
  ASSUME TypeOK, PrsLinked, NEW p \in PRs, MarkPending(p)
  PROVE  RowsMove
<1> DEFINE c == pr[p].changes[1]
<1>1. CASE row[c.table] = Null
  BY <1>1, MarkPendingDoes, RowsStay DEF TypeOK
<1>2. CASE row[c.table] # Null
  BY <1>2, MarkPendingDoes, ChangeRow DEF TypeOK
<1>3. QED
  BY <1>1, <1>2

\* Ids are given once, so an id stays that of its table.
LEMMA IdsStay ==
  ASSUME TypeOK, RowsMove
  PROVE  /\ IdsUnique' /\ nextId' \in Nat \ {0}
         /\ \A id, t : IdOf(id, t) => IdOf(id, t)'
<1>1. nextId \in Nat \ {0} /\ IdsUnique
      /\ \A t \in Tables : row[t] # Null => row[t].id \in 1..nextId-1
  BY DEF TypeOK, Types, IdsUnique
<1>2. CASE KeepsIds
  <2>1. IdsUnique'
    BY <1>1, <1>2 DEF KeepsIds, IdsUnique
  <2>2. \A id, t : IdOf(id, t) => IdOf(id, t)'
    BY <1>2 DEF KeepsIds, IdOf
  <2>3. QED
    BY <1>1, <1>2, <2>1, <2>2 DEF KeepsIds
<1>3. ASSUME NEW t \in Tables, Inserts(t)
      PROVE  /\ IdsUnique' /\ nextId' \in Nat \ {0}
             /\ \A id, u : IdOf(id, u) => IdOf(id, u)'
  <2>1. nextId' = nextId + 1 /\ row'[t].id = nextId
        /\ \A u \in Tables : u # t => row'[u] = row[u]
    BY <1>3 DEF Inserts
  <2>2. IdsUnique'
    <3> SUFFICES ASSUME NEW u \in Tables, row'[u] # Null
                 PROVE  /\ row'[u].id \in 1..nextId'-1
                        /\ \A v \in Tables \ {u} : row'[v] # Null => row'[v].id # row'[u].id
      BY DEF IdsUnique
    <3>1. row'[u].id \in 1..nextId'-1
      BY <1>1, <2>1
    <3>2. ASSUME NEW v \in Tables \ {u}, row'[v] # Null PROVE row'[v].id # row'[u].id
      <4>1. CASE u = t
        BY <1>1, <2>1, <3>2, <4>1
      <4>2. CASE v = t
        BY <1>1, <2>1, <3>2, <4>2
      <4>3. CASE u # t /\ v # t
        BY <1>1, <2>1, <3>2, <4>3 DEF IdsUnique
      <4>4. QED
        BY <4>1, <4>2, <4>3
    <3>3. QED
      BY <3>1, <3>2
  <2>3. ASSUME NEW id, NEW u, IdOf(id, u) PROVE IdOf(id, u)'
    BY <1>1, <2>1, <2>3 DEF IdOf
  <2>4. QED
    BY <1>1, <2>1, <2>2, <2>3
<1>4. QED
  BY <1>2, <1>3 DEF RowsMove

-----------------------------------------------------------------------------
(***************************************************************************)
(* What each step does to the pull requests and to the packages.           *)
(***************************************************************************)

PrsMove ==
  /\ pr' \in [PRs -> PRState]
  /\ \A p \in PRs : pr[p].state # "none" =>
       /\ pr'[p].state # "none" /\ pr'[p].changes = pr[p].changes /\ pr'[p].tree = pr[p].tree
       /\ pr[p].state = "merged" => pr'[p].state = "merged"

LEMMA PrsStay ==
  ASSUME Types, UNCHANGED pr
  PROVE  PrsMove
BY DEF Types, PrsMove

LEMMA AppliedIs ==
  ASSUME NEW tree \in [Tables -> Files], NEW changes \in Seq(Changes),
         \A i, j \in DOMAIN changes : changes[i].table = changes[j].table => i = j
  PROVE  /\ Applied(tree, changes) \in [Tables -> Files]
         /\ \A i \in DOMAIN changes : Applied(tree, changes)[changes[i].table] = changes[i].content
         /\ \A t \in Tables : (\A i \in DOMAIN changes : changes[i].table # t) =>
              Applied(tree, changes)[t] = tree[t]
<1> DEFINE of(t) == {i \in DOMAIN changes : changes[i].table = t}
           a(t) == IF of(t) = {} THEN tree[t] ELSE changes[CHOOSE i \in of(t) : TRUE].content
<1>1. Applied(tree, changes) = [t \in Tables |-> a(t)]
  BY DEF Applied
<1>2. \A i \in DOMAIN changes : changes[i] \in Changes
  BY ElementOfSeq, LenProperties
<1>3. \A i \in DOMAIN changes : changes[i].table \in Tables /\ changes[i].content \in Files
  BY <1>2 DEF Changes
<1>4. ASSUME NEW t \in Tables
      PROVE  /\ a(t) \in Files
             /\ \A i \in DOMAIN changes : changes[i].table = t => a(t) = changes[i].content
             /\ (\A i \in DOMAIN changes : changes[i].table # t) => a(t) = tree[t]
  <2>1. of(t) # {} => (CHOOSE i \in of(t) : TRUE) \in of(t)
    OBVIOUS
  <2>2. QED
    BY <1>3, <2>1
<1> HIDE DEF a
<1>5. QED
  BY <1>1, <1>3, <1>4

\* A pull request that was none is a branch off main.
LEMMA OpenPRDoes ==
  ASSUME TypeOK, NEW p \in PRs, NEW proposal \in Proposals, OpenPR(p, proposal)
  PROVE  /\ PrsMove
         /\ pr[p].state = "none" /\ \A q \in PRs : q # p => pr'[q] = pr[q]
         /\ pr'[p].state = "open" /\ pr'[p].changes = proposal.changes
         /\ pr'[p].tree = Applied(main, proposal.changes) /\ pr'[p].told = proposal.told
         /\ pr'[p].tree \in [Tables -> Files] /\ pr'[p].changes # <<>>
         /\ \A i, j \in DOMAIN pr'[p].changes :
              pr'[p].changes[i].table = pr'[p].changes[j].table => i = j
         /\ \A i \in DOMAIN pr'[p].changes :
              pr'[p].tree[pr'[p].changes[i].table] = pr'[p].changes[i].content
         /\ \A t \in Tables : (\A i \in DOMAIN pr'[p].changes : pr'[p].changes[i].table # t) =>
              pr'[p].tree[t] = main[t]
<1> DEFINE changes == proposal.changes
           k == [state |-> "open", changes |-> changes, tree |-> Applied(main, changes),
                 told |-> proposal.told]
<1>1. proposal \in [changes : Seq(Changes) \ {<<>>}, told : BOOLEAN]
  BY InputsAssumption
<1>2. changes \in Seq(Changes) /\ changes # <<>> /\ proposal.told \in BOOLEAN
  BY <1>1
<1>3. \A i, j \in DOMAIN changes : changes[i].table = changes[j].table => i = j
  BY InputsAssumption
<1>4. pr[p].state = "none" /\ pr' = [pr EXCEPT ![p] = k]
  BY DEF OpenPR
<1>5. main \in [Tables -> Files] /\ pr \in [PRs -> PRState]
  BY DEF TypeOK, Types
<1>6. /\ Applied(main, changes) \in [Tables -> Files]
      /\ \A i \in DOMAIN changes : Applied(main, changes)[changes[i].table] = changes[i].content
      /\ \A t \in Tables : (\A i \in DOMAIN changes : changes[i].table # t) =>
           Applied(main, changes)[t] = main[t]
  <2> HIDE DEF changes
  <2>1. QED
    BY <1>2, <1>3, <1>5, AppliedIs
<1> HIDE DEF changes
<1>7. /\ k \in PRState /\ k.state = "open" /\ k.changes = changes
      /\ k.tree = Applied(main, changes) /\ k.told = proposal.told
  BY <1>2, <1>6 DEF PRState
<1> HIDE DEF k
<1>8. /\ pr' \in [PRs -> PRState] /\ pr'[p] = k
      /\ \A q \in PRs : q # p => pr'[q] = pr[q]
  BY <1>4, <1>5, <1>7
<1>9. PrsMove
  BY <1>4, <1>8 DEF PrsMove
<1>10. QED
  BY <1>2, <1>3, <1>4, <1>6, <1>7, <1>8, <1>9 DEF changes

\* The state of one pull request, or whether the agent is still at it, changes.
PrBecomes(p, state, told) ==
  /\ PrsMove /\ \A q \in PRs : q # p => pr'[q] = pr[q]
  /\ pr'[p].state = state /\ pr'[p].told = told
  /\ pr'[p].changes = pr[p].changes /\ pr'[p].tree = pr[p].tree

LEMMA OnePR ==
  ASSUME Types, NEW p \in PRs, pr[p].state = "open",
         NEW state \in {"merged", "closed"}, pr' = [pr EXCEPT ![p].state = state]
  PROVE  PrBecomes(p, state, pr[p].told)
<1> DEFINE k == [pr[p] EXCEPT !.state = state]
<1>1. pr[p] \in PRState /\ pr \in [PRs -> PRState] /\ pr' = [pr EXCEPT ![p] = k]
  BY DEF Types
<1>2. /\ k \in PRState /\ k.state = state /\ k.told = pr[p].told
      /\ k.changes = pr[p].changes /\ k.tree = pr[p].tree
  BY <1>1 DEF PRState
<1> HIDE DEF k
<1>3. QED
  BY <1>1, <1>2 DEF PrsMove, PrBecomes

LEMMA MarkPendingPR ==
  ASSUME Types, NEW p \in PRs, MarkPending(p)
  PROVE  PrBecomes(p, pr[p].state, FALSE)
<1> DEFINE k == [pr[p] EXCEPT !.told = FALSE]
<1>1. pr[p] \in PRState /\ pr \in [PRs -> PRState] /\ pr' = [pr EXCEPT ![p] = k]
  BY DEF Types, MarkPending
<1>2. /\ k \in PRState /\ k.state = pr[p].state /\ k.told = FALSE
      /\ k.changes = pr[p].changes /\ k.tree = pr[p].tree
  BY <1>1 DEF PRState
<1> HIDE DEF k
<1>3. QED
  BY <1>1, <1>2 DEF PrsMove, PrBecomes

LEMMA BecomesLinked ==
  ASSUME PrsLinked, NEW p \in PRs, NEW state, NEW told \in BOOLEAN, PrBecomes(p, state, told),
         pr[p].state # "none", state # "none"
  PROVE  PrsLinked'
<1> SUFFICES ASSUME NEW q \in PRs
             PROVE  /\ pr'[q].told => pr'[q].state # "none"
                    /\ pr'[q].state # "none" =>
                         /\ pr'[q].tree \in [Tables -> Files]
                         /\ pr'[q].changes # <<>>
                         /\ \A i, j \in DOMAIN pr'[q].changes :
                              pr'[q].changes[i].table = pr'[q].changes[j].table => i = j
                         /\ \A i \in DOMAIN pr'[q].changes :
                              pr'[q].tree[pr'[q].changes[i].table] = pr'[q].changes[i].content
  BY DEF PrsLinked
<1>1. CASE q = p
  BY <1>1 DEF PrsLinked, PrBecomes
<1>2. CASE q # p
  BY <1>2 DEF PrsLinked, PrBecomes
<1>3. QED
  BY <1>1, <1>2

LEMMA OpenLinked ==
  ASSUME TypeOK, PrsLinked, NEW p \in PRs, NEW proposal \in Proposals, OpenPR(p, proposal)
  PROVE  PrsLinked'
<1> SUFFICES ASSUME NEW q \in PRs
             PROVE  /\ pr'[q].told => pr'[q].state # "none"
                    /\ pr'[q].state # "none" =>
                         /\ pr'[q].tree \in [Tables -> Files]
                         /\ pr'[q].changes # <<>>
                         /\ \A i, j \in DOMAIN pr'[q].changes :
                              pr'[q].changes[i].table = pr'[q].changes[j].table => i = j
                         /\ \A i \in DOMAIN pr'[q].changes :
                              pr'[q].tree[pr'[q].changes[i].table] = pr'[q].changes[i].content
  BY DEF PrsLinked
<1>1. CASE q = p
  BY <1>1, OpenPRDoes
<1>2. CASE q # p
  BY <1>2, OpenPRDoes DEF PrsLinked
<1>3. QED
  BY <1>1, <1>2

PackagesMove ==
  /\ npm' \in [Tables -> Seq(Publications)] /\ latest' \in [Tables -> Nat]
  /\ LatestIsLast'
  /\ \A t \in Tables : latest[t] # 0 => latest'[t] # 0

LEMMA PackagesStay ==
  ASSUME Types, LatestIsLast, UNCHANGED <<npm, latest>>
  PROVE  PackagesMove
BY DEF Types, LatestIsLast, PackagesMove

LEMMA PublishPackages ==
  ASSUME Types, LatestIsLast, NEW d \in Deliveries, Publish(d),
         job[d].left # <<>>, job[d].spec \in Specs, job[d].fetched # Null
  PROVE  /\ PackagesMove /\ latest'[Target(d)] # 0 /\ Target(d) \in Tables
         /\ Taken(d) => UNCHANGED <<npm, latest>>
         /\ ~Taken(d) =>
              /\ npm' = [npm EXCEPT ![Target(d)] =
                           Append(@, [version |-> job[d].fetched, spec |-> job[d].spec])]
              /\ latest' = [latest EXCEPT ![Target(d)] = Len(npm[Target(d)]) + 1]
              /\ npm'[Target(d)][latest'[Target(d)]] =
                   [version |-> job[d].fetched, spec |-> job[d].spec]
<1> DEFINE t == Target(d)
           new == [version |-> job[d].fetched, spec |-> job[d].spec]
<1>1. job[d] \in JobState
  BY DEF Types
<1>2. t \in Tables /\ job[d].fetched \in Versions
  BY <1>1, TargetIsTable DEF JobState, Target
<1>3. new \in Publications
  BY <1>2 DEF Publications
<1>4. npm[t] \in Seq(Publications) /\ npm \in [Tables -> Seq(Publications)]
      /\ latest \in [Tables -> Nat]
  BY <1>2 DEF Types
<1>5. Taken(d) => UNCHANGED <<npm, latest>>
  BY DEF Publish, Taken, Target
<1>6. ~Taken(d) => /\ npm' = [npm EXCEPT ![t] = Append(@, new)]
                   /\ latest' = [latest EXCEPT ![t] = Len(npm[t]) + 1]
  BY DEF Publish, Taken, Target
<1> HIDE DEF new, t
<1>7. CASE Taken(d)
  <2>1. npm[t] # <<>>
    BY <1>7 DEF Taken, t
  <2>2. Len(npm[t]) # 0
    BY <1>4, <2>1, EmptySeq
  <2>3. latest[t] # 0
    BY <1>2, <2>2 DEF LatestIsLast
  <2>4. PackagesMove
    BY <1>5, <1>7, PackagesStay
  <2>5. QED
    BY <1>2, <1>5, <1>7, <2>3, <2>4 DEF t
<1>8. CASE ~Taken(d)
  <2>1. /\ Append(npm[t], new) \in Seq(Publications)
        /\ Len(Append(npm[t], new)) = Len(npm[t]) + 1
        /\ Append(npm[t], new)[Len(npm[t]) + 1] = new
    BY <1>3, <1>4, AppendProperties
  <2>2. Len(npm[t]) \in Nat
    BY <1>4, LenProperties
  <2>3. /\ npm' \in [Tables -> Seq(Publications)] /\ latest' \in [Tables -> Nat]
        /\ npm'[t] = Append(npm[t], new) /\ latest'[t] = Len(npm[t]) + 1
        /\ \A u \in Tables : u # t => npm'[u] = npm[u] /\ latest'[u] = latest[u]
    <3> DEFINE more == Append(npm[t], new)
               last == Len(npm[t]) + 1
    <3>1. npm' = [npm EXCEPT ![t] = more] /\ latest' = [latest EXCEPT ![t] = last]
      BY <1>6, <1>8
    <3>2. more \in Seq(Publications) /\ last \in Nat
      BY <2>1, <2>2
    <3> HIDE DEF more, last
    <3>3. /\ npm' \in [Tables -> Seq(Publications)] /\ latest' \in [Tables -> Nat]
          /\ npm'[t] = more /\ latest'[t] = last
          /\ \A u \in Tables : u # t => npm'[u] = npm[u] /\ latest'[u] = latest[u]
      BY <1>2, <1>4, <3>1, <3>2
    <3>4. QED
      BY <3>3 DEF more, last
  <2>4. LatestIsLast'
    BY <2>1, <2>3 DEF LatestIsLast
  <2>5. latest'[t] # 0 /\ npm'[t][latest'[t]] = new
    BY <2>1, <2>2, <2>3
  <2>7. PackagesMove
    BY <2>3, <2>4, <2>5 DEF PackagesMove
  <2>8. QED
    BY <1>2, <1>6, <1>8, <2>5, <2>7 DEF t, new
<1>9. QED
  BY <1>7, <1>8

-----------------------------------------------------------------------------
(***************************************************************************)
(* The inductive invariant is kept.                                        *)
(***************************************************************************)

VerdictAt(d) ==
  job[d].run = "succeeded" =>
    \A i \in DOMAIN job[d].valid :
      job[d].valid[i].table \in streams /\ latest[job[d].valid[i].table] # 0

JobOK(d) ==
  PhasesLinked(d) /\ ChangesLinked(d) /\ TargetsLinked(d) /\ StepsDone(d) /\ VerdictAt(d)

\* What a step does to all but the jobs.
Moves ==
  /\ RowsMove /\ PrsMove /\ PackagesMove /\ PrsLinked'
  /\ streams \subseteq streams' /\ streams' \subseteq Tables
  /\ main' \in [Tables -> Files] /\ crashes' \in 0..MaxCrashes /\ faults' = faults

LEMMA QuietMoves ==
  ASSUME IInv, UNCHANGED <<main, pr, row, nextId, streams, npm, latest, crashes, faults>>
  PROVE  Moves
<1>1. RowsMove /\ PrsMove /\ PackagesMove
  BY RowsStay, PrsStay, PackagesStay DEF IInv, TypeOK
<1>2. PrsLinked'
  BY DEF IInv, PrsLinked
<1>3. QED
  BY <1>1, <1>2 DEF Moves, IInv, TypeOK, Types

LEMMA JobsAreOK == IInv <=> TypeOK /\ PrsLinked /\ LatestIsLast /\ \A d \in Deliveries : JobOK(d)
BY DEF IInv, JobsLinked, JobOK, VerdictMatchesSteps, VerdictAt

LEMMA JobStays ==
  ASSUME TypeOK, Moves, NEW d \in Deliveries, JobOK(d), job'[d] = job[d]
  PROVE  JobOK(d)'
<1>1. job[d] \in JobState
  BY DEF TypeOK, Types
<1>2. PhasesLinked(d)'
  BY DEF JobOK, PhasesLinked, Moves, Target
<1>3. ChangesLinked(d)'
  <2> SUFFICES ASSUME job[d].pc # "none" PROVE ChangesLinked(d)'
    BY DEF ChangesLinked
  <2>1. job[d].pr \in PRs /\ pr[job[d].pr].state = "merged"
    BY DEF JobOK, ChangesLinked
  <2>2. pr'[job[d].pr].state = "merged" /\ pr'[job[d].pr].changes = pr[job[d].pr].changes
    BY <2>1 DEF Moves, PrsMove
  <2>3. \A i \in DOMAIN job[d].valid : job[d].valid[i].table \in Touched(job[d].pr)'
    <3>1. \A i \in DOMAIN job[d].valid : job[d].valid[i].table \in Touched(job[d].pr)
      BY DEF JobOK, ChangesLinked
    <3>2. Touched(job[d].pr)' = Touched(job[d].pr)
      BY <2>2 DEF Touched, JobOK
    <3>3. QED
      BY <3>1, <3>2
  <2>4. \A i \in DOMAIN job[d].todo :
          \E j \in DOMAIN pr'[job[d].pr].changes : pr'[job[d].pr].changes[j] = job[d].todo[i]
    BY <2>2 DEF JobOK, ChangesLinked
  <2>5. QED
    BY <2>1, <2>2, <2>3, <2>4 DEF JobOK, ChangesLinked
<1>4. TargetsLinked(d)'
  <2>1. \A id, t : IdOf(id, t) => IdOf(id, t)'
    BY IdsStay DEF Moves
  <2>2. QED
    BY <2>1 DEF JobOK, TargetsLinked
<1>5. (job[d].run \in {"running", "succeeded"}) =>
        \A i \in DOMAIN job[d].valid : job[d].valid[i].table \in Tables
  <2>1. job[d].valid \in Seq(Targets)
    BY <1>1 DEF JobState
  <2>2. \A i \in DOMAIN job[d].valid : job[d].valid[i] \in Targets
    BY <2>1, ElementOfSeq, LenProperties
  <2>3. QED
    BY <2>2 DEF Targets
<1>6. job[d].pc = "marking" => Target(d) \in Tables
  BY <1>1, TargetIsTable DEF JobOK, PhasesLinked, Target
<1>7. \A t \in Tables : latest[t] # 0 => latest'[t] # 0
  BY DEF Moves, PackagesMove
<1>8. StepsDone(d)'
  BY <1>5, <1>6, <1>7 DEF JobOK, StepsDone, Moves, Target, InLeft, StepFailed
<1>9. VerdictAt(d)'
  BY <1>5, <1>7 DEF JobOK, VerdictAt, Moves
<1>10. QED
  BY <1>2, <1>3, <1>4, <1>8, <1>9 DEF JobOK

LEMMA Assemble ==
  ASSUME IInv, Moves, job' \in [Deliveries -> JobState],
         \A d \in Deliveries : job'[d] = job[d] \/ JobOK(d)'
  PROVE  IInv'
<1>1. TypeOK /\ \A d \in Deliveries : JobOK(d)
  BY JobsAreOK
<1>2. \A d \in Deliveries : JobOK(d)'
  BY <1>1, JobStays
<1>3. TypeOK'
  BY <1>1, IdsStay DEF TypeOK, Types, Moves, RowsMove, PrsMove, PackagesMove
<1>4. (TypeOK /\ PrsLinked /\ LatestIsLast /\ \A d \in Deliveries : JobOK(d))'
  BY <1>2, <1>3 DEF Moves, PackagesMove
<1>5. (IInv <=> TypeOK /\ PrsLinked /\ LatestIsLast /\ \A d \in Deliveries : JobOK(d))'
  BY DEF IInv, JobsLinked, JobOK, VerdictMatchesSteps, VerdictAt
<1>6. QED
  BY <1>4, <1>5

LEMMA AssembleOne ==
  ASSUME IInv, Moves, NEW d \in Deliveries, JobMoves(d), JobOK(d)'
  PROVE  IInv'
<1>1. \A e \in Deliveries : job'[e] = job[e] \/ JobOK(e)'
  BY DEF JobMoves
<1>2. QED
  BY <1>1, Assemble DEF JobMoves

LEMMA ChangesStay ==
  ASSUME TypeOK, PrsMove, NEW d \in Deliveries, ChangesLinked(d), job[d].pc # "none",
         job'[d].pr = job[d].pr,
         job'[d].todo = job[d].todo \/ (job[d].todo # <<>> /\ job'[d].todo = Tail(job[d].todo)),
         \A i \in DOMAIN job'[d].valid : job'[d].valid[i].table \in Touched(job[d].pr)
  PROVE  ChangesLinked(d)'
<1> DEFINE p == job[d].pr
<1>1. p \in PRs /\ pr[p].state = "merged"
  BY DEF ChangesLinked
<1>2. pr'[p].state = "merged" /\ pr'[p].changes = pr[p].changes
  BY <1>1 DEF PrsMove
<1>3. \A i \in DOMAIN job'[d].todo : \E k \in DOMAIN job[d].todo :
        job'[d].todo[i] = job[d].todo[k]
  <2>1. job[d].todo \in Seq(Changes)
    BY DEF TypeOK, Types, JobState
  <2>2. CASE job'[d].todo = job[d].todo
    BY <2>2
  <2>3. CASE job[d].todo # <<>> /\ job'[d].todo = Tail(job[d].todo)
    <3>1. \A i \in DOMAIN Tail(job[d].todo) : \E k \in DOMAIN job[d].todo :
            Tail(job[d].todo)[i] = job[d].todo[k]
      BY <2>1, <2>3, TailHolds
    <3>2. QED
      BY <2>3, <3>1
  <2>4. QED
    BY <2>2, <2>3
<1>4. \A i, j \in DOMAIN job'[d].todo : job'[d].todo[i].table = job'[d].todo[j].table => i = j
  <2>1. job[d].todo \in Seq(Changes)
    BY DEF TypeOK, Types, JobState
  <2>2. CASE job'[d].todo = job[d].todo
    BY <2>2 DEF ChangesLinked
  <2>3. CASE job[d].todo # <<>> /\ job'[d].todo = Tail(job[d].todo)
    <3> SUFFICES ASSUME NEW i \in DOMAIN Tail(job[d].todo), NEW j \in DOMAIN Tail(job[d].todo),
                        Tail(job[d].todo)[i].table = Tail(job[d].todo)[j].table
                 PROVE  i = j
      BY <2>3
    <3>1. /\ i + 1 \in DOMAIN job[d].todo /\ Tail(job[d].todo)[i] = job[d].todo[i + 1]
          /\ j + 1 \in DOMAIN job[d].todo /\ Tail(job[d].todo)[j] = job[d].todo[j + 1]
      BY <2>1, <2>3, TailHolds
    <3>2. i + 1 = j + 1
      BY <3>1 DEF ChangesLinked
    <3>3. Tail(job[d].todo) \in Seq(Changes)
      BY <2>1, <2>3, HeadTailProperties
    <3>4. i \in Nat /\ j \in Nat
      BY <3>3, LenProperties
    <3>5. QED
      BY <3>2, <3>4
  <2>4. QED
    BY <2>2, <2>3
<1>5. \A i \in DOMAIN job'[d].valid : job'[d].valid[i].table \in Touched(job[d].pr)'
  BY <1>2 DEF Touched
<1>6. \A i \in DOMAIN job'[d].todo :
        \E j \in DOMAIN pr'[p].changes : pr'[p].changes[j] = job'[d].todo[i]
  BY <1>2, <1>3 DEF ChangesLinked
<1>7. QED
  BY <1>1, <1>2, <1>4, <1>5, <1>6 DEF ChangesLinked

LEMMA TargetsStay ==
  ASSUME TypeOK, RowsMove, NEW d \in Deliveries, TargetsLinked(d),
         job'[d].valid = job[d].valid,
         \/ job'[d].left = job[d].left
         \/ job[d].left # <<>> /\ job'[d].left = Tail(job[d].left)
         \/ job'[d].left = job[d].valid,
         \A t \in Tables : job'[d].known[t] \in {0, job[d].known[t]}
  PROVE  TargetsLinked(d)'
<1>1. \A id, t : IdOf(id, t) => IdOf(id, t)'
  BY IdsStay
<1>2. job[d].left \in Seq(Targets)
  BY DEF TypeOK, Types, JobState
<1>3. \A i \in DOMAIN job'[d].left : \E j \in DOMAIN job'[d].valid :
        job'[d].left[i] = job'[d].valid[j]
  <2>1. CASE job'[d].left = job[d].left
    BY <2>1 DEF TargetsLinked
  <2>2. CASE job[d].left # <<>> /\ job'[d].left = Tail(job[d].left)
    <3>1. \A i \in DOMAIN Tail(job[d].left) : \E k \in DOMAIN job[d].left :
            Tail(job[d].left)[i] = job[d].left[k]
      BY <1>2, <2>2, TailHolds
    <3>2. QED
      BY <2>2, <3>1 DEF TargetsLinked
  <2>3. CASE job'[d].left = job[d].valid
    BY <2>3
  <2>4. QED
    BY <2>1, <2>2, <2>3
<1>4. QED
  BY <1>1, <1>3 DEF TargetsLinked

\* What is left is a target that is not the head, or was none.
LEMMA LeftStays ==
  ASSUME TypeOK, NEW d \in Deliveries, job[d].left # <<>>,
         job'[d].left = Tail(job[d].left), NEW t, InLeft(d, t), t # Target(d)
  PROVE  InLeft(d, t)'
<1>1. job[d].left \in Seq(Targets)
  BY DEF TypeOK, Types, JobState
<1>2. PICK i \in DOMAIN job[d].left : job[d].left[i].table = t
  BY DEF InLeft
<1>3. i # 1
  BY <1>1, <1>2, TailHolds DEF Target
<1>4. i - 1 \in DOMAIN Tail(job[d].left) /\ Tail(job[d].left)[i - 1] = job[d].left[i]
  BY <1>1, <1>3, TailHolds
<1>5. QED
  BY <1>2, <1>4 DEF InLeft

\* The chain of a table ends with its package, or with a step that failed.
LEMMA ChainIsOK ==
  ASSUME IInv, Moves, NEW d \in Deliveries, job[d].left # <<>>,
         job[d].pc \in {"table", "fetch", "publish", "marking"},
         ChainEnds(job[d], job'[d]),
         \/ Target(d) \in streams /\ latest[Target(d)] # 0
         \/ job'[d].steps[Target(d)][1] = "failed"
  PROVE  JobOK(d)'
<1>1. JobOK(d) /\ TypeOK
  BY JobsAreOK
<1>2. job[d].run = "running" /\ job[d].todo = <<>> /\ job[d].pc # "none"
  BY <1>1 DEF JobOK, PhasesLinked
<1>3. PhasesLinked(d)'
  BY <1>2 DEF ChainEnds, SameTask, PhasesLinked
<1>4. ChangesLinked(d)'
  BY <1>1, <1>2, ChangesStay DEF ChainEnds, SameTask, Moves, JobOK, ChangesLinked
<1>5. TargetsLinked(d)'
  BY <1>1, TargetsStay DEF ChainEnds, SameTask, Moves, JobOK
<1>6. \A i \in DOMAIN job[d].valid : job[d].valid[i].table \in Tables
  <2>1. job[d].valid \in Seq(Targets)
    BY <1>1 DEF TypeOK, Types, JobState
  <2>2. \A i \in DOMAIN job[d].valid : job[d].valid[i] \in Targets
    BY <2>1, ElementOfSeq, LenProperties
  <2>3. QED
    BY <2>2 DEF Targets
<1>7. ASSUME NEW i \in DOMAIN job[d].valid, NEW t, t = job[d].valid[i].table
      PROVE  InLeft(d, t)' \/ (t \in streams' /\ latest'[t] # 0) \/ StepFailed(d, t)'
  <2>1. t \in Tables
    BY <1>6, <1>7
  <2>2. CASE t = Target(d)
    <3>1. CASE Target(d) \in streams /\ latest[Target(d)] # 0
      BY <2>1, <2>2, <3>1 DEF Moves, PackagesMove
    <3>2. CASE job'[d].steps[Target(d)][1] = "failed"
      BY <2>2, <3>2, StepsAre DEF StepFailed
    <3>3. QED
      BY <3>1, <3>2
  <2>3. CASE t # Target(d)
    <3>1. job'[d].steps[t] = job[d].steps[t] /\ job'[d].left = Tail(job[d].left)
      BY <2>1, <2>3 DEF ChainEnds, Target
    <3>2. InLeft(d, t) \/ (t \in streams /\ latest[t] # 0) \/ StepFailed(d, t)
      BY <1>1, <1>2, <1>7 DEF JobOK, StepsDone
    <3>3. CASE InLeft(d, t)
      BY <1>1, <2>3, <3>1, <3>3, LeftStays
    <3>4. CASE t \in streams /\ latest[t] # 0
      BY <2>1, <3>4 DEF Moves, PackagesMove
    <3>5. CASE StepFailed(d, t)
      BY <3>1, <3>5 DEF StepFailed
    <3>6. QED
      BY <3>2, <3>3, <3>4, <3>5
  <2>4. QED
    BY <2>2, <2>3
<1>8. StepsDone(d)'
  BY <1>7 DEF StepsDone, ChainEnds, SameTask, InLeft, StepFailed
<1>9. VerdictAt(d)'
  BY <1>2 DEF VerdictAt, ChainEnds
<1>10. QED
  BY <1>3, <1>4, <1>5, <1>8, <1>9 DEF JobOK

\* The parts of JobOK that a running job keeps while its chain goes on.
LEMMA RunIsOK ==
  ASSUME IInv, Moves, NEW d \in Deliveries, job[d].left # <<>>,
         job[d].pc \in {"table", "fetch", "publish"}, SameTask(job[d], job'[d]),
         job'[d].pc \in {"fetch", "publish", "marking"},
         job'[d].left = job[d].left, job'[d].spec \in Specs, job'[d].run = job[d].run,
         Target(d) \in streams',
         job'[d].pc = "publish" => job'[d].fetched # Null,
         job'[d].pc = "marking" => latest'[Target(d)] # 0,
         \A u \in Tables : u # Target(d) => job'[d].steps[u] = job[d].steps[u]
  PROVE  JobOK(d)'
<1>1. JobOK(d) /\ TypeOK
  BY JobsAreOK
<1>2. job[d].run = "running" /\ job[d].todo = <<>> /\ job[d].pc # "none"
  BY <1>1 DEF JobOK, PhasesLinked
<1>3. PhasesLinked(d)'
  BY <1>2 DEF SameTask, PhasesLinked, Target
<1>4. ChangesLinked(d)'
  BY <1>1, <1>2, ChangesStay DEF SameTask, Moves, JobOK, ChangesLinked
<1>5. TargetsLinked(d)'
  BY <1>1, TargetsStay DEF SameTask, Moves, JobOK
<1>6. \A i \in DOMAIN job[d].valid : job[d].valid[i].table \in Tables
  <2>1. job[d].valid \in Seq(Targets)
    BY <1>1 DEF TypeOK, Types, JobState
  <2>2. \A i \in DOMAIN job[d].valid : job[d].valid[i] \in Targets
    BY <2>1, ElementOfSeq, LenProperties
  <2>3. QED
    BY <2>2 DEF Targets
<1>7. ASSUME NEW i \in DOMAIN job[d].valid, NEW t, t = job[d].valid[i].table
      PROVE  InLeft(d, t)' \/ (t \in streams' /\ latest'[t] # 0) \/ StepFailed(d, t)'
  <2>1. t \in Tables
    BY <1>6, <1>7
  <2>2. CASE t = Target(d)
    <3>1. 1 \in DOMAIN job[d].left /\ Head(job[d].left) = job[d].left[1]
      <4>1. job[d].left \in Seq(Targets)
        BY <1>1 DEF TypeOK, Types, JobState
      <4>2. QED
        BY <4>1, TailHolds
    <3>2. QED
      BY <2>2, <3>1 DEF InLeft, Target
  <2>3. CASE t # Target(d)
    <3>1. InLeft(d, t) \/ (t \in streams /\ latest[t] # 0) \/ StepFailed(d, t)
      BY <1>1, <1>2, <1>7 DEF JobOK, StepsDone
    <3>2. QED
      BY <2>1, <2>3, <3>1 DEF InLeft, StepFailed, Moves, PackagesMove
  <2>4. QED
    BY <2>2, <2>3
<1>8. StepsDone(d)'
  BY <1>7 DEF StepsDone, SameTask, InLeft, StepFailed, Target
<1>9. VerdictAt(d)'
  BY <1>2 DEF VerdictAt
<1>10. QED
  BY <1>3, <1>4, <1>5, <1>8, <1>9 DEF JobOK

\* A handler that goes on with its changes, or gives up.
LEMMA HandlerIsOK ==
  ASSUME IInv, Moves, NEW d \in Deliveries, job[d].pc \in {"look", "apply"},
         SameChain(job[d], job'[d]), job'[d].pr = job[d].pr,
         job'[d].todo = job[d].todo \/ (job[d].todo # <<>> /\ job'[d].todo = Tail(job[d].todo)),
         job'[d].valid = job[d].valid,
         \A t \in Tables : job'[d].known[t] \in {0, job[d].known[t]},
         \/ job'[d].pc = "apply" /\ job'[d].run = "none"
         \/ job'[d].pc = "failed" /\ job'[d].run \in {"none", "failed"}
  PROVE  JobOK(d)'
<1>1. JobOK(d) /\ TypeOK
  BY JobsAreOK
<1>2. PhasesLinked(d)'
  BY DEF PhasesLinked
<1>3. ChangesLinked(d)'
  BY <1>1, ChangesStay DEF Moves, JobOK, ChangesLinked
<1>4. TargetsLinked(d)'
  BY <1>1, TargetsStay DEF SameChain, Moves, JobOK
<1>5. StepsDone(d)' /\ VerdictAt(d)'
  BY DEF StepsDone, VerdictAt
<1>6. QED
  BY <1>2, <1>3, <1>4, <1>5 DEF JobOK

LEMMA DeliverInv ==
  ASSUME IInv, NEW d \in Deliveries, NEW p \in PRs, Deliver(d, p)
  PROVE  IInv'
<1>1. TypeOK /\ PrsLinked
  BY DEF IInv
<1>2. Moves
  BY QuietMoves DEF Deliver
<1>3. /\ JobMoves(d) /\ job'[d].pc = "look" /\ job'[d].pr = p /\ job'[d].todo = pr[p].changes
      /\ job'[d].run = "none" /\ job'[d].valid = <<>> /\ job'[d].left = <<>>
      /\ job'[d].known = NoJob.known
  BY <1>1, DeliverDoes DEF TypeOK
<1>4. pr[p].state = "merged" /\ UNCHANGED pr
  BY DEF Deliver
<1>5. \A i, j \in DOMAIN pr[p].changes : pr[p].changes[i].table = pr[p].changes[j].table => i = j
  BY <1>1, <1>4 DEF PrsLinked
<1>6. \A t \in Tables : NoJob.known[t] = 0
  BY DEF NoJob
<1>7. DOMAIN <<>> = {}
  OBVIOUS
<1>8. PhasesLinked(d)' /\ ChangesLinked(d)' /\ TargetsLinked(d)'
  BY <1>3, <1>4, <1>5, <1>6, <1>7 DEF PhasesLinked, ChangesLinked, TargetsLinked
<1>9. StepsDone(d)' /\ VerdictAt(d)'
  BY <1>3 DEF StepsDone, VerdictAt
<1>10. QED
  BY <1>2, <1>3, <1>8, <1>9, AssembleOne DEF JobOK

LEMMA LookInv ==
  ASSUME IInv, NEW d \in Deliveries, Look(d)
  PROVE  IInv'
<1>1. JobOK(d) /\ TypeOK
  BY JobsAreOK
<1>2. Moves
  BY QuietMoves DEF Look
<1>3. /\ JobMoves(d) /\ job[d].pc = "look" /\ SameChain(job[d], job'[d])
      /\ job'[d].pc = "apply" /\ job'[d].pr = job[d].pr /\ job'[d].todo = job[d].todo
      /\ job'[d].run = job[d].run /\ job'[d].valid = job[d].valid
      /\ \A t \in Tables : job'[d].known[t] = IF row[t] = Null THEN 0 ELSE row[t].id
  BY <1>1, LookDoes DEF TypeOK
<1>4. \A t \in Tables : job'[d].known[t] # 0 =>
        row[t] # Null /\ job'[d].known[t] = row[t].id
  BY <1>3
<1>5. ASSUME NEW t \in Tables, row[t] # Null PROVE IdOf(row[t].id, t)
  BY <1>1, <1>5 DEF TypeOK, Types, IdsUnique, IdOf
<1>6. UNCHANGED <<row, nextId>>
  BY DEF Look
<1>7. TargetsLinked(d)'
  BY <1>1, <1>3, <1>4, <1>5, <1>6 DEF TargetsLinked, JobOK, SameChain, IdOf
<1>8. ChangesLinked(d)'
  BY <1>1, <1>2, <1>3, ChangesStay DEF Moves, JobOK, ChangesLinked
<1>9. PhasesLinked(d)' /\ StepsDone(d)' /\ VerdictAt(d)'
  BY <1>1, <1>3 DEF PhasesLinked, StepsDone, VerdictAt, JobOK
<1>10. QED
  BY <1>2, <1>3, <1>7, <1>8, <1>9, AssembleOne DEF JobOK

LEMMA DeleteRowInv ==
  ASSUME IInv, NEW d \in Deliveries, DeleteRow(d)
  PROVE  IInv'
<1>1. JobOK(d) /\ TypeOK
  BY JobsAreOK
<1>2. /\ JobMoves(d) /\ job[d].pc = "apply" /\ job[d].todo # <<>>
      /\ SameChain(job[d], job'[d])
      /\ job'[d].pc = "apply" /\ job'[d].pr = job[d].pr /\ job'[d].todo = Tail(job[d].todo)
      /\ job'[d].run = job[d].run /\ job'[d].valid = job[d].valid
      /\ job'[d].known[Head(job[d].todo).table] = 0
      /\ \A t \in Tables : t # Head(job[d].todo).table => job'[d].known[t] = job[d].known[t]
  BY <1>1, DeleteRowDoes DEF TypeOK
<1>3. UNCHANGED <<main, pr, streams, npm, latest, crashes, faults>>
  BY DEF DeleteRow
<1>4. Moves
  <2>1. RowsMove
    BY <1>1, DeleteRows
  <2>2. PrsMove /\ PackagesMove
    BY <1>3, PrsStay, PackagesStay DEF IInv, TypeOK
  <2>3. PrsLinked'
    BY <1>3 DEF IInv, PrsLinked
  <2>4. QED
    BY <1>3, <2>1, <2>2, <2>3 DEF Moves, IInv, TypeOK, Types
<1>5. job[d].run = "none"
  BY <1>1, <1>2 DEF JobOK, PhasesLinked
<1>6. \A t \in Tables : job'[d].known[t] \in {0, job[d].known[t]}
  BY <1>2
<1>7. JobOK(d)'
  BY <1>2, <1>4, <1>5, <1>6, HandlerIsOK
<1>8. QED
  BY <1>2, <1>4, <1>7, AssembleOne

\* The rows change, and nothing else that is shared.
LEMMA RowsOnlyMove ==
  ASSUME IInv, RowsMove, UNCHANGED <<main, pr, streams, npm, latest, crashes, faults>>
  PROVE  Moves
<1>1. PrsMove /\ PackagesMove
  BY PrsStay, PackagesStay DEF IInv, TypeOK
<1>2. PrsLinked'
  BY DEF IInv, PrsLinked
<1>3. QED
  BY <1>1, <1>2 DEF Moves, IInv, TypeOK, Types

LEMMA JobsPr ==
  ASSUME IInv, NEW d \in Deliveries
  PROVE  job[d].pr \in 0..MaxPRs
BY DEF IInv, TypeOK, Types, JobState

LEMMA UpsertInv ==
  ASSUME IInv, NEW d \in Deliveries, Upsert(d)
  PROVE  IInv'
<1> DEFINE c == Head(job[d].todo)
<1>1. JobOK(d) /\ TypeOK
  BY JobsAreOK
<1>2. /\ job[d].pc = "apply" /\ job[d].todo # <<>> /\ c.content \in Contents
      /\ UpsertUpdates(d) \/ UpsertInserts(d) \/ UpsertFails(d)
  BY <1>1, UpsertDoes DEF TypeOK
<1>3. RowsMove
  BY <1>1, UpsertRows, JobsPr
<1>4. Moves
  BY <1>3, RowsOnlyMove DEF Upsert
<1>5. job[d].run = "none"
  BY <1>1, <1>2 DEF JobOK, PhasesLinked
<1>6. ASSUME NEW id \in Nat, NEW u, u = c.table, IdOf(id, u)',
             JobMoves(d), Applies(job[d], job'[d], id)
      PROVE  IInv'
  <2>1. job[d] \in JobState
    BY <1>1 DEF TypeOK, Types
  <2>2. c \in Changes /\ c.table \in Tables /\ 1 \in DOMAIN job[d].todo /\ c = job[d].todo[1]
    <3>1. job[d].todo \in Seq(Changes)
      BY <2>1 DEF JobState
    <3>2. QED
      BY <1>2, <2>1, <3>1, TodoIsTyped, TailHolds
  <2>3. c.table \in Touched(job[d].pr)
    BY <1>1, <1>2, <2>2 DEF JobOK, ChangesLinked, Touched
  <2>4. job[d].valid \in Seq(Targets) /\ [table |-> c.table, id |-> id] \in Targets
    BY <1>6, <2>1, <2>2 DEF JobState, Targets
  <2>5. \A i \in DOMAIN job'[d].valid :
          \/ job'[d].valid[i] = [table |-> c.table, id |-> id]
          \/ i \in DOMAIN job[d].valid /\ job'[d].valid[i] = job[d].valid[i]
    BY <1>6, <2>4, AppendHolds DEF Applies
  <2>6. \A i \in DOMAIN job[d].valid :
          i \in DOMAIN job'[d].valid /\ job'[d].valid[i] = job[d].valid[i]
    BY <1>6, <2>4, AppendHolds DEF Applies
  <2>7. \A i \in DOMAIN job'[d].valid : job'[d].valid[i].table \in Touched(job[d].pr)
    BY <1>1, <1>2, <2>3, <2>5 DEF JobOK, ChangesLinked
  <2>8. ChangesLinked(d)'
    BY <1>1, <1>2, <1>4, <1>6, <2>7, ChangesStay DEF Moves, JobOK, Applies
  <2>9. TargetsLinked(d)'
    <3>1. \A x, t : IdOf(x, t) => IdOf(x, t)'
      BY <1>1, <1>3, IdsStay
    <3>2. \A i \in DOMAIN job[d].valid : IdOf(job[d].valid[i].id, job[d].valid[i].table)
      BY <1>1 DEF JobOK, TargetsLinked
    <3>3. ASSUME NEW i \in DOMAIN job'[d].valid, NEW x, NEW t,
                 x = job'[d].valid[i].id, t = job'[d].valid[i].table
          PROVE  IdOf(x, t)'
      <4>1. CASE job'[d].valid[i] = [table |-> c.table, id |-> id]
        <5>1. x = id /\ t = u
          BY <1>6, <3>3, <4>1
        <5>2. QED
          BY <1>6, <5>1
      <4>2. CASE i \in DOMAIN job[d].valid /\ job'[d].valid[i] = job[d].valid[i]
        <5>1. IdOf(x, t)
          BY <3>2, <3>3, <4>2
        <5>2. QED
          BY <3>1, <5>1
      <4>3. QED
        BY <2>5, <4>1, <4>2
    <3>4. \A t \in Tables : job'[d].known[t] # 0 => \A x : x = job'[d].known[t] => IdOf(x, t)'
      BY <1>1, <1>6, <3>1 DEF JobOK, TargetsLinked, Applies
    <3>5. \A i \in DOMAIN job'[d].left : \E j \in DOMAIN job'[d].valid :
            job'[d].left[i] = job'[d].valid[j]
      BY <1>1, <1>6, <2>6 DEF JobOK, TargetsLinked, Applies, SameChain
    <3>6. QED
      BY <3>3, <3>4, <3>5 DEF TargetsLinked, IdOf
  <2>10. PhasesLinked(d)' /\ StepsDone(d)' /\ VerdictAt(d)'
    BY <1>5, <1>6 DEF PhasesLinked, StepsDone, VerdictAt, Applies
  <2>11. QED
    BY <1>4, <1>6, <2>8, <2>9, <2>10, AssembleOne DEF JobOK
<1>7. c.table \in Tables
  BY <1>2, TodoIsTyped, <1>1 DEF TypeOK, Types
<1>8. CASE UpsertUpdates(d)
  <2>1. JobMoves(d) /\ Applies(job[d], job'[d], job[d].known[c.table])
        /\ job[d].known[c.table] # 0
    BY <1>8 DEF UpsertUpdates
  <2>2. IdOf(job[d].known[c.table], c.table)
    BY <1>1, <1>7, <2>1 DEF JobOK, TargetsLinked
  <2>3. \A x, t : IdOf(x, t) => IdOf(x, t)'
    BY <1>1, <1>3, IdsStay
  <2>4. \A x, t : x = job[d].known[c.table] /\ t = c.table => IdOf(x, t)'
    BY <2>2, <2>3
  <2>5. job[d].known[c.table] \in Nat
    BY <1>1, <1>7 DEF TypeOK, Types, JobState
  <2>6. ASSUME NEW x, NEW t, x = job[d].known[c.table], t = c.table
        PROVE  IInv'
    <3>1. IdOf(x, t)' /\ x \in Nat /\ Applies(job[d], job'[d], x)
      BY <2>1, <2>4, <2>5, <2>6
    <3>2. QED
      BY <1>6, <2>1, <2>6, <3>1
  <2>7. QED
    BY <2>6
<1>9. CASE UpsertInserts(d)
  <2>1. JobMoves(d) /\ Applies(job[d], job'[d], nextId)
        /\ Insert(c.table, c.content, StatusOf(c.content), job[d].pr)
    BY <1>9 DEF UpsertInserts
  <2>2. nextId \in Nat \ {0} /\ IdsUnique
    BY <1>1 DEF TypeOK, Types
  <2>3. /\ nextId' = nextId + 1
        /\ \A u \in Tables : u # c.table => row'[u] = row[u]
    BY <1>7, <2>1 DEF Insert, TypeOK, Types
  <2>4. \A x, t : x = nextId /\ t = c.table => IdOf(x, t)'
    BY <2>2, <2>3 DEF IdOf, IdsUnique
  <2>5. ASSUME NEW x, NEW t, x = nextId, t = c.table
        PROVE  IInv'
    <3>1. IdOf(x, t)' /\ x \in Nat /\ Applies(job[d], job'[d], x)
      BY <2>1, <2>2, <2>4, <2>5
    <3>2. QED
      BY <1>6, <2>1, <2>5, <3>1
  <2>6. QED
    BY <2>5
<1>10. CASE UpsertFails(d)
  <2>1. JobMoves(d) /\ GivesUp(job[d], job'[d])
    BY <1>10 DEF UpsertFails
  <2>2. JobOK(d)'
    BY <1>2, <1>4, <2>1, HandlerIsOK DEF GivesUp, SameTask
  <2>3. QED
    BY <1>4, <2>1, <2>2, AssembleOne
<1>11. QED
  BY <1>2, <1>8, <1>9, <1>10

LEMMA FetchFailsInv ==
  ASSUME IInv, NEW d \in Deliveries, FetchFails(d)
  PROVE  IInv'
<1>1. JobOK(d) /\ TypeOK
  BY JobsAreOK
<1>2. /\ job[d].pc = "apply" /\ job[d].todo # <<>> /\ JobMoves(d)
      /\ LeavesOut(job[d], job'[d]) \/ GivesUp(job[d], job'[d])
  BY <1>1, FetchFailsDoes DEF TypeOK
<1>3. Moves
  BY <1>1, FetchFailsRows, JobsPr, RowsOnlyMove DEF FetchFails
<1>4. job[d].run = "none"
  BY <1>1, <1>2 DEF JobOK, PhasesLinked
<1>5. JobOK(d)'
  BY <1>2, <1>3, <1>4, HandlerIsOK DEF LeavesOut, GivesUp, SameTask
<1>6. QED
  BY <1>2, <1>3, <1>5, AssembleOne

LEMMA StartRunInv ==
  ASSUME IInv, NEW d \in Deliveries, StartRun(d)
  PROVE  IInv'
<1>1. JobOK(d) /\ TypeOK
  BY JobsAreOK
<1>2. /\ JobMoves(d) /\ job[d].pc = "apply" /\ job[d].todo = <<>>
      /\ job'[d].pc = "table" /\ job'[d].run = "running" /\ job'[d].left = job[d].valid
      /\ job'[d].pr = job[d].pr /\ job'[d].todo = job[d].todo /\ job'[d].valid = job[d].valid
      /\ job'[d].known = NoJob.known
  BY <1>1, StartRunDoes DEF TypeOK
<1>3. Moves
  BY QuietMoves DEF StartRun
<1>4. \A t \in Tables : job'[d].known[t] \in {0, job[d].known[t]}
  BY <1>2 DEF NoJob
<1>5. TargetsLinked(d)'
  BY <1>1, <1>2, <1>3, <1>4, TargetsStay DEF JobOK, Moves
<1>6. ChangesLinked(d)'
  BY <1>1, <1>2, <1>3, ChangesStay DEF JobOK, Moves, ChangesLinked
<1>7. StepsDone(d)'
  BY <1>2 DEF StepsDone, InLeft
<1>8. PhasesLinked(d)' /\ VerdictAt(d)'
  BY <1>2 DEF PhasesLinked, VerdictAt
<1>9. QED
  BY <1>2, <1>3, <1>5, <1>6, <1>7, <1>8, AssembleOne DEF JobOK

LEMMA NoSpecInv ==
  ASSUME IInv, NEW d \in Deliveries, NoSpec(d)
  PROVE  IInv'
<1>1. TypeOK
  BY JobsAreOK
<1>2. /\ JobMoves(d) /\ job[d].pc = "table" /\ job[d].left # <<>>
      /\ ChainEnds(job[d], job'[d]) /\ job'[d].steps[Target(d)][1] = "failed"
  BY <1>1, NoSpecDoes DEF TypeOK
<1>3. Moves
  BY QuietMoves DEF NoSpec
<1>4. JobOK(d)'
  BY <1>2, <1>3, ChainIsOK
<1>5. QED
  BY <1>2, <1>3, <1>4, AssembleOne

LEMMA StreamFailsInv ==
  ASSUME IInv, NEW d \in Deliveries, StreamFails(d)
  PROVE  IInv'
<1>1. TypeOK
  BY JobsAreOK
<1>2. /\ JobMoves(d) /\ job[d].pc = "table" /\ job[d].left # <<>>
      /\ ChainEnds(job[d], job'[d]) /\ job'[d].steps[Target(d)][1] = "failed"
  BY <1>1, StreamFailsDoes DEF TypeOK
<1>3. Moves
  BY QuietMoves DEF StreamFails
<1>4. JobOK(d)'
  BY <1>2, <1>3, ChainIsOK
<1>5. QED
  BY <1>2, <1>3, <1>4, AssembleOne

LEMMA CreateStreamInv ==
  ASSUME IInv, NEW d \in Deliveries, CreateStream(d)
  PROVE  IInv'
<1>1. TypeOK
  BY JobsAreOK
<1>2. /\ JobMoves(d) /\ job[d].pc = "table" /\ job[d].left # <<>>
      /\ streams' = streams \cup {Target(d)} /\ Target(d) \in Tables
      /\ SameTask(job[d], job'[d])
      /\ job'[d].pc = "fetch" /\ job'[d].left = job[d].left /\ job'[d].spec \in Specs
      /\ job'[d].run = job[d].run
      /\ \A u \in Tables : u # Target(d) => job'[d].steps[u] = job[d].steps[u]
  BY <1>1, CreateStreamDoes DEF TypeOK
<1>3. UNCHANGED <<main, pr, row, nextId, npm, latest, crashes, faults>>
  BY DEF CreateStream
<1>4. Moves
  <2>1. RowsMove /\ PrsMove /\ PackagesMove
    BY <1>3, RowsStay, PrsStay, PackagesStay DEF IInv, TypeOK
  <2>2. PrsLinked'
    BY <1>3 DEF IInv, PrsLinked
  <2>3. QED
    BY <1>2, <1>3, <2>1, <2>2 DEF Moves, IInv, TypeOK, Types
<1>5. JobOK(d)'
  BY <1>2, <1>4, RunIsOK
<1>6. QED
  BY <1>2, <1>4, <1>5, AssembleOne

\* A job that is past the stream has a table at work.
LEMMA AtWork ==
  ASSUME IInv, NEW d \in Deliveries, job[d].pc \in {"fetch", "publish", "marking"}
  PROVE  /\ job[d].left # <<>> /\ job[d].spec \in Specs /\ Target(d) \in streams
         /\ job[d].run = "running"
         /\ job[d].pc = "publish" => job[d].fetched # Null
         /\ job[d].pc = "marking" => latest[Target(d)] # 0
BY JobsAreOK DEF JobOK, PhasesLinked, StepsDone

LEMMA FetchPublishedInv ==
  ASSUME IInv, NEW d \in Deliveries, FetchPublished(d)
  PROVE  IInv'
<1>1. TypeOK /\ LatestIsLast
  BY JobsAreOK
<1>2. job[d].left # <<>> /\ job[d].spec \in Specs /\ Target(d) \in streams
  BY AtWork DEF FetchPublished
<1>3. Moves
  BY QuietMoves DEF FetchPublished
<1>4. /\ JobMoves(d) /\ job[d].pc = "fetch"
      /\ \/ latest[Target(d)] # 0 /\ ChainEnds(job[d], job'[d])
         \/ /\ SameTask(job[d], job'[d])
            /\ job'[d].pc = "publish" /\ job'[d].fetched # Null
            /\ job'[d].left = job[d].left /\ job'[d].spec = job[d].spec
            /\ job'[d].run = job[d].run /\ job'[d].steps = job[d].steps
  BY <1>1, <1>2, FetchPublishedDoes DEF TypeOK
<1>5. UNCHANGED streams
  BY DEF FetchPublished
<1>6. CASE latest[Target(d)] # 0 /\ ChainEnds(job[d], job'[d])
  BY <1>2, <1>3, <1>4, <1>6, ChainIsOK, AssembleOne
<1>7. CASE job'[d].pc = "publish"
  <2>1. JobOK(d)'
    BY <1>2, <1>3, <1>4, <1>5, <1>7, RunIsOK DEF ChainEnds
  <2>2. QED
    BY <1>3, <1>4, <2>1, AssembleOne
<1>8. QED
  BY <1>4, <1>6, <1>7

LEMMA PublishInv ==
  ASSUME IInv, NEW d \in Deliveries, Publish(d)
  PROVE  IInv'
<1>1. TypeOK /\ LatestIsLast
  BY JobsAreOK
<1>2. /\ job[d].left # <<>> /\ job[d].spec \in Specs /\ Target(d) \in streams
      /\ job[d].fetched # Null
  BY AtWork DEF Publish
<1>3. PackagesMove /\ latest'[Target(d)] # 0 /\ Target(d) \in Tables
  BY <1>1, <1>2, PublishPackages DEF TypeOK
<1>4. UNCHANGED <<main, pr, row, nextId, streams, crashes, faults>>
  BY DEF Publish
<1>5. Moves
  <2>1. RowsMove /\ PrsMove
    BY <1>4, RowsStay, PrsStay DEF IInv, TypeOK
  <2>2. PrsLinked'
    BY <1>4 DEF IInv, PrsLinked
  <2>3. QED
    BY <1>3, <1>4, <2>1, <2>2 DEF Moves, IInv, TypeOK, Types
<1>6. /\ JobMoves(d) /\ job[d].pc = "publish"
      /\ SameTask(job[d], job'[d]) /\ SameChain(job[d], job'[d])
      /\ job'[d].pc = "marking" /\ job'[d].run = job[d].run
  BY <1>1, PublishDoes DEF TypeOK
<1>7. JobOK(d)'
  BY <1>2, <1>3, <1>4, <1>5, <1>6, RunIsOK DEF SameChain
<1>8. QED
  BY <1>5, <1>6, <1>7, AssembleOne

LEMMA MarkPublishedInv ==
  ASSUME IInv, NEW d \in Deliveries, MarkPublished(d)
  PROVE  IInv'
<1>1. TypeOK
  BY JobsAreOK
<1>2. job[d].left # <<>> /\ Target(d) \in streams /\ latest[Target(d)] # 0
  BY AtWork DEF MarkPublished
<1>3. Moves
  BY QuietMoves DEF MarkPublished
<1>4. JobMoves(d) /\ job[d].pc = "marking" /\ ChainEnds(job[d], job'[d])
  BY <1>1, <1>2, MarkPublishedDoes DEF TypeOK
<1>5. JobOK(d)'
  BY <1>2, <1>3, <1>4, ChainIsOK
<1>6. QED
  BY <1>3, <1>4, <1>5, AssembleOne

\* A run is rolled up when no table is left.
LEMMA FinishRunInv ==
  ASSUME IInv, NEW d \in Deliveries, FinishRun(d)
  PROVE  IInv'
<1>1. JobOK(d) /\ TypeOK
  BY JobsAreOK
<1>2. /\ JobMoves(d) /\ job[d].pc = "table" /\ job[d].left = <<>>
      /\ SameTask(job[d], job'[d]) /\ SameChain(job[d], job'[d])
      /\ job'[d].pc = "done" /\ job'[d].run = RollUp(job[d])
  BY <1>1, FinishRunDoes DEF TypeOK
<1>3. UNCHANGED <<streams, latest>>
  BY DEF FinishRun
<1>4. Moves
  BY QuietMoves DEF FinishRun
<1>5. job[d].run = "running" /\ job[d].todo = <<>>
  BY <1>1, <1>2 DEF JobOK, PhasesLinked
<1>6. RollUp(job[d]) \in {"succeeded", "failed"}
  BY DEF RollUp
<1>7. PhasesLinked(d)' /\ StepsDone(d)'
  BY <1>2, <1>5, <1>6 DEF PhasesLinked, SameTask, StepsDone
<1>8. ChangesLinked(d)'
  BY <1>1, <1>2, <1>4, ChangesStay DEF SameTask, Moves, JobOK, ChangesLinked
<1>9. TargetsLinked(d)'
  BY <1>1, <1>2, <1>4, TargetsStay DEF SameTask, SameChain, Moves, JobOK
<1>10. VerdictAt(d)'
  <2> SUFFICES ASSUME RollUp(job[d]) = "succeeded", NEW i \in DOMAIN job[d].valid
               PROVE  /\ job[d].valid[i].table \in streams
                      /\ latest[job[d].valid[i].table] # 0
    BY <1>2, <1>3 DEF VerdictAt, SameTask
  <2> DEFINE t == job[d].valid[i].table
  <2>1. ~StepFailed(d, t)
    BY DEF RollUp, StepFailed
  <2>2. ~InLeft(d, t)
    <3>1. DOMAIN job[d].left = {}
      BY <1>2
    <3>2. QED
      BY <3>1 DEF InLeft
  <2>3. QED
    BY <1>1, <1>5, <2>1, <2>2 DEF JobOK, StepsDone
<1>11. QED
  BY <1>2, <1>4, <1>7, <1>8, <1>9, <1>10, AssembleOne DEF JobOK

LEMMA CrashInv ==
  ASSUME IInv, NEW d \in Deliveries, Crash(d)
  PROVE  IInv'
<1>1. JobOK(d) /\ TypeOK
  BY JobsAreOK
<1>2. /\ JobMoves(d) /\ d \in Working
      /\ SameTask(job[d], job'[d]) /\ job'[d].run = job[d].run
      /\ IF job[d].run = "none"
           THEN job'[d].pc = "failed" /\ SameChain(job[d], job'[d])
           ELSE job'[d].pc = "table" /\ job'[d].left = job[d].valid
                /\ job'[d].steps = job[d].steps
  BY <1>1, CrashDoes DEF TypeOK
<1>3. UNCHANGED <<main, pr, row, nextId, streams, npm, latest, faults>>
      /\ crashes' \in 0..MaxCrashes
  BY <1>1, MergeAssumption DEF Crash, TypeOK, Types
<1>4. Moves
  <2>1. RowsMove /\ PrsMove /\ PackagesMove
    BY <1>3, RowsStay, PrsStay, PackagesStay DEF IInv, TypeOK
  <2>2. PrsLinked'
    BY <1>3 DEF IInv, PrsLinked
  <2>3. QED
    BY <1>3, <2>1, <2>2 DEF Moves, IInv, TypeOK, Types
<1>5. job[d].pc \in {"look", "apply", "table", "fetch", "publish", "marking"}
  BY <1>1, <1>2 DEF Working, TypeOK, Types, JobState
<1>6. CASE job[d].run = "none"
  <2>1. job[d].pc \in {"look", "apply"}
    BY <1>1, <1>5, <1>6 DEF JobOK, PhasesLinked
  <2>2. JobOK(d)'
    BY <1>2, <1>4, <1>6, <2>1, HandlerIsOK DEF SameTask
  <2>3. QED
    BY <1>2, <1>4, <2>2, AssembleOne
<1>7. CASE job[d].run # "none"
  <2>1. job[d].run = "running" /\ job[d].pc \in {"table", "fetch", "publish", "marking"}
        /\ job[d].todo = <<>>
    BY <1>1, <1>5, <1>7 DEF JobOK, PhasesLinked
  <2>2. PhasesLinked(d)' /\ VerdictAt(d)'
    BY <1>2, <1>7, <2>1 DEF PhasesLinked, VerdictAt, SameTask
  <2>3. ChangesLinked(d)'
    BY <1>1, <1>2, <1>4, <2>1, ChangesStay DEF SameTask, Moves, JobOK, ChangesLinked
  <2>4. TargetsLinked(d)'
    BY <1>1, <1>2, <1>4, <1>7, TargetsStay DEF SameTask, Moves, JobOK
  <2>5. StepsDone(d)'
    BY <1>2, <1>7 DEF StepsDone, InLeft, SameTask
  <2>6. QED
    BY <1>2, <1>4, <2>2, <2>3, <2>4, <2>5, AssembleOne DEF JobOK
<1>8. QED
  BY <1>6, <1>7

\* A step of the tools or of GitHub leaves the jobs alone.
LEMMA JobsLeftAlone ==
  ASSUME IInv, Moves, UNCHANGED job
  PROVE  IInv'
<1>1. job' \in [Deliveries -> JobState]
  BY DEF IInv, TypeOK, Types
<1>2. QED
  BY <1>1, Assemble

LEMMA SaveDraftInv ==
  ASSUME IInv, NEW draft \in Drafts, SaveDraft(draft.table, draft.content)
  PROVE  IInv'
<1>1. RowsMove
  BY SaveDraftRows DEF IInv
<1>2. UNCHANGED <<main, pr, job, streams, npm, latest, crashes, faults>>
  BY DEF SaveDraft
<1>3. Moves
  BY <1>1, <1>2, RowsOnlyMove
<1>4. QED
  BY <1>2, <1>3, JobsLeftAlone

LEMMA OpenPRInv ==
  ASSUME IInv, NEW p \in PRs, NEW proposal \in Proposals, OpenPR(p, proposal)
  PROVE  IInv'
<1>1. TypeOK /\ PrsLinked /\ LatestIsLast
  BY DEF IInv
<1>2. UNCHANGED <<main, row, nextId, job, streams, npm, latest, crashes, faults>>
  BY DEF OpenPR
<1>3. PrsMove /\ PrsLinked'
  BY <1>1, OpenPRDoes, OpenLinked
<1>4. RowsMove /\ PackagesMove
  BY <1>1, <1>2, RowsStay, PackagesStay DEF TypeOK
<1>5. Moves
  BY <1>1, <1>2, <1>3, <1>4 DEF Moves, TypeOK, Types
<1>6. QED
  BY <1>2, <1>5, JobsLeftAlone

LEMMA MarkPendingInv ==
  ASSUME IInv, NEW p \in PRs, MarkPending(p)
  PROVE  IInv'
<1>1. TypeOK /\ PrsLinked /\ LatestIsLast
  BY DEF IInv
<1>2. UNCHANGED <<main, nextId, job, streams, npm, latest, crashes, faults>>
  BY DEF MarkPending
<1>3. PrBecomes(p, pr[p].state, FALSE) /\ pr[p].state # "none"
  BY <1>1, MarkPendingPR, MarkPendingDoes DEF TypeOK
<1>4. PrsMove /\ PrsLinked'
  BY <1>1, <1>3, BecomesLinked DEF PrBecomes
<1>5. RowsMove /\ PackagesMove
  BY <1>1, <1>2, MarkPendingRows, PackagesStay DEF TypeOK
<1>6. Moves
  BY <1>1, <1>2, <1>4, <1>5 DEF Moves, TypeOK, Types
<1>7. QED
  BY <1>2, <1>6, JobsLeftAlone

LEMMA MergePRInv ==
  ASSUME IInv, NEW p \in PRs, MergePR(p)
  PROVE  IInv'
<1>1. TypeOK /\ PrsLinked /\ LatestIsLast
  BY DEF IInv
<1>2. UNCHANGED <<row, nextId, job, streams, npm, latest, crashes, faults>>
      /\ main' = pr[p].tree /\ pr[p].state = "open"
  BY DEF MergePR
<1>3. PrBecomes(p, "merged", pr[p].told) /\ pr[p].told \in BOOLEAN
  BY <1>1, <1>2, OnePR DEF MergePR, TypeOK, Types, PRState
<1>4. PrsMove /\ PrsLinked'
  BY <1>1, <1>2, <1>3, BecomesLinked DEF PrBecomes
<1>5. main' \in [Tables -> Files]
  BY <1>1, <1>2 DEF PrsLinked
<1>6. RowsMove /\ PackagesMove
  BY <1>1, <1>2, RowsStay, PackagesStay DEF TypeOK
<1>7. Moves
  BY <1>1, <1>2, <1>4, <1>5, <1>6 DEF Moves, TypeOK, Types
<1>8. QED
  BY <1>2, <1>7, JobsLeftAlone

LEMMA ClosePRInv ==
  ASSUME IInv, NEW p \in PRs, ClosePR(p)
  PROVE  IInv'
<1>1. TypeOK /\ PrsLinked /\ LatestIsLast
  BY DEF IInv
<1>2. UNCHANGED <<main, row, nextId, job, streams, npm, latest, crashes, faults>>
      /\ pr[p].state = "open"
  BY DEF ClosePR
<1>3. PrBecomes(p, "closed", pr[p].told) /\ pr[p].told \in BOOLEAN
  BY <1>1, <1>2, OnePR DEF ClosePR, TypeOK, Types, PRState
<1>4. PrsMove /\ PrsLinked'
  BY <1>1, <1>2, <1>3, BecomesLinked DEF PrBecomes
<1>5. RowsMove /\ PackagesMove
  BY <1>1, <1>2, RowsStay, PackagesStay DEF TypeOK
<1>6. Moves
  BY <1>1, <1>2, <1>4, <1>5 DEF Moves, TypeOK, Types
<1>7. QED
  BY <1>2, <1>6, JobsLeftAlone

LEMMA InitInv == Init => IInv
<1> SUFFICES ASSUME Init PROVE IInv
  OBVIOUS
<1>1. /\ main = [t \in Tables |-> Absent]
      /\ pr = [p \in PRs |-> NoPR]
      /\ row = [t \in Tables |-> Null] /\ nextId = 1
      /\ job = [d \in Deliveries |-> NoJob]
      /\ streams = {} /\ npm = [t \in Tables |-> <<>>] /\ latest = [t \in Tables |-> 0]
      /\ crashes = 0 /\ faults \in FaultSets
  BY DEF Init
<1>2. NoPR \in PRState
  <2>1. <<>> \in Seq(Changes)
    BY EmptySeq
  <2>2. QED
    BY <2>1 DEF NoPR, PRState
<1>3. npm \in [Tables -> Seq(Publications)] /\ Len(<<>>) = 0
  <2>1. <<>> \in Seq(Publications) /\ Len(<<>>) = 0
    BY EmptySeq
  <2>2. QED
    BY <1>1, <2>1
<1>4. Types
  BY <1>1, <1>2, <1>3, NoJobTyped, MergeAssumption DEF Types, Files, Contents
<1>5. IdsUnique
  BY <1>1 DEF IdsUnique
<1>6. PrsLinked
  BY <1>1 DEF PrsLinked, NoPR
<1>7. LatestIsLast
  BY <1>1, <1>3 DEF LatestIsLast
<1>8. ASSUME NEW d \in Deliveries PROVE JobOK(d)
  <2>1. /\ job[d].pc = "none" /\ job[d].run = "none" /\ job[d].todo = <<>>
        /\ job[d].left = <<>> /\ job[d].valid = <<>>
        /\ \A t \in Tables : job[d].known[t] = 0
    BY <1>1 DEF NoJob
  <2>2. DOMAIN <<>> = {}
    OBVIOUS
  <2>3. QED
    BY <2>1, <2>2 DEF JobOK, PhasesLinked, ChangesLinked, TargetsLinked, StepsDone, VerdictAt
<1>9. QED
  BY <1>4, <1>5, <1>6, <1>7, <1>8, JobsAreOK DEF TypeOK

LEMMA StutterInv ==
  ASSUME IInv, UNCHANGED vars
  PROVE  IInv'
<1>1. Moves /\ UNCHANGED job
  BY QuietMoves DEF vars
<1>2. QED
  BY <1>1, JobsLeftAlone

LEMMA NextInv == IInv /\ [Next]_vars => IInv'
<1> SUFFICES ASSUME IInv, [Next]_vars PROVE IInv'
  OBVIOUS
<1>1. CASE \E draft \in Drafts : SaveDraft(draft.table, draft.content)
  BY <1>1, SaveDraftInv
<1>2. ASSUME NEW p \in PRs,
             \/ MarkPending(p) \/ MergePR(p) \/ ClosePR(p)
             \/ \E proposal \in Proposals : OpenPR(p, proposal)
             \/ \E d \in Deliveries : Deliver(d, p)
      PROVE  IInv'
  BY <1>2, MarkPendingInv, MergePRInv, ClosePRInv, OpenPRInv, DeliverInv
<1>3. ASSUME NEW d \in Deliveries, Work(d) \/ Crash(d) PROVE IInv'
  BY <1>3, LookInv, DeleteRowInv, UpsertInv, FetchFailsInv, StartRunInv, NoSpecInv,
     CreateStreamInv, StreamFailsInv, FetchPublishedInv, PublishInv, MarkPublishedInv,
     FinishRunInv, CrashInv DEF Work
<1>4. CASE UNCHANGED vars
  BY <1>4, StutterInv
<1>5. QED
  BY <1>1, <1>2, <1>3, <1>4 DEF Next

\* post-pipeline-pr-merge.ts:62-300, reconcile-definitions.ts:53-210: the rows
\* are rows with ids of their own, a job handles a merge that is there, and
\* whatever it has marked as done is done.
THEOREM MergeInvariance == Spec => []IInv
<1>1. Init => IInv
  BY InitInv
<1>2. IInv /\ [Next]_vars => IInv'
  BY NextInv
<1>3. QED
  BY <1>1, <1>2, PTL DEF Spec

\* post-pipeline-pr-merge.ts:272: under every fault, a run that is shown as
\* succeeded has a stream and a package for each of its tables.
THEOREM VerdictIsEarned == Spec => []VerdictMatchesSteps
<1>1. IInv => VerdictMatchesSteps
  BY DEF IInv
<1>2. QED
  BY <1>1, MergeInvariance, PTL

-----------------------------------------------------------------------------
(***************************************************************************)
(* One merge at a time.                                                    *)
(***************************************************************************)

\* A step of a job leaves the other jobs, its pull request and what it is about.
LEMMA JobSteps ==
  ASSUME IInv, NEW d \in Deliveries, Work(d) \/ Crash(d)
  PROVE  /\ JobMoves(d) /\ d \in Working /\ job'[d].pr = job[d].pr
         /\ UNCHANGED <<main, pr, faults>>
<1>1. Types /\ LatestIsLast
  BY DEF IInv, TypeOK
<1>2. CASE Look(d)
  BY <1>1, <1>2, LookDoes DEF Look, Working
<1>3. CASE DeleteRow(d)
  BY <1>1, <1>3, DeleteRowDoes DEF DeleteRow, Working
<1>4. CASE Upsert(d)
  <2>1. UpsertUpdates(d) \/ UpsertInserts(d) \/ UpsertFails(d)
    BY <1>1, <1>4, UpsertDoes
  <2>2. JobMoves(d) /\ job'[d].pr = job[d].pr
    BY <2>1 DEF UpsertUpdates, UpsertInserts, UpsertFails, Applies, GivesUp, SameTask
  <2>3. QED
    BY <1>4, <2>2 DEF Upsert, Working
<1>5. CASE FetchFails(d)
  BY <1>1, <1>5, FetchFailsDoes DEF FetchFails, Working, LeavesOut, GivesUp, SameTask
<1>6. CASE StartRun(d)
  BY <1>1, <1>6, StartRunDoes DEF StartRun, Working
<1>7. CASE NoSpec(d)
  BY <1>1, <1>7, NoSpecDoes DEF NoSpec, Working, ChainEnds, SameTask
<1>8. CASE CreateStream(d)
  BY <1>1, <1>8, CreateStreamDoes DEF CreateStream, Working, SameTask
<1>9. CASE StreamFails(d)
  BY <1>1, <1>9, StreamFailsDoes DEF StreamFails, Working, ChainEnds, SameTask
<1>10. CASE FetchPublished(d)
  <2>1. job[d].left # <<>>
    BY <1>10, AtWork DEF FetchPublished
  <2>2. JobMoves(d) /\ job'[d].pr = job[d].pr
    BY <1>1, <1>10, <2>1, FetchPublishedDoes DEF ChainEnds, SameTask
  <2>3. QED
    BY <1>10, <2>2 DEF FetchPublished, Working
<1>11. CASE Publish(d)
  BY <1>1, <1>11, PublishDoes DEF Publish, Working, SameTask
<1>12. CASE MarkPublished(d)
  <2>1. job[d].left # <<>>
    BY <1>12, AtWork DEF MarkPublished
  <2>2. JobMoves(d) /\ job'[d].pr = job[d].pr
    BY <1>1, <1>12, <2>1, MarkPublishedDoes DEF ChainEnds, SameTask
  <2>3. QED
    BY <1>12, <2>2 DEF MarkPublished, Working
<1>13. CASE FinishRun(d)
  BY <1>1, <1>13, FinishRunDoes DEF FinishRun, Working, SameTask
<1>14. CASE Crash(d)
  BY <1>1, <1>14, CrashDoes DEF Crash, SameTask
<1>15. QED
  BY <1>2, <1>3, <1>4, <1>5, <1>6, <1>7, <1>8, <1>9, <1>10, <1>11, <1>12, <1>13, <1>14
     DEF Work

PRsInOrder == \A p, q \in PRs : p < q /\ pr[q].state # "none" => pr[p].state # "none"

\* Two that are open, or one open and one merged later, are the same.
LEMMA OpenIsLast ==
  ASSUME Calm({"overlap"}), OneMerge, NEW p \in PRs, pr[p].state = "open", NEW q \in PRs, q # p
  PROVE  /\ pr[q].state # "open"
         /\ pr[q].state = "merged" => q < p
<1>1. OpenAlone(p)
  BY DEF OneMerge
<1>2. q < p \/ q > p
  BY DEF PRs
<1>3. QED
  BY <1>1, <1>2 DEF OpenAlone

\* Before a merge, every merge is settled: nothing is being handled.
LEMMA NoneAtWork ==
  ASSUME IInv, Calm({"overlap"}), OneMerge, NEW p \in PRs, MergePR(p)
  PROVE  Working = {}
<1> SUFFICES ASSUME NEW d \in Working PROVE FALSE
  OBVIOUS
<1>1. d \in Deliveries /\ job[d].pc # "none"
  BY DEF Working
<1>2. job[d].pr \in PRs /\ pr[job[d].pr].state = "merged"
  BY <1>1 DEF IInv, JobsLinked, ChangesLinked
<1>3. job[d].pr < p
  BY <1>2, OpenIsLast DEF MergePR
<1>4. Settled(job[d].pr)
  BY <1>2, <1>3 DEF MergePR, Calm
<1>5. QED
  BY <1>1, <1>4 DEF Settled

\* While the branches and the merges stay, OneMerge needs only that jobs at work
\* handle the last merge and that what is done stays done.
LEMMA OneMergeStays ==
  ASSUME OneMerge, UNCHANGED <<main, pr, faults>>,
         Calm({"overlap"}) =>
           /\ \A d \in Working' : IsLast(job'[d].pr)
           /\ \A d \in Deliveries : job[d].pc = "done" => job'[d] = job[d]
  PROVE  OneMerge'
<1> SUFFICES ASSUME Calm({"overlap"})
             PROVE  OneMerge'
  BY DEF OneMerge, Calm
<1>1. \A p : IsLast(p)' <=> IsLast(p)
  BY DEF IsLast
<1>2. \A d \in Working' : IsLast(job[d].pr)'
  BY DEF IsLast
<1>3. \A p : Touched(p)' = Touched(p)
  BY DEF Touched
<1>4. ASSUME NEW p \in PRs, OpenAlone(p) PROVE OpenAlone(p)'
  <2>1. \A q \in PRs : q < p =>
          \/ pr[q].state = "closed"
          \/ pr[q].state = "merged" /\ \E d \in Deliveries : job'[d].pr = q /\ job'[d].pc = "done"
    BY <1>4 DEF OpenAlone
  <2>2. QED
    BY <1>3, <1>4, <2>1 DEF OpenAlone
<1>5. QED
  BY <1>1, <1>2, <1>3, <1>4 DEF OneMerge, Calm

LEMMA OneMergeInit == Init => OneMerge
<1> SUFFICES ASSUME Init PROVE OneMerge
  OBVIOUS
<1>1. \A p \in PRs : pr[p].state = "none"
  BY DEF Init, NoPR
<1>2. Working = {}
  BY DEF Init, NoJob, Working
<1>3. QED
  BY <1>1, <1>2 DEF OneMerge, IsLast

LEMMA OneMergeWork ==
  ASSUME IInv, OneMerge, NEW d \in Deliveries, Work(d) \/ Crash(d)
  PROVE  OneMerge'
<1>1. JobMoves(d) /\ d \in Working /\ job'[d].pr = job[d].pr /\ UNCHANGED <<main, pr, faults>>
  BY JobSteps
<1>2. \A e \in Working' : e \in Working /\ job'[e].pr = job[e].pr
  BY <1>1 DEF Working, JobMoves
<1>3. \A e \in Deliveries : job[e].pc = "done" => job'[e] = job[e]
  BY <1>1 DEF Working, JobMoves
<1>4. Calm({"overlap"}) => \A e \in Working' : IsLast(job'[e].pr)
  BY <1>2 DEF OneMerge
<1>5. QED
  BY <1>1, <1>3, <1>4, OneMergeStays

LEMMA OneMergeDeliver ==
  ASSUME IInv, OneMerge, NEW d \in Deliveries, NEW p \in PRs, Deliver(d, p)
  PROVE  OneMerge'
<1>1. JobMoves(d) /\ job[d].pc = "none" /\ job'[d].pr = p
  BY DeliverDoes DEF IInv, TypeOK
<1>2. UNCHANGED <<main, pr, faults>>
  BY DEF Deliver
<1>3. Calm({"overlap"}) => IsLast(p)
  BY DEF Deliver, IsLast, Calm
<1>4. \A e \in Working' : e = d \/ (e \in Working /\ job'[e] = job[e])
  BY <1>1 DEF Working, JobMoves
<1>5. Calm({"overlap"}) => \A e \in Working' : IsLast(job'[e].pr)
  BY <1>1, <1>3, <1>4 DEF OneMerge
<1>6. \A e \in Deliveries : job[e].pc = "done" => job'[e] = job[e]
  BY <1>1 DEF JobMoves
<1>7. QED
  BY <1>2, <1>5, <1>6, OneMergeStays

\* A pull request that is marked or closed.
LEMMA OneMergeKeepsMain ==
  ASSUME IInv, OneMerge, UNCHANGED <<main, job, faults>>,
         NEW p \in PRs, NEW state, NEW told,
         PrBecomes(p, state, told),
         state = pr[p].state \/ (pr[p].state = "open" /\ state = "closed")
  PROVE  OneMerge'
<1> SUFFICES ASSUME Calm({"overlap"})
             PROVE  OneMerge'
  BY DEF OneMerge, Calm
<1>1. /\ \A q \in PRs : q # p => pr'[q] = pr[q]
      /\ pr'[p].state = state /\ pr'[p].changes = pr[p].changes /\ pr'[p].tree = pr[p].tree
  BY DEF PrBecomes
<1>2. \A q \in PRs : pr'[q].changes = pr[q].changes /\ pr'[q].tree = pr[q].tree
  BY <1>1
<1>3. \A q \in PRs : /\ pr'[q].state = "merged" <=> pr[q].state = "merged"
                     /\ pr'[q].state = "none" <=> pr[q].state = "none"
                     /\ pr'[q].state = "open" => pr[q].state = "open"
                     /\ pr[q].state = "closed" => pr'[q].state = "closed"
  BY <1>1
<1>4. \A q \in PRs : IsLast(q)' <=> IsLast(q)
  BY <1>3 DEF IsLast
<1>5. \A q \in PRs : Touched(q)' = Touched(q)
  BY <1>2 DEF Touched
<1>6. ASSUME NEW q \in PRs, OpenAlone(q) PROVE OpenAlone(q)'
  <2>1. \A r \in PRs : r < q =>
          \/ pr'[r].state = "closed"
          \/ pr'[r].state = "merged" /\ \E d \in Deliveries : job[d].pr = r /\ job[d].pc = "done"
    BY <1>3, <1>6 DEF OpenAlone
  <2>2. \A r \in PRs : r > q => pr'[r].state = "none"
    BY <1>3, <1>6 DEF OpenAlone
  <2>3. QED
    BY <1>2, <1>5, <1>6, <2>1, <2>2 DEF OpenAlone
<1>7. Working' = Working
  BY DEF Working
<1>8. \A d \in Working : IsLast(job[d].pr)'
  <2> SUFFICES ASSUME NEW d \in Working PROVE IsLast(job[d].pr)'
    OBVIOUS
  <2>1. IsLast(job[d].pr)
    BY DEF OneMerge
  <2>2. job[d].pr \in PRs
    BY DEF IInv, JobsLinked, ChangesLinked, Working
  <2>3. QED
    BY <1>4, <2>1, <2>2
<1>9. \A q \in PRs : IsLast(q)' => \A t \in Touched(q)' : main'[t] = pr'[q].tree[t]
  BY <1>2, <1>4, <1>5 DEF OneMerge
<1>10. \A q \in PRs : pr'[q].state = "open" => OpenAlone(q)'
  BY <1>3, <1>6 DEF OneMerge
<1>11. PRsInOrder'
  BY <1>3 DEF OneMerge, PRsInOrder
<1>12. QED
  BY <1>7, <1>8, <1>9, <1>10, <1>11 DEF OneMerge, PRsInOrder

LEMMA OneMergeOpen ==
  ASSUME IInv, OneMerge, NEW p \in PRs, NEW proposal \in Proposals, OpenPR(p, proposal)
  PROVE  OneMerge'
<1>1. UNCHANGED <<main, job, faults>> /\ pr[p].state = "none"
  BY DEF OpenPR
<1> SUFFICES ASSUME Calm({"overlap"})
             PROVE  OneMerge'
  BY <1>1 DEF OneMerge, Calm
<1>2. /\ \A q \in PRs : q # p => pr'[q] = pr[q]
      /\ pr'[p].state = "open" /\ pr'[p].changes = proposal.changes
      /\ \A t \in Tables : (\A i \in DOMAIN pr'[p].changes : pr'[p].changes[i].table # t) =>
           pr'[p].tree[t] = main[t]
  BY OpenPRDoes DEF IInv
<1>3. \A q \in PRs : q < p => \/ pr[q].state = "closed"
                              \/ pr[q].state = "merged" /\ Settled(q)
  BY DEF OpenPR, Calm
<1>4. \A q \in PRs : q > p => pr[q].state = "none"
  BY <1>1 DEF OneMerge
<1>5. \A q \in PRs : pr'[q].state = "merged" <=> pr[q].state = "merged"
  BY <1>1, <1>2
<1>6. \A q \in PRs : q # p => Touched(q)' = Touched(q) /\ pr'[q].tree = pr[q].tree
  BY <1>2 DEF Touched
<1>7. \A q \in PRs : IsLast(q)' => IsLast(q) /\ q # p
  BY <1>1, <1>5 DEF IsLast
<1>8. \A q \in PRs : IsLast(q) => IsLast(q)'
  BY <1>5 DEF IsLast
<1>9. (\A d \in Working : IsLast(job[d].pr))'
  <2> SUFFICES ASSUME NEW d \in Working' PROVE IsLast(job[d].pr)'
    OBVIOUS
  <2>1. d \in Working
    BY <1>1 DEF Working
  <2>2. IsLast(job[d].pr)
    BY <2>1 DEF OneMerge
  <2>3. job[d].pr \in PRs
    BY <2>1 DEF IInv, JobsLinked, ChangesLinked, Working
  <2>4. QED
    BY <1>1, <1>8, <2>2, <2>3
<1>10. PRsInOrder'
  <2> SUFFICES ASSUME NEW q \in PRs, NEW r \in PRs, q < r, pr'[r].state # "none"
               PROVE  pr'[q].state # "none"
    BY DEF PRsInOrder
  <2>1. CASE r = p
    <3>1. pr[q].state # "none" /\ q # p
      BY <1>3, <2>1 DEF PRs
    <3>2. QED
      BY <1>2, <3>1
  <2>2. CASE r # p
    <3>1. pr[q].state # "none"
      BY <1>2, <2>2 DEF OneMerge
    <3>2. QED
      BY <1>1, <1>2, <3>1
  <2>3. QED
    BY <2>1, <2>2
<1>11. OpenAlone(p)'
  <2>1. \A q \in PRs : q < p =>
          \/ pr'[q].state = "closed"
          \/ pr'[q].state = "merged" /\ \E d \in Deliveries : job[d].pr = q /\ job[d].pc = "done"
    <3>1. \A q \in PRs : q < p => pr'[q] = pr[q]
      BY <1>2 DEF PRs
    <3>2. QED
      BY <1>3, <3>1 DEF Settled
  <2>2. \A q \in PRs : q > p => pr'[q].state = "none"
    BY <1>2, <1>4 DEF PRs
  <2>3. \A t \in Tables \ Touched(p)' : pr'[p].tree[t] = main[t]
    BY <1>2 DEF Touched
  <2>4. \A i \in DOMAIN pr'[p].changes :
          pr'[p].changes[i].content = Absent => main[pr'[p].changes[i].table] # Absent
    BY <1>2 DEF OpenPR
  <2>5. QED
    BY <1>1, <2>1, <2>2, <2>3, <2>4 DEF OpenAlone
<1>12. \A q \in PRs : pr'[q].state = "open" => q = p
  <2> SUFFICES ASSUME NEW q \in PRs, pr[q].state = "open", q # p PROVE FALSE
    BY <1>2
  <2>1. q < p \/ q > p
    BY DEF PRs
  <2>2. QED
    BY <1>3, <1>4, <2>1
<1>13. \A q \in PRs : IsLast(q)' => \A t \in Touched(q)' : main'[t] = pr'[q].tree[t]
  BY <1>1, <1>6, <1>7 DEF OneMerge
<1>14. QED
  BY <1>9, <1>10, <1>11, <1>12, <1>13 DEF OneMerge, PRsInOrder

LEMMA OneMergeMerge ==
  ASSUME IInv, OneMerge, NEW p \in PRs, MergePR(p)
  PROVE  OneMerge'
<1>1. UNCHANGED <<job, faults>> /\ pr[p].state = "open" /\ main' = pr[p].tree
      /\ pr' = [pr EXCEPT ![p].state = "merged"]
  BY DEF MergePR
<1> SUFFICES ASSUME Calm({"overlap"})
             PROVE  OneMerge'
  BY <1>1 DEF OneMerge, Calm
<1>2. PrBecomes(p, "merged", pr[p].told)
  BY <1>1, OnePR DEF IInv, TypeOK
<1>3. /\ \A q \in PRs : q # p => pr'[q] = pr[q]
      /\ pr'[p].state = "merged" /\ pr'[p].changes = pr[p].changes /\ pr'[p].tree = pr[p].tree
  BY <1>2 DEF PrBecomes
<1>4. Working' = {}
  BY <1>1, NoneAtWork DEF Working
<1>5. \A q \in PRs : pr'[q].state # "open"
  BY <1>1, <1>3, OpenIsLast
<1>6. PRsInOrder'
  BY <1>1, <1>3 DEF OneMerge, PRsInOrder
<1>7. ASSUME NEW q \in PRs, IsLast(q)'
      PROVE  \A t \in Touched(q)' : main'[t] = pr'[q].tree[t]
  <2>1. q = p
    <3> SUFFICES ASSUME q # p PROVE FALSE
      OBVIOUS
    <3>1. pr[q].state = "merged"
      BY <1>3, <1>7 DEF IsLast
    <3>2. q < p
      BY <1>1, <3>1, OpenIsLast
    <3>3. QED
      BY <1>3, <1>7, <3>2 DEF IsLast
  <2>2. QED
    BY <1>1, <1>3, <2>1
<1>8. QED
  BY <1>4, <1>5, <1>6, <1>7 DEF OneMerge, PRsInOrder

LEMMA OneMergeNext == IInv /\ OneMerge /\ [Next]_vars => OneMerge'
<1> SUFFICES ASSUME IInv, OneMerge, [Next]_vars PROVE OneMerge'
  OBVIOUS
<1>1. ASSUME NEW draft \in Drafts, SaveDraft(draft.table, draft.content) PROVE OneMerge'
  <2>1. UNCHANGED <<main, pr, job, faults>>
    BY <1>1 DEF SaveDraft
  <2>2. Working' = Working
    BY <2>1 DEF Working
  <2>3. Calm({"overlap"}) => \A d \in Working' : IsLast(job'[d].pr)
    BY <2>1, <2>2 DEF OneMerge
  <2>4. QED
    BY <2>1, <2>3, OneMergeStays
<1>2. ASSUME NEW p \in PRs, MarkPending(p) PROVE OneMerge'
  <2>1. PrBecomes(p, pr[p].state, FALSE) /\ UNCHANGED <<main, job, faults>>
    BY <1>2, MarkPendingPR DEF IInv, TypeOK, MarkPending
  <2>2. QED
    BY <2>1, OneMergeKeepsMain
<1>3. ASSUME NEW p \in PRs, ClosePR(p) PROVE OneMerge'
  <2>1. /\ PrBecomes(p, "closed", pr[p].told) /\ UNCHANGED <<main, job, faults>>
        /\ pr[p].state = "open"
    BY <1>3, OnePR DEF IInv, TypeOK, ClosePR
  <2>2. QED
    BY <2>1, OneMergeKeepsMain
<1>4. ASSUME NEW p \in PRs,
             \/ MergePR(p) \/ \E proposal \in Proposals : OpenPR(p, proposal)
             \/ \E d \in Deliveries : Deliver(d, p)
      PROVE  OneMerge'
  BY <1>4, OneMergeMerge, OneMergeOpen, OneMergeDeliver
<1>5. ASSUME NEW d \in Deliveries, Work(d) \/ Crash(d) PROVE OneMerge'
  BY <1>5, OneMergeWork
<1>6. CASE UNCHANGED vars
  <2>1. UNCHANGED <<main, pr, job, faults>>
    BY <1>6 DEF vars
  <2>2. Working' = Working
    BY <2>1 DEF Working
  <2>3. Calm({"overlap"}) => \A d \in Working' : IsLast(job'[d].pr)
    BY <2>1, <2>2 DEF OneMerge
  <2>4. QED
    BY <2>1, <2>3, OneMergeStays
<1>7. QED
  BY <1>1, <1>2, <1>3, <1>4, <1>5, <1>6 DEF Next

\* route.ts:112-160: unless merges overlap, only the last one is being handled,
\* and one pull request at most is open.
THEOREM OneMergeInvariance == Spec => []OneMerge
<1>1. Init => OneMerge
  BY OneMergeInit
<1>2. IInv /\ OneMerge /\ [Next]_vars => OneMerge'
  BY OneMergeNext
<1>3. QED
  BY <1>1, <1>2, MergeInvariance, PTL DEF Spec

-----------------------------------------------------------------------------
(***************************************************************************)
(* One version of a merge.                                                 *)
(***************************************************************************)

CalmDrafts == Calm({"overlap", "draft"})

\* What a step may do to a row: drop it, give it away as a new one, give it the
\* content of the last merge, or leave its content, unless it is a draft.
RowKeeps(t) ==
  \/ row'[t] = Null \/ row'[t] = row[t] \/ row'[t].id = nextId
  \/ /\ row[t] # Null /\ row'[t].id = row[t].id /\ row'[t].status # "draft"
     /\ \A p \in PRs : IsLast(p) => row'[t].spec = pr[p].tree[t]
  \/ /\ row[t] # Null /\ row'[t].id = row[t].id
     /\ row[t].status # "draft" => row'[t].status # "draft" /\ row'[t].spec = row[t].spec

RowsKeep == \A t \in Tables : RowKeeps(t)

LEMMA ValidIsTyped ==
  ASSUME IInv, NEW d \in Deliveries, NEW i \in DOMAIN job[d].valid
  PROVE  /\ job[d].valid[i] \in Targets /\ job[d].valid[i].table \in Tables
         /\ IdOf(job[d].valid[i].id, job[d].valid[i].table)
<1>1. job[d].valid \in Seq(Targets)
  BY DEF IInv, TypeOK, Types, JobState
<1>2. job[d].valid[i] \in Targets
  BY <1>1, ElementOfSeq, LenProperties
<1>3. QED
  BY <1>2 DEF Targets, IInv, JobsLinked, TargetsLinked

LEMMA WorkingIsLinked ==
  ASSUME IInv, NEW d \in Working
  PROVE  /\ d \in Deliveries /\ job[d].pr \in PRs /\ pr[job[d].pr].state = "merged"
         /\ job[d].pc \in {"look", "apply", "table", "fetch", "publish", "marking"}
<1>1. d \in Deliveries /\ job[d].pc \notin {"none", "done", "failed"}
  BY DEF Working
<1>2. job[d] \in JobState
  BY <1>1 DEF IInv, TypeOK, Types
<1>3. QED
  BY <1>1, <1>2 DEF IInv, JobsLinked, ChangesLinked, JobState

LEMMA ValidRowStays ==
  ASSUME IInv, OneMerge, CalmDrafts, RowsKeep, PrsMove, NEW d \in Working, ValidRow(d),
         job'[d].valid = job[d].valid, job'[d].pr = job[d].pr
  PROVE  ValidRow(d)'
<1> DEFINE p == job[d].pr
<1>1. d \in Deliveries /\ p \in PRs /\ pr[p].state = "merged" /\ IsLast(p)
  BY WorkingIsLinked DEF OneMerge, Calm, CalmDrafts
<1>2. pr'[p].tree = pr[p].tree
  BY <1>1 DEF PrsMove
<1> SUFFICES ASSUME NEW i \in DOMAIN job[d].valid, NEW t, t = job[d].valid[i].table,
                    row'[t] # Null, row'[t].id = job[d].valid[i].id
             PROVE  row'[t].status # "draft" /\ row'[t].spec = pr[p].tree[t]
  BY ZenonT(40), <1>2 DEF ValidRow
<1>3. t \in Tables /\ job[d].valid[i].id \in 0..nextId-1 /\ nextId \in Nat
  BY <1>1, ValidIsTyped DEF IdOf, IInv, TypeOK, Types
<1>4. row'[t].id # nextId
  BY <1>3
<1>5. RowKeeps(t)
  BY <1>3 DEF RowsKeep
<1>6. row[t] # Null /\ row[t].id = job[d].valid[i].id =>
        row[t].status # "draft" /\ row[t].spec = pr[p].tree[t]
  BY DEF ValidRow
<1>7. QED
  BY <1>1, <1>4, <1>5, <1>6 DEF RowKeeps

LEMMA SaveDraftKeeps ==
  ASSUME IInv, CalmDrafts, NEW draft \in Drafts, SaveDraft(draft.table, draft.content)
  PROVE  RowsKeep
<1> DEFINE u == draft.table
<1>1. u \in Tables
  BY InputsAssumption
<1>2. row \in [Tables -> RowState \cup {Null}]
  BY DEF IInv, TypeOK, Types
<1>3. CASE row[u] = Null
  <2>1. \A t \in Tables : row'[t] = row[t] \/ row'[t].id = nextId
    BY <1>1, <1>2, <1>3 DEF SaveDraft, Insert
  <2>2. QED
    BY <2>1 DEF RowsKeep, RowKeeps
<1>4. CASE row[u] # Null
  <2>1. row[u].status = "draft" /\ row' = [row EXCEPT ![u].spec = draft.content]
    BY <1>4 DEF SaveDraft, CalmDrafts, Calm
  <2>2. row[u] \in RowState
    BY <1>1, <1>2, <1>4
  <2>3. row'[u].id = row[u].id /\ \A t \in Tables : t # u => row'[t] = row[t]
    BY <1>1, <1>2, <2>1, <2>2 DEF RowState
  <2>4. QED
    BY <1>4, <2>1, <2>3 DEF RowsKeep, RowKeeps
<1>5. QED
  BY <1>3, <1>4

LEMMA MarkPendingKeeps ==
  ASSUME IInv, NEW p \in PRs, MarkPending(p)
  PROVE  RowsKeep
<1> DEFINE c == pr[p].changes[1]
<1>1. TypeOK /\ PrsLinked /\ row \in [Tables -> RowState \cup {Null}]
  BY DEF IInv, TypeOK, Types
<1>2. CASE row[c.table] = Null
  BY <1>1, <1>2, MarkPendingDoes DEF RowsKeep, RowKeeps
<1>3. CASE row[c.table] # Null
  <2>1. /\ row' = [row EXCEPT ![c.table] = Marked(p, c)] /\ c.table \in Tables
        /\ Marked(p, c).id = row[c.table].id
        /\ Marked(p, c).spec = row[c.table].spec
        /\ Marked(p, c).status # "draft"
    BY <1>1, <1>3, MarkPendingDoes
  <2>2. /\ row'[c.table] = Marked(p, c)
        /\ \A t \in Tables : t # c.table => row'[t] = row[t]
    BY <1>1, <2>1
  <2>3. QED
    BY <1>3, <2>1, <2>2 DEF RowsKeep, RowKeeps
<1>4. QED
  BY <1>2, <1>3

LEMMA DeleteRowKeeps ==
  ASSUME IInv, NEW d \in Deliveries, DeleteRow(d)
  PROVE  RowsKeep
<1>1. row \in [Tables -> RowState \cup {Null}]
  BY DEF IInv, TypeOK, Types
<1>2. row' = row \/ row' = [row EXCEPT ![Named(job[d].known[Head(job[d].todo).table])] = Null]
  BY DEF DeleteRow
<1>3. \A t \in Tables : row'[t] = Null \/ row'[t] = row[t]
  BY <1>1, <1>2
<1>4. QED
  BY <1>3 DEF RowsKeep, RowKeeps

\* The change a handler is at is one of the last merge.
LEMMA HeadIsOnMain ==
  ASSUME IInv, NEW d \in Deliveries, job[d].pc = "apply", job[d].todo # <<>>
  PROVE  LET c == Head(job[d].todo)
         IN /\ c \in Changes /\ c.table \in Tables /\ c.content \in Files
            /\ c.table \in Touched(job[d].pr) /\ c.content = pr[job[d].pr].tree[c.table]
            /\ 1 \in DOMAIN job[d].todo /\ c = job[d].todo[1]
            /\ job[d].pr \in PRs /\ pr[job[d].pr].state = "merged"
<1> DEFINE c == Head(job[d].todo)
<1>1. job[d] \in JobState /\ job[d].todo \in Seq(Changes)
  BY DEF IInv, TypeOK, Types, JobState
<1>2. /\ c \in Changes /\ c.table \in Tables /\ c.content \in Files
      /\ 1 \in DOMAIN job[d].todo /\ c = job[d].todo[1]
  BY <1>1, TodoIsTyped, TailHolds
<1>3. job[d].pr \in PRs /\ pr[job[d].pr].state = "merged"
  BY DEF IInv, JobsLinked, ChangesLinked
<1>4. PICK j \in DOMAIN pr[job[d].pr].changes : pr[job[d].pr].changes[j] = c
  BY <1>2 DEF IInv, JobsLinked, ChangesLinked
<1>5. pr[job[d].pr].tree[c.table] = c.content
  BY <1>3, <1>4 DEF IInv, PrsLinked
<1>6. QED
  BY <1>2, <1>3, <1>4, <1>5 DEF Touched

\* The row with the id a handler remembers is the row of its table.
LEMMA NamedIsTable ==
  ASSUME NEW id, NEW t, IdOf(id, t), Exists(id)
  PROVE  Named(id) = t
BY NamedIs DEF IdOf

\* The row of the first change, and the job, after an upsert.
UpsertIs(d) ==
  LET c == Head(job[d].todo)
      u == c.table
      id == job[d].known[u]
  IN /\ \A t \in Tables : t # u => row'[t] = row[t]
     /\ \/ /\ id # 0 /\ row[u] # Null /\ row[u].id = id /\ nextId' = nextId
           /\ row'[u] \in RowState /\ row'[u].id = id /\ row'[u].spec = c.content
           /\ row'[u].status = StatusOf(c.content) /\ row'[u].pr = job[d].pr
           /\ Applies(job[d], job'[d], id)
        \/ /\ id # 0 /\ ~(row[u] # Null /\ row[u].id = id)
           /\ UNCHANGED <<row, nextId>> /\ Applies(job[d], job'[d], id)
        \/ /\ id = 0 /\ row[u] = Null /\ nextId' = nextId + 1
           /\ row'[u] \in RowState /\ row'[u].id = nextId /\ row'[u].spec = c.content
           /\ row'[u].status = StatusOf(c.content) /\ row'[u].pr = job[d].pr
           /\ Applies(job[d], job'[d], nextId)
        \/ UNCHANGED <<row, nextId>> /\ GivesUp(job[d], job'[d])

LEMMA UpsertRowIs ==
  ASSUME IInv, NEW d \in Deliveries, Upsert(d)
  PROVE  UpsertIs(d)
<1> DEFINE c == Head(job[d].todo)
           u == c.table
           p == job[d].pr
           id == job[d].known[u]
<1>1. TypeOK /\ row \in [Tables -> RowState \cup {Null}] /\ nextId \in Nat
      /\ job[d] \in JobState
  BY DEF IInv, TypeOK, Types
<1>2. /\ job[d].pc = "apply" /\ job[d].todo # <<>> /\ c.content \in Contents
      /\ UpsertUpdates(d) \/ UpsertInserts(d) \/ UpsertFails(d)
  BY <1>1, UpsertDoes DEF TypeOK
<1>3. u \in Tables /\ p \in 0..MaxPRs
  BY <1>2, HeadIsOnMain, JobsPr
<1>4. CASE UpsertUpdates(d)
  <2>1. id # 0 /\ IdOf(id, u) /\ Applies(job[d], job'[d], id) /\ nextId' = nextId
    BY <1>3, <1>4 DEF UpsertUpdates, IInv, JobsLinked, TargetsLinked
  <2>2. CASE Exists(id)
    <3> DEFINE r == Updated(row[u], c.content, p)
    <3>1. Named(id) = u /\ row[u] # Null /\ row[u].id = id
      BY <2>1, <2>2, NamedIs, NamedIsTable
    <3>2. row[u] \in RowState
      BY <1>1, <1>3, <3>1
    <3>3. /\ r \in RowState /\ r.id = row[u].id /\ r.spec = c.content
          /\ r.status = StatusOf(c.content) /\ r.pr = p
      BY <1>2, <1>3, <3>2, UpdatedIs
    <3>4. row' = [row EXCEPT ![u] = r]
      BY <1>4, <2>2, <3>1 DEF UpsertUpdates
    <3> HIDE DEF r
    <3>5. row'[u] = r /\ \A t \in Tables : t # u => row'[t] = row[t]
      BY <1>1, <1>3, <3>4
    <3>6. QED
      BY <2>1, <3>1, <3>3, <3>5 DEF UpsertIs
  <2>3. CASE ~Exists(id)
    <3>1. row' = row /\ ~(row[u] # Null /\ row[u].id = id)
      BY <1>3, <1>4, <2>3 DEF UpsertUpdates, Exists
    <3>2. QED
      BY <2>1, <3>1 DEF UpsertIs
  <2>4. QED
    BY <2>2, <2>3
<1>5. CASE UpsertInserts(d)
  <2> DEFINE r == [id |-> nextId, spec |-> c.content, status |-> StatusOf(c.content), pr |-> p]
  <2>1. id = 0 /\ row[u] = Null /\ Applies(job[d], job'[d], nextId)
        /\ row' = [row EXCEPT ![u] = r] /\ nextId' = nextId + 1
    BY <1>5 DEF UpsertInserts, Insert
  <2>2. StatusOf(c.content) \in Statuses
    BY DEF StatusOf, Statuses
  <2>3. /\ r \in RowState /\ r.id = nextId /\ r.spec = c.content
        /\ r.status = StatusOf(c.content) /\ r.pr = p
    BY <1>1, <1>2, <1>3, <2>2 DEF RowState
  <2> HIDE DEF r
  <2>4. row'[u] = r /\ \A t \in Tables : t # u => row'[t] = row[t]
    BY <1>1, <1>3, <2>1
  <2>5. QED
    BY <2>1, <2>3, <2>4 DEF UpsertIs
<1>6. CASE UpsertFails(d)
  BY <1>6 DEF UpsertFails, UpsertIs
<1>7. QED
  BY <1>2, <1>4, <1>5, <1>6

LEMMA OneLast ==
  ASSUME NEW p \in PRs, IsLast(p), NEW q \in PRs, IsLast(q)
  PROVE  q = p
BY DEF IsLast, PRs

LEMMA UpsertKeeps ==
  ASSUME IInv, OneMerge, CalmDrafts, NEW d \in Deliveries, Upsert(d)
  PROVE  /\ RowsKeep
         /\ ValidRow(d) => ValidRow(d)'
<1> DEFINE c == Head(job[d].todo)
           u == c.table
           p == job[d].pr
           id == job[d].known[u]
<1>1. /\ job[d].pc = "apply" /\ job[d].todo # <<>>
      /\ UNCHANGED pr
  BY UpsertDoes DEF IInv, TypeOK, Upsert
<1>2. u \in Tables /\ c.content = pr[p].tree[u] /\ p \in PRs
  BY <1>1, HeadIsOnMain
<1>3. d \in Working /\ IsLast(p) /\ \A q \in PRs : IsLast(q) => q = p
  <2>1. d \in Working
    BY <1>1 DEF Working
  <2>2. IsLast(p)
    BY <2>1 DEF OneMerge, Calm, CalmDrafts
  <2>3. QED
    BY <1>2, <2>1, <2>2, OneLast
<1>4. StatusOf(c.content) # "draft"
  BY DEF StatusOf
<1>5. UpsertIs(d)
  BY UpsertRowIs
<1>6. RowKeeps(u)
  BY <1>2, <1>3, <1>4, <1>5 DEF UpsertIs, RowKeeps
<1>7. RowsKeep
  <2> SUFFICES ASSUME NEW t \in Tables, t # u PROVE RowKeeps(t)
    BY <1>6 DEF RowsKeep
  <2>1. row'[t] = row[t]
    BY <1>5 DEF UpsertIs
  <2>2. QED
    BY <2>1 DEF RowKeeps
<1>8. ASSUME ValidRow(d), GivesUp(job[d], job'[d]) PROVE ValidRow(d)'
  <2>1. PrsMove
    BY <1>1, PrsStay DEF IInv, TypeOK
  <2>2. QED
    BY <1>3, <1>7, <1>8, <2>1, ValidRowStays DEF GivesUp, SameTask
<1>9. ASSUME ValidRow(d), NEW i \in Nat, Applies(job[d], job'[d], i),
             row'[u] # Null /\ row'[u].id = i => row'[u].status # "draft" /\ row'[u].spec = c.content
      PROVE  ValidRow(d)'
  <2> SUFFICES ASSUME NEW k \in DOMAIN job'[d].valid, NEW t, t = job'[d].valid[k].table,
                      row'[t] # Null, row'[t].id = job'[d].valid[k].id
               PROVE  row'[t].status # "draft" /\ row'[t].spec = pr[p].tree[t]
    BY <1>1, <1>9 DEF ValidRow, Applies
  <2>1. job[d].valid \in Seq(Targets) /\ [table |-> u, id |-> i] \in Targets
    BY <1>2, <1>9 DEF IInv, TypeOK, Types, JobState, Targets
  <2>2. \/ job'[d].valid[k] = [table |-> u, id |-> i]
        \/ k \in DOMAIN job[d].valid /\ job'[d].valid[k] = job[d].valid[k]
    BY <1>9, <2>1, AppendHolds DEF Applies
  <2>3. CASE job'[d].valid[k] = [table |-> u, id |-> i]
    BY <1>2, <1>9, <2>3
  <2>4. CASE k \in DOMAIN job[d].valid /\ job'[d].valid[k] = job[d].valid[k]
    <3>1. t \in Tables /\ job[d].valid[k].id \in 0..nextId-1 /\ nextId \in Nat
      BY <2>4, ValidIsTyped DEF IdOf, IInv, TypeOK, Types
    <3>2. RowKeeps(t) /\ row'[t].id # nextId
      BY <1>7, <2>4, <3>1 DEF RowsKeep
    <3>3. row[t] # Null /\ row[t].id = job[d].valid[k].id =>
            row[t].status # "draft" /\ row[t].spec = pr[p].tree[t]
      BY <1>9, <2>4 DEF ValidRow
    <3>4. QED
      BY <1>2, <1>3, <2>4, <3>2, <3>3 DEF RowKeeps
  <2>5. QED
    BY <2>2, <2>3, <2>4
<1>10. id \in Nat /\ nextId \in Nat
  BY <1>2 DEF IInv, TypeOK, Types, JobState
<1>11. ValidRow(d) => ValidRow(d)'
  BY <1>4, <1>5, <1>8, <1>9, <1>10 DEF UpsertIs
<1>12. QED
  BY <1>7, <1>11

LEMMA FetchFailsKeeps ==
  ASSUME IInv, NEW d \in Deliveries, FetchFails(d)
  PROVE  RowsKeep
<1> DEFINE u == Head(job[d].todo).table
<1>1. row \in [Tables -> RowState \cup {Null}] /\ u \in Tables
  BY FetchFailsDoes, TodoIsTyped DEF IInv, TypeOK, Types
<1>2. row' = row \/ Insert(u, Bad, "invalid", job[d].pr)
  BY FetchFailsDoes DEF IInv, TypeOK
<1>3. \A t \in Tables : row'[t] = row[t] \/ row'[t].id = nextId
  BY <1>1, <1>2 DEF Insert
<1>4. QED
  BY <1>3 DEF RowsKeep, RowKeeps

\* No step of a job does more to the rows.
LEMMA WorkKeeps ==
  ASSUME IInv, OneMerge, CalmDrafts, NEW d \in Deliveries, Work(d) \/ Crash(d)
  PROVE  RowsKeep
<1>1. UNCHANGED row => RowsKeep
  BY DEF RowsKeep, RowKeeps
<1>2. QED
  BY <1>1, DeleteRowKeeps, UpsertKeeps, FetchFailsKeeps DEF Work, Look, StartRun, NoSpec,
     CreateStream, StreamFails, FetchPublished, Publish, MarkPublished, FinishRun, Crash

\* Only an upsert adds to what a job has applied.
LEMMA ValidStays ==
  ASSUME IInv, NEW d \in Deliveries, (Work(d) /\ ~Upsert(d)) \/ Crash(d)
  PROVE  job'[d].valid = job[d].valid
<1>1. Types /\ LatestIsLast
  BY DEF IInv, TypeOK
<1>2. CASE Look(d)
  BY <1>1, <1>2, LookDoes
<1>3. CASE DeleteRow(d)
  BY <1>1, <1>3, DeleteRowDoes
<1>4. CASE FetchFails(d)
  BY <1>1, <1>4, FetchFailsDoes DEF LeavesOut, GivesUp, SameTask
<1>5. CASE StartRun(d)
  BY <1>1, <1>5, StartRunDoes
<1>6. CASE NoSpec(d)
  BY <1>1, <1>6, NoSpecDoes DEF ChainEnds, SameTask
<1>7. CASE CreateStream(d)
  BY <1>1, <1>7, CreateStreamDoes DEF SameTask
<1>8. CASE StreamFails(d)
  BY <1>1, <1>8, StreamFailsDoes DEF ChainEnds, SameTask
<1>9. CASE FetchPublished(d)
  <2>1. job[d].left # <<>>
    BY <1>9, AtWork DEF FetchPublished
  <2>2. QED
    BY <1>1, <1>9, <2>1, FetchPublishedDoes DEF ChainEnds, SameTask
<1>10. CASE Publish(d)
  BY <1>1, <1>10, PublishDoes DEF SameTask
<1>11. CASE MarkPublished(d)
  <2>1. job[d].left # <<>>
    BY <1>11, AtWork DEF MarkPublished
  <2>2. QED
    BY <1>1, <1>11, <2>1, MarkPublishedDoes DEF ChainEnds, SameTask
<1>12. CASE FinishRun(d)
  BY <1>1, <1>12, FinishRunDoes DEF SameTask
<1>13. CASE Crash(d)
  BY <1>1, <1>13, CrashDoes DEF SameTask
<1>14. QED
  BY <1>2, <1>3, <1>4, <1>5, <1>6, <1>7, <1>8, <1>9, <1>10, <1>11, <1>12, <1>13 DEF Work

Agrees(d) == (d \in Working => ValidRow(d)) /\ SpecAgrees(d)

\* A job that is not about to publish agrees with anything.
LEMMA IdleAgrees ==
  ASSUME NEW d, job'[d].pc \notin {"fetch", "publish", "marking"}
  PROVE  SpecAgrees(d)'
BY DEF SpecAgrees

LEMMA SpecStays ==
  ASSUME IInv, NEW d \in Deliveries, SpecAgrees(d), PrsMove, UNCHANGED <<npm, latest>>,
         job'[d] = job[d]
  PROVE  SpecAgrees(d)'
<1>1. job[d].pc # "none" => pr'[job[d].pr].tree = pr[job[d].pr].tree
  BY DEF IInv, JobsLinked, ChangesLinked, PrsMove
<1>2. Taken(d)' <=> Taken(d)
  BY DEF Taken, Target
<1>3. \A t : StateOf(t)' = StateOf(t)
  BY DEF StateOf
<1>4. \A state, spec : Decide(state, spec)' = Decide(state, spec)
  BY DEF Decide, Bumped, DiffBump, ColumnsOf
<1>5. QED
  BY <1>1, <1>2, <1>3 DEF SpecAgrees, Target, StateOf

LEMMA HeadIsValid ==
  ASSUME IInv, NEW d \in Deliveries, job[d].left # <<>>
  PROVE  \E i \in DOMAIN job[d].valid : job[d].valid[i] = Head(job[d].left)
<1>1. job[d].left \in Seq(Targets)
  BY DEF IInv, TypeOK, Types, JobState
<1>2. 1 \in DOMAIN job[d].left /\ Head(job[d].left) = job[d].left[1]
  BY <1>1, TailHolds
<1>3. QED
  BY <1>2 DEF IInv, JobsLinked, TargetsLinked

LEMMA CreateStreamAgrees ==
  ASSUME IInv, NEW d \in Deliveries, CreateStream(d), ValidRow(d)
  PROVE  SpecAgrees(d)'
<1> DEFINE head == Head(job[d].left)
<1>1. /\ job[d].left # <<>> /\ Exists(head.id)
      /\ job'[d].pc = "fetch" /\ job'[d].left = job[d].left
      /\ job'[d].spec = row[Named(head.id)].spec /\ job'[d].pr = job[d].pr
  BY CreateStreamDoes DEF IInv, TypeOK, SameTask
<1>2. PICK i \in DOMAIN job[d].valid : job[d].valid[i] = head
  BY <1>1, HeadIsValid
<1>3. IdOf(head.id, head.table)
  BY <1>2, ValidIsTyped
<1>4. Named(head.id) = head.table /\ row[head.table] # Null /\ row[head.table].id = head.id
  BY <1>1, <1>3, NamedIs, NamedIsTable
<1>5. row[head.table].spec = pr[job[d].pr].tree[head.table]
  BY <1>2, <1>4 DEF ValidRow
<1>6. UNCHANGED pr
  BY DEF CreateStream
<1>7. QED
  BY <1>1, <1>4, <1>5, <1>6 DEF SpecAgrees, Target

LEMMA FetchPublishedAgrees ==
  ASSUME IInv, NEW d \in Deliveries, FetchPublished(d), SpecAgrees(d)
  PROVE  SpecAgrees(d)'
<1>1. job[d].left # <<>>
  BY AtWork DEF FetchPublished
<1>2. UNCHANGED <<pr, npm, latest>> /\ job[d].pc = "fetch"
  BY DEF FetchPublished
<1>3. \/ job'[d].pc = "table"
      \/ /\ job'[d].pc = "publish" /\ job'[d].pr = job[d].pr
         /\ job'[d].fetched = Decide(StateOf(Target(d)), job[d].spec)
         /\ job'[d].left = job[d].left /\ job'[d].spec = job[d].spec
  BY <1>1, FetchPublishedDoes DEF IInv, TypeOK, ChainEnds, SameTask
<1>4. CASE job'[d].pc = "table"
  BY <1>4, IdleAgrees
<1>5. CASE job'[d].pc = "publish"
  <2>1. StateOf(Target(d))' = StateOf(Target(d)) /\ Target(d)' = Target(d)
    BY <1>2, <1>3, <1>5 DEF StateOf, Target
  <2>2. job'[d].spec = pr'[job'[d].pr].tree[Target(d)']
    BY <1>2, <1>3, <1>5, <2>1 DEF SpecAgrees
  <2>3. job'[d].fetched = Decide(StateOf(Target(d))', job'[d].spec)
    BY <1>3, <1>5, <2>1
  <2>4. QED
    BY <1>5, <2>2, <2>3 DEF SpecAgrees, Decide, Bumped, DiffBump, ColumnsOf
<1>6. QED
  BY <1>3, <1>4, <1>5

LEMMA PublishAgrees ==
  ASSUME IInv, OneMerge, CalmDrafts, NEW d \in Deliveries, Publish(d),
         NEW e \in Deliveries, SpecAgrees(d), SpecAgrees(e)
  PROVE  SpecAgrees(e)'
<1>1. /\ job[d].left # <<>> /\ job[d].spec \in Specs /\ job[d].fetched # Null
      /\ job[d].pc = "publish" /\ UNCHANGED pr
  BY AtWork DEF Publish
<1>2. /\ JobMoves(d) /\ SameTask(job[d], job'[d]) /\ SameChain(job[d], job'[d])
      /\ job'[d].pc = "marking"
  BY PublishDoes DEF IInv, TypeOK
<1>3. CASE e = d
  BY <1>1, <1>2, <1>3 DEF SpecAgrees, SameTask, SameChain, Target
<1>4. CASE e # d
  <2>1. job'[e] = job[e]
    BY <1>2, <1>4 DEF JobMoves
  <2>2. CASE job[e].pc # "publish"
    BY <1>1, <2>1, <2>2 DEF SpecAgrees, Target
  <2>3. CASE job[e].pc = "publish"
    <3> DEFINE t == Target(d)
               new == [version |-> job[d].fetched, spec |-> job[d].spec]
    <3>1. /\ Taken(d) => UNCHANGED <<npm, latest>>
          /\ ~Taken(d) => /\ npm' = [npm EXCEPT ![t] = Append(@, new)]
                          /\ latest' = [latest EXCEPT ![t] = Len(npm[t]) + 1]
          /\ t \in Tables
      BY <1>1, PublishPackages DEF IInv, TypeOK
    <3>2. CASE Taken(d)
      <4>1. UNCHANGED <<npm, latest>> /\ PrsMove
        BY <1>1, <3>1, <3>2, PrsStay DEF IInv, TypeOK
      <4>2. QED
        BY <2>1, <4>1, SpecStays
    <3>3. CASE ~Taken(d)
      <4>1. d \in Working /\ e \in Working
        BY <1>1, <2>3 DEF Working
      <4>2. job[d].pr = job[e].pr
        <5>1. IsLast(job[d].pr) /\ IsLast(job[e].pr)
          BY <4>1 DEF OneMerge, Calm, CalmDrafts
        <5>2. job[d].pr \in PRs /\ job[e].pr \in PRs
          BY <4>1, WorkingIsLinked
        <5>3. QED
          BY <5>1, <5>2, OneLast
      <4>3. job[d].fetched = Decide(StateOf(t), job[d].spec)
        BY <1>1, <3>3 DEF SpecAgrees
      <4>4. npm[t] \in Seq(Publications) /\ new \in Publications
            /\ npm \in [Tables -> Seq(Publications)] /\ latest \in [Tables -> Nat]
        <5>1. job[d].fetched \in Versions
          BY <1>1 DEF IInv, TypeOK, Types, JobState
        <5>2. new \in Publications
          BY <1>1, <5>1 DEF Publications
        <5>3. QED
          BY <3>1, <5>2 DEF IInv, TypeOK, Types
      <4> HIDE DEF new
      <4>5. npm'[t] = Append(npm[t], new)
            /\ \A u \in Tables : u # t => npm'[u] = npm[u] /\ latest'[u] = latest[u]
        BY <3>1, <3>3, <4>4
      <4>6. \E k \in DOMAIN npm'[t] : npm'[t][k].version = job[d].fetched
        <5>1. Len(npm[t]) + 1 \in DOMAIN Append(npm[t], new)
              /\ Append(npm[t], new)[Len(npm[t]) + 1] = new
          BY <4>4, AppendHolds
        <5>2. new.version = job[d].fetched
          BY DEF new
        <5>3. QED
          BY <4>5, <5>1, <5>2
      <4>7. job[e].spec = pr[job[e].pr].tree[Target(e)]
            /\ (Taken(e) \/ job[e].fetched = Decide(StateOf(Target(e)), job[e].spec))
        BY <2>3 DEF SpecAgrees
      <4>8. CASE Target(e) = t
        <5>1. job[e].spec = job[d].spec
          BY <1>1, <4>2, <4>7, <4>8 DEF SpecAgrees
        <5>2. \E k \in DOMAIN npm'[t] : npm'[t][k].version = job[e].fetched
          <6>1. CASE Taken(e)
            <7>1. PICK k \in DOMAIN npm[t] : npm[t][k].version = job[e].fetched
              BY <4>8, <6>1 DEF Taken
            <7>2. k \in DOMAIN Append(npm[t], new) /\ Append(npm[t], new)[k] = npm[t][k]
              BY <4>4, AppendHolds
            <7>3. QED
              BY <4>5, <7>1, <7>2
          <6>2. CASE job[e].fetched = Decide(StateOf(Target(e)), job[e].spec)
            <7>1. job[e].fetched = job[d].fetched
              BY <4>3, <4>8, <5>1, <6>2
            <7>2. QED
              BY <4>6, <7>1
          <6>3. QED
            BY <4>7, <6>1, <6>2
        <5>3. Target(e)' = t
          BY <2>1, <4>8 DEF Target
        <5>4. Taken(e)'
          BY <2>1, <5>2, <5>3 DEF Taken
        <5>5. job'[e].spec = pr'[job'[e].pr].tree[Target(e)']
          BY <1>1, <2>1, <4>7, <4>8, <5>3
        <5>6. QED
          BY <5>4, <5>5 DEF SpecAgrees
      <4>9. CASE Target(e) # t
        <5>1. Target(e) \in Tables
          <6>1. job[e].left # <<>> /\ job[e] \in JobState
            BY <2>3, AtWork DEF IInv, TypeOK, Types
          <6>2. QED
            BY <6>1, TargetIsTable DEF Target
        <5>2. npm'[Target(e)] = npm[Target(e)] /\ latest'[Target(e)] = latest[Target(e)]
              /\ Target(e)' = Target(e)
          BY <2>1, <4>5, <4>9, <5>1 DEF Target
        <5>3. Taken(e)' <=> Taken(e)
          BY <2>1, <5>2 DEF Taken
        <5>4. StateOf(Target(e))' = StateOf(Target(e))
          BY <5>2 DEF StateOf
        <5>5. job'[e].spec = pr'[job'[e].pr].tree[Target(e)']
          BY <1>1, <2>1, <4>7, <5>2
        <5>6. Taken(e)' \/ job'[e].fetched = Decide(StateOf(Target(e))', job'[e].spec)
          BY <2>1, <4>7, <5>3, <5>4
        <5>7. QED
          BY <5>5, <5>6 DEF SpecAgrees, Decide, Bumped, DiffBump, ColumnsOf
      <4>10. QED
        BY <4>8, <4>9
    <3>4. QED
      BY <3>2, <3>3
  <2>4. QED
    BY <2>2, <2>3
<1>5. QED
  BY <1>3, <1>4

LEMMA SemverInit == Init => SemverInv
<1> SUFFICES ASSUME Init PROVE SemverInv
  OBVIOUS
<1>1. \A d \in Deliveries : job[d].pc = "none"
  BY DEF Init, NoJob
<1>2. QED
  BY <1>1 DEF SemverInv, SpecAgrees, Working

LEMMA SemverWork ==
  ASSUME IInv, OneMerge, SemverInv, NEW d \in Deliveries, Work(d) \/ Crash(d)
  PROVE  SemverInv'
<1>1. JobMoves(d) /\ d \in Working /\ job'[d].pr = job[d].pr /\ UNCHANGED <<main, pr, faults>>
  BY JobSteps
<1> SUFFICES ASSUME CalmDrafts, NEW e \in Deliveries
             PROVE  Agrees(e)'
  BY <1>1 DEF SemverInv, Calm, CalmDrafts, Agrees
<1>2. \A x \in Deliveries : Agrees(x)
  BY DEF SemverInv, CalmDrafts, Agrees
<1>3. PrsMove /\ RowsKeep
  BY <1>1, PrsStay, WorkKeeps DEF IInv, TypeOK
<1>4. CASE e # d
  <2>1. job'[e] = job[e]
    BY <1>1, <1>4 DEF JobMoves
  <2>2. e \in Working' => e \in Working
    BY <2>1 DEF Working
  <2>3. e \in Working' => ValidRow(e)'
    BY <1>2, <1>3, <2>1, <2>2, ValidRowStays DEF Agrees
  <2>4. UNCHANGED <<npm, latest>> \/ Publish(d)
    BY DEF Work, Look, DeleteRow, Upsert, FetchFails, StartRun, NoSpec, CreateStream,
       StreamFails, FetchPublished, MarkPublished, FinishRun, Crash
  <2>5. SpecAgrees(e)'
    BY <1>2, <1>3, <2>1, <2>4, SpecStays, PublishAgrees DEF Agrees
  <2>6. QED
    BY <2>3, <2>5 DEF Agrees
<1>5. ValidRow(d)'
  <2>1. CASE Upsert(d)
    BY <1>1, <1>2, <2>1, UpsertKeeps DEF Agrees
  <2>2. CASE ~Upsert(d)
    <3>1. job'[d].valid = job[d].valid
      BY <2>2, ValidStays
    <3>2. QED
      BY <1>1, <1>2, <1>3, <3>1, ValidRowStays DEF Agrees
  <2>3. QED
    BY <2>1, <2>2
<1>6. SpecAgrees(d)'
  <2>1. CASE CreateStream(d)
    BY <1>1, <1>2, <2>1, CreateStreamAgrees DEF Agrees
  <2>2. CASE FetchPublished(d)
    BY <1>2, <2>2, FetchPublishedAgrees DEF Agrees
  <2>3. CASE Publish(d)
    BY <1>2, <2>3, PublishAgrees DEF Agrees
  <2>4. CASE ~(CreateStream(d) \/ FetchPublished(d) \/ Publish(d))
    <3>1. Types /\ LatestIsLast
      BY DEF IInv, TypeOK
    <3>2. MarkPublished(d) => job[d].left # <<>>
      BY AtWork DEF MarkPublished
    <3>3. job'[d].pc \notin {"fetch", "publish", "marking"}
      <4>1. Look(d) => job'[d].pc = "apply"
        BY <3>1, LookDoes
      <4>2. DeleteRow(d) => job'[d].pc = "apply"
        BY <3>1, DeleteRowDoes
      <4>3. Upsert(d) => job'[d].pc \in {"apply", "failed"}
        BY UpsertRowIs DEF UpsertIs, Applies, GivesUp
      <4>4. FetchFails(d) => job'[d].pc \in {"apply", "failed"}
        BY <3>1, FetchFailsDoes DEF LeavesOut, GivesUp
      <4>5. StartRun(d) => job'[d].pc = "table"
        BY <3>1, StartRunDoes
      <4>6. NoSpec(d) => job'[d].pc = "table"
        BY <3>1, NoSpecDoes DEF ChainEnds
      <4>7. StreamFails(d) => job'[d].pc = "table"
        BY <3>1, StreamFailsDoes DEF ChainEnds
      <4>8. MarkPublished(d) => job'[d].pc = "table"
        BY <3>1, <3>2, MarkPublishedDoes DEF ChainEnds
      <4>9. FinishRun(d) => job'[d].pc = "done"
        BY <3>1, FinishRunDoes
      <4>10. Crash(d) => job'[d].pc \in {"failed", "table"}
        BY <3>1, CrashDoes
      <4>11. QED
        BY <2>4, <4>1, <4>2, <4>3, <4>4, <4>5, <4>6, <4>7, <4>8, <4>9, <4>10 DEF Work
    <3>4. QED
      BY <3>3, IdleAgrees
  <2>5. QED
    BY <2>1, <2>2, <2>3, <2>4
<1>7. QED
  BY <1>4, <1>5, <1>6 DEF Agrees

\* A step that leaves the jobs alone.
LEMMA SemverKeeps ==
  ASSUME IInv, OneMerge, SemverInv, CalmDrafts => RowsKeep, PrsMove,
         UNCHANGED <<job, npm, latest, faults>>
  PROVE  SemverInv'
<1> SUFFICES ASSUME CalmDrafts, NEW d \in Deliveries
             PROVE  Agrees(d)'
  BY DEF SemverInv, Calm, CalmDrafts, Agrees
<1>1. Agrees(d)
  BY DEF SemverInv, CalmDrafts, Agrees
<1>2. Working' = Working
  BY DEF Working
<1>3. d \in Working => ValidRow(d)'
  BY <1>1, ValidRowStays DEF Agrees
<1>4. SpecAgrees(d)'
  BY <1>1, SpecStays DEF Agrees
<1>5. QED
  BY <1>2, <1>3, <1>4 DEF Agrees

LEMMA SemverNext == IInv /\ OneMerge /\ SemverInv /\ [Next]_vars => SemverInv'
<1> SUFFICES ASSUME IInv, OneMerge, SemverInv, [Next]_vars PROVE SemverInv'
  OBVIOUS
<1>1. UNCHANGED row => RowsKeep
  BY DEF RowsKeep, RowKeeps
<1>2. UNCHANGED pr => PrsMove
  BY PrsStay DEF IInv, TypeOK
<1>3. ASSUME NEW draft \in Drafts, SaveDraft(draft.table, draft.content) PROVE SemverInv'
  BY <1>2, <1>3, SaveDraftKeeps, SemverKeeps DEF SaveDraft
<1>4. ASSUME NEW p \in PRs, MarkPending(p) PROVE SemverInv'
  <2>1. RowsKeep /\ PrsMove
    BY <1>4, MarkPendingKeeps, MarkPendingPR DEF PrBecomes, IInv, TypeOK
  <2>2. QED
    BY <1>4, <2>1, SemverKeeps DEF MarkPending
<1>5. ASSUME NEW p \in PRs, MergePR(p) PROVE SemverInv'
  <2>1. PrsMove
    BY <1>5, OnePR DEF PrBecomes, IInv, TypeOK, MergePR
  <2>2. QED
    BY <1>1, <1>5, <2>1, SemverKeeps DEF MergePR
<1>6. ASSUME NEW p \in PRs, ClosePR(p) PROVE SemverInv'
  <2>1. PrsMove
    BY <1>6, OnePR DEF PrBecomes, IInv, TypeOK, ClosePR
  <2>2. QED
    BY <1>1, <1>6, <2>1, SemverKeeps DEF ClosePR
<1>7. ASSUME NEW p \in PRs, NEW proposal \in Proposals, OpenPR(p, proposal) PROVE SemverInv'
  <2>1. PrsMove
    BY <1>7, OpenPRDoes DEF IInv
  <2>2. QED
    BY <1>1, <1>7, <2>1, SemverKeeps DEF OpenPR
<1>8. ASSUME NEW p \in PRs, NEW d \in Deliveries, Deliver(d, p) PROVE SemverInv'
  <2>1. JobMoves(d) /\ job'[d].pc = "look" /\ job'[d].valid = <<>>
    BY <1>8, DeliverDoes DEF IInv, TypeOK
  <2>2. UNCHANGED <<pr, row, npm, latest, faults>>
    BY <1>8 DEF Deliver
  <2> SUFFICES ASSUME CalmDrafts, NEW e \in Deliveries
               PROVE  Agrees(e)'
    BY <2>2 DEF SemverInv, Calm, CalmDrafts, Agrees
  <2>3. Agrees(e)
    BY DEF SemverInv, CalmDrafts, Agrees
  <2>4. CASE e = d
    <3>1. DOMAIN <<>> = {}
      OBVIOUS
    <3>2. ValidRow(e)'
      BY <2>1, <2>4, <3>1 DEF ValidRow
    <3>3. SpecAgrees(e)'
      BY <2>1, <2>4, IdleAgrees
    <3>4. QED
      BY <3>2, <3>3 DEF Agrees
  <2>5. CASE e # d
    <3>1. job'[e] = job[e]
      BY <2>1, <2>5 DEF JobMoves
    <3>2. SpecAgrees(e)'
      BY <1>2, <2>2, <2>3, <3>1, SpecStays DEF Agrees
    <3>3. e \in Working' => e \in Working
      BY <3>1 DEF Working
    <3>4. e \in Working' => ValidRow(e)'
      BY <1>1, <1>2, <2>2, <2>3, <3>1, <3>3, ValidRowStays DEF Agrees
    <3>5. QED
      BY <3>2, <3>4 DEF Agrees
  <2>6. QED
    BY <2>4, <2>5
<1>9. ASSUME NEW d \in Deliveries, Work(d) \/ Crash(d) PROVE SemverInv'
  BY <1>9, SemverWork
<1>10. CASE UNCHANGED vars
  BY <1>1, <1>2, <1>10, SemverKeeps DEF vars
<1>11. QED
  BY <1>3, <1>4, <1>5, <1>6, <1>7, <1>8, <1>9, <1>10 DEF Next

\* The version that is next is newer, and a new major one if a column is lost.
LEMMA NextVersion ==
  ASSUME NEW state \in Publications, NEW spec, Decide(state, spec) # Null
  PROVE  /\ Newer(Decide(state, spec), state.version)
         /\ (\E c \in ColumnsOf(state.spec) : Signature[spec][c] # Signature[state.spec][c])
              => Decide(state, spec)[1] > state.version[1]
<1>1. state.version \in Versions /\ state # Null
  BY MergeAssumption DEF Publications
<1>2. Decide(state, spec) = Bumped(state.version, DiffBump(state.spec, spec))
  BY <1>1 DEF Decide
<1>3. DiffBump(state.spec, spec) \in {"major", "minor", "patch"}
  BY BumpKinds
<1>4. (\E c \in ColumnsOf(state.spec) : Signature[spec][c] # Signature[state.spec][c])
        => DiffBump(state.spec, spec) = "major"
  BY DEF DiffBump
<1>5. QED
  BY <1>1, <1>2, <1>3, <1>4, BumpedIsNewer

SemverStep ==
  \A t \in Tables : faults \cap {"overlap", "draft"} = {}
       /\ latest'[t] # latest[t] /\ latest[t] # 0 =>
    LET old == npm[t][latest[t]]
        new == npm'[t][latest'[t]]
    IN /\ Newer(new.version, old.version)
       /\ (\E c \in ColumnsOf(old.spec) : Signature[new.spec][c] # Signature[old.spec][c])
            => new.version[1] > old.version[1]

LEMMA PublishKeepsSemver ==
  ASSUME IInv, SemverInv, NEW d \in Deliveries, Publish(d), CalmDrafts,
         NEW t \in Tables, latest'[t] # latest[t], latest[t] # 0
  PROVE  LET old == npm[t][latest[t]]
             new == npm'[t][latest'[t]]
         IN /\ Newer(new.version, old.version)
            /\ (\E c \in ColumnsOf(old.spec) : Signature[new.spec][c] # Signature[old.spec][c])
                 => new.version[1] > old.version[1]
<1>1. /\ job[d].left # <<>> /\ job[d].spec \in Specs /\ job[d].fetched # Null
      /\ job[d].pc = "publish"
  BY AtWork DEF Publish
<1>2. /\ Taken(d) => UNCHANGED <<npm, latest>>
      /\ ~Taken(d) =>
           /\ latest' = [latest EXCEPT ![Target(d)] = Len(npm[Target(d)]) + 1]
           /\ npm'[Target(d)][latest'[Target(d)]] =
                [version |-> job[d].fetched, spec |-> job[d].spec]
      /\ Target(d) \in Tables
  BY <1>1, PublishPackages DEF IInv, TypeOK
<1>3. ~Taken(d)
  BY <1>2
<1>4. latest \in [Tables -> Nat]
  BY DEF IInv, TypeOK, Types
<1>5. t = Target(d)
  BY <1>2, <1>3, <1>4
<1>6. job[d].fetched = Decide(StateOf(t), job[d].spec)
  BY <1>1, <1>3, <1>5 DEF SemverInv, SpecAgrees, CalmDrafts
<1>7. StateOf(t) = npm[t][latest[t]] /\ StateOf(t) \in Publications
  BY StateIsTyped DEF IInv, TypeOK
<1>8. npm'[t][latest'[t]].version = job[d].fetched /\ npm'[t][latest'[t]].spec = job[d].spec
  BY <1>2, <1>3, <1>5
<1>9. /\ Newer(job[d].fetched, StateOf(t).version)
      /\ (\E c \in ColumnsOf(StateOf(t).spec) :
             Signature[job[d].spec][c] # Signature[StateOf(t).spec][c])
           => job[d].fetched[1] > StateOf(t).version[1]
  BY <1>1, <1>6, <1>7, NextVersion
<1>10. QED
  BY <1>7, <1>8, <1>9

LEMMA SemverSteps == IInv /\ SemverInv /\ [Next]_vars => [SemverStep]_vars
<1> SUFFICES ASSUME IInv, SemverInv, Next PROVE SemverStep
  OBVIOUS
<1>1. CASE \E d \in Deliveries : Publish(d)
  BY <1>1, PublishKeepsSemver DEF SemverStep, CalmDrafts, Calm
<1>2. CASE ~\E d \in Deliveries : Publish(d)
  <2>1. UNCHANGED latest
    BY <1>2 DEF Next, Work, Look, DeleteRow, Upsert, FetchFails, StartRun, NoSpec,
       CreateStream, StreamFails, FetchPublished, MarkPublished, FinishRun, Crash,
       SaveDraft, MarkPending, MergePR, ClosePR, OpenPR, Deliver
  <2>2. QED
    BY <2>1 DEF SemverStep
<1>3. QED
  BY <1>1, <1>2

\* logger-sdk-version.ts:37-50, github-packages.ts:140-213: however often a
\* merge is delivered, at the same time or after a death, the tag latest only
\* moves to a newer version, and to a new major one when a column is lost.
THEOREM PackagesKeepSemver == Spec => SdkKeepsSemver
<1>1. Spec => []SemverInv
  <2>1. Init => SemverInv
    BY SemverInit
  <2>2. IInv /\ OneMerge /\ SemverInv /\ [Next]_vars => SemverInv'
    BY SemverNext
  <2>3. QED
    BY <2>1, <2>2, MergeInvariance, OneMergeInvariance, PTL DEF Spec
<1>2. IInv /\ SemverInv /\ [Next]_vars => [SemverStep]_vars
  BY SemverSteps
<1>3. Spec => [][SemverStep]_vars
  BY <1>1, <1>2, MergeInvariance, PTL DEF Spec
<1>4. QED
  BY <1>3, PTL DEF SdkKeepsSemver, SemverStep

-----------------------------------------------------------------------------
(***************************************************************************)
(* Rows that wait for a pull request.                                      *)
(***************************************************************************)

\* What a job still has to do is what its pull request says.
LEMMA TodoIsOnMain ==
  ASSUME IInv, NEW d \in Deliveries, job[d].pc # "none", NEW i \in DOMAIN job[d].todo
  PROVE  LET c == job[d].todo[i]
         IN /\ c \in Changes /\ c.table \in Tables /\ c.content \in Files
            /\ c.table \in Touched(job[d].pr) /\ c.content = pr[job[d].pr].tree[c.table]
            /\ job[d].pr \in PRs /\ pr[job[d].pr].state = "merged"
<1> DEFINE c == job[d].todo[i]
<1>1. job[d].todo \in Seq(Changes)
  BY DEF IInv, TypeOK, Types, JobState
<1>2. c \in Changes
  BY <1>1, ElementOfSeq, LenProperties
<1>3. job[d].pr \in PRs /\ pr[job[d].pr].state = "merged"
  BY DEF IInv, JobsLinked, ChangesLinked
<1>4. PICK j \in DOMAIN pr[job[d].pr].changes : pr[job[d].pr].changes[j] = c
  BY DEF IInv, JobsLinked, ChangesLinked
<1>5. pr[job[d].pr].tree[c.table] = c.content
  BY <1>3, <1>4 DEF IInv, PrsLinked
<1>6. QED
  BY <1>2, <1>3, <1>4, <1>5 DEF Touched, Changes

\* A handler is done with the first of its changes.
LEMMA TodoShrinks ==
  ASSUME IInv, NEW d \in Deliveries, job[d].pc = "apply", job[d].todo # <<>>,
         job'[d].todo = Tail(job[d].todo)
  PROVE  /\ \A t \in Tables : t # Head(job[d].todo).table => (InTodo(d, t)' <=> InTodo(d, t))
         /\ \A i \in DOMAIN job'[d].todo : \E j \in DOMAIN job[d].todo :
              job'[d].todo[i] = job[d].todo[j]
              /\ job[d].todo[j].table # Head(job[d].todo).table
<1>1. job[d].todo \in Seq(Changes)
  BY DEF IInv, TypeOK, Types, JobState
<1>2. /\ \A i \in DOMAIN Tail(job[d].todo) :
           i + 1 \in DOMAIN job[d].todo /\ Tail(job[d].todo)[i] = job[d].todo[i + 1]
      /\ \A i \in DOMAIN job[d].todo : i # 1 =>
           i - 1 \in DOMAIN Tail(job[d].todo) /\ Tail(job[d].todo)[i - 1] = job[d].todo[i]
      /\ 1 \in DOMAIN job[d].todo /\ Head(job[d].todo) = job[d].todo[1]
  BY <1>1, TailHolds
<1>3. \A i, j \in DOMAIN job[d].todo : job[d].todo[i].table = job[d].todo[j].table => i = j
  BY DEF IInv, JobsLinked, ChangesLinked
<1>4. DOMAIN Tail(job[d].todo) \subseteq Nat \ {0}
  <2>1. Tail(job[d].todo) \in Seq(Changes)
    BY <1>1, TodoIsTyped DEF IInv, TypeOK, Types
  <2>2. QED
    BY <2>1, LenProperties
<1>5. ASSUME NEW i \in DOMAIN job'[d].todo
      PROVE  \E j \in DOMAIN job[d].todo :
               job'[d].todo[i] = job[d].todo[j]
               /\ job[d].todo[j].table # Head(job[d].todo).table
  <2>1. i + 1 \in DOMAIN job[d].todo /\ job'[d].todo[i] = job[d].todo[i + 1] /\ i + 1 # 1
    BY <1>2, <1>4, <1>5
  <2>2. QED
    BY <1>2, <1>3, <2>1
<1>6. ASSUME NEW t \in Tables, t # Head(job[d].todo).table
      PROVE  InTodo(d, t)' <=> InTodo(d, t)
  <2>1. InTodo(d, t)' => InTodo(d, t)
    BY <1>5 DEF InTodo
  <2>2. ASSUME NEW i \in DOMAIN job[d].todo, job[d].todo[i].table = t PROVE InTodo(d, t)'
    <3>1. i # 1
      BY <1>2, <1>6, <2>2
    <3>2. i - 1 \in DOMAIN job'[d].todo /\ job'[d].todo[i - 1].table = t
      BY <1>2, <2>2, <3>1
    <3>3. QED
      BY <3>2 DEF InTodo
  <2>3. QED
    BY <2>1, <2>2 DEF InTodo
<1>7. QED
  BY <1>5, <1>6

\* The row a draft is saved to.
LEMMA SaveDraftIs ==
  ASSUME IInv, NEW draft \in Drafts, SaveDraft(draft.table, draft.content)
  PROVE  LET u == draft.table
         IN /\ u \in Tables /\ \A t \in Tables : t # u => row'[t] = row[t]
            /\ row[u] = Null => row'[u] # Null /\ row'[u].status = "draft"
            /\ row[u] # Null =>
                 /\ row'[u] # Null /\ row'[u].id = row[u].id
                 /\ row'[u].status = row[u].status /\ row'[u].pr = row[u].pr
                 /\ row[u].status = "draft" \/ "draft" \in faults
<1> DEFINE u == draft.table
<1>1. u \in Tables /\ draft.content \in Contents
  BY InputsAssumption
<1>2. row \in [Tables -> RowState \cup {Null}] /\ nextId \in Nat
  BY DEF IInv, TypeOK, Types
<1>3. CASE row[u] = Null
  <2> DEFINE r == [id |-> nextId, spec |-> draft.content, status |-> "draft", pr |-> 0]
  <2>1. row' = [row EXCEPT ![u] = r]
    BY <1>3 DEF SaveDraft, Insert
  <2>2. r \in RowState /\ r.status = "draft"
    BY <1>1, <1>2, MergeAssumption DEF RowState, Statuses
  <2> HIDE DEF r
  <2>3. row'[u] = r /\ \A t \in Tables : t # u => row'[t] = row[t]
    BY <1>1, <1>2, <2>1
  <2>4. QED
    BY <1>1, <1>3, <2>2, <2>3, NullIsNoRow
<1>4. CASE row[u] # Null
  <2> DEFINE r == [row[u] EXCEPT !.spec = draft.content]
  <2>1. row' = [row EXCEPT ![u] = r] /\ (row[u].status = "draft" \/ "draft" \in faults)
    BY <1>4 DEF SaveDraft
  <2>2. row[u] \in RowState
    BY <1>1, <1>2, <1>4
  <2>3. r \in RowState /\ r.id = row[u].id /\ r.status = row[u].status /\ r.pr = row[u].pr
    BY <1>1, <2>2 DEF RowState
  <2> HIDE DEF r
  <2>4. row'[u] = r /\ \A t \in Tables : t # u => row'[t] = row[t]
    BY <1>1, <1>2, <2>1
  <2>5. QED
    BY <1>1, <1>4, <2>1, <2>3, <2>4, NullIsNoRow
<1>5. QED
  BY <1>3, <1>4

\* The row of a file that is removed, and the job.
LEMMA DeleteRowIs ==
  ASSUME IInv, NEW d \in Deliveries, DeleteRow(d)
  PROVE  LET u == Head(job[d].todo).table
             id == job[d].known[u]
         IN /\ u \in Tables /\ Head(job[d].todo).content = Absent
            /\ \A t \in Tables : t # u => row'[t] = row[t]
            /\ \/ row'[u] = Null
               \/ row'[u] = row[u] /\ ~(row[u] # Null /\ row[u].id = id)
<1> DEFINE u == Head(job[d].todo).table
           id == job[d].known[u]
<1>1. /\ job[d].pc = "apply" /\ job[d].todo # <<>> /\ Head(job[d].todo).content = Absent
      /\ row' = IF id # 0 /\ Exists(id) THEN [row EXCEPT ![Named(id)] = Null] ELSE row
  BY DEF DeleteRow
<1>2. u \in Tables
  BY <1>1, HeadIsOnMain
<1>3. row \in [Tables -> RowState \cup {Null}] /\ \A t \in Tables : row[t] # Null => row[t].id # 0
  BY DEF IInv, TypeOK, Types, IdsUnique
<1>4. CASE id # 0 /\ Exists(id)
  <2>1. IdOf(id, u)
    BY <1>2, <1>4 DEF IInv, JobsLinked, TargetsLinked
  <2>2. Named(id) = u
    BY <1>4, <2>1, NamedIsTable
  <2>3. QED
    BY <1>1, <1>2, <1>3, <1>4, <2>2
<1>5. CASE ~(id # 0 /\ Exists(id))
  <2>1. row' = row /\ ~(row[u] # Null /\ row[u].id = id)
    BY <1>1, <1>2, <1>3, <1>5 DEF Exists
  <2>2. QED
    BY <1>1, <1>2, <2>1
<1>6. QED
  BY <1>4, <1>5

\* Where a row waits for a pull request after a step, it did before.
RowsWait ==
  \A t \in Tables : Pending(t)' =>
    Pending(t) /\ row'[t] # Null /\ row[t] # Null
    /\ row'[t].pr = row[t].pr /\ row'[t].id = row[t].id

LEMMA StatusIsDone ==
  ASSUME NEW content
  PROVE  StatusOf(content) \notin {"pending_review", "pending_deletion", "draft"}
BY DEF StatusOf

LEMMA SameRowsWait ==
  ASSUME UNCHANGED row
  PROVE  RowsWait
BY DEF RowsWait, Pending

LEMMA SaveDraftWaits ==
  ASSUME IInv, NEW draft \in Drafts, SaveDraft(draft.table, draft.content)
  PROVE  RowsWait
<1> DEFINE u == draft.table
<1>1. /\ u \in Tables /\ \A t \in Tables : t # u => row'[t] = row[t]
      /\ row[u] = Null => row'[u] # Null /\ row'[u].status = "draft"
      /\ row[u] # Null => /\ row'[u] # Null /\ row'[u].id = row[u].id
                          /\ row'[u].status = row[u].status /\ row'[u].pr = row[u].pr
  BY SaveDraftIs
<1>2. ASSUME NEW t \in Tables, Pending(t)', t # u
      PROVE  Pending(t) /\ row'[t] = row[t] /\ row[t] # Null
  BY <1>1, <1>2 DEF Pending
<1>3. Pending(u)' => Pending(u) /\ row'[u] # Null /\ row[u] # Null
                     /\ row'[u].pr = row[u].pr /\ row'[u].id = row[u].id
  BY <1>1 DEF Pending
<1>4. QED
  BY <1>2, <1>3 DEF RowsWait

LEMMA DeleteRowWaits ==
  ASSUME IInv, NEW d \in Deliveries, DeleteRow(d)
  PROVE  RowsWait
<1>1. \A t \in Tables : row'[t] = Null \/ row'[t] = row[t]
  BY DeleteRowIs
<1>2. QED
  BY <1>1 DEF RowsWait, Pending

LEMMA UpsertWaits ==
  ASSUME IInv, NEW d \in Deliveries, Upsert(d)
  PROVE  RowsWait
<1> DEFINE u == Head(job[d].todo).table
<1>1. \A t \in Tables : t # u => row'[t] = row[t]
  BY UpsertRowIs DEF UpsertIs
<1>2. row'[u].status = StatusOf(Head(job[d].todo).content) \/ row' = row
  BY UpsertRowIs DEF UpsertIs
<1>3. \A t \in Tables : Pending(t)' => row'[t] = row[t]
  BY <1>1, <1>2, StatusIsDone DEF Pending
<1>4. QED
  BY <1>3 DEF RowsWait, Pending

LEMMA FetchFailsWaits ==
  ASSUME IInv, NEW d \in Deliveries, FetchFails(d)
  PROVE  RowsWait
<1> DEFINE u == Head(job[d].todo).table
<1>1. row \in [Tables -> RowState \cup {Null}] /\ u \in Tables
  BY FetchFailsDoes, TodoIsTyped DEF IInv, TypeOK, Types
<1>2. row' = row \/ Insert(u, Bad, "invalid", job[d].pr)
  BY FetchFailsDoes DEF IInv, TypeOK
<1>3. \A t \in Tables : row'[t] = row[t] \/ row'[t].status = "invalid"
  BY <1>1, <1>2 DEF Insert
<1>4. QED
  BY <1>3 DEF RowsWait, Pending

\* The steps of a job that change no row and leave its changes alone.
LEMMA WorkflowDoes ==
  ASSUME IInv, NEW d \in Deliveries, Work(d) \/ Crash(d),
         ~(Look(d) \/ DeleteRow(d) \/ Upsert(d) \/ FetchFails(d))
  PROVE  UNCHANGED row /\ job'[d].todo = job[d].todo /\ job'[d].pc # "apply"
<1>1. Types /\ LatestIsLast
  BY DEF IInv, TypeOK
<1>2. CASE StartRun(d)
  BY <1>1, <1>2, StartRunDoes DEF StartRun
<1>3. CASE NoSpec(d)
  BY <1>1, <1>3, NoSpecDoes DEF ChainEnds, SameTask, NoSpec
<1>4. CASE CreateStream(d)
  BY <1>1, <1>4, CreateStreamDoes DEF SameTask, CreateStream
<1>5. CASE StreamFails(d)
  BY <1>1, <1>5, StreamFailsDoes DEF ChainEnds, SameTask, StreamFails
<1>6. CASE FetchPublished(d)
  <2>1. job[d].left # <<>>
    BY <1>6, AtWork DEF FetchPublished
  <2>2. job'[d].todo = job[d].todo /\ job'[d].pc # "apply"
    BY <1>1, <1>6, <2>1, FetchPublishedDoes DEF ChainEnds, SameTask
  <2>3. QED
    BY <1>6, <2>2 DEF FetchPublished
<1>7. CASE Publish(d)
  BY <1>1, <1>7, PublishDoes DEF SameTask, Publish
<1>8. CASE MarkPublished(d)
  <2>1. job[d].left # <<>>
    BY <1>8, AtWork DEF MarkPublished
  <2>2. job'[d].todo = job[d].todo /\ job'[d].pc # "apply"
    BY <1>1, <1>8, <2>1, MarkPublishedDoes DEF ChainEnds, SameTask
  <2>3. QED
    BY <1>8, <2>2 DEF MarkPublished
<1>9. CASE FinishRun(d)
  BY <1>1, <1>9, FinishRunDoes DEF SameTask, FinishRun
<1>10. CASE Crash(d)
  BY <1>1, <1>10, CrashDoes DEF SameTask, Crash
<1>11. QED
  BY <1>2, <1>3, <1>4, <1>5, <1>6, <1>7, <1>8, <1>9, <1>10 DEF Work

\* Only the tools of the agent make a row wait.
LEMMA StepsWait ==
  ASSUME IInv, [Next]_vars, ~\E p \in PRs : MarkPending(p)
  PROVE  RowsWait
<1>1. ASSUME NEW d \in Deliveries, Work(d) \/ Crash(d) PROVE RowsWait
  <2>1. Look(d) => UNCHANGED row
    BY DEF Look
  <2>2. QED
    BY <1>1, <2>1, WorkflowDoes, DeleteRowWaits, UpsertWaits, FetchFailsWaits, SameRowsWait
<1>2. ASSUME UNCHANGED vars \/ \E p \in PRs : \/ MergePR(p) \/ ClosePR(p)
                                              \/ \E proposal \in Proposals : OpenPR(p, proposal)
                                              \/ \E d \in Deliveries : Deliver(d, p)
      PROVE  RowsWait
  <2>1. UNCHANGED row
    BY <1>2 DEF vars, MergePR, ClosePR, OpenPR, Deliver
  <2>2. QED
    BY <2>1, SameRowsWait
<1>3. QED
  BY <1>1, <1>2, SaveDraftWaits DEF Next

\* The tools mark the row of the first change.
LEMMA MarkPendingIs ==
  ASSUME IInv, NEW p \in PRs, MarkPending(p)
  PROVE  LET c == pr[p].changes[1]
         IN /\ 1 \in DOMAIN pr[p].changes /\ c \in Changes /\ c.table \in Tables
            /\ pr[p].state # "none" /\ pr[p].told /\ c.table \in Touched(p)
            /\ \A t \in Tables : t # c.table => row'[t] = row[t]
            /\ row[c.table] = Null => row'[c.table] = Null
            /\ row[c.table] # Null =>
                 /\ row'[c.table] # Null /\ row'[c.table].id = row[c.table].id
                 /\ row'[c.table].spec = row[c.table].spec /\ row'[c.table].pr = p
                 /\ row'[c.table].status = IF c.content = Absent THEN "pending_deletion"
                                           ELSE "pending_review"
<1> DEFINE c == pr[p].changes[1]
<1>1. TypeOK /\ PrsLinked /\ row \in [Tables -> RowState \cup {Null}]
  BY DEF IInv, TypeOK, Types
<1>2. /\ 1 \in DOMAIN pr[p].changes /\ c \in Changes /\ c.table \in Tables
      /\ pr[p].state # "none" /\ pr[p].told
      /\ row[c.table] = Null => row' = row
      /\ row[c.table] # Null =>
           /\ row' = [row EXCEPT ![c.table] = Marked(p, c)]
           /\ Marked(p, c) \in RowState /\ Marked(p, c).id = row[c.table].id
           /\ Marked(p, c).spec = row[c.table].spec /\ Marked(p, c).pr = p
           /\ Marked(p, c).status = IF c.content = Absent THEN "pending_deletion"
                                    ELSE "pending_review"
  BY <1>1, MarkPendingDoes
<1>3. c.table \in Touched(p)
  BY <1>2 DEF Touched
<1>4. CASE row[c.table] = Null
  BY <1>2, <1>3, <1>4
<1>5. CASE row[c.table] # Null
  <2>1. row'[c.table] = Marked(p, c) /\ \A t \in Tables : t # c.table => row'[t] = row[t]
    BY <1>1, <1>2, <1>5
  <2>2. QED
    BY <1>2, <1>3, <1>5, <2>1, NullIsNoRow
<1>6. QED
  BY <1>4, <1>5

LEMMA StepsMovePrs ==
  ASSUME IInv, [Next]_vars
  PROVE  PrsMove
<1>1. ASSUME NEW p \in PRs, MergePR(p) \/ ClosePR(p) \/ MarkPending(p) PROVE PrsMove
  BY <1>1, OnePR, MarkPendingPR DEF PrBecomes, IInv, TypeOK, MergePR, ClosePR
<1>2. ASSUME NEW p \in PRs, NEW proposal \in Proposals, OpenPR(p, proposal) PROVE PrsMove
  BY <1>2, OpenPRDoes DEF IInv
<1>3. ASSUME UNCHANGED pr PROVE PrsMove
  BY <1>3, PrsStay DEF IInv, TypeOK
<1>4. ASSUME NEW d \in Deliveries, Work(d) \/ Crash(d) PROVE UNCHANGED pr
  BY <1>4, JobSteps
<1>5. QED
  BY <1>1, <1>2, <1>3, <1>4 DEF Next, vars, SaveDraft, Deliver

LEMMA TouchedStays ==
  ASSUME PrsMove, NEW p \in PRs, pr[p].state # "none"
  PROVE  Touched(p)' = Touched(p) /\ pr'[p].tree = pr[p].tree /\ pr'[p].state # "none"
BY DEF PrsMove, Touched

LEMMA TouchedInit == Init => PendingTouched /\ MarkedWhenOpen
BY DEF Init, PendingTouched, MarkedWhenOpen, Pending, NoPR

LEMMA TouchedNext == IInv /\ PendingTouched /\ [Next]_vars => PendingTouched'
<1> SUFFICES ASSUME IInv, PendingTouched, [Next]_vars, NEW t \in Tables, Pending(t)'
             PROVE  \E p \in PRs : /\ row'[t].pr = p /\ pr'[p].state # "none"
                                  /\ \E i \in DOMAIN pr'[p].changes : pr'[p].changes[i].table = t
  BY DEF PendingTouched, Touched
<1>1. ASSUME NEW p \in PRs, row'[t].pr = p, pr[p].state # "none", t \in Touched(p)
      PROVE  \E q \in PRs : /\ row'[t].pr = q /\ pr'[q].state # "none"
                           /\ \E i \in DOMAIN pr'[q].changes : pr'[q].changes[i].table = t
  <2>1. Touched(p)' = Touched(p) /\ pr'[p].state # "none"
    BY <1>1, StepsMovePrs, TouchedStays
  <2>2. QED
    BY <1>1, <2>1 DEF Touched
<1>2. CASE RowsWait
  BY <1>1, <1>2 DEF RowsWait, PendingTouched
<1>3. CASE \E p \in PRs : MarkPending(p)
  <2>1. PICK p \in PRs : MarkPending(p)
    BY <1>3
  <2> DEFINE c == pr[p].changes[1]
  <2>2. CASE t = c.table
    BY <1>1, <2>1, <2>2, MarkPendingIs DEF Pending
  <2>3. CASE t # c.table
    <3>1. row'[t] = row[t]
      BY <2>1, <2>3, MarkPendingIs
    <3>2. QED
      BY <1>1, <3>1 DEF Pending, PendingTouched
  <2>4. QED
    BY <2>2, <2>3
<1>4. QED
  BY <1>2, <1>3, StepsWait

LEMMA MarkedNext == IInv /\ MarkedWhenOpen /\ [Next]_vars => MarkedWhenOpen'
<1> SUFFICES ASSUME IInv, MarkedWhenOpen, [Next]_vars
             PROVE  MarkedWhenOpen'
  OBVIOUS
<1>1. CASE UNCHANGED <<pr, faults>>
  BY <1>1 DEF MarkedWhenOpen, Calm
<1>2. ASSUME NEW p \in PRs, MarkPending(p) PROVE MarkedWhenOpen'
  BY <1>2, MarkPendingPR DEF MarkPending, PrBecomes, MarkedWhenOpen, Calm, IInv, TypeOK
<1>3. ASSUME NEW p \in PRs, ClosePR(p) PROVE MarkedWhenOpen'
  BY <1>3, OnePR DEF ClosePR, PrBecomes, MarkedWhenOpen, Calm, IInv, TypeOK
<1>4. ASSUME NEW p \in PRs, MergePR(p) PROVE MarkedWhenOpen'
  BY <1>4, OnePR DEF MergePR, PrBecomes, MarkedWhenOpen, Calm, IInv, TypeOK
<1>5. ASSUME NEW p \in PRs, NEW proposal \in Proposals, OpenPR(p, proposal)
      PROVE  MarkedWhenOpen'
  BY <1>5, OpenPRDoes DEF OpenPR, MarkedWhenOpen, Calm, IInv
<1>6. ASSUME NEW d \in Deliveries, Work(d) \/ Crash(d) PROVE MarkedWhenOpen'
  BY <1>1, <1>6, JobSteps
<1>7. QED
  BY <1>1, <1>2, <1>3, <1>4, <1>5, <1>6 DEF Next, vars, SaveDraft, Deliver

\* A handler of the merge a row waits for leaves the row or knows it.
LEMMA HandlerWaits ==
  ASSUME IInv, RowsWait, NEW t \in Tables, Pending(t)',
         NEW d \in Deliveries, Work(d) \/ Crash(d), ~FetchFails(d),
         InTodo(d, t), job[d].pc = "apply" => job[d].known[t] = row[t].id
  PROVE  InTodo(d, t)' /\ (job'[d].pc = "apply" => job'[d].known[t] = row'[t].id)
<1> DEFINE u == Head(job[d].todo).table
<1>1. Pending(t) /\ row[t] # Null /\ row'[t] # Null /\ row'[t].id = row[t].id
  BY DEF RowsWait
<1>2. CASE Look(d)
  <2>1. job'[d].todo = job[d].todo /\ job'[d].known[t] = row[t].id
    BY <1>1, <1>2, LookDoes DEF IInv, TypeOK
  <2>2. QED
    BY <1>1, <2>1 DEF InTodo
<1>3. CASE DeleteRow(d)
  <2>1. /\ job[d].pc = "apply" /\ job[d].todo # <<>>
        /\ job'[d].todo = Tail(job[d].todo)
        /\ \A v \in Tables : v # u => job'[d].known[v] = job[d].known[v]
    BY <1>3, DeleteRowDoes DEF IInv, TypeOK
  <2>2. t # u
    BY <1>1, <1>3, <2>1, DeleteRowIs
  <2>3. InTodo(d, t)'
    BY <2>1, <2>2, TodoShrinks
  <2>4. QED
    BY <1>1, <2>1, <2>2, <2>3
<1>4. CASE Upsert(d)
  <2>1. job[d].pc = "apply" /\ job[d].todo # <<>> /\ UpsertIs(d)
    BY <1>4, UpsertDoes, UpsertRowIs DEF IInv, TypeOK
  <2>2. CASE GivesUp(job[d], job'[d])
    BY <2>2 DEF GivesUp, SameTask, InTodo
  <2>3. CASE ~GivesUp(job[d], job'[d])
    <3>1. job'[d].todo = Tail(job[d].todo) /\ job'[d].known = job[d].known
      BY <2>1, <2>3 DEF UpsertIs, Applies
    <3>2. t # u
      BY <1>1, <2>1, <2>3, StatusIsDone DEF UpsertIs, Pending
    <3>3. InTodo(d, t)'
      BY <2>1, <3>1, <3>2, TodoShrinks
    <3>4. QED
      BY <1>1, <2>1, <3>1, <3>3
  <2>4. QED
    BY <2>2, <2>3
<1>5. CASE ~(Look(d) \/ DeleteRow(d) \/ Upsert(d))
  <2>1. job'[d].todo = job[d].todo /\ job'[d].pc # "apply"
    BY <1>5, WorkflowDoes
  <2>2. QED
    BY <2>1 DEF InTodo
<1>6. QED
  BY <1>2, <1>3, <1>4, <1>5

\* What a waiting row waits for.
WaitsFor(p, t) ==
  \/ pr[p].state = "open"
  \/ /\ pr[p].state = "merged" /\ Unhandled(p, t)
     /\ \A d \in Deliveries : job[d].pr = p /\ job[d].pc = "apply" => job[d].known[t] = row[t].id

CalmWaits == Calm({"fetch", "early", "close"})

LEMMA WaitsIs == PendingInv <=> (CalmWaits => \A t \in Tables : Pending(t) => WaitsFor(row[t].pr, t))
BY DEF PendingInv, CalmWaits, WaitsFor

LEMMA UnhandledStays ==
  ASSUME NEW p \in PRs, NEW t, pr[p].state # "none", PrsMove, Unhandled(p, t),
         \A d \in Deliveries : job'[d].pc # "none" /\ job'[d].pr = p => InTodo(d, t)'
  PROVE  Unhandled(p, t)'
BY TouchedStays DEF Unhandled

\* A step of a job.
LEMMA WorkWaits ==
  ASSUME IInv, RowsWait, CalmWaits, NEW d \in Deliveries, Work(d) \/ Crash(d),
         NEW t \in Tables, Pending(t)', NEW p \in PRs, WaitsFor(p, t)
  PROVE  WaitsFor(p, t)'
<1>1. /\ JobMoves(d) /\ d \in Working /\ job'[d].pr = job[d].pr
      /\ UNCHANGED pr /\ row'[t].id = row[t].id
  BY JobSteps DEF RowsWait
<1>2. CASE pr[p].state = "open"
  BY <1>1, <1>2 DEF WaitsFor
<1>3. CASE pr[p].state # "open"
  <2>1. /\ pr[p].state = "merged" /\ Unhandled(p, t)
        /\ \A e \in Deliveries : job[e].pr = p /\ job[e].pc = "apply" =>
             job[e].known[t] = row[t].id
    BY <1>3 DEF WaitsFor
  <2>2. ~FetchFails(d)
    BY DEF FetchFails, CalmWaits, Calm
  <2>3. job[d].pr = p => InTodo(d, t)
    BY <1>1, <2>1 DEF Unhandled, Working
  <2>4. job[d].pr = p =>
          InTodo(d, t)' /\ (job'[d].pc = "apply" => job'[d].known[t] = row'[t].id)
    BY <2>1, <2>2, <2>3, HandlerWaits
  <2>5. ASSUME NEW e \in Deliveries, e # d
        PROVE  job'[e] = job[e] /\ (InTodo(e, t) => InTodo(e, t)')
    BY <1>1, <2>5 DEF JobMoves, InTodo
  <2>6. \A e \in Deliveries : job'[e].pc # "none" /\ job'[e].pr = p => InTodo(e, t)'
    BY <1>1, <2>1, <2>4, <2>5 DEF Unhandled
  <2>7. PrsMove
    BY <1>1, PrsStay DEF IInv, TypeOK
  <2>8. Unhandled(p, t)'
    BY <2>1, <2>6, <2>7, UnhandledStays
  <2>9. \A e \in Deliveries : job'[e].pr = p /\ job'[e].pc = "apply" =>
          job'[e].known[t] = row'[t].id
    BY <1>1, <2>1, <2>4, <2>5
  <2>10. QED
    BY <1>1, <2>1, <2>8, <2>9 DEF WaitsFor
<1>4. QED
  BY <1>2, <1>3

\* A step that leaves the jobs alone, and an open pull request to its merge.
LEMMA RepositoryWaits ==
  ASSUME IInv, RowsWait, UNCHANGED job, PrsMove, NEW t \in Tables, Pending(t)',
         NEW p \in PRs, t \in Touched(p), WaitsFor(p, t),
         pr[p].state = "open" => pr'[p].state \in {"open", "merged"}
  PROVE  WaitsFor(p, t)'
<1>1. row'[t].id = row[t].id
  BY DEF RowsWait
<1>2. ASSUME NEW e \in Deliveries PROVE InTodo(e, t)' <=> InTodo(e, t)
  BY DEF InTodo
<1>3. CASE pr[p].state = "open"
  <2>1. \A e \in Deliveries : job[e].pc # "none" => job[e].pr # p
    BY <1>3 DEF IInv, JobsLinked, ChangesLinked
  <2>2. t \in Touched(p)'
    BY <1>3, TouchedStays
  <2>3. Unhandled(p, t)'
    BY <2>1, <2>2 DEF Unhandled
  <2>4. QED
    BY <1>3, <2>1, <2>3 DEF WaitsFor
<1>4. CASE pr[p].state # "open"
  <2>1. pr[p].state = "merged" /\ Unhandled(p, t) /\ pr'[p].state = "merged"
    BY <1>4 DEF WaitsFor, PrsMove
  <2>2. Unhandled(p, t)'
    BY <1>2, <2>1, UnhandledStays DEF Unhandled
  <2>3. QED
    BY <1>1, <1>4, <2>1, <2>2 DEF WaitsFor
<1>5. QED
  BY <1>3, <1>4

LEMMA DeliverWaits ==
  ASSUME IInv, NEW d \in Deliveries, NEW q \in PRs, Deliver(d, q),
         NEW t \in Tables, NEW p \in PRs, WaitsFor(p, t)
  PROVE  WaitsFor(p, t)'
<1>1. /\ JobMoves(d) /\ job[d].pc = "none" /\ job'[d].pc = "look" /\ job'[d].pr = q
      /\ job'[d].todo = pr[q].changes /\ UNCHANGED <<pr, row>>
  BY DeliverDoes DEF IInv, TypeOK, Deliver
<1>2. CASE pr[p].state = "open"
  BY <1>1, <1>2 DEF WaitsFor
<1>3. CASE pr[p].state # "open"
  <2>1. /\ pr[p].state = "merged" /\ Unhandled(p, t) /\ PrsMove
        /\ \A e \in Deliveries : job[e].pr = p /\ job[e].pc = "apply" =>
             job[e].known[t] = row[t].id
    BY <1>1, <1>3, PrsStay DEF WaitsFor, IInv, TypeOK
  <2>2. q = p => InTodo(d, t)'
    BY <1>1, <2>1 DEF Unhandled, Touched, InTodo
  <2>3. ASSUME NEW e \in Deliveries, e # d
        PROVE  job'[e] = job[e] /\ (InTodo(e, t) => InTodo(e, t)')
    BY <1>1, <2>3 DEF JobMoves, InTodo
  <2>4. \A e \in Deliveries : job'[e].pc # "none" /\ job'[e].pr = p => InTodo(e, t)'
    BY <1>1, <2>1, <2>2, <2>3 DEF Unhandled
  <2>5. Unhandled(p, t)'
    BY <2>1, <2>4, UnhandledStays
  <2>6. QED
    BY <1>1, <2>1, <2>3, <2>5 DEF WaitsFor
<1>4. QED
  BY <1>2, <1>3

LEMMA PendingInit == Init => PendingInv
BY DEF Init, PendingInv, Pending

LEMMA PendingNext ==
  IInv /\ PendingTouched /\ MarkedWhenOpen /\ PendingInv /\ [Next]_vars => PendingInv'
<1> SUFFICES ASSUME IInv, PendingTouched, MarkedWhenOpen, PendingInv, [Next]_vars
             PROVE  PendingInv'
  OBVIOUS
<1>1. faults' = faults
  <2>1. \A d \in Deliveries : Work(d) \/ Crash(d) => UNCHANGED faults
    BY JobSteps
  <2>2. QED
    BY <2>1 DEF Next, vars, SaveDraft, MarkPending, MergePR, ClosePR, OpenPR, Deliver
<1> SUFFICES ASSUME CalmWaits, NEW t \in Tables, Pending(t)', NEW p, p = row'[t].pr
             PROVE  WaitsFor(p, t)'
  BY <1>1 DEF PendingInv, CalmWaits, Calm, WaitsFor
<1>2. PrsMove
  BY StepsMovePrs
<1>3. ASSUME row[t].pr = p, Pending(t)
      PROVE  p \in PRs /\ WaitsFor(p, t) /\ t \in Touched(p) /\ pr[p].state # "none"
  BY <1>3, WaitsIs DEF PendingTouched
<1>4. CASE \E q \in PRs : MarkPending(q)
  <2>1. PICK q \in PRs : MarkPending(q)
    BY <1>4
  <2> DEFINE c == pr[q].changes[1]
  <2>2. pr[q].state = "open" /\ UNCHANGED job
    <3>1. pr[q].told /\ UNCHANGED job
      BY <2>1 DEF MarkPending
    <3>2. QED
      BY <3>1 DEF MarkedWhenOpen, CalmWaits, Calm
  <2>3. PrBecomes(q, pr[q].state, FALSE)
    BY <2>1, MarkPendingPR DEF IInv, TypeOK
  <2>4. CASE t = c.table
    <3>1. p = q
      BY <2>1, <2>4, MarkPendingIs DEF Pending
    <3>2. QED
      BY <2>2, <2>3, <3>1 DEF PrBecomes, WaitsFor
  <2>5. CASE t # c.table
    <3>1. row'[t] = row[t]
      BY <2>1, <2>5, MarkPendingIs
    <3>2. Pending(t) /\ row[t].pr = p
      BY <3>1 DEF Pending
    <3>3. p \in PRs /\ WaitsFor(p, t) /\ t \in Touched(p)
      BY <1>3, <3>2
    <3>4. pr'[p].state = pr[p].state /\ Touched(p)' = Touched(p)
      BY <2>2, <2>3, <3>3 DEF PrBecomes, Touched
    <3>5. QED
      BY <2>2, <3>1, <3>3, <3>4 DEF WaitsFor, Unhandled, InTodo
  <2>6. QED
    BY <2>4, <2>5
<1>5. CASE ~\E q \in PRs : MarkPending(q)
  <2>1. RowsWait
    BY <1>5, StepsWait
  <2>2. Pending(t) /\ row[t].pr = p
    BY <2>1 DEF RowsWait
  <2>3. p \in PRs /\ WaitsFor(p, t) /\ t \in Touched(p) /\ pr[p].state # "none"
    BY <1>3, <2>2
  <2>4. ASSUME NEW d \in Deliveries, Work(d) \/ Crash(d) PROVE WaitsFor(p, t)'
    BY <2>1, <2>3, <2>4, WorkWaits
  <2>5. ASSUME NEW d \in Deliveries, NEW q \in PRs, Deliver(d, q) PROVE WaitsFor(p, t)'
    BY <2>3, <2>5, DeliverWaits
  <2>6. ASSUME UNCHANGED <<job, pr>> PROVE WaitsFor(p, t)'
    BY <1>2, <2>1, <2>3, <2>6, RepositoryWaits
  <2>7. ASSUME NEW q \in PRs, MergePR(q) PROVE WaitsFor(p, t)'
    <3>1. UNCHANGED job /\ PrBecomes(q, "merged", pr[q].told)
      BY <2>7, OnePR DEF MergePR, IInv, TypeOK
    <3>2. pr[p].state = "open" => pr'[p].state \in {"open", "merged"}
      BY <2>3, <3>1 DEF PrBecomes
    <3>3. QED
      BY <1>2, <2>1, <2>3, <3>1, <3>2, RepositoryWaits
  <2>8. ASSUME NEW q \in PRs, NEW proposal \in Proposals, OpenPR(q, proposal)
        PROVE  WaitsFor(p, t)'
    <3>1. UNCHANGED job /\ pr[q].state = "none" /\ \A r \in PRs : r # q => pr'[r] = pr[r]
      BY <2>8, OpenPRDoes DEF OpenPR, IInv
    <3>2. QED
      BY <1>2, <2>1, <2>3, <3>1, RepositoryWaits
  <2>9. \A q \in PRs : ~ClosePR(q)
    BY DEF ClosePR, CalmWaits, Calm
  <2>10. QED
    BY <1>5, <2>4, <2>5, <2>6, <2>7, <2>8, <2>9 DEF Next, vars, SaveDraft
<1>6. QED
  BY <1>4, <1>5

-----------------------------------------------------------------------------
(***************************************************************************)
(* The rows follow the main branch.                                        *)
(***************************************************************************)

CalmRows == Calm({"overlap", "fetch", "early", "draft"})

\* A row follows its file, or is still to be reached by a delivery.
Reached(t) == Follows(t) \/ \E p \in PRs : IsLast(p) /\ Unhandled(p, t)

LEMMA RowsInvIs ==
  RowsInv <=> (CalmRows => (\A t \in Tables : Reached(t)) /\ \A d \in Deliveries : KnowsRows(d))
BY DEF RowsInv, CalmRows, Reached

LEMMA CalmIs ==
  ASSUME CalmRows
  PROVE  /\ Calm({"overlap"}) /\ CalmDrafts /\ Calm({"overlap", "draft"}) /\ Calm({"early"})
         /\ "overlap" \notin faults /\ "fetch" \notin faults /\ "early" \notin faults
         /\ "draft" \notin faults
BY DEF CalmRows, Calm, CalmDrafts

\* At work on a change: the file on main is the change.
LEMMA AtApply ==
  ASSUME IInv, OneMerge, CalmRows, NEW d \in Deliveries, job[d].pc = "apply",
         NEW i \in DOMAIN job[d].todo
  PROVE  /\ job[d].todo[i].table \in Tables
         /\ main[job[d].todo[i].table] = job[d].todo[i].content
         /\ job[d].todo[i].table \in Touched(job[d].pr)
         /\ job[d].todo[i].content = pr[job[d].pr].tree[job[d].todo[i].table]
         /\ job[d].pr \in PRs /\ IsLast(job[d].pr)
<1>1. /\ job[d].todo[i].table \in Tables
      /\ job[d].todo[i].table \in Touched(job[d].pr)
      /\ job[d].todo[i].content = pr[job[d].pr].tree[job[d].todo[i].table]
      /\ job[d].pr \in PRs
  BY TodoIsOnMain
<1>2. d \in Working
  BY DEF Working
<1>3. IsLast(job[d].pr)
  BY <1>2, CalmIs DEF OneMerge
<1>4. QED
  BY <1>1, <1>3, CalmIs DEF OneMerge

LEMMA FollowsStays ==
  ASSUME NEW t, Follows(t), row'[t] = row[t], main'[t] = main[t], faults' = faults,
         Pending(t) /\ pr[row[t].pr].state = "open" =>
           pr'[row[t].pr].state = "open" \/ "close" \in faults
  PROVE  Follows(t)'
BY DEF Follows, Unpublished, StatusOf, Pending

\* The row of a file that is still to be handled stays so.
LEMMA LastStays ==
  ASSUME IInv, NEW p \in PRs, IsLast(p), NEW t, Unhandled(p, t), UNCHANGED job,
         \A q \in PRs : pr'[q].state = "merged" <=> pr[q].state = "merged",
         pr'[p].changes = pr[p].changes
  PROVE  IsLast(p)' /\ Unhandled(p, t)'
BY DEF IsLast, Unhandled, Touched, InTodo

LEMMA SaveDraftFollows ==
  ASSUME IInv, OneMerge, CalmRows, RowsInv, NEW draft \in Drafts,
         SaveDraft(draft.table, draft.content)
  PROVE  (\A t \in Tables : Reached(t)') /\ \A d \in Deliveries : KnowsRows(d)'
<1> DEFINE u == draft.table
<1>1. /\ u \in Tables /\ \A t \in Tables : t # u => row'[t] = row[t]
      /\ row[u] = Null => row'[u] # Null /\ row'[u].status = "draft"
      /\ row[u] # Null => /\ row'[u] # Null /\ row'[u].id = row[u].id
                          /\ row'[u].status = row[u].status
                          /\ row[u].status = "draft"
  BY SaveDraftIs, CalmIs
<1>2. UNCHANGED <<main, pr, job, faults>>
  BY DEF SaveDraft
<1>3. \A t \in Tables : Reached(t)
  BY RowsInvIs
<1>4. ASSUME NEW t \in Tables, Follows(t) PROVE Follows(t)'
  <2>1. CASE t # u
    BY <1>1, <1>2, <1>4, <2>1, FollowsStays
  <2>2. CASE t = u
    <3>1. main[u] = Absent /\ (row[u] # Null => row[u].status = "draft")
      BY <1>1, <1>4, <2>2, StatusIsDone DEF Follows, Pending
    <3>2. QED
      BY <1>1, <1>2, <2>2, <3>1 DEF Follows, Unpublished
  <2>3. QED
    BY <2>1, <2>2
<1>5. ASSUME NEW p \in PRs, IsLast(p), NEW t, Unhandled(p, t)
      PROVE  IsLast(p)' /\ Unhandled(p, t)'
  BY <1>2, <1>5, LastStays
<1>6. \A t \in Tables : Reached(t)'
  BY <1>3, <1>4, <1>5 DEF Reached
<1>7. ASSUME NEW t \in Tables, Unpublished(t) PROVE Unpublished(t)'
  BY <1>1, <1>7 DEF Unpublished
<1>8. ASSUME NEW d \in Deliveries, KnowsRows(d) PROVE KnowsRows(d)'
  <2>1. \A i \in DOMAIN job[d].todo : job[d].pc = "apply" => job[d].todo[i].table \in Tables
    BY TodoIsOnMain
  <2>2. \A t \in Tables : row[t] # Null => row'[t] # Null /\ row'[t].id = row[t].id
    BY <1>1
  <2>3. QED
    BY <1>2, <1>7, <1>8, <2>1, <2>2 DEF KnowsRows
<1>9. \A d \in Deliveries : KnowsRows(d)
  BY RowsInvIs
<1>10. QED
  BY <1>6, <1>8, <1>9

LEMMA MarkPendingFollows ==
  ASSUME IInv, OneMerge, PendingTouched, MarkedWhenOpen, CalmRows, RowsInv,
         NEW p \in PRs, MarkPending(p)
  PROVE  (\A t \in Tables : Reached(t)') /\ \A d \in Deliveries : KnowsRows(d)'
<1> DEFINE c == pr[p].changes[1]
           u == c.table
<1>1. /\ 1 \in DOMAIN pr[p].changes /\ u \in Tables /\ pr[p].told
      /\ \A t \in Tables : t # u => row'[t] = row[t]
      /\ row[u] = Null => row'[u] = Null
      /\ row[u] # Null =>
           /\ row'[u] # Null /\ row'[u].id = row[u].id
           /\ row'[u].spec = row[u].spec /\ row'[u].pr = p
           /\ row'[u].status = IF c.content = Absent THEN "pending_deletion" ELSE "pending_review"
  BY MarkPendingIs
<1>2. UNCHANGED <<main, job, faults>> /\ PrBecomes(p, pr[p].state, FALSE)
  BY MarkPendingPR DEF IInv, TypeOK, MarkPending
<1>3. pr[p].state = "open" /\ pr'[p].state = "open"
  BY <1>1, <1>2, CalmIs DEF MarkedWhenOpen, PrBecomes
<1>4. OpenAlone(p)
  BY <1>3, CalmIs DEF OneMerge
<1>5. c.content = Absent => main[u] # Absent
  BY <1>1, <1>4 DEF OpenAlone
<1>6. \A q \in PRs : pr'[q].state = pr[q].state /\ pr'[q].changes = pr[q].changes
  BY <1>2 DEF PrBecomes
<1>7. ASSUME NEW t \in Tables, Unpublished(t), main[t] = Absent PROVE Unpublished(t)'
  BY <1>1, <1>5, <1>7 DEF Unpublished
<1>8. ASSUME NEW t \in Tables, Follows(t) PROVE Follows(t)'
  <2>1. CASE t # u
    <3>1. Pending(t) => row[t].pr \in PRs
      BY <1>8 DEF PendingTouched
    <3>2. QED
      BY <1>1, <1>2, <1>6, <1>8, <2>1, <3>1, FollowsStays
  <2>2. CASE t = u
    <3>1. CASE main[u] = Absent
      BY <1>2, <1>7, <1>8, <2>2, <3>1 DEF Follows
    <3>2. CASE main[u] # Absent
      <4>1. row[t] # Null /\ row[t].spec = main[t]
        BY <1>8, <2>2, <3>2 DEF Follows
      <4>2. /\ row'[t] # Null /\ row'[t].spec = main'[t] /\ row'[t].pr = p
            /\ row'[t].status \in {"pending_review", "pending_deletion"}
        BY <1>1, <1>2, <2>2, <4>1
      <4>3. Pending(t)'
        BY <4>2 DEF Pending
      <4>4. main'[t] # Absent
        BY <1>2, <2>2, <3>2
      <4>5. QED
        BY <1>3, <4>2, <4>3, <4>4 DEF Follows
    <3>3. QED
      BY <3>1, <3>2
  <2>3. QED
    BY <2>1, <2>2
<1>9. ASSUME NEW q \in PRs, IsLast(q), NEW t, Unhandled(q, t)
      PROVE  IsLast(q)' /\ Unhandled(q, t)'
  BY <1>2, <1>6, <1>9, LastStays
<1>10. \A t \in Tables : Reached(t)'
  BY <1>8, <1>9, RowsInvIs DEF Reached
<1>11. ASSUME NEW d \in Deliveries, KnowsRows(d) PROVE KnowsRows(d)'
  <2>1. \A i \in DOMAIN job[d].todo : job[d].pc = "apply" =>
          job[d].todo[i].table \in Tables /\ main[job[d].todo[i].table] = job[d].todo[i].content
    BY AtApply
  <2>2. \A t \in Tables : row[t] # Null => row'[t] # Null /\ row'[t].id = row[t].id
    BY <1>1
  <2>3. QED
    BY <1>2, <1>7, <1>11, <2>1, <2>2 DEF KnowsRows
<1>12. QED
  BY <1>10, <1>11, RowsInvIs

LEMMA ClosePRFollows ==
  ASSUME IInv, CalmRows, RowsInv, NEW p \in PRs, ClosePR(p)
  PROVE  (\A t \in Tables : Reached(t)') /\ \A d \in Deliveries : KnowsRows(d)'
<1>1. /\ UNCHANGED <<main, row, job, faults>> /\ "close" \in faults /\ pr[p].state = "open"
      /\ PrBecomes(p, "closed", pr[p].told)
  BY OnePR DEF ClosePR, IInv, TypeOK
<1>2. ASSUME NEW t \in Tables, Follows(t) PROVE Follows(t)'
  BY <1>1, <1>2, FollowsStays
<1>3. \A q \in PRs : (pr'[q].state = "merged" <=> pr[q].state = "merged")
                     /\ pr'[q].changes = pr[q].changes
  BY <1>1 DEF PrBecomes
<1>4. ASSUME NEW q \in PRs, IsLast(q), NEW t, Unhandled(q, t)
      PROVE  IsLast(q)' /\ Unhandled(q, t)'
  BY <1>1, <1>3, <1>4, LastStays
<1>5. \A d \in Deliveries : KnowsRows(d)'
  BY <1>1, RowsInvIs DEF KnowsRows, Unpublished
<1>6. QED
  BY <1>2, <1>4, <1>5, RowsInvIs DEF Reached

LEMMA OpenPRFollows ==
  ASSUME IInv, PendingTouched, CalmRows, RowsInv, NEW p \in PRs, NEW proposal \in Proposals,
         OpenPR(p, proposal)
  PROVE  (\A t \in Tables : Reached(t)') /\ \A d \in Deliveries : KnowsRows(d)'
<1>1. /\ UNCHANGED <<main, row, job, faults>> /\ pr[p].state = "none"
      /\ \A q \in PRs : q # p => pr'[q] = pr[q]
      /\ pr'[p].state = "open"
  <2>1. TypeOK
    BY DEF IInv
  <2>2. UNCHANGED <<main, row, job, faults>>
    BY DEF OpenPR
  <2>3. QED
    BY <2>1, <2>2, OpenPRDoes
<1>2. ASSUME NEW t \in Tables, Follows(t) PROVE Follows(t)'
  <2>1. Pending(t) => row[t].pr \in PRs /\ row[t].pr # p
    BY <1>1, <1>2 DEF PendingTouched
  <2>2. QED
    BY <1>1, <1>2, <2>1, FollowsStays
<1>3. \A q \in PRs : pr'[q].state = "merged" <=> pr[q].state = "merged"
  BY <1>1
<1>4. ASSUME NEW q \in PRs, IsLast(q), NEW t, Unhandled(q, t)
      PROVE  IsLast(q)' /\ Unhandled(q, t)'
  <2>1. q # p
    BY <1>1, <1>4 DEF IsLast
  <2>2. QED
    BY <1>1, <1>3, <1>4, <2>1, LastStays
<1>5. \A d \in Deliveries : KnowsRows(d)'
  BY <1>1, RowsInvIs DEF KnowsRows, Unpublished
<1>6. QED
  BY <1>2, <1>4, <1>5, RowsInvIs DEF Reached

LEMMA MergePRFollows ==
  ASSUME IInv, OneMerge, PendingTouched, CalmRows, RowsInv, NEW p \in PRs, MergePR(p)
  PROVE  (\A t \in Tables : Reached(t)') /\ \A d \in Deliveries : KnowsRows(d)'
<1>1. /\ UNCHANGED <<row, job, faults>> /\ pr[p].state = "open" /\ main' = pr[p].tree
      /\ PrBecomes(p, "merged", pr[p].told)
  BY OnePR DEF MergePR, IInv, TypeOK
<1>2. OpenAlone(p)
  BY <1>1, CalmIs DEF OneMerge
<1>3. /\ \A q \in PRs : q # p => pr'[q] = pr[q]
      /\ pr'[p].state = "merged" /\ pr'[p].changes = pr[p].changes
  BY <1>1 DEF PrBecomes
<1>4. Working = {}
  BY NoneAtWork, CalmIs
<1>5. \A d \in Deliveries : KnowsRows(d)'
  BY <1>1, <1>4 DEF KnowsRows, Working
<1>6. IsLast(p)'
  BY <1>2, <1>3 DEF IsLast, OpenAlone, PRs
<1>7. \A d \in Deliveries : job[d].pc # "none" => job[d].pr # p
  BY <1>1 DEF IInv, JobsLinked, ChangesLinked
<1>8. ASSUME NEW t \in Touched(p) PROVE Unhandled(p, t)'
  BY <1>1, <1>3, <1>7 DEF Unhandled, Touched
<1>9. ASSUME NEW t \in Tables, t \notin Touched(p) PROVE Reached(t)'
  <2>1. main'[t] = main[t]
    BY <1>1, <1>2, <1>9 DEF OpenAlone
  <2>2. ASSUME NEW q \in PRs, IsLast(q), Unhandled(q, t) PROVE FALSE
    <3>1. q < p /\ pr[q].state = "merged"
      BY <1>1, <2>2, OpenIsLast, CalmIs DEF IsLast
    <3>2. Settled(q)
      BY <3>1, CalmIs DEF MergePR
    <3>3. PICK d \in Deliveries : job[d].pr = q /\ job[d].pc = "done"
      BY <3>2 DEF Settled
    <3>4. job[d].todo = <<>>
      BY <3>3 DEF IInv, JobsLinked, PhasesLinked
    <3>5. QED
      BY <2>2, <3>3, <3>4 DEF Unhandled, InTodo
  <2>3. Follows(t)
    BY <2>2, RowsInvIs DEF Reached
  <2>4. Pending(t) => row[t].pr \in PRs /\ row[t].pr # p
    BY <1>9 DEF PendingTouched
  <2>5. Follows(t)'
    BY <1>1, <1>3, <2>1, <2>3, <2>4, FollowsStays
  <2>6. QED
    BY <2>5 DEF Reached
<1>10. QED
  BY <1>5, <1>6, <1>8, <1>9 DEF Reached

LEMMA DeliverFollows ==
  ASSUME IInv, CalmRows, RowsInv, NEW d \in Deliveries, NEW p \in PRs, Deliver(d, p)
  PROVE  (\A t \in Tables : Reached(t)') /\ \A e \in Deliveries : KnowsRows(e)'
<1>1. /\ JobMoves(d) /\ job[d].pc = "none" /\ job'[d].pc = "look" /\ job'[d].pr = p
      /\ job'[d].todo = pr[p].changes /\ UNCHANGED <<main, pr, row, faults>>
  BY DeliverDoes DEF IInv, TypeOK, Deliver
<1>2. ASSUME NEW t \in Tables, Follows(t) PROVE Follows(t)'
  BY <1>1, <1>2, FollowsStays
<1>3. ASSUME NEW q \in PRs, IsLast(q), NEW t, Unhandled(q, t)
      PROVE  IsLast(q)' /\ Unhandled(q, t)'
  <2>1. q = p => InTodo(d, t)'
    BY <1>1, <1>3 DEF Unhandled, Touched, InTodo
  <2>2. \A e \in Deliveries : e # d => job'[e] = job[e]
    BY <1>1 DEF JobMoves
  <2>3. \A e \in Deliveries : job'[e].pc # "none" /\ job'[e].pr = q => InTodo(e, t)'
    BY <1>1, <1>3, <2>1, <2>2 DEF Unhandled, InTodo
  <2>4. Unhandled(q, t)'
    BY <1>1, <1>3, <2>3 DEF Unhandled, Touched
  <2>5. QED
    BY <1>1, <1>3, <2>4 DEF IsLast
<1>4. ASSUME NEW e \in Deliveries PROVE KnowsRows(e)'
  <2>1. e # d => job'[e] = job[e] /\ KnowsRows(e)
    BY <1>1, RowsInvIs DEF JobMoves
  <2>2. QED
    BY <1>1, <2>1 DEF KnowsRows, Unpublished
<1>5. QED
  BY <1>2, <1>3, <1>4, RowsInvIs DEF Reached

\* A step of a job that reaches the row of one file, or of none.
LEMMA HandlerFollows ==
  ASSUME IInv, OneMerge, CalmRows, RowsInv, NEW d \in Deliveries,
         JobMoves(d), job'[d].pr = job[d].pr, d \in Working, UNCHANGED <<main, pr, faults>>,
         NEW u,
         \A t \in Tables : t # u => row'[t] = row[t] /\ (InTodo(d, t) => InTodo(d, t)'),
         u \in Tables => Follows(u)' \/ (row'[u] = row[u] /\ (InTodo(d, u) => InTodo(d, u)'))
  PROVE  \A t \in Tables : Reached(t)'
<1>1. ASSUME NEW t \in Tables, row'[t] = row[t], InTodo(d, t) => InTodo(d, t)'
      PROVE  Reached(t)'
  <2>1. CASE Follows(t)
    <3>1. Follows(t)'
      BY <1>1, <2>1, FollowsStays
    <3>2. QED
      BY <3>1 DEF Reached
  <2>2. ASSUME NEW q \in PRs, IsLast(q), Unhandled(q, t) PROVE Reached(t)'
    <3>1. \A e \in Deliveries : e # d => job'[e] = job[e] /\ (InTodo(e, t)' <=> InTodo(e, t))
      BY DEF JobMoves, InTodo
    <3>2. job[d].pc # "none"
      BY DEF Working
    <3>3. \A e \in Deliveries : job'[e].pc # "none" /\ job'[e].pr = q => InTodo(e, t)'
      BY <1>1, <2>2, <3>1, <3>2 DEF Unhandled
    <3>4. Unhandled(q, t)'
      BY <2>2, <3>3 DEF Unhandled, Touched
    <3>5. IsLast(q)'
      BY <2>2 DEF IsLast
    <3>6. QED
      BY <3>4, <3>5 DEF Reached
  <2>3. QED
    BY <2>1, <2>2, RowsInvIs DEF Reached
<1>2. QED
  BY <1>1 DEF Reached

\* The other handlers of the same merge.
LEMMA OthersAgree ==
  ASSUME IInv, OneMerge, CalmRows, NEW d \in Deliveries, job[d].pc = "apply",
         job[d].todo # <<>>, NEW e \in Deliveries, job[e].pc = "apply",
         NEW i \in DOMAIN job[e].todo, job[e].todo[i].table = Head(job[d].todo).table
  PROVE  job[e].todo[i].content = Head(job[d].todo).content
<1>1. 1 \in DOMAIN job[d].todo /\ Head(job[d].todo) = job[d].todo[1]
  BY HeadIsOnMain
<1>2. QED
  BY <1>1, AtApply

LEMMA LookFollows ==
  ASSUME IInv, OneMerge, CalmRows, RowsInv, NEW d \in Deliveries, Look(d)
  PROVE  (\A t \in Tables : Reached(t)') /\ \A e \in Deliveries : KnowsRows(e)'
<1>1. /\ JobMoves(d) /\ job'[d].todo = job[d].todo /\ job'[d].pr = job[d].pr
      /\ job[d].pc = "look" /\ d \in Working /\ UNCHANGED <<main, pr, row, faults>>
      /\ \A t \in Tables : job'[d].known[t] = IF row[t] = Null THEN 0 ELSE row[t].id
  BY LookDoes DEF IInv, TypeOK, Look, Working
<1>2. \A t \in Tables : InTodo(d, t) => InTodo(d, t)'
  BY <1>1 DEF InTodo
<1>3. \A t \in Tables : Reached(t)'
  BY <1>1, <1>2, HandlerFollows
<1>4. KnowsRows(d)'
  <2>1. \A i \in DOMAIN job[d].todo : job[d].todo[i].table \in Tables
    BY <1>1, TodoIsOnMain
  <2>2. QED
    BY <1>1, <2>1 DEF KnowsRows, Unpublished
<1>5. ASSUME NEW e \in Deliveries, e # d PROVE KnowsRows(e)'
  <2>1. job'[e] = job[e] /\ KnowsRows(e)
    BY <1>1, <1>5, RowsInvIs DEF JobMoves
  <2>2. QED
    BY <1>1, <2>1 DEF KnowsRows, Unpublished
<1>6. QED
  BY <1>3, <1>4, <1>5

LEMMA DeleteRowFollows ==
  ASSUME IInv, OneMerge, CalmRows, RowsInv, NEW d \in Deliveries, DeleteRow(d)
  PROVE  (\A t \in Tables : Reached(t)') /\ \A e \in Deliveries : KnowsRows(e)'
<1> DEFINE h == Head(job[d].todo)
<1> SUFFICES ASSUME NEW u, u = h.table
             PROVE  (\A t \in Tables : Reached(t)') /\ \A e \in Deliveries : KnowsRows(e)'
  OBVIOUS
<1>1. /\ JobMoves(d) /\ job[d].pc = "apply" /\ job[d].todo # <<>>
      /\ job'[d].todo = Tail(job[d].todo) /\ job'[d].pr = job[d].pr
      /\ \A t \in Tables : t # u => job'[d].known[t] = job[d].known[t]
  BY DeleteRowDoes DEF IInv, TypeOK
<1>2. /\ u \in Tables /\ h.content = Absent
      /\ \A t \in Tables : t # u => row'[t] = row[t]
      /\ \/ row'[u] = Null
         \/ row'[u] = row[u] /\ ~(row[u] # Null /\ row[u].id = job[d].known[u])
  BY DeleteRowIs
<1>3. UNCHANGED <<main, pr, faults>> /\ d \in Working
  BY <1>1 DEF DeleteRow, Working
<1>4. 1 \in DOMAIN job[d].todo /\ job[d].todo[1] = h
  BY <1>1, HeadIsOnMain
<1>5. main[u] = Absent
  BY <1>1, <1>2, <1>4, AtApply
<1>6. /\ \A t \in Tables : t # u => (InTodo(d, t)' <=> InTodo(d, t))
      /\ \A i \in DOMAIN job'[d].todo : \E j \in DOMAIN job[d].todo :
           job'[d].todo[i] = job[d].todo[j] /\ job[d].todo[j].table # u
  BY <1>1, TodoShrinks
<1>7. Unpublished(u)'
  <2>1. CASE row'[u] = Null
    BY <2>1 DEF Unpublished
  <2>2. CASE row'[u] = row[u] /\ ~(row[u] # Null /\ row[u].id = job[d].known[u])
    <3>1. Unpublished(u)
      BY <1>1, <1>2, <1>4, <2>2, RowsInvIs DEF KnowsRows
    <3>2. QED
      BY <2>2, <3>1 DEF Unpublished
  <2>3. QED
    BY <1>2, <2>1, <2>2
<1>8. Follows(u)'
  BY <1>3, <1>5, <1>7 DEF Follows
<1>9. \A t \in Tables : Reached(t)'
  BY <1>1, <1>2, <1>3, <1>6, <1>8, HandlerFollows
<1>10. KnowsRows(d)'
  <2>1. KnowsRows(d)
    BY RowsInvIs
  <2>2. \A j \in DOMAIN job[d].todo : job[d].todo[j].table \in Tables
    BY <1>1, TodoIsOnMain
  <2> SUFFICES ASSUME NEW i \in DOMAIN job'[d].todo, NEW t, t = job'[d].todo[i].table
               PROVE  \/ row'[t] # Null /\ job'[d].known[t] = row'[t].id
                      \/ IF job'[d].todo[i].content = Absent THEN Unpublished(t)'
                         ELSE job'[d].known[t] = 0
    BY DEF KnowsRows
  <2>3. PICK j \in DOMAIN job[d].todo :
          job'[d].todo[i] = job[d].todo[j] /\ job[d].todo[j].table # u
    BY <1>6
  <2>4. t \in Tables /\ t # u /\ row'[t] = row[t] /\ job'[d].known[t] = job[d].known[t]
    BY <1>1, <1>2, <2>2, <2>3
  <2>5. \/ row[t] # Null /\ job[d].known[t] = row[t].id
        \/ IF job[d].todo[j].content = Absent THEN Unpublished(t) ELSE job[d].known[t] = 0
    BY <1>1, <2>1, <2>3 DEF KnowsRows
  <2>6. Unpublished(t)' <=> Unpublished(t)
    BY <2>4 DEF Unpublished
  <2>7. QED
    BY <2>3, <2>4, <2>5, <2>6
<1>11. ASSUME NEW e \in Deliveries, e # d PROVE KnowsRows(e)'
  <2>1. job'[e] = job[e] /\ KnowsRows(e)
    BY <1>1, <1>11, RowsInvIs DEF JobMoves
  <2> SUFFICES ASSUME job[e].pc = "apply", NEW i \in DOMAIN job[e].todo,
                      NEW t, t = job[e].todo[i].table
               PROVE  \/ row'[t] # Null /\ job[e].known[t] = row'[t].id
                      \/ IF job[e].todo[i].content = Absent THEN Unpublished(t)'
                         ELSE job[e].known[t] = 0
    BY <2>1 DEF KnowsRows
  <2>2. CASE t = u
    <3>1. job[e].todo[i].content = Absent
      BY <1>1, <1>2, <2>2, OthersAgree
    <3>2. QED
      BY <1>7, <2>2, <3>1
  <2>3. CASE t # u
    <3>1. t \in Tables
      BY TodoIsOnMain
    <3>2. row'[t] = row[t]
      BY <1>2, <2>3, <3>1
    <3>3. Unpublished(t)' <=> Unpublished(t)
      BY <3>2 DEF Unpublished
    <3>4. QED
      BY <2>1, <3>2, <3>3 DEF KnowsRows
  <2>4. QED
    BY <2>2, <2>3
<1>12. QED
  BY <1>9, <1>10, <1>11

LEMMA UpsertFollows ==
  ASSUME IInv, OneMerge, CalmRows, RowsInv, NEW d \in Deliveries, Upsert(d)
  PROVE  (\A t \in Tables : Reached(t)') /\ \A e \in Deliveries : KnowsRows(e)'
<1> DEFINE h == Head(job[d].todo)
<1> SUFFICES ASSUME NEW u, u = h.table
             PROVE  (\A t \in Tables : Reached(t)') /\ \A e \in Deliveries : KnowsRows(e)'
  OBVIOUS
<1>1. /\ job[d].pc = "apply" /\ job[d].todo # <<>> /\ h.content \in Contents
      /\ UNCHANGED <<main, pr, faults>> /\ UpsertIs(d)
  BY UpsertDoes, UpsertRowIs DEF IInv, TypeOK, Upsert
<1>2. JobMoves(d) /\ d \in Working /\ job'[d].pr = job[d].pr
  BY JobSteps DEF Work
<1>3. 1 \in DOMAIN job[d].todo /\ job[d].todo[1] = h /\ u \in Tables
  BY <1>1, HeadIsOnMain
<1>4. main[u] = h.content /\ h.content # Absent
  BY <1>1, <1>3, MergeAssumption, AtApply DEF Contents
<1>5. \A t \in Tables : t # u => row'[t] = row[t]
  BY <1>1 DEF UpsertIs
<1>6. \A e \in Deliveries : KnowsRows(e)
  BY RowsInvIs
<1>7. CASE GivesUp(job[d], job'[d]) /\ UNCHANGED row
  <2>1. job'[d].todo = job[d].todo /\ job'[d].pc = "failed"
    BY <1>7 DEF GivesUp, SameTask
  <2>2. \A t \in Tables : InTodo(d, t) => InTodo(d, t)'
    BY <2>1 DEF InTodo
  <2>3. \A t \in Tables : Reached(t)'
    BY <1>1, <1>2, <1>7, <2>2, HandlerFollows
  <2>4. ASSUME NEW e \in Deliveries PROVE KnowsRows(e)'
    <3>1. e # d => job'[e] = job[e]
      BY <1>2 DEF JobMoves
    <3>2. QED
      BY <1>6, <1>7, <2>1, <3>1 DEF KnowsRows, Unpublished
  <2>5. QED
    BY <2>3, <2>4
<1>8. CASE ~(GivesUp(job[d], job'[d]) /\ UNCHANGED row)
  <2>1. job'[d].todo = Tail(job[d].todo) /\ job'[d].known = job[d].known
    BY <1>1, <1>8 DEF UpsertIs, Applies
  <2>2. \/ row[u] # Null /\ row[u].id = job[d].known[u]
        \/ job[d].known[u] = 0
    BY <1>1, <1>3, <1>4, <1>6 DEF KnowsRows
  <2>3. row'[u] # Null /\ row'[u].spec = h.content /\ row'[u].status = StatusOf(h.content)
        /\ (row[u] # Null => row'[u].id = row[u].id)
    BY <1>1, <1>8, <2>2, NullIsNoRow DEF UpsertIs
  <2>4. StatusOf(main[u])' = StatusOf(main[u])
    BY <1>1 DEF StatusOf
  <2>5. Follows(u)'
    BY <1>1, <1>4, <2>3, <2>4 DEF Follows
  <2>6. /\ \A t \in Tables : t # u => (InTodo(d, t)' <=> InTodo(d, t))
        /\ \A i \in DOMAIN job'[d].todo : \E j \in DOMAIN job[d].todo :
             job'[d].todo[i] = job[d].todo[j] /\ job[d].todo[j].table # u
    BY <1>1, <2>1, TodoShrinks
  <2>7. \A t \in Tables : Reached(t)'
    BY <1>1, <1>2, <1>5, <2>5, <2>6, HandlerFollows
  <2>8. ASSUME NEW e \in Deliveries PROVE KnowsRows(e)'
    <3>1. e # d => job'[e] = job[e]
      BY <1>2 DEF JobMoves
    <3>2. job'[e].known = job[e].known
      BY <2>1, <3>1
    <3> SUFFICES ASSUME job'[e].pc = "apply", NEW i \in DOMAIN job'[e].todo,
                        NEW t, t = job'[e].todo[i].table
                 PROVE  \/ row'[t] # Null /\ job[e].known[t] = row'[t].id
                        \/ IF job'[e].todo[i].content = Absent THEN Unpublished(t)'
                           ELSE job[e].known[t] = 0
      BY <3>2 DEF KnowsRows
    <3>3. job[e].pc = "apply"
      BY <1>1, <3>1
    <3>4. \E j \in DOMAIN job[e].todo :
            job'[e].todo[i] = job[e].todo[j] /\ (e = d => job[e].todo[j].table # u)
      BY <2>6, <3>1
    <3>5. PICK j \in DOMAIN job[e].todo :
            job'[e].todo[i] = job[e].todo[j] /\ (e = d => job[e].todo[j].table # u)
      BY <3>4
    <3>6. t \in Tables
      BY <3>3, <3>5, TodoIsOnMain
    <3>7. \/ row[t] # Null /\ job[e].known[t] = row[t].id
          \/ IF job[e].todo[j].content = Absent THEN Unpublished(t) ELSE job[e].known[t] = 0
      BY <1>6, <3>3, <3>5 DEF KnowsRows
    <3>8. CASE t = u
      <4>1. job[e].todo[j].content # Absent
        BY <1>1, <1>4, <3>3, <3>5, <3>8, OthersAgree
      <4>2. QED
        BY <2>3, <3>5, <3>7, <3>8, <4>1
    <3>9. CASE t # u
      <4>1. row'[t] = row[t]
        BY <1>5, <3>6, <3>9
      <4>2. Unpublished(t)' <=> Unpublished(t)
        BY <4>1 DEF Unpublished
      <4>3. QED
        BY <3>5, <3>7, <4>1, <4>2
    <3>10. QED
      BY <3>8, <3>9
  <2>9. QED
    BY <2>7, <2>8
<1>9. QED
  BY <1>7, <1>8

LEMMA WorkFollows ==
  ASSUME IInv, OneMerge, CalmRows, RowsInv, NEW d \in Deliveries, Work(d) \/ Crash(d)
  PROVE  (\A t \in Tables : Reached(t)') /\ \A e \in Deliveries : KnowsRows(e)'
<1>1. ~FetchFails(d)
  BY CalmIs DEF FetchFails
<1>2. CASE Look(d) \/ DeleteRow(d) \/ Upsert(d)
  BY <1>2, LookFollows, DeleteRowFollows, UpsertFollows
<1>3. CASE ~(Look(d) \/ DeleteRow(d) \/ Upsert(d))
  <2>1. UNCHANGED row /\ job'[d].todo = job[d].todo /\ job'[d].pc # "apply"
    BY <1>1, <1>3, WorkflowDoes
  <2>2. JobMoves(d) /\ d \in Working /\ job'[d].pr = job[d].pr /\ UNCHANGED <<main, pr, faults>>
    BY JobSteps
  <2>3. \A t \in Tables : InTodo(d, t) => InTodo(d, t)'
    BY <2>1 DEF InTodo
  <2>4. \A t \in Tables : Reached(t)'
    BY <2>1, <2>2, <2>3, HandlerFollows
  <2>5. ASSUME NEW e \in Deliveries PROVE KnowsRows(e)'
    <3>1. e # d => job'[e] = job[e] /\ KnowsRows(e)
      BY <2>2, RowsInvIs DEF JobMoves
    <3>2. QED
      BY <2>1, <3>1 DEF KnowsRows, Unpublished
  <2>6. QED
    BY <2>4, <2>5
<1>4. QED
  BY <1>2, <1>3

LEMMA RowsInit == Init => RowsInv
<1> SUFFICES ASSUME Init PROVE RowsInv
  OBVIOUS
<1>1. \A t \in Tables : Follows(t)
  BY DEF Init, Follows, Unpublished
<1>2. \A d \in Deliveries : KnowsRows(d)
  BY DEF Init, KnowsRows, NoJob
<1>3. QED
  BY <1>1, <1>2 DEF RowsInv

LEMMA StepsKeepFaults ==
  ASSUME IInv, [Next]_vars
  PROVE  faults' = faults
<1>1. \A d \in Deliveries : Work(d) \/ Crash(d) => UNCHANGED faults
  BY JobSteps
<1>2. QED
  BY <1>1 DEF Next, vars, SaveDraft, MarkPending, MergePR, ClosePR, OpenPR, Deliver

LEMMA RowsNext ==
  IInv /\ OneMerge /\ PendingTouched /\ MarkedWhenOpen /\ RowsInv /\ [Next]_vars => RowsInv'
<1> SUFFICES ASSUME IInv, OneMerge, PendingTouched, MarkedWhenOpen, RowsInv, [Next]_vars
             PROVE  RowsInv'
  OBVIOUS
<1>1. faults' = faults
  BY StepsKeepFaults
<1> SUFFICES ASSUME CalmRows
             PROVE  (\A t \in Tables : Reached(t)') /\ \A d \in Deliveries : KnowsRows(d)'
  BY <1>1 DEF RowsInv, CalmRows, Calm, Reached
<1>2. CASE UNCHANGED vars
  <2>1. \A t \in Tables : Follows(t) => Follows(t)'
    BY <1>2, FollowsStays DEF vars
  <2>2. \A t \in Tables, q \in PRs : IsLast(q) /\ Unhandled(q, t) =>
          IsLast(q)' /\ Unhandled(q, t)'
    BY <1>2, LastStays DEF vars
  <2>3. \A d \in Deliveries : KnowsRows(d)'
    BY <1>2, RowsInvIs DEF KnowsRows, Unpublished, vars
  <2>4. QED
    BY <2>1, <2>2, <2>3, RowsInvIs DEF Reached
<1>3. QED
  BY <1>2, SaveDraftFollows, MarkPendingFollows, MergePRFollows, ClosePRFollows, OpenPRFollows,
     DeliverFollows, WorkFollows DEF Next

\* When every merge is settled, no file is still to be reached.
LEMMA SettledIsHandled ==
  ASSUME IInv, NEW p \in PRs, Settled(p), NEW t
  PROVE  ~Unhandled(p, t)
<1>1. PICK d \in Deliveries : job[d].pr = p /\ job[d].pc = "done"
  BY DEF Settled
<1>2. job[d].todo = <<>>
  BY <1>1 DEF IInv, JobsLinked, PhasesLinked
<1>3. QED
  BY <1>1, <1>2 DEF Unhandled, InTodo

\* reconcile-definitions.ts:53-56, submit-pr.ts:129, route.ts:136: whatever is
\* delivered twice, at the same time or broken off, once the merges are settled
\* each row is that of its file, and no row waits for what has been answered.
THEOREM RowsFollowFiles == Spec => []DefinitionsInv
<1>1. Init => PendingTouched /\ MarkedWhenOpen /\ PendingInv /\ RowsInv
  BY TouchedInit, PendingInit, RowsInit
<1>2. IInv /\ OneMerge /\ PendingTouched /\ MarkedWhenOpen /\ PendingInv /\ RowsInv
        /\ [Next]_vars => (PendingTouched /\ MarkedWhenOpen /\ PendingInv /\ RowsInv)'
  BY TouchedNext, MarkedNext, PendingNext, RowsNext
<1>3. IInv /\ OneMerge /\ PendingTouched /\ PendingInv /\ RowsInv => DefinitionsInv
  <2> SUFFICES ASSUME IInv, OneMerge, PendingTouched, PendingInv, RowsInv
               PROVE  DefinitionsInv
    OBVIOUS
  <2>1. RowsFollowMain
    <3> SUFFICES ASSUME CalmRows, Reconciled, NEW t \in Tables
                 PROVE  IF main[t] = Absent
                          THEN row[t] # Null => row[t].status \in {"draft", "pending_review"}
                          ELSE row[t] # Null /\ row[t].spec = main[t]
                               /\ (row[t].status = StatusOf(main[t]) \/ "close" \in faults)
      BY DEF RowsFollowMain, CalmRows, Calm
    <3>1. \A p \in PRs : IsLast(p) => ~Unhandled(p, t)
      BY SettledIsHandled DEF Reconciled, IsLast
    <3>2. Follows(t)
      BY <3>1, RowsInvIs DEF Reached
    <3>3. Pending(t) => pr[row[t].pr].state # "open"
      BY DEF PendingTouched, Reconciled
    <3>4. QED
      BY <3>2, <3>3 DEF Follows, Unpublished
  <2>2. PendingIsAnswered
    <3> SUFFICES ASSUME CalmWaits, NEW t \in Tables, Pending(t)
                 PROVE  pr[row[t].pr].state = "open" \/ ~Settled(row[t].pr)
      BY DEF PendingIsAnswered, CalmWaits, Calm, Pending
    <3>1. row[t].pr \in PRs /\ WaitsFor(row[t].pr, t)
      BY WaitsIs DEF PendingTouched
    <3>2. QED
      BY <3>1, SettledIsHandled DEF WaitsFor
  <2>3. QED
    BY <2>1, <2>2 DEF DefinitionsInv, IInv
<1>4. QED
  BY <1>1, <1>2, <1>3, MergeInvariance, OneMergeInvariance, PTL DEF Spec

-----------------------------------------------------------------------------
(***************************************************************************)
(* The packages follow the main branch.                                    *)
(***************************************************************************)

LEMMA NewerIs ==
  ASSUME NEW v \in Versions, NEW w \in Versions
  PROVE  Newer(v, w) <=> \/ v[1] > w[1]
                         \/ v[1] = w[1] /\ v[2] > w[2]
                         \/ v[1] = w[1] /\ v[2] = w[2] /\ v[3] > w[3]
<1>1. 1 \in 1..3 /\ 2 \in 1..3 /\ 3 \in 1..3 /\ \A i \in 1..3 : i = 1 \/ i = 2 \/ i = 3
  OBVIOUS
<1>2. /\ \A k \in 1..1-1 : FALSE
      /\ \A k \in 1..2-1 : k = 1
      /\ \A k \in 1..3-1 : k = 1 \/ k = 2
      /\ 1 \in 1..2-1 /\ 1 \in 1..3-1 /\ 2 \in 1..3-1
  OBVIOUS
<1>3. (v[1] > w[1] /\ \A k \in 1..1-1 : v[k] = w[k]) <=> v[1] > w[1]
  BY <1>2
<1>4. (v[2] > w[2] /\ \A k \in 1..2-1 : v[k] = w[k]) <=> v[1] = w[1] /\ v[2] > w[2]
  BY <1>2
<1>5. (v[3] > w[3] /\ \A k \in 1..3-1 : v[k] = w[k])
        <=> v[1] = w[1] /\ v[2] = w[2] /\ v[3] > w[3]
  BY <1>2
<1>6. QED
  BY <1>1, <1>3, <1>4, <1>5 DEF Newer

LEMMA NewerIsAnOrder ==
  ASSUME NEW u \in Versions, NEW v \in Versions, NEW w \in Versions
  PROVE  /\ ~Newer(u, u)
         /\ Newer(w, v) /\ Newer(v, u) => Newer(w, u)
<1>1. /\ u[1] \in Nat /\ u[2] \in Nat /\ u[3] \in Nat
      /\ v[1] \in Nat /\ v[2] \in Nat /\ v[3] \in Nat
      /\ w[1] \in Nat /\ w[2] \in Nat /\ w[3] \in Nat
  BY DEF Versions
<1>2. ~Newer(u, u)
  BY <1>1, NewerIs
<1>3. ASSUME Newer(w, v), Newer(v, u) PROVE Newer(w, u)
  <2>1. /\ \/ w[1] > v[1] \/ (w[1] = v[1] /\ w[2] > v[2])
           \/ (w[1] = v[1] /\ w[2] = v[2] /\ w[3] > v[3])
        /\ \/ v[1] > u[1] \/ (v[1] = u[1] /\ v[2] > u[2])
           \/ (v[1] = u[1] /\ v[2] = u[2] /\ v[3] > u[3])
    BY <1>3, NewerIs
  <2>2. \/ w[1] > u[1] \/ (w[1] = u[1] /\ w[2] > u[2])
        \/ (w[1] = u[1] /\ w[2] = u[2] /\ w[3] > u[3])
    BY <1>1, <2>1
  <2>3. QED
    BY <2>2, NewerIs
<1>4. QED
  BY <1>2, <1>3

\* The version that is next is newer than all there are.
LEMMA NextIsFresh ==
  ASSUME IInv, VersionsGrow, CalmDrafts, NEW t \in Tables, NEW spec,
         Decide(StateOf(t), spec) # Null
  PROVE  /\ Decide(StateOf(t), spec) \in Versions
         /\ \A i \in DOMAIN npm[t] : /\ npm[t][i].version \in Versions
                                     /\ Newer(Decide(StateOf(t), spec), npm[t][i].version)
<1> DEFINE v == Decide(StateOf(t), spec)
<1>1. npm[t] \in Seq(Publications) /\ latest[t] = Len(npm[t]) /\ Types /\ LatestIsLast
  BY DEF IInv, TypeOK, Types, LatestIsLast
<1>2. DOMAIN npm[t] = 1..Len(npm[t]) /\ Len(npm[t]) \in Nat
  BY <1>1, LenProperties
<1>3. \A i \in DOMAIN npm[t] : npm[t][i] \in Publications
  BY <1>1, <1>2, ElementOfSeq
<1>4. \A i \in DOMAIN npm[t] : npm[t][i].version \in Versions
  BY <1>3 DEF Publications
<1>5. v \in Versions
  BY <1>1, StateIsTyped, DecideIsTyped
<1>6. ASSUME NEW i \in DOMAIN npm[t] PROVE Newer(v, npm[t][i].version)
  <2>1. latest[t] # 0 /\ latest[t] \in DOMAIN npm[t]
    BY <1>1, <1>2
  <2>2. StateOf(t) = npm[t][latest[t]] /\ StateOf(t) \in Publications
    BY <1>1, <2>1, StateIsTyped
  <2>3. Newer(v, npm[t][latest[t]].version)
    BY <2>2, NextVersion
  <2>4. CASE i = latest[t]
    BY <2>3, <2>4
  <2>5. CASE i # latest[t]
    <3>1. i < latest[t]
      BY <1>1, <1>2, <2>1, <2>5
    <3>2. Newer(npm[t][latest[t]].version, npm[t][i].version)
      BY <2>1, <3>1 DEF VersionsGrow, CalmDrafts
    <3> HIDE DEF v
    <3>3. QED
      BY <1>4, <1>5, <2>1, <2>3, <3>2, NewerIsAnOrder
  <2>6. QED
    BY <2>4, <2>5
<1>7. QED
  BY <1>4, <1>5, <1>6

\* What a publication does to the package of its table, and to the others.
LEMMA PublishIs ==
  ASSUME IInv, NEW d \in Deliveries, Publish(d)
  PROVE  /\ Target(d) \in Tables /\ job[d].pc = "publish" /\ job[d].spec \in Specs
         /\ job[d].fetched \in Versions /\ job[d].fetched # Null
         /\ \A t \in Tables : t # Target(d) => npm'[t] = npm[t] /\ latest'[t] = latest[t]
         /\ Taken(d) => npm' = npm /\ latest' = latest
         /\ ~Taken(d) =>
              /\ npm'[Target(d)] =
                   Append(npm[Target(d)], [version |-> job[d].fetched, spec |-> job[d].spec])
              /\ latest'[Target(d)] # 0
              /\ npm'[Target(d)][latest'[Target(d)]].spec = job[d].spec
<1> DEFINE t == Target(d)
           new == [version |-> job[d].fetched, spec |-> job[d].spec]
<1>1. /\ job[d].left # <<>> /\ job[d].spec \in Specs /\ job[d].fetched # Null
      /\ job[d].pc = "publish" /\ job[d].fetched \in Versions
  BY AtWork DEF Publish, IInv, TypeOK, Types, JobState
<1>2. /\ PackagesMove /\ latest'[t] # 0 /\ t \in Tables
      /\ Taken(d) => UNCHANGED <<npm, latest>>
      /\ ~Taken(d) => /\ npm' = [npm EXCEPT ![t] = Append(@, new)]
                      /\ latest' = [latest EXCEPT ![t] = Len(npm[t]) + 1]
                      /\ npm'[t][latest'[t]] = new
  BY <1>1, PublishPackages DEF IInv, TypeOK
<1>3. npm \in [Tables -> Seq(Publications)] /\ latest \in [Tables -> Nat]
  BY DEF IInv, TypeOK, Types
<1>4. new.spec = job[d].spec
  OBVIOUS
<1> HIDE DEF new
<1>5. CASE Taken(d)
  BY <1>1, <1>2, <1>5
<1>6. CASE ~Taken(d)
  <2>1. npm'[t] = Append(npm[t], new)
    BY <1>2, <1>3, <1>6
  <2>2. \A u \in Tables : u # t => npm'[u] = npm[u] /\ latest'[u] = latest[u]
    BY <1>2, <1>3, <1>6
  <2>3. QED
    BY <1>1, <1>2, <1>4, <1>6, <2>1, <2>2 DEF new
<1>7. QED
  BY <1>5, <1>6

LEMMA VersionsInit == Init => VersionsGrow
<1>1. DOMAIN <<>> = {}
  OBVIOUS
<1>2. QED
  BY <1>1 DEF Init, VersionsGrow

LEMMA PublishGrows ==
  ASSUME IInv, SemverInv, VersionsGrow, CalmDrafts, NEW d \in Deliveries, Publish(d),
         NEW t \in Tables, NEW i \in DOMAIN npm'[t], NEW j \in DOMAIN npm'[t], i < j
  PROVE  Newer(npm'[t][j].version, npm'[t][i].version)
<1> DEFINE new == [version |-> job[d].fetched, spec |-> job[d].spec]
<1>1. CASE npm'[t] = npm[t]
  BY <1>1 DEF VersionsGrow, CalmDrafts
<1>2. CASE npm'[t] # npm[t]
  <2>1. /\ t = Target(d) /\ ~Taken(d) /\ npm'[t] = Append(npm[t], new)
        /\ job[d].pc = "publish" /\ job[d].fetched # Null
    BY <1>2, PublishIs
  <2>2. job[d].fetched = Decide(StateOf(t), job[d].spec)
    BY <2>1 DEF SemverInv, SpecAgrees, CalmDrafts
  <2>3. \A k \in DOMAIN npm[t] : Newer(job[d].fetched, npm[t][k].version)
    BY <2>1, <2>2, NextIsFresh
  <2>4. npm[t] \in Seq(Publications) /\ new \in Publications
    BY PublishIs DEF IInv, TypeOK, Types, Publications
  <2>5. /\ DOMAIN npm[t] = 1..Len(npm[t]) /\ Len(npm[t]) \in Nat
    BY <2>4, LenProperties
  <2>6. new.version = job[d].fetched
    OBVIOUS
  <2> HIDE DEF new
  <2>7. /\ DOMAIN npm'[t] = 1..Len(npm[t]) + 1
        /\ \A k \in 1..Len(npm[t]) : npm'[t][k] = npm[t][k]
        /\ npm'[t][Len(npm[t]) + 1] = new
    <3>1. Append(npm[t], new) \in Seq(Publications) /\ Len(Append(npm[t], new)) = Len(npm[t]) + 1
      BY <2>4, AppendProperties
    <3>2. DOMAIN Append(npm[t], new) = 1..Len(npm[t]) + 1
      BY <3>1, LenProperties
    <3>3. QED
      BY <2>1, <2>4, <3>2, AppendProperties
  <2>8. i \in 1..Len(npm[t])
    BY <2>5, <2>7
  <2>9. CASE j \in 1..Len(npm[t])
    BY <2>5, <2>7, <2>8, <2>9 DEF VersionsGrow, CalmDrafts
  <2>10. CASE j = Len(npm[t]) + 1
    BY <2>3, <2>5, <2>6, <2>7, <2>8, <2>10
  <2>11. QED
    BY <2>5, <2>7, <2>9, <2>10
<1>3. QED
  BY <1>1, <1>2

LEMMA VersionsNext == IInv /\ SemverInv /\ VersionsGrow /\ [Next]_vars => VersionsGrow'
<1> SUFFICES ASSUME IInv, SemverInv, VersionsGrow, [Next]_vars PROVE VersionsGrow'
  OBVIOUS
<1>1. faults' = faults
  BY StepsKeepFaults
<1>2. CASE \E d \in Deliveries : Publish(d)
  BY <1>1, <1>2, PublishGrows DEF VersionsGrow, CalmDrafts, Calm
<1>3. CASE ~\E d \in Deliveries : Publish(d)
  <2>1. UNCHANGED npm
    BY <1>3 DEF Next, vars, Work, Look, DeleteRow, Upsert, FetchFails, StartRun, NoSpec,
       CreateStream, StreamFails, FetchPublished, MarkPublished, FinishRun, Crash,
       SaveDraft, MarkPending, MergePR, ClosePR, OpenPR, Deliver
  <2>2. QED
    BY <1>1, <2>1 DEF VersionsGrow, Calm
<1>4. QED
  BY <1>2, <1>3

LEMMA VersionsAgree ==
  ASSUME CalmRows
  PROVE  CalmDrafts
BY CalmIs

\* The content a job publishes is that of its merge, the last one.
LEMMA PublishesMain ==
  ASSUME IInv, OneMerge, SemverInv, CalmRows, NEW d \in Deliveries,
         job[d].pc \in {"fetch", "publish", "marking"}
  PROVE  /\ job[d].spec = pr[job[d].pr].tree[Target(d)] /\ job[d].spec \in Specs
         /\ Target(d) \in Tables /\ Target(d) \in Touched(job[d].pr)
         /\ main[Target(d)] = job[d].spec
         /\ job[d].left # <<>> /\ job[d].pr \in PRs /\ IsLast(job[d].pr) /\ d \in Working
<1>1. d \in Working /\ job[d].left # <<>> /\ job[d].spec \in Specs
  BY DEF Working, IInv, JobsLinked, PhasesLinked
<1>2. job[d].pr \in PRs /\ IsLast(job[d].pr)
  BY <1>1, WorkingIsLinked, CalmIs DEF OneMerge
<1>3. PICK i \in DOMAIN job[d].valid : job[d].valid[i] = Head(job[d].left)
  BY <1>1, HeadIsValid
<1>4. Target(d) \in Tables /\ Target(d) \in Touched(job[d].pr)
  BY <1>1, <1>3, ValidIsTyped DEF Target, IInv, JobsLinked, ChangesLinked
<1>5. job[d].spec = pr[job[d].pr].tree[Target(d)]
  BY CalmIs DEF SemverInv, SpecAgrees
<1>6. main[Target(d)] = pr[job[d].pr].tree[Target(d)]
  BY <1>2, <1>4, CalmIs DEF OneMerge
<1>7. QED
  BY <1>1, <1>2, <1>4, <1>5, <1>6

\* After a publication the package has the schema, and the others have theirs.
LEMMA PublishSchema ==
  ASSUME IInv, OneMerge, SemverInv, VersionsGrow, CalmRows, NEW d \in Deliveries,
         Publish(d), JobPublishes(d)
  PROVE  /\ HasSchema(Target(d), job[d].spec)'
         /\ \A t \in Tables : t # Target(d) =>
              latest'[t] = latest[t] /\ npm'[t] = npm[t]
<1>1. /\ Target(d) \in Tables /\ job[d].pc = "publish"
      /\ job[d].fetched \in Versions /\ job[d].fetched # Null
      /\ \A t \in Tables : t # Target(d) => npm'[t] = npm[t] /\ latest'[t] = latest[t]
      /\ Taken(d) => npm' = npm /\ latest' = latest
      /\ ~Taken(d) => /\ latest'[Target(d)] # 0
                      /\ npm'[Target(d)][latest'[Target(d)]].spec = job[d].spec
  BY PublishIs
<1>2. JobMoves(d) /\ job'[d].spec = job[d].spec /\ Target(d)' = Target(d)
  BY PublishDoes DEF IInv, TypeOK, SameChain, Target
<1>3. CASE Taken(d)
  <2>1. job[d].fetched # Decide(StateOf(Target(d)), job[d].spec)
    <3> SUFFICES ASSUME job[d].fetched = Decide(StateOf(Target(d)), job[d].spec) PROVE FALSE
      OBVIOUS
    <3>1. PICK i \in DOMAIN npm[Target(d)] : npm[Target(d)][i].version = job[d].fetched
      BY <1>3 DEF Taken
    <3>2. Newer(job[d].fetched, npm[Target(d)][i].version)
      BY <1>1, NextIsFresh, VersionsAgree
    <3>3. QED
      BY <1>1, <3>1, <3>2, NewerIsAnOrder
  <2>2. HasSchema(Target(d), job[d].spec)
    BY <1>1, <2>1 DEF JobPublishes
  <2>3. QED
    BY <1>1, <1>2, <1>3, <2>2 DEF HasSchema
<1>4. CASE ~Taken(d)
  BY <1>1, <1>2, <1>4 DEF HasSchema
<1>5. QED
  BY <1>1, <1>3, <1>4

\* What a package has of the last merge, it keeps while that is handled.
LEMMA SchemaStays ==
  ASSUME IInv, OneMerge, SemverInv, VersionsGrow, CalmRows, NEW d \in Deliveries,
         Work(d) \/ Crash(d), JobPublishes(d),
         NEW t \in Tables, NEW spec, HasSchema(t, spec),
         job[d].pc = "publish" /\ t = Target(d) => spec = job[d].spec
  PROVE  HasSchema(t, spec)'
<1>1. CASE Publish(d)
  <2>1. CASE t = Target(d)
    <3>1. JobMoves(d) /\ job'[d].spec = job[d].spec /\ Target(d)' = Target(d)
          /\ job[d].pc = "publish"
      BY <1>1, PublishDoes DEF IInv, TypeOK, SameChain, Target
    <3>2. HasSchema(Target(d), job[d].spec)'
      BY <1>1, PublishSchema
    <3>3. QED
      BY <2>1, <3>1, <3>2 DEF HasSchema
  <2>2. CASE t # Target(d)
    BY <1>1, <2>2, PublishSchema DEF HasSchema
  <2>3. QED
    BY <2>1, <2>2
<1>2. CASE ~Publish(d)
  <2>1. UNCHANGED <<npm, latest>>
    BY <1>2 DEF Work, Look, DeleteRow, Upsert, FetchFails, StartRun, NoSpec, CreateStream,
       StreamFails, FetchPublished, MarkPublished, FinishRun, Crash
  <2>2. QED
    BY <2>1 DEF HasSchema
<1>3. QED
  BY <1>1, <1>2

\* The same, for the tables of the merge.
LEMMA MergedSchemaStays ==
  ASSUME IInv, OneMerge, SemverInv, VersionsGrow, CalmRows, NEW d \in Deliveries,
         Work(d) \/ Crash(d), JobPublishes(d),
         NEW p \in PRs, IsLast(p), NEW t \in Touched(p) \cap Tables,
         NEW spec, spec = pr[p].tree[t], HasSchema(t, spec)
  PROVE  HasSchema(t, spec)'
<1>1. job[d].pc = "publish" /\ t = Target(d) => spec = job[d].spec
  BY PublishesMain, OneLast
<1>2. QED
  BY <1>1, SchemaStays

\* A job that decides has published what it decided on, or nothing is to be.
LEMMA JobPublishesStays ==
  ASSUME IInv, OneMerge, SemverInv, VersionsGrow, CalmRows, NEW d \in Deliveries,
         Work(d) \/ Crash(d), NEW e \in Deliveries, JobPublishes(d), JobPublishes(e)
  PROVE  JobPublishes(e)'
<1>1. JobMoves(d) /\ d \in Working
  BY JobSteps
<1>2. CASE e # d
  <2>1. job'[e] = job[e] /\ Target(e)' = Target(e)
    BY <1>1, <1>2 DEF JobMoves, Target
  <2>2. CASE job[e].pc \notin {"publish", "marking"}
    BY <2>1, <2>2 DEF JobPublishes
  <2>3. CASE job[e].pc \in {"publish", "marking"}
    <3>1. /\ job[e].spec = pr[job[e].pr].tree[Target(e)] /\ Target(e) \in Tables
          /\ Target(e) \in Touched(job[e].pr) /\ job[e].pr \in PRs /\ IsLast(job[e].pr)
      BY <2>3, PublishesMain
    <3>2. HasSchema(Target(e), job[e].spec) => HasSchema(Target(e), job[e].spec)'
      <4> SUFFICES ASSUME NEW t, t = Target(e), NEW spec, spec = job[e].spec, HasSchema(t, spec)
                   PROVE  HasSchema(t, spec)'
        BY <2>1 DEF HasSchema
      <4>1. QED
        BY <3>1, MergedSchemaStays
    <3>3. CASE HasSchema(Target(e), job[e].spec)
      BY <2>1, <2>3, <3>2, <3>3 DEF JobPublishes, HasSchema
    <3>4. CASE ~HasSchema(Target(e), job[e].spec)
      <4>1. job[e].pc = "publish" /\ job[e].fetched = Decide(StateOf(Target(e)), job[e].spec)
        BY <2>3, <3>4 DEF JobPublishes
      <4>2. CASE Publish(d) /\ Target(d) = Target(e)
        <5>1. job[d].spec = job[e].spec /\ HasSchema(Target(d), job[d].spec)'
          BY <3>1, <4>2, PublishesMain, OneLast, PublishSchema DEF Publish
        <5>2. Target(d)' = Target(d) /\ job'[d].spec = job[d].spec
          BY <4>2, PublishDoes DEF IInv, TypeOK, SameChain, Target
        <5>3. HasSchema(Target(e), job[e].spec)'
          BY <2>1, <4>2, <5>1, <5>2 DEF HasSchema
        <5>4. QED
          BY <2>1, <4>1, <5>3 DEF JobPublishes
      <4>3. CASE ~(Publish(d) /\ Target(d) = Target(e))
        <5>1. CASE Publish(d)
          <6>1. latest'[Target(e)] = latest[Target(e)] /\ npm'[Target(e)] = npm[Target(e)]
            BY <3>1, <4>3, <5>1, PublishSchema
          <6>2. StateOf(Target(e))' = StateOf(Target(e))
            BY <2>1, <6>1 DEF StateOf
          <6>3. job'[e].fetched = Decide(StateOf(Target(e))', job'[e].spec)
            BY <2>1, <4>1, <6>2
          <6>4. QED
            BY <2>1, <4>1, <6>3 DEF JobPublishes, Decide, Bumped, DiffBump, ColumnsOf
        <5>2. CASE ~Publish(d)
          <6>1. UNCHANGED <<npm, latest>>
            BY <5>2 DEF Work, Look, DeleteRow, Upsert, FetchFails, StartRun, NoSpec,
               CreateStream, StreamFails, FetchPublished, MarkPublished, FinishRun, Crash
          <6>2. StateOf(Target(e))' = StateOf(Target(e))
            BY <2>1, <6>1 DEF StateOf
          <6>3. job'[e].fetched = Decide(StateOf(Target(e))', job'[e].spec)
            BY <2>1, <4>1, <6>2
          <6>4. QED
            BY <2>1, <4>1, <6>3 DEF JobPublishes, Decide, Bumped, DiffBump, ColumnsOf
        <5>3. QED
          BY <5>1, <5>2
      <4>4. QED
        BY <4>2, <4>3
    <3>5. QED
      BY <3>3, <3>4
  <2>4. QED
    BY <2>2, <2>3
<1>3. CASE e = d
  <2>1. CASE FetchPublished(d)
    <3>1. job[d].left # <<>> /\ UNCHANGED <<npm, latest>>
      BY <2>1, AtWork DEF FetchPublished
    <3>2. \/ job'[d].pc = "table"
          \/ /\ job'[d].pc = "publish" /\ job'[d].left = job[d].left
             /\ job'[d].fetched = Decide(StateOf(Target(d)), job[d].spec)
             /\ job'[d].spec = job[d].spec
      BY <2>1, <3>1, FetchPublishedDoes DEF ChainEnds, IInv, TypeOK
    <3>3. CASE job'[d].pc = "table"
      BY <1>3, <3>3 DEF JobPublishes
    <3>4. CASE job'[d].pc = "publish"
      <4>1. StateOf(Target(d))' = StateOf(Target(d)) /\ Target(d)' = Target(d)
        BY <3>1, <3>2, <3>4 DEF StateOf, Target
      <4>2. job'[d].fetched = Decide(StateOf(Target(d))', job'[d].spec)
        BY <3>2, <3>4, <4>1
      <4>3. QED
        BY <1>3, <3>4, <4>2 DEF JobPublishes, Decide, Bumped, DiffBump, ColumnsOf
    <3>5. QED
      BY <3>2, <3>3, <3>4
  <2>2. CASE Publish(d)
    <3>1. job'[d].pc = "marking"
      BY <2>2, PublishDoes DEF IInv, TypeOK
    <3>2. QED
      BY <1>3, <2>2, <3>1, PublishSchema DEF JobPublishes
  <2>3. CASE ~(FetchPublished(d) \/ Publish(d))
    <3>1. job'[d].pc \notin {"publish", "marking"}
      <4>1. Types /\ LatestIsLast /\ (MarkPublished(d) => job[d].left # <<>>)
        BY AtWork DEF IInv, TypeOK, MarkPublished
      <4>2. Look(d) \/ DeleteRow(d) \/ Upsert(d) \/ FetchFails(d) =>
              job'[d].pc \in {"apply", "failed"}
        BY <4>1, LookDoes, DeleteRowDoes, UpsertRowIs, FetchFailsDoes
           DEF UpsertIs, Applies, GivesUp, LeavesOut
      <4>3. StartRun(d) \/ NoSpec(d) \/ StreamFails(d) \/ MarkPublished(d) =>
              job'[d].pc = "table"
        BY <4>1, StartRunDoes, NoSpecDoes, StreamFailsDoes, MarkPublishedDoes DEF ChainEnds
      <4>4. CreateStream(d) => job'[d].pc = "fetch"
        BY <4>1, CreateStreamDoes
      <4>5. FinishRun(d) => job'[d].pc = "done"
        BY <4>1, FinishRunDoes
      <4>6. Crash(d) => job'[d].pc \in {"failed", "table"}
        BY <4>1, CrashDoes
      <4>7. QED
        BY <2>3, <4>2, <4>3, <4>4, <4>5, <4>6 DEF Work
    <3>2. QED
      BY <1>3, <3>1 DEF JobPublishes
  <2>4. QED
    BY <2>1, <2>2, <2>3
<1>4. QED
  BY <1>2, <1>3

\* A file of a merge is to be applied or valid; in a run it is to be published,
\* or published with a schema, or one of its steps has failed.
FileReached(d, t, spec) ==
  /\ InTodo(d, t) \/ IsValid(d, t)
  /\ job[d].run = "running" => InLeft(d, t) \/ HasSchema(t, spec) \/ StepFailed(d, t)

LEMMA ReachesFiles ==
  ASSUME NEW d
  PROVE  RunReaches(d) <=> \A t \in Touched(job[d].pr) :
           pr[job[d].pr].tree[t] \in Specs => FileReached(d, t, pr[job[d].pr].tree[t])
BY DEF RunReaches, FileReached

LEMMA TouchedAreTables ==
  ASSUME IInv, NEW p \in PRs
  PROVE  Touched(p) \subseteq Tables
<1>1. pr[p].changes \in Seq(Changes)
  BY DEF IInv, TypeOK, Types, PRState
<1>2. \A i \in DOMAIN pr[p].changes : pr[p].changes[i] \in Changes
  BY <1>1, ElementOfSeq, LenProperties
<1>3. QED
  BY <1>2 DEF Touched, Changes

\* The chain of one table ends, the other tables stay as they were.
LEMMA ChainReaches ==
  ASSUME IInv, NEW d \in Deliveries, job[d].left # <<>>, ChainEnds(job[d], job'[d]),
         NEW t \in Tables, NEW spec, FileReached(d, t, spec),
         HasSchema(t, spec) => HasSchema(t, spec)',
         t = Target(d) => HasSchema(t, spec)' \/ job'[d].steps[Target(d)][1] = "failed"
  PROVE  FileReached(d, t, spec)'
<1>1. job'[d].todo = job[d].todo /\ job'[d].valid = job[d].valid /\ job'[d].run = job[d].run
  BY DEF ChainEnds, SameTask
<1>2. InTodo(d, t)' \/ IsValid(d, t)'
  BY <1>1 DEF FileReached, InTodo, IsValid
<1>3. CASE t = Target(d)
  <2>1. job'[d].steps[Target(d)][1] = "failed" => StepFailed(d, t)'
    BY <1>3, StepsAre DEF StepFailed
  <2>2. QED
    BY <1>2, <1>3, <2>1 DEF FileReached
<1>4. CASE t # Target(d)
  <2>1. job[d].left \in Seq(Targets)
    BY DEF IInv, TypeOK, Types, JobState
  <2>2. job'[d].left = Tail(job[d].left) /\ job'[d].steps[t] = job[d].steps[t]
    BY <1>4 DEF ChainEnds, Target
  <2>3. ASSUME NEW i \in DOMAIN job[d].left, job[d].left[i].table = t PROVE InLeft(d, t)'
    <3>1. i # 1
      BY <1>4, <2>1, <2>3, TailHolds DEF Target
    <3>2. i - 1 \in DOMAIN job'[d].left /\ job'[d].left[i - 1].table = t
      BY <2>1, <2>2, <2>3, <3>1, TailHolds
    <3>3. QED
      BY <3>2 DEF InLeft
  <2>4. InLeft(d, t) => InLeft(d, t)'
    BY <2>3 DEF InLeft
  <2>5. StepFailed(d, t) => StepFailed(d, t)'
    BY <2>2 DEF StepFailed
  <2>6. QED
    BY <1>1, <1>2, <2>4, <2>5 DEF FileReached
<1>5. QED
  BY <1>3, <1>4

\* A table that is worked on stays to be published until its chain ends.
LEMMA LeftReaches ==
  ASSUME NEW d \in Deliveries, SameTask(job[d], job'[d]), job'[d].run = job[d].run,
         job'[d].left = job[d].left,
         NEW t \in Tables, NEW spec, FileReached(d, t, spec),
         HasSchema(t, spec) => HasSchema(t, spec)',
         job'[d].steps[t] = job[d].steps[t] \/ InLeft(d, t)
  PROVE  FileReached(d, t, spec)'
BY DEF FileReached, InTodo, IsValid, InLeft, StepFailed, SameTask

\* A run starts, or starts again, with every valid table.
LEMMA StartReaches ==
  ASSUME NEW d \in Deliveries, job[d].todo = <<>>,
         job'[d].valid = job[d].valid, job'[d].left = job[d].valid,
         NEW t \in Tables, NEW spec, FileReached(d, t, spec)
  PROVE  FileReached(d, t, spec)'
<1>1. DOMAIN <<>> = {}
  OBVIOUS
<1>2. IsValid(d, t)
  BY <1>1 DEF FileReached, InTodo
<1>3. IsValid(d, t)' /\ InLeft(d, t)'
  BY <1>2 DEF IsValid, InLeft
<1>4. QED
  BY <1>3 DEF FileReached

\* A handler applies a change: a content that can be published is valid then.
LEMMA ApplyReaches ==
  ASSUME IInv, NEW d \in Deliveries, job[d].pc = "apply", job[d].todo # <<>>,
         job'[d].todo = Tail(job[d].todo), job'[d].run = job[d].run,
         NEW t \in Touched(job[d].pr) \cap Tables, NEW spec \in Specs,
         spec = pr[job[d].pr].tree[t], FileReached(d, t, spec),
         \/ job'[d].valid = job[d].valid /\ Head(job[d].todo).content \notin Specs
         \/ \E id \in Nat : Applies(job[d], job'[d], id)
  PROVE  FileReached(d, t, spec)'
<1> DEFINE h == Head(job[d].todo)
<1>1. job[d].run = "none"
  BY DEF IInv, JobsLinked, PhasesLinked
<1>2. job[d].todo \in Seq(Changes) /\ job[d].valid \in Seq(Targets) /\ h.table \in Tables
  BY TodoIsTyped DEF IInv, TypeOK, Types, JobState
<1>3. 1 \in DOMAIN job[d].todo /\ job[d].todo[1] = h
  BY <1>2, TailHolds
<1>4. h.content = pr[job[d].pr].tree[h.table]
  BY <1>3, TodoIsOnMain
<1>5. t # h.table => (InTodo(d, t)' <=> InTodo(d, t))
  BY TodoShrinks
<1>6. IsValid(d, t) => IsValid(d, t)'
  <2>1. CASE job'[d].valid = job[d].valid
    BY <2>1 DEF IsValid
  <2>2. ASSUME NEW id \in Nat, Applies(job[d], job'[d], id), job'[d].valid # job[d].valid
        PROVE  IsValid(d, t) => IsValid(d, t)'
    <3>1. job'[d].valid = Append(job[d].valid, [table |-> h.table, id |-> id])
      BY <2>2 DEF Applies
    <3>2. [table |-> h.table, id |-> id] \in Targets
      BY <1>2 DEF Targets
    <3>3. \A i \in DOMAIN job[d].valid :
            i \in DOMAIN job'[d].valid /\ job'[d].valid[i] = job[d].valid[i]
      BY <1>2, <3>1, <3>2, AppendHolds
    <3>4. QED
      BY <3>3 DEF IsValid
  <2>3. QED
    BY <2>1, <2>2
<1>7. CASE t = h.table
  <2>1. h.content = spec /\ h.content # Bad
    BY <1>4, <1>7, MergeAssumption
  <2>2. PICK id \in Nat : Applies(job[d], job'[d], id)
    BY <2>1
  <2>3. job'[d].valid = Append(job[d].valid, [table |-> h.table, id |-> id])
    BY <2>1, <2>2 DEF Applies
  <2>4. [table |-> h.table, id |-> id] \in Targets
    BY <1>2 DEF Targets
  <2>5. Len(job[d].valid) + 1 \in DOMAIN job'[d].valid
        /\ job'[d].valid[Len(job[d].valid) + 1] = [table |-> h.table, id |-> id]
    BY <1>2, <2>3, <2>4, AppendHolds
  <2>6. \A k : k = [table |-> h.table, id |-> id] => k.table = t
    <3>1. \A u, k : k = [table |-> u, id |-> id] => k.table = u
      OBVIOUS
    <3> HIDE DEF h
    <3>2. QED
      BY <1>7, <3>1, Zenon
  <2>7. \E i \in DOMAIN job'[d].valid : job'[d].valid[i].table = t
    BY <2>5, <2>6
  <2>8. IsValid(d, t)'
    BY <2>7 DEF IsValid
  <2>9. QED
    BY <1>1, <2>8 DEF FileReached
<1>8. CASE t # h.table
  BY <1>1, <1>5, <1>6, <1>8 DEF FileReached
<1>9. QED
  BY <1>7, <1>8

\* A step of a job keeps its files reached, unless the job ends.
LEMMA WorkReaches ==
  ASSUME IInv, OneMerge, SemverInv, VersionsGrow, CalmRows, NEW d \in Deliveries,
         Work(d) \/ Crash(d), JobPublishes(d), d \in Working',
         NEW t \in Touched(job[d].pr), NEW spec \in Specs,
         spec = pr[job[d].pr].tree[t], FileReached(d, t, spec)
  PROVE  FileReached(d, t, spec)'
<1>1. Types /\ LatestIsLast /\ JobMoves(d) /\ d \in Working
  BY JobSteps DEF IInv, TypeOK
<1>2. /\ job[d].pr \in PRs /\ IsLast(job[d].pr) /\ t \in Tables
      /\ job[d].pc \in {"look", "apply", "table", "fetch", "publish", "marking"}
  BY <1>1, WorkingIsLinked, TouchedAreTables, CalmIs DEF OneMerge
<1>3. HasSchema(t, spec) => HasSchema(t, spec)'
  BY <1>2, MergedSchemaStays
<1>4. job[d].left # <<>> /\ t = Target(d) => InLeft(d, t)
  <2>1. job[d].left \in Seq(Targets)
    BY <1>1 DEF Types, JobState
  <2>2. job[d].left # <<>> => 1 \in DOMAIN job[d].left /\ Head(job[d].left) = job[d].left[1]
    BY <2>1, TailHolds
  <2>3. QED
    BY <2>2 DEF InLeft, Target
<1>5. CASE Look(d)
  <2>1. /\ job'[d].todo = job[d].todo /\ job'[d].valid = job[d].valid
        /\ job'[d].run = job[d].run /\ job[d].pc = "look"
    BY <1>1, <1>5, LookDoes
  <2>2. job[d].run = "none"
    BY <2>1 DEF IInv, JobsLinked, PhasesLinked
  <2>3. QED
    BY <2>1, <2>2 DEF FileReached, InTodo, IsValid
<1>6. CASE DeleteRow(d)
  <2>1. /\ job[d].pc = "apply" /\ job[d].todo # <<>> /\ job'[d].todo = Tail(job[d].todo)
        /\ job'[d].run = job[d].run /\ job'[d].valid = job[d].valid
    BY <1>1, <1>6, DeleteRowDoes
  <2>2. Head(job[d].todo).content \notin Specs
    BY <1>6, MergeAssumption DEF DeleteRow
  <2>3. QED
    BY <1>2, <2>1, <2>2, ApplyReaches
<1>7. CASE Upsert(d)
  <2>1. job[d].pc = "apply" /\ job[d].todo # <<>> /\ UpsertIs(d)
    BY <1>7, UpsertRowIs DEF Upsert
  <2>2. ~GivesUp(job[d], job'[d])
    BY DEF GivesUp, Working
  <2>3. job[d].known[Head(job[d].todo).table] \in Nat /\ nextId \in Nat
    <3>1. Head(job[d].todo).table \in Tables
      BY <1>1, <2>1, TodoIsTyped DEF Types
    <3>2. QED
      BY <1>1, <3>1 DEF Types, JobState
  <2>4. \E id \in Nat : Applies(job[d], job'[d], id)
    BY <2>1, <2>2, <2>3 DEF UpsertIs
  <2>5. job'[d].todo = Tail(job[d].todo) /\ job'[d].run = job[d].run
    BY <2>4 DEF Applies
  <2>6. QED
    BY <1>2, <2>1, <2>4, <2>5, ApplyReaches
<1>8. CASE StartRun(d)
  <2>1. job[d].todo = <<>> /\ job'[d].valid = job[d].valid /\ job'[d].left = job[d].valid
    BY <1>1, <1>8, StartRunDoes
  <2>2. QED
    BY <1>2, <2>1, StartReaches
<1>9. CASE NoSpec(d) \/ StreamFails(d)
  <2>1. /\ job[d].left # <<>> /\ ChainEnds(job[d], job'[d])
        /\ job'[d].steps[Target(d)][1] = "failed"
    BY <1>1, <1>9, NoSpecDoes, StreamFailsDoes
  <2>2. QED
    BY <1>2, <1>3, <2>1, ChainReaches
<1>10. CASE CreateStream(d)
  <2>1. /\ SameTask(job[d], job'[d]) /\ job'[d].run = job[d].run
        /\ job'[d].left = job[d].left /\ job[d].left # <<>>
        /\ \A u \in Tables : u # Target(d) => job'[d].steps[u] = job[d].steps[u]
    BY <1>1, <1>10, CreateStreamDoes
  <2>2. job'[d].steps[t] = job[d].steps[t] \/ InLeft(d, t)
    BY <1>2, <1>4, <2>1
  <2>3. QED
    BY <1>2, <1>3, <2>1, <2>2, LeftReaches
<1>11. CASE FetchPublished(d)
  <2>1. job[d].left # <<>> /\ job[d].pc = "fetch" /\ UNCHANGED <<npm, latest>>
    BY <1>11, AtWork DEF FetchPublished
  <2>2. job[d].spec = pr[job[d].pr].tree[Target(d)] /\ Target(d) \in Tables
    BY <2>1, PublishesMain
  <2>3. CASE Decide(StateOf(Target(d)), job[d].spec) = Null
    <3>1. ChainEnds(job[d], job'[d]) /\ latest[Target(d)] # 0
      BY <1>1, <1>11, <2>1, <2>3, FetchPublishedDoes
    <3>2. StateOf(Target(d)) = npm[Target(d)][latest[Target(d)]]
          /\ StateOf(Target(d)) \in Publications /\ StateOf(Target(d)) # Null
      BY <1>1, <2>2, <3>1, StateIsTyped
    <3>3. StateOf(Target(d)).version \in Versions
      BY <3>2 DEF Publications
    <3>4. Bumped(StateOf(Target(d)).version, DiffBump(StateOf(Target(d)).spec, job[d].spec)) # Null
      BY <3>3, BumpKinds, BumpedIsNewer, MergeAssumption
    <3>5. Signature[StateOf(Target(d)).spec] = Signature[job[d].spec]
      BY <2>3, <3>2, <3>4 DEF Decide
    <3>6. t = Target(d) => HasSchema(t, spec)
      BY <2>2, <3>1, <3>2, <3>5 DEF HasSchema
    <3>7. QED
      BY <1>2, <1>3, <2>1, <3>1, <3>6, ChainReaches
  <2>4. CASE Decide(StateOf(Target(d)), job[d].spec) # Null
    <3>1. /\ SameTask(job[d], job'[d]) /\ job'[d].run = job[d].run
          /\ job'[d].left = job[d].left /\ job'[d].steps = job[d].steps
      BY <1>1, <1>11, <2>1, <2>4, FetchPublishedDoes
    <3>2. QED
      BY <1>2, <1>3, <3>1, LeftReaches
  <2>5. QED
    BY <2>3, <2>4
<1>12. CASE Publish(d)
  <2>1. SameTask(job[d], job'[d]) /\ SameChain(job[d], job'[d]) /\ job'[d].run = job[d].run
    BY <1>1, <1>12, PublishDoes
  <2>2. QED
    BY <1>2, <1>3, <2>1, LeftReaches DEF SameChain
<1>13. CASE MarkPublished(d)
  <2>1. job[d].left # <<>> /\ job[d].pc = "marking"
    BY <1>13, AtWork DEF MarkPublished
  <2>2. ChainEnds(job[d], job'[d])
    BY <1>1, <1>13, <2>1, MarkPublishedDoes
  <2>3. HasSchema(Target(d), job[d].spec) /\ job[d].spec = pr[job[d].pr].tree[Target(d)]
    BY <2>1, PublishesMain DEF JobPublishes
  <2>4. t = Target(d) => HasSchema(t, spec)
    BY <2>3
  <2>5. QED
    BY <1>2, <1>3, <2>1, <2>2, <2>4, ChainReaches
<1>14. CASE FinishRun(d)
  BY <1>1, <1>14, FinishRunDoes DEF Working
<1>15. CASE Crash(d)
  <2>1. /\ SameTask(job[d], job'[d])
        /\ job[d].run = "none" => job'[d].pc = "failed"
        /\ job[d].run # "none" => job'[d].left = job[d].valid
    BY <1>1, <1>15, CrashDoes
  <2>2. job[d].run # "none"
    BY <2>1 DEF Working
  <2>3. job[d].todo = <<>>
    BY <1>2, <2>2 DEF IInv, JobsLinked, PhasesLinked
  <2>4. QED
    BY <1>2, <2>1, <2>2, <2>3, StartReaches DEF SameTask
<1>16. ~FetchFails(d)
  BY CalmIs DEF FetchFails
<1>17. QED
  BY <1>5, <1>6, <1>7, <1>8, <1>9, <1>10, <1>11, <1>12, <1>13, <1>14, <1>15, <1>16 DEF Work

\* So does a step for the files of the other jobs.
LEMMA StepReaches ==
  ASSUME IInv, OneMerge, SemverInv, VersionsGrow, CalmRows, NEW d \in Deliveries,
         Work(d) \/ Crash(d), \A e \in Deliveries : JobPublishes(e),
         NEW e \in Working', RunReaches(e) \/ e \notin Working
  PROVE  RunReaches(e)'
<1>1. JobMoves(d) /\ d \in Working /\ job'[d].pr = job[d].pr /\ UNCHANGED pr
  BY JobSteps
<1>2. e \in Deliveries
  BY DEF Working
<1>3. job'[e].pr = job[e].pr /\ (e # d => job'[e] = job[e]) /\ e \in Working
  BY <1>1, <1>2 DEF JobMoves, Working
<1>4. job[e].pr \in PRs /\ IsLast(job[e].pr)
  BY <1>3, WorkingIsLinked, CalmIs DEF OneMerge
<1> SUFFICES ASSUME NEW t \in Touched(job[e].pr), NEW spec \in Specs,
                    spec = pr[job[e].pr].tree[t]
             PROVE  FileReached(e, t, spec)'
  <2>1. Touched(job[e].pr)' = Touched(job[e].pr)
    BY <1>1, <1>3 DEF Touched
  <2>2. QED
    BY <1>1, <1>3, <2>1 DEF RunReaches, FileReached
<1>5. FileReached(e, t, spec) /\ t \in Tables
  BY <1>3, <1>4, ReachesFiles, TouchedAreTables
<1>6. CASE e = d
  BY <1>2, <1>5, <1>6, WorkReaches
<1>7. CASE e # d
  <2>1. HasSchema(t, spec) => HasSchema(t, spec)'
    BY <1>4, <1>5, MergedSchemaStays
  <2>2. QED
    BY <1>3, <1>5, <1>7, <2>1 DEF FileReached, InTodo, IsValid, InLeft, StepFailed
<1>8. QED
  BY <1>6, <1>7

\* Only its end makes a job done.
LEMMA OnlyFinishEnds ==
  ASSUME IInv, NEW d \in Deliveries, Work(d) \/ Crash(d), ~FinishRun(d)
  PROVE  job'[d].pc # "done"
<1>1. Types /\ LatestIsLast /\ (MarkPublished(d) \/ FetchPublished(d) => job[d].left # <<>>)
  BY AtWork DEF IInv, TypeOK, MarkPublished, FetchPublished
<1>2. Look(d) \/ DeleteRow(d) \/ Upsert(d) \/ FetchFails(d) => job'[d].pc \in {"apply", "failed"}
  BY <1>1, LookDoes, DeleteRowDoes, UpsertRowIs, FetchFailsDoes
     DEF UpsertIs, Applies, GivesUp, LeavesOut
<1>3. StartRun(d) \/ NoSpec(d) \/ StreamFails(d) \/ MarkPublished(d) => job'[d].pc = "table"
  BY <1>1, StartRunDoes, NoSpecDoes, StreamFailsDoes, MarkPublishedDoes DEF ChainEnds
<1>4. CreateStream(d) => job'[d].pc = "fetch"
  BY <1>1, CreateStreamDoes
<1>5. FetchPublished(d) => job'[d].pc \in {"table", "publish"}
  BY <1>1, FetchPublishedDoes DEF ChainEnds
<1>6. Publish(d) => job'[d].pc = "marking"
  BY <1>1, PublishDoes
<1>7. Crash(d) => job'[d].pc \in {"failed", "table"}
  BY <1>1, CrashDoes
<1>8. QED
  BY <1>2, <1>3, <1>4, <1>5, <1>6, <1>7 DEF Work

\* A package has the schema of the file, or no run of the last merge, which
\* changes the file, has come to its end.
Published(t) ==
  \/ HasSchema(t, main[t])
  \/ \E p \in PRs : /\ IsLast(p) /\ t \in Touched(p)
                    /\ \A d \in Deliveries : job[d].pr = p => job[d].pc # "done"

RunFailed == \E d \in Deliveries : job[d].run = "failed"

FilesPublished == RunFailed \/ \A t \in Tables : main[t] \in Specs => Published(t)

JobsPublish == \A d \in Deliveries : JobPublishes(d) /\ (d \in Working => RunReaches(d))

LEMMA SdkInvIs == SdkInv <=> (CalmRows => JobsPublish /\ FilesPublished)
BY DEF SdkInv, CalmRows, JobsPublish, FilesPublished, RunFailed, Published

\* What a job publishes depends on it and on its package.
LEMMA PublishesStay ==
  ASSUME NEW d, JobPublishes(d), job'[d] = job[d], UNCHANGED <<npm, latest>>
  PROVE  JobPublishes(d)'
<1>1. Target(d)' = Target(d)
  BY DEF Target
<1>2. StateOf(Target(d))' = StateOf(Target(d))
  BY <1>1 DEF StateOf
<1>3. HasSchema(Target(d), job[d].spec)' <=> HasSchema(Target(d), job[d].spec)
  BY <1>1 DEF HasSchema
<1>4. CASE job[d].pc = "publish" /\ ~HasSchema(Target(d), job[d].spec)
  <2>1. job'[d].fetched = Decide(StateOf(Target(d))', job'[d].spec)
    BY <1>2, <1>4 DEF JobPublishes
  <2>2. QED
    BY <1>4, <2>1 DEF JobPublishes, Decide, Bumped, DiffBump, ColumnsOf
<1>5. CASE ~(job[d].pc = "publish" /\ ~HasSchema(Target(d), job[d].spec))
  BY <1>3, <1>5 DEF JobPublishes
<1>6. QED
  BY <1>4, <1>5

LEMMA SdkInit == Init => SdkInv
<1> SUFFICES ASSUME Init PROVE SdkInv
  OBVIOUS
<1>1. \A d \in Deliveries : job[d].pc = "none"
  BY DEF Init, NoJob
<1>2. \A t \in Tables : main[t] \notin Specs
  BY MergeAssumption DEF Init
<1>3. JobsPublish
  BY <1>1 DEF JobsPublish, JobPublishes, Working
<1>4. QED
  BY <1>2, <1>3, SdkInvIs DEF FilesPublished

\* Nothing but rows, or the pull requests that are not merged, has changed.
LEMMA SdkStays ==
  ASSUME IInv, JobsPublish, FilesPublished, UNCHANGED <<main, job, npm, latest>>,
         \A p \in PRs : pr'[p].state = "merged" <=> pr[p].state = "merged",
         \A p \in PRs : pr[p].state = "merged" =>
           pr'[p].changes = pr[p].changes /\ pr'[p].tree = pr[p].tree
  PROVE  JobsPublish' /\ FilesPublished'
<1>1. \A d \in Deliveries : JobPublishes(d)'
  BY PublishesStay DEF JobsPublish
<1>2. ASSUME NEW d \in Working' PROVE RunReaches(d)'
  <2>1. d \in Working /\ d \in Deliveries
    BY DEF Working
  <2>2. job[d].pr \in PRs /\ pr[job[d].pr].state = "merged" /\ RunReaches(d)
    BY <2>1, WorkingIsLinked DEF JobsPublish
  <2>3. pr'[job[d].pr].changes = pr[job[d].pr].changes /\ pr'[job[d].pr].tree = pr[job[d].pr].tree
    BY <2>2
  <2>4. QED
    BY <2>2, <2>3 DEF RunReaches, Touched, InTodo, IsValid, InLeft, HasSchema, StepFailed
<1>3. \A t \in Tables : Published(t) => Published(t)'
  <2> SUFFICES ASSUME NEW t \in Tables, NEW p \in PRs, IsLast(p), t \in Touched(p)
               PROVE  IsLast(p)' /\ t \in Touched(p)'
    BY DEF Published, HasSchema
  <2>1. pr'[p].changes = pr[p].changes
    BY DEF IsLast
  <2>2. QED
    BY <2>1 DEF IsLast, Touched
<1>4. QED
  BY <1>1, <1>2, <1>3 DEF JobsPublish, FilesPublished, RunFailed

LEMMA SdkMerge ==
  ASSUME IInv, OneMerge, CalmRows, JobsPublish, FilesPublished, NEW p \in PRs, MergePR(p)
  PROVE  JobsPublish' /\ FilesPublished'
<1>1. /\ UNCHANGED <<job, npm, latest>> /\ pr[p].state = "open" /\ main' = pr[p].tree
      /\ PrBecomes(p, "merged", pr[p].told)
  BY OnePR DEF MergePR, IInv, TypeOK
<1>2. OpenAlone(p) /\ Working = {}
  BY <1>1, NoneAtWork, CalmIs DEF OneMerge
<1>3. /\ \A q \in PRs : q # p => pr'[q] = pr[q]
      /\ pr'[p].state = "merged" /\ pr'[p].changes = pr[p].changes
  BY <1>1 DEF PrBecomes
<1>4. JobsPublish'
  <2>1. \A d \in Deliveries : JobPublishes(d)'
    BY <1>1, PublishesStay DEF JobsPublish
  <2>2. Working' = {}
    BY <1>1, <1>2 DEF Working
  <2>3. QED
    BY <2>1, <2>2 DEF JobsPublish
<1>5. IsLast(p)'
  BY <1>2, <1>3 DEF IsLast, OpenAlone, PRs
<1>6. \A d \in Deliveries : job[d].pr = p => job[d].pc # "done"
  BY <1>1 DEF IInv, JobsLinked, ChangesLinked
<1>7. ASSUME NEW t \in Touched(p) PROVE Published(t)'
  <2>1. t \in Touched(p)'
    BY <1>3 DEF Touched
  <2>2. QED
    BY <1>1, <1>5, <1>6, <2>1 DEF Published
<1>8. ASSUME NEW t \in Tables, t \notin Touched(p), Published(t) PROVE Published(t)'
  <2>1. main'[t] = main[t]
    BY <1>1, <1>2, <1>8 DEF OpenAlone
  <2>2. ASSUME NEW q \in PRs, IsLast(q)
        PROVE  \E d \in Deliveries : job[d].pr = q /\ job[d].pc = "done"
    <3>1. q < p /\ pr[q].state = "merged"
      BY <1>1, <2>2, OpenIsLast, CalmIs DEF IsLast
    <3>2. Settled(q)
      BY <3>1, CalmIs DEF MergePR
    <3>3. QED
      BY <3>2 DEF Settled
  <2>3. HasSchema(t, main[t])
    BY <1>8, <2>2 DEF Published
  <2>4. QED
    BY <1>1, <2>1, <2>3 DEF Published, HasSchema
<1>9. CASE RunFailed
  BY <1>1, <1>4, <1>9 DEF FilesPublished, RunFailed
<1>10. CASE ~RunFailed
  <2>1. ASSUME NEW t \in Tables, main'[t] \in Specs PROVE Published(t)'
    <3>1. t \notin Touched(p) => main'[t] = main[t]
      BY <1>1, <1>2 DEF OpenAlone
    <3>2. t \notin Touched(p) => Published(t)
      BY <1>10, <2>1, <3>1 DEF FilesPublished
    <3>3. QED
      BY <1>7, <1>8, <3>2
  <2>2. QED
    BY <1>4, <2>1 DEF FilesPublished
<1>11. QED
  BY <1>9, <1>10

LEMMA SdkDeliver ==
  ASSUME IInv, JobsPublish, FilesPublished, NEW d \in Deliveries, NEW p \in PRs, Deliver(d, p)
  PROVE  JobsPublish' /\ FilesPublished'
<1>1. /\ JobMoves(d) /\ job[d].pc = "none" /\ job'[d].pc = "look" /\ job'[d].pr = p
      /\ job'[d].todo = pr[p].changes /\ UNCHANGED <<main, pr, npm, latest>>
      /\ job'[d].run # "running"
  <2>1. job'[d].run = "none"
    BY DeliverDoes DEF IInv, TypeOK, NoJob
  <2>2. QED
    BY <2>1, DeliverDoes DEF IInv, TypeOK, Deliver
<1>2. \A e \in Deliveries : e # d => job'[e] = job[e]
  BY <1>1 DEF JobMoves
<1>3. ASSUME NEW e \in Deliveries PROVE JobPublishes(e)'
  <2>1. CASE e = d
    BY <1>1, <2>1 DEF JobPublishes
  <2>2. CASE e # d
    BY <1>1, <1>2, <2>2, PublishesStay DEF JobsPublish
  <2>3. QED
    BY <2>1, <2>2
<1>4. ASSUME NEW e \in Working' PROVE RunReaches(e)'
  <2>1. e \in Deliveries
    BY DEF Working
  <2>2. CASE e = d
    BY <1>1, <2>2 DEF RunReaches, Touched, InTodo
  <2>3. CASE e # d
    <3>1. job'[e] = job[e] /\ e \in Working
      BY <1>2, <2>1, <2>3 DEF Working
    <3>2. RunReaches(e)
      BY <2>1, <3>1 DEF JobsPublish
    <3>3. QED
      BY <1>1, <3>1, <3>2 DEF RunReaches, Touched, InTodo, IsValid, InLeft, HasSchema, StepFailed
  <2>4. QED
    BY <2>2, <2>3
<1>5. job[d].run # "failed"
  BY <1>1 DEF IInv, JobsLinked, PhasesLinked
<1>6. RunFailed => RunFailed'
  BY <1>2, <1>5 DEF RunFailed
<1>7. ASSUME NEW t \in Tables, Published(t) PROVE Published(t)'
  <2>1. CASE HasSchema(t, main[t])
    BY <1>1, <2>1 DEF Published, HasSchema
  <2>2. ASSUME NEW q \in PRs, IsLast(q), t \in Touched(q),
               \A e \in Deliveries : job[e].pr = q => job[e].pc # "done"
        PROVE  Published(t)'
    <3>1. \A e \in Deliveries : job'[e].pr = q => job'[e].pc # "done"
      BY <1>1, <1>2, <2>2
    <3>2. IsLast(q)' /\ t \in Touched(q)'
      BY <1>1, <2>2 DEF IsLast, Touched
    <3>3. QED
      BY <3>1, <3>2 DEF Published
  <2>3. QED
    BY <1>7, <2>1, <2>2 DEF Published
<1>8. QED
  BY <1>1, <1>3, <1>4, <1>6, <1>7 DEF JobsPublish, FilesPublished

\* At its end a run has failed, or every valid table of it has its package.
LEMMA FinishPublishes ==
  ASSUME IInv, NEW d \in Deliveries, FinishRun(d), job'[d].run # "failed",
         NEW t, NEW spec, FileReached(d, t, spec)
  PROVE  HasSchema(t, spec)'
<1>1. /\ job[d].pc = "table" /\ job[d].left = <<>> /\ job'[d].run = RollUp(job[d])
      /\ UNCHANGED <<npm, latest>>
  BY FinishRunDoes DEF IInv, TypeOK, FinishRun
<1>2. job[d].todo = <<>> /\ job[d].run = "running"
  BY <1>1 DEF IInv, JobsLinked, PhasesLinked
<1>3. DOMAIN <<>> = {}
  OBVIOUS
<1>4. IsValid(d, t) /\ ~InLeft(d, t)
  BY <1>1, <1>2, <1>3 DEF FileReached, InTodo, InLeft
<1>5. ~StepFailed(d, t)
  BY <1>1, <1>4 DEF RollUp, IsValid, StepFailed
<1>6. HasSchema(t, spec)
  BY <1>2, <1>4, <1>5 DEF FileReached
<1>7. QED
  BY <1>1, <1>6 DEF HasSchema

LEMMA SdkWork ==
  ASSUME IInv, OneMerge, SemverInv, VersionsGrow, CalmRows, JobsPublish, FilesPublished,
         NEW d \in Deliveries, Work(d) \/ Crash(d)
  PROVE  JobsPublish' /\ FilesPublished'
<1>1. JobMoves(d) /\ d \in Working /\ job'[d].pr = job[d].pr /\ UNCHANGED <<main, pr>>
  BY JobSteps
<1>2. \A e \in Deliveries : e # d => job'[e] = job[e]
  BY <1>1 DEF JobMoves
<1>3. JobsPublish'
  <2>1. \A e \in Deliveries : JobPublishes(e)'
    BY JobPublishesStays DEF JobsPublish
  <2>2. ASSUME NEW e \in Working' PROVE RunReaches(e)'
    <3>1. e \in Deliveries
      BY DEF Working
    <3>2. RunReaches(e) \/ e \notin Working
      BY <3>1 DEF JobsPublish
    <3>3. QED
      BY <3>2, StepReaches DEF JobsPublish
  <2>3. QED
    BY <2>1, <2>2 DEF JobsPublish
<1>4. job[d].run # "failed"
  <2>1. job[d].pc \in {"look", "apply", "table", "fetch", "publish", "marking"}
    BY <1>1, WorkingIsLinked
  <2>2. QED
    BY <2>1 DEF IInv, JobsLinked, PhasesLinked
<1>5. RunFailed => RunFailed'
  BY <1>2, <1>4 DEF RunFailed
<1>6. ASSUME ~RunFailed', NEW t \in Tables, main[t] \in Specs, Published(t)
      PROVE  Published(t)'
  <2>1. CASE HasSchema(t, main[t])
    <3>1. job[d].pc = "publish" /\ t = Target(d) => main[t] = job[d].spec
      BY PublishesMain
    <3> SUFFICES ASSUME NEW spec, spec = main[t] PROVE HasSchema(t, spec)'
      BY <1>1 DEF Published, HasSchema
    <3>2. QED
      BY <2>1, <3>1, SchemaStays DEF JobsPublish
  <2>2. ASSUME NEW p \in PRs, IsLast(p), t \in Touched(p),
               \A e \in Deliveries : job[e].pr = p => job[e].pc # "done"
        PROVE  Published(t)'
    <3>1. IsLast(p)' /\ t \in Touched(p)'
      BY <1>1, <2>2 DEF IsLast, Touched
    <3>2. CASE FinishRun(d)
      <4>1. job[d].pr = p
        BY <1>1, <2>2, WorkingIsLinked, OneLast, CalmIs DEF OneMerge
      <4>2. main[t] = pr[p].tree[t]
        BY <2>2, CalmIs DEF OneMerge
      <4>3. RunReaches(d)
        BY <1>1 DEF JobsPublish
      <4>4. FileReached(d, t, main[t])
        BY <1>6, <2>2, <4>1, <4>2, <4>3, ReachesFiles
      <4> SUFFICES ASSUME NEW spec, spec = main[t] PROVE HasSchema(t, spec)'
        BY <1>1 DEF Published, HasSchema
      <4>5. QED
        BY <1>6, <3>2, <4>4, FinishPublishes DEF RunFailed
    <3>3. CASE ~FinishRun(d)
      <4>1. job'[d].pc # "done"
        BY <3>3, OnlyFinishEnds
      <4>2. \A e \in Deliveries : job'[e].pr = p => job'[e].pc # "done"
        BY <1>2, <2>2, <4>1
      <4>3. QED
        BY <3>1, <4>2 DEF Published
    <3>4. QED
      BY <3>2, <3>3
  <2>3. QED
    BY <1>6, <2>1, <2>2 DEF Published
<1>7. CASE RunFailed'
  BY <1>3, <1>7 DEF FilesPublished
<1>8. CASE ~RunFailed'
  <2>1. \A t \in Tables : main[t] \in Specs => Published(t)
    BY <1>5, <1>8 DEF FilesPublished
  <2>2. \A t \in Tables : main'[t] \in Specs => Published(t)'
    BY <1>1, <1>6, <1>8, <2>1
  <2>3. QED
    BY <1>3, <2>2 DEF FilesPublished
<1>9. QED
  BY <1>7, <1>8

LEMMA SdkNext ==
  IInv /\ OneMerge /\ SemverInv /\ VersionsGrow /\ SdkInv /\ [Next]_vars => SdkInv'
<1> SUFFICES ASSUME IInv, OneMerge, SemverInv, VersionsGrow, SdkInv, [Next]_vars PROVE SdkInv'
  OBVIOUS
<1>1. faults' = faults
  BY StepsKeepFaults
<1> SUFFICES ASSUME CalmRows PROVE JobsPublish' /\ FilesPublished'
  BY <1>1 DEF SdkInv, CalmRows, Calm, JobsPublish, FilesPublished, RunFailed, Published
<1>2. JobsPublish /\ FilesPublished
  BY SdkInvIs
<1>3. CASE UNCHANGED vars
  BY <1>2, <1>3, SdkStays DEF vars
<1>4. ASSUME NEW draft \in Drafts, SaveDraft(draft.table, draft.content)
      PROVE  JobsPublish' /\ FilesPublished'
  BY <1>2, <1>4, SdkStays DEF SaveDraft
<1>5. ASSUME NEW p \in PRs, MarkPending(p) \/ ClosePR(p) \/ \E proposal \in Proposals : OpenPR(p, proposal)
      PROVE  JobsPublish' /\ FilesPublished'
  <2>1. UNCHANGED <<main, job, npm, latest>>
    BY <1>5 DEF MarkPending, ClosePR, OpenPR
  <2>2. \A q \in PRs : q # p => pr'[q] = pr[q]
    BY <1>5, OpenPRDoes, OnePR, MarkPendingPR DEF IInv, TypeOK, PrBecomes, ClosePR
  <2>3. /\ pr'[p].state = "merged" <=> pr[p].state = "merged"
        /\ pr[p].state = "merged" => pr'[p].changes = pr[p].changes /\ pr'[p].tree = pr[p].tree
    BY ZenonT(40), <1>5, OpenPRDoes, OnePR, MarkPendingPR DEF IInv, TypeOK, PrBecomes, ClosePR, OpenPR
  <2>4. QED
    BY <1>2, <2>1, <2>2, <2>3, SdkStays
<1>6. ASSUME NEW p \in PRs, MergePR(p) PROVE JobsPublish' /\ FilesPublished'
  BY <1>2, <1>6, SdkMerge
<1>7. ASSUME NEW d \in Deliveries, NEW p \in PRs, Deliver(d, p)
      PROVE  JobsPublish' /\ FilesPublished'
  BY <1>2, <1>7, SdkDeliver
<1>8. ASSUME NEW d \in Deliveries, Work(d) \/ Crash(d) PROVE JobsPublish' /\ FilesPublished'
  BY <1>2, <1>8, SdkWork
<1>9. QED
  BY <1>3, <1>4, <1>5, <1>6, <1>7, <1>8 DEF Next

\* github-packages.ts:140-213, post-pipeline-pr-merge.ts:62-300: whatever is
\* delivered twice, at the same time or broken off, once the merges are settled
\* and no run has failed each package has the schema of its file.
THEOREM PackagesFollowFiles == Spec => []SdkFollowsMain
<1>1. Init => SemverInv /\ VersionsGrow /\ SdkInv
  BY SemverInit, VersionsInit, SdkInit
<1>2. IInv /\ OneMerge /\ SemverInv /\ VersionsGrow /\ SdkInv /\ [Next]_vars
        => (SemverInv /\ VersionsGrow /\ SdkInv)'
  BY SemverNext, VersionsNext, SdkNext
<1>3. SdkInv => SdkFollowsMain
  <2> SUFFICES ASSUME SdkInv, CalmRows, Reconciled, NEW t \in Tables, main[t] \in Specs, ~RunFailed
               PROVE  HasSchema(t, main[t])
    BY DEF SdkFollowsMain, CalmRows, Calm, RunFailed, HasSchema
  <2>1. Published(t)
    BY SdkInvIs DEF FilesPublished
  <2>2. \A p \in PRs : IsLast(p) => \E d \in Deliveries : job[d].pr = p /\ job[d].pc = "done"
    BY DEF Reconciled, IsLast, Settled
  <2>3. QED
    BY <2>1, <2>2 DEF Published
<1>4. QED
  BY <1>1, <1>2, <1>3, MergeInvariance, OneMergeInvariance, PTL DEF Spec
=============================================================================
