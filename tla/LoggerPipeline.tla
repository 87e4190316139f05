--------------------------- MODULE LoggerPipeline ---------------------------
(***************************************************************************)
(* The path of an event into its logger table: the ingest service          *)
(* (apps/ingest, Go) deduplicates event ids in memory and produces to      *)
(* Kafka; the writer pods of the table (apps/logger-writer, Rust) buffer    *)
(* what they read, append it to the Iceberg table together with the         *)
(* per-partition high-water mark, and then commit the group's offsets.      *)
(*                                                                         *)
(* Kafka is a log per table and partition; the Iceberg table is the         *)
(* sequence of its snapshots.  A client may send an event several times;    *)
(* other producers may write to the topic of the table.                     *)
(***************************************************************************)
EXTENDS Integers, Sequences, FiniteSetsExt

CONSTANTS
  Events,        \* event ids
  Tables,        \* the names envelopes carry
  WriterTable,   \* LOGGER_TABLE of the writer deployment
  Partitions,    \* partitions of every topic
  Pods,          \* the writer pods of the deployment
  Hash,          \* kafka.Hash: the partition of an event id
  Garbage,       \* a record that does not decode as an Envelope
  MaxSends,      \* attempts a client makes for one event
  FlushRows,     \* FLUSH_ROWS
  MaxSnapshots,  \* bound: snapshots of the table
  MaxPublished,  \* bound: records other producers write
  FaultSets      \* which faults may happen together

Requests == Events \X (1..MaxSends)

ASSUME EventsAssumption ==
  /\ IsFiniteSet(Events) /\ Garbage \notin Events
  /\ Hash \in [Events -> Partitions] /\ WriterTable \in Tables
ASSUME LoggerBoundsAssumption ==
  MaxSends \in Nat /\ FlushRows \in Nat /\ MaxSnapshots \in Nat /\ MaxPublished \in Nat

\* Offsets count from 1; 0 stands for no offset and for an unassigned partition.
None == 0

\* The faults: a client that retries before it has its answer ("overlap"), a
\* produce whose outcome the handler does not learn ("ack"), an ingest restart
\* ("restart"), marks that outlive the window ("ttl"), a dedup map at its limit
\* ("cap"); a writer that dies ("crash"), an offset commit that fails
\* ("commit"), a group that rebalances after the seek ("rebalance"), several
\* pods at once ("surge").
Faults == {"overlap", "ack", "restart", "ttl", "cap",
           "crash", "commit", "rebalance", "surge"}

ASSUME LoggerFaultsAssumption == FaultSets \subseteq SUBSET Faults

VARIABLES
  faults,     \* the faults of this behaviour
  tableOf,    \* the table each event is logged to
  req,        \* per request: where the handler is, and its answer
  mark,       \* dedupCache.entries: absent, before or past its expiry
  topic,      \* per table and partition: the records, in offset order
  snaps,      \* the snapshots: rows (partition, offset) and kafka_offset_p<n>
  group,      \* the offsets committed by the consumer group: the next to read
  pod         \* the writer pods

ingestVars == <<tableOf, req, mark>>
writerVars == <<snaps, group, pod>>
vars == <<faults, ingestVars, topic, writerVars>>

(***************************************************************************)
(* apps/ingest                                                              *)
(***************************************************************************)

\* tableNameRe, ^[a-z][a-z0-9_]{0,63}$: a name with a dot does not match.
\* Table names are <<schema, table>> or <<table>>.
NameMatches(t) == Len(t) = 1

DedupMaxEntries == IF "cap" \in faults THEN 1 ELSE Cardinality(Events)

\* dedupCache.tryMark, under its mutex: [new, mark] with new FALSE for a
\* duplicate.  At the limit the expired marks are purged first, and when that
\* frees nothing the event goes through without a mark.
TryMark(e, m) ==
  LET purged == [x \in Events |-> IF m[x] = "expired" THEN "none" ELSE m[x]]
      full(n) == Cardinality({x \in Events : n[x] # "none"}) >= DedupMaxEntries
      kept == IF full(m) THEN purged ELSE m
  IN  IF m[e] = "live" THEN [new |-> FALSE, mark |-> m]
      ELSE [new |-> TRUE,
            mark |-> IF full(kept) THEN kept ELSE [kept EXCEPT ![e] = "live"]]

\* Mutant: the mark of an event whose produce failed stays.
UnmarkNever(e, m) == m

Unmark(e, m) == [m EXCEPT ![e] = "none"]

Answer(r, a) == req' = [req EXCEPT ![r] = [st |-> "done", ans |-> a]]

Append2(t, p, x) == topic' = [topic EXCEPT ![t][p] = Append(@, x)]

\* A client that waits for its answer sends again only after an error; one that
\* times out first may send while the earlier attempt is still at work.
MaySend(r) ==
  /\ req[r].st = "unsent"
  /\ \A k \in 1..(r[2] - 1) :
       /\ req[<<r[1], k>>].st # "unsent"
       /\ "overlap" \notin faults => req[<<r[1], k>>].ans \in {"500", "lost"}

\* ingestHandler up to WriteMessages: the name test, then the mark.
Receive(r) ==
  LET e == r[1]
      t == TryMark(e, mark)
  IN  /\ MaySend(r)
      /\ \/ /\ ~ NameMatches(tableOf[e])
            /\ Answer(r, "400")
            /\ UNCHANGED mark
         \/ /\ NameMatches(tableOf[e])
            /\ mark' = t.mark
            /\ IF t.new THEN req' = [req EXCEPT ![r].st = "producing"]
                        ELSE Answer(r, "202")
      /\ UNCHANGED <<faults, tableOf, topic, writerVars>>

Produced(r) ==
  /\ req[r].st = "producing"
  /\ Append2(tableOf[r[1]], Hash[r[1]], r[1])
  /\ Answer(r, "202")
  /\ UNCHANGED <<faults, tableOf, mark, writerVars>>

\* WriteMessages returns an error: the mark is rolled back and the answer is 500.
ProduceFails(r) ==
  /\ req[r].st = "producing"
  /\ mark' = Unmark(r[1], mark)
  /\ Answer(r, "500")
  /\ UNCHANGED <<faults, tableOf, topic, writerVars>>

\* The error says nothing of the record: a cancelled request leaves it in the
\* batch of the kafka writer, which appends it later or drops it.
ProduceUnknown(r) ==
  /\ "ack" \in faults
  /\ req[r].st = "producing"
  /\ mark' = Unmark(r[1], mark)
  /\ req' = [req EXCEPT ![r] = [st |-> "late", ans |-> "500"]]
  /\ UNCHANGED <<faults, tableOf, topic, writerVars>>

LateAppend(r) ==
  /\ req[r].st = "late"
  /\ \/ Append2(tableOf[r[1]], Hash[r[1]], r[1])
     \/ UNCHANGED topic
  /\ req' = [req EXCEPT ![r].st = "done"]
  /\ UNCHANGED <<faults, tableOf, mark, writerVars>>

\* The map is in memory: a restart forgets it, and the requests in flight.
IngestRestart ==
  /\ "restart" \in faults
  /\ mark' = [e \in Events |-> "none"]
  /\ req' = [r \in Requests |->
       CASE req[r].st = "producing" -> [st |-> "late", ans |-> "lost"]
         [] req[r].st = "late" -> [st |-> "done", ans |-> req[r].ans]
         [] OTHER -> req[r]]
  /\ UNCHANGED <<faults, tableOf, topic, writerVars>>

\* DEDUP_WINDOW passes for one mark; cleanupLoop removes the marks it finds past it.
Expire(e) ==
  /\ "ttl" \in faults
  /\ mark[e] = "live"
  /\ mark' = [mark EXCEPT ![e] = "expired"]
  /\ UNCHANGED <<faults, tableOf, req, topic, writerVars>>

Cleanup ==
  /\ \E e \in Events : mark[e] = "expired"
  /\ mark' = [e \in Events |-> IF mark[e] = "expired" THEN "none" ELSE mark[e]]
  /\ UNCHANGED <<faults, tableOf, req, topic, writerVars>>

(***************************************************************************)
(* The topic of the table, as other producers and the writer see it         *)
(***************************************************************************)

WriterTopic == topic[WriterTable]

Published == UNION {{p} \X DOMAIN WriterTopic[p] : p \in Partitions}

\* Another producer of the topic, or a record that is no envelope.
Publish(x, p) ==
  /\ x # Garbage => p = Hash[x]
  /\ Cardinality(Published) < MaxPublished
  /\ Append2(WriterTable, p, x)
  /\ UNCHANGED <<faults, ingestVars, writerVars>>

(***************************************************************************)
(* apps/logger-writer                                                       *)
(***************************************************************************)

\* resolve_from_snapshots: the largest offset per partition over the snapshots.
ResolveHwm(ss) ==
  [p \in Partitions |-> Max({None} \cup {ss[i].hwm[p] : i \in DOMAIN ss})]

\* Mutant: the position is one past the next offset.
SeekToHwmFar(hwm) ==
  [p \in Partitions |-> IF hwm[p] = None THEN None ELSE hwm[p] + 2]

\* seek_to_hwm: exactly the partitions with a mark are assigned, each past it.
SeekToHwm(hwm) ==
  [p \in Partitions |-> IF hwm[p] = None THEN None ELSE hwm[p] + 1]

NoMarks == [p \in Partitions |-> None]
DownPod == [st |-> "down", pos |-> NoMarks, seen |-> {}, buf |-> <<>>, hwm |-> NoMarks]

Up(w) == pod[w].st # "down"

\* run() up to the loop: with no high-water mark nothing is assigned until the
\* group assigns it.
Start(w) ==
  /\ ~ Up(w)
  /\ "surge" \notin faults => \A v \in Pods : ~ Up(v)
  /\ pod' = [pod EXCEPT ![w] =
       [DownPod EXCEPT !.st = "poll", !.pos = SeekToHwm(ResolveHwm(snaps))]]
  /\ UNCHANGED <<faults, ingestVars, topic, snaps, group>>

\* The consumer group hands out the partitions; its assignment replaces the one
\* the seek made, at the committed offsets or, with none, at the earliest one.
\* What a pod has buffered stays with it.
Rebalance ==
  /\ \E w \in Pods : Up(w) /\ (pod[w].pos = NoMarks \/ "rebalance" \in faults)
  /\ \E owner \in [Partitions -> {w \in Pods : Up(w)}] :
       pod' = [w \in Pods |->
         IF Up(w)
         THEN [pod[w] EXCEPT
                !.pos = [p \in Partitions |->
                          IF owner[p] # w THEN None ELSE Max({1, group[p]})],
                !.seen = {}]
         ELSE pod[w]]
  /\ UNCHANGED <<faults, ingestVars, topic, snaps, group>>

\* consumer.recv(): a record that does not decode is skipped without a mark.
\* A full buffer is flushed before the next record is read.
Consume(w, p) ==
  LET o == pod[w].pos[p]
  IN  /\ pod[w].st = "poll"
      /\ Len(pod[w].buf) < FlushRows
      /\ o # None
      /\ o <= Len(WriterTopic[p])
      /\ pod' = [pod EXCEPT ![w].pos[p] = o + 1,
                             ![w].seen = @ \cup {p},
                             ![w].buf = IF WriterTopic[p][o] = Garbage THEN @
                                        ELSE Append(@, <<p, o>>),
                             ![w].hwm[p] = IF WriterTopic[p][o] = Garbage THEN @
                                           ELSE Max({@, o})]
      /\ UNCHANGED <<faults, ingestVars, topic, snaps, group>>

\* write_batch: the rows and kafka_offset_p<n> in one snapshot.
WriteBatch(w) ==
  /\ pod[w].st = "poll"
  /\ pod[w].buf # <<>>
  /\ Len(snaps) < MaxSnapshots
  /\ snaps' = Append(snaps, [rows |-> pod[w].buf, hwm |-> pod[w].hwm])
  /\ pod' = [pod EXCEPT ![w].st = "written"]
  /\ UNCHANGED <<faults, ingestVars, topic, group>>

\* commit_consumer_state: the positions of the partitions read since they were
\* assigned.  It is best effort: on an error the buffer is cleared all the same.
CommitOffsets(w) ==
  /\ pod[w].st = "written"
  /\ \/ group' = [p \in Partitions |->
                    IF p \in pod[w].seen THEN pod[w].pos[p] ELSE group[p]]
     \/ "commit" \in faults /\ UNCHANGED group
  /\ pod' = [pod EXCEPT ![w].st = "poll", ![w].buf = <<>>, ![w].hwm = NoMarks]
  /\ UNCHANGED <<faults, ingestVars, topic, snaps>>

\* The pod dies, or write_batch fails: its error leaves run() and the process,
\* and the buffer goes with it.
Exit(w) ==
  /\ "crash" \in faults
  /\ Up(w)
  /\ pod' = [pod EXCEPT ![w] = DownPod]
  /\ UNCHANGED <<faults, ingestVars, topic, snaps, group>>

(***************************************************************************)
(* The specification                                                        *)
(***************************************************************************)

Init ==
  /\ faults \in FaultSets
  /\ tableOf \in [Events -> Tables]
  /\ req = [r \in Requests |-> [st |-> "unsent", ans |-> "none"]]
  /\ mark = [e \in Events |-> "none"]
  /\ topic = [t \in Tables |-> [p \in Partitions |-> <<>>]]
  /\ snaps = <<>>
  /\ group = NoMarks
  /\ pod = [w \in Pods |-> DownPod]

IngestNext ==
  \/ \E r \in Requests :
       \/ Receive(r) \/ Produced(r) \/ ProduceFails(r)
       \/ ProduceUnknown(r) \/ LateAppend(r)
  \/ \E e \in Events : Expire(e)
  \/ Cleanup
  \/ IngestRestart

WriterNext ==
  \/ \E w \in Pods :
       \/ Start(w) \/ WriteBatch(w) \/ CommitOffsets(w) \/ Exit(w)
       \/ \E p \in Partitions : Consume(w, p)
  \/ Rebalance

Next ==
  \/ IngestNext
  \/ WriterNext
  \/ \E x \in Events \cup {Garbage}, p \in Partitions : Publish(x, p)

Spec == Init /\ [][Next]_vars

(***************************************************************************)
(* Properties                                                               *)
(***************************************************************************)

\* A row of the table is the partition and the offset it was read from.
Rows == Partitions \X (Nat \ {None})
Marks == [Partitions -> Nat]
PodState == [st : {"down", "poll", "written"}, pos : Marks, seen : SUBSET Partitions,
             buf : Seq(Rows), hwm : Marks]

\* The variables have their types; a pod that has nothing buffered has no marks.
TypeOK ==
  /\ faults \in FaultSets
  /\ tableOf \in [Events -> Tables]
  /\ req \in [Requests -> [st : {"unsent", "producing", "late", "done"},
                           ans : {"none", "lost", "202", "400", "500"}]]
  /\ mark \in [Events -> {"none", "live", "expired"}]
  /\ topic \in [Tables -> [Partitions -> Seq(Events \cup {Garbage})]]
  /\ snaps \in Seq([rows : Seq(Rows), hwm : Marks])
  /\ group \in Marks
  /\ pod \in [Pods -> PodState]
  /\ \A i \in DOMAIN snaps : snaps[i].rows # <<>>
  /\ \A w \in Pods : pod[w].buf = <<>> <=> pod[w].hwm = NoMarks

Log(e) == topic[tableOf[e]][Hash[e]]
InTopic(e) == \E i \in DOMAIN Log(e) : Log(e)[i] = e

Answered(e, a) == \E k \in 1..MaxSends : req[<<e, k>>].ans = a

\* main.go:183-203.  A client that waits for its answers and is told 202 has its
\* event in the topic, whatever failed, was answered late or was lost in a
\* restart before.  (With "overlap" it does not hold: a retry is answered 202
\* while the first attempt, which may still fail, is at work.)
AcceptedIsProduced ==
  "overlap" \notin faults =>
    \A e \in Events : Answered(e, "202") => InTopic(e)

\* main.go:235-259.  The ingest service produces an event once, retries and
\* overlapping attempts included, unless the outcome of a produce was unknown,
\* the map was lost or full, or the window passed.  (Others write to the topic of
\* the writer's table too.)
ProducedOnce ==
  faults \subseteq {"overlap"} => \A e \in Events :
    tableOf[e] # WriterTable =>
      \A i, j \in DOMAIN Log(e) : Log(e)[i] = e /\ Log(e)[j] = e => i = j

\* main.go:183-203, 235-259: a client told 202 has its event in the topic, and
\* the topic has it once.
AcceptedOnce == AcceptedIsProduced /\ ProducedOnce

\* Offsets the next writer does not read again: at or below the high-water mark
\* of the table, or below the offset the group committed.
Passed(p) == 1..Max({ResolveHwm(snaps)[p], group[p] - 1})

\* Where the table has a record: snapshot and row.
Places(p, o) ==
  {x \in UNION {{i} \X DOMAIN snaps[i].rows : i \in DOMAIN snaps} :
     snaps[x[1]].rows[x[2]] = <<p, o>>}

AtMostOnce(p, o) == \A x, y \in Places(p, o) : x = y

\* writer.rs:139-180, 182-199.  No record is skipped: whatever a writer that
\* starts, or is assigned a partition, will not read is in the table, unless it
\* does not decode.  Crashes at any point, failed offset commits, rebalances and
\* pods working side by side included.
NothingSkipped ==
  \A p \in Partitions : \A o \in Passed(p) :
    WriterTopic[p][o] # Garbage => Places(p, o) # {}

\* main.rs:6-8, writer.rs:162-165.  A record is in the table once, although the
\* writer may die between the snapshot and the offset commit, as long as one pod
\* runs at a time and the positions of the seek are not replaced.
WrittenOnce ==
  faults \subseteq {"crash", "commit"} =>
    \A p \in Partitions : \A o \in DOMAIN WriterTopic[p] : AtMostOnce(p, o)

\* main.go:183-259: what a client is told, with the types of the state.
LoggerInv == TypeOK /\ AcceptedOnce

\* main.rs:6-8, writer.rs:139-199: what is read past is in the table, and, when
\* one pod runs at a time from its own positions, is in it once.
LandsOnce == NothingSkipped /\ WrittenOnce

\* docs/infra/logger-writer.md:47: "no duplicates land in Iceberg".
NoDuplicatesLand ==
  \A p \in Partitions : \A o \in DOMAIN WriterTopic[p] : AtMostOnce(p, o)

=============================================================================
