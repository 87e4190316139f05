------------------------ MODULE LoggerPipelineProofs ------------------------
(***************************************************************************)
(* Proofs about the path of an event: for any events, tables, partitions,  *)
(* pods and sets of faults, an accepted event is in its topic, once where  *)
(* the cache can tell; and what a writer has read past is in the table,    *)
(* once while one pod runs at a time from its own positions.               *)
(***************************************************************************)
EXTENDS LoggerPipeline, FiniteSetTheorems, SequenceTheorems, WellFoundedInduction, TLAPS

-----------------------------------------------------------------------------
(***************************************************************************)
(* The inductive invariant: the ingest service.                            *)
(***************************************************************************)

Sent(e, k) == req[<<e, k>>].st # "unsent"
Producing(e, k) == req[<<e, k>>].st = "producing"

\* A request has no answer while the handler is at work.
AnswersSound ==
  \A r \in Requests : req[r].st \in {"unsent", "producing"} => req[r].ans = "none"

\* A client that waits sends again only after an error.
InOrder ==
  "overlap" \notin faults =>
    \A e \in Events : \A j, k \in 1..MaxSends :
      j < k /\ Sent(e, k) => req[<<e, j>>].ans \in {"500", "lost"}

\* A mark says that the event is produced, or about to be.
MarksSound ==
  "overlap" \notin faults =>
    \A e \in Events :
      mark[e] = "live" => InTopic(e) \/ \E k \in 1..MaxSends : Producing(e, k)

\* While nothing is lost and no window passes, the mark of an event stays as
\* long as the event is in the topic, or one request produces it.
MarksStay ==
  faults \subseteq {"overlap"} =>
    /\ \A r \in Requests : req[r].st # "late"
    /\ \A e \in Events :
         /\ mark[e] # "expired"
         /\ \A j, k \in 1..MaxSends : Producing(e, j) /\ Producing(e, k) => j = k
         /\ \A k \in 1..MaxSends : Producing(e, k) => mark[e] = "live"
         /\ tableOf[e] # WriterTable /\ InTopic(e) =>
              mark[e] = "live" /\ \A k \in 1..MaxSends : ~Producing(e, k)

IngestInv ==
  /\ AnswersSound
  /\ InOrder
  /\ MarksSound
  /\ MarksStay
  /\ AcceptedIsProduced
  /\ ProducedOnce

-----------------------------------------------------------------------------
(***************************************************************************)
(* The inductive invariant: the writer.                                    *)
(***************************************************************************)

Held(w) == {pod[w].buf[k] : k \in DOMAIN pod[w].buf}
Landed == UNION {{snaps[i].rows[k] : k \in DOMAIN snaps[i].rows} : i \in DOMAIN snaps}

\* The records of p up to offset n are among rows, but for those that do not decode.
Covered(rows, p, n) ==
  \A o \in 1..n : /\ o \in DOMAIN WriterTopic[p]
                  /\ WriterTopic[p][o] # Garbage => <<p, o>> \in rows

\* Whatever a mark, a committed offset or a position passes is in the table, or
\* in the buffer of the pod.
MarksCovered ==
  /\ \A i \in DOMAIN snaps, p \in Partitions : Covered(Landed, p, snaps[i].hwm[p])
  /\ \A p \in Partitions : Covered(Landed, p, group[p] - 1)
  /\ \A w \in Pods, p \in Partitions :
       /\ Covered(Landed \cup Held(w), p, pod[w].pos[p] - 1)
       /\ Covered(Landed \cup Held(w), p, pod[w].hwm[p])
  /\ \A w \in Pods : pod[w].st = "written" => Held(w) \subseteq Landed

\* One pod at a time: what it buffers is new, and it reads on past what is in
\* the table and in its buffer.
BufferIsNew(w) ==
  /\ \A j, k \in DOMAIN pod[w].buf : pod[w].buf[j] = pod[w].buf[k] => j = k
  /\ \A x \in Held(w) : x[2] < pod[w].pos[x[1]] /\ x[2] <= pod[w].hwm[x[1]]
  /\ pod[w].st = "poll" => Held(w) \cap Landed = {}
  /\ pod[w].pos # NoMarks => \A x \in Landed : x[2] < pod[w].pos[x[1]]
  /\ pod[w].pos = NoMarks => Landed = {}

RowsOnce ==
  \A i, j \in DOMAIN snaps : \A k \in DOMAIN snaps[i].rows, l \in DOMAIN snaps[j].rows :
    snaps[i].rows[k] = snaps[j].rows[l] => i = j /\ k = l

OnePod ==
  faults \subseteq {"crash", "commit"} =>
    /\ \A v, w \in Pods : Up(v) /\ Up(w) => v = w
    /\ \A w \in Pods : Up(w) => BufferIsNew(w)
    /\ \A i \in DOMAIN snaps : \A k \in DOMAIN snaps[i].rows :
         snaps[i].rows[k][2] <= snaps[i].hwm[snaps[i].rows[k][1]]
    /\ RowsOnce

IInv == TypeOK /\ IngestInv /\ MarksCovered /\ OnePod

-----------------------------------------------------------------------------
(***************************************************************************)
(* The largest of some marks.                                              *)
(***************************************************************************)

LEMMA MaxOf ==
  ASSUME NEW S, S \subseteq Nat, S # {}, NEW b \in Nat, \A x \in S : x <= b
  PROVE  Max(S) \in S /\ \A x \in S : x <= Max(S)
<1> DEFINE T == {b - x : x \in S}
<1>1. T \subseteq Nat /\ T # {}
  <2>1. \A x \in S : b - x \in Nat
    OBVIOUS
  <2>2. QED
    BY <2>1
<1>2. PICK m \in T : \A n \in T : ~(<<n, m>> \in OpToRel(<, Nat))
  BY <1>1, NatLessThanWellFounded, WFMin
<1>3. PICK x \in S : m = b - x
  BY <1>2
<1>4. \A y \in S : x >= y
  <2> SUFFICES ASSUME NEW y \in S, y > x PROVE FALSE
    BY <1>3
  <2>1. b - y \in T /\ b - y < m
    BY <1>3
  <2>2. <<b - y, m>> \in OpToRel(<, Nat)
    BY <1>1, <1>2, <2>1 DEF OpToRel
  <2>3. QED
    BY <1>2, <2>1, <2>2
<1>5. QED
  BY <1>3, <1>4 DEF Max

LEMMA MaxOfTwo ==
  ASSUME NEW a \in Int, NEW b \in Int
  PROVE  Max({a, b}) \in {a, b} /\ a <= Max({a, b}) /\ b <= Max({a, b})
<1>1. \E x \in {a, b} : \A y \in {a, b} : x >= y
  <2>1. CASE a >= b
    BY <2>1
  <2>2. CASE b >= a
    BY <2>2
  <2>3. QED
    BY <2>1, <2>2
<1>2. QED
  BY <1>1 DEF Max

-----------------------------------------------------------------------------
(***************************************************************************)
(* Types.                                                                  *)
(***************************************************************************)

Records == Events \cup {Garbage}

LEMMA InitTypes == Init => TypeOK
<1> SUFFICES ASSUME Init PROVE TypeOK
  OBVIOUS
<1>1. NoMarks \in Marks
  BY DEF NoMarks, Marks, None
<1>2. DownPod \in PodState
  <2>1. <<>> \in Seq(Rows)
    BY EmptySeq
  <2>2. QED
    BY <1>1, <2>1 DEF DownPod, PodState
<1>3. topic \in [Tables -> [Partitions -> Seq(Records)]]
  BY EmptySeq DEF Init
<1>4. snaps \in Seq([rows : Seq(Rows), hwm : Marks]) /\ DOMAIN snaps = {}
  BY EmptySeq DEF Init
<1>5. QED
  BY <1>1, <1>2, <1>3, <1>4 DEF Init, TypeOK, Records, DownPod

\* What a record appended to a log does to the logs.
LEMMA Appends ==
  ASSUME TypeOK, NEW t \in Tables, NEW p \in Partitions, NEW x \in Records, Append2(t, p, x)
  PROVE  /\ topic' \in [Tables -> [Partitions -> Seq(Records)]]
         /\ \A u \in Tables, q \in Partitions :
              topic'[u][q] = IF u = t /\ q = p THEN Append(topic[t][p], x) ELSE topic[u][q]
<1>1. topic \in [Tables -> [Partitions -> Seq(Records)]]
  BY DEF TypeOK, Records
<1>2. Append(topic[t][p], x) \in Seq(Records)
  <2>1. topic[t][p] \in Seq(Records)
    BY <1>1
  <2>2. QED
    BY <2>1, AppendProperties
<1>3. topic' = [topic EXCEPT ![t] = [topic[t] EXCEPT ![p] = Append(topic[t][p], x)]]
  BY <1>1 DEF Append2
<1>4. QED
  BY <1>1, <1>2, <1>3

\* The steps of the writer leave the logs, and the others append to one.
LEMMA Frames ==
  ASSUME [Next]_vars
  PROVE  /\ faults' = faults /\ tableOf' = tableOf
         /\ \/ IngestNext /\ UNCHANGED writerVars
            \/ WriterNext /\ UNCHANGED <<req, mark, topic>>
            \/ /\ \E x \in Records, p \in Partitions : Publish(x, p)
               /\ UNCHANGED <<req, mark, writerVars>>
            \/ UNCHANGED <<req, mark, topic, writerVars>>
<1>1. CASE IngestNext
  BY <1>1
  DEF IngestNext, Receive, Produced, ProduceFails, ProduceUnknown, LateAppend,
      IngestRestart, Expire, Cleanup
<1>2. CASE WriterNext
  <2>1. ASSUME NEW w \in Pods, Start(w) \/ WriteBatch(w) \/ CommitOffsets(w) \/ Exit(w)
        PROVE  UNCHANGED <<faults, ingestVars, topic>>
    BY <2>1 DEF Start, WriteBatch, CommitOffsets, Exit
  <2>2. ASSUME NEW w \in Pods, NEW p \in Partitions, Consume(w, p)
        PROVE  UNCHANGED <<faults, ingestVars, topic>>
    BY <2>2 DEF Consume
  <2>3. ASSUME Rebalance
        PROVE  UNCHANGED <<faults, ingestVars, topic>>
    BY <2>3 DEF Rebalance
  <2>4. UNCHANGED <<faults, ingestVars, topic>>
    BY <1>2, <2>1, <2>2, <2>3 DEF WriterNext
  <2>5. QED
    BY <1>2, <2>4 DEF ingestVars
<1>3. CASE \E x \in Records, p \in Partitions : Publish(x, p)
  BY <1>3 DEF Publish, ingestVars
<1>4. CASE UNCHANGED vars
  BY <1>4 DEF vars, ingestVars
<1>5. IngestNext \/ WriterNext \/ (\E x \in Records, p \in Partitions : Publish(x, p))
        \/ UNCHANGED vars
  BY DEF Next, Records
<1>6. QED
  BY <1>1, <1>2, <1>3, <1>4, <1>5

\* What the steps of the ingest service append: the event of a request at work.
LEMMA TopicMoves ==
  ASSUME TypeOK, [Next]_vars
  PROVE  \/ topic' = topic
         \/ \E x \in Records, p \in Partitions : Append2(WriterTable, p, x) /\ Publish(x, p)
         \/ \E r \in Requests : /\ req[r].st \in {"producing", "late"}
                                /\ Append2(tableOf[r[1]], Hash[r[1]], r[1])
<1>1. CASE IngestNext
  BY <1>1
  DEF IngestNext, Receive, Produced, ProduceFails, ProduceUnknown, LateAppend,
      IngestRestart, Expire, Cleanup
<1>2. QED
  BY <1>1, Frames DEF Publish

LEMMA TopicsGrow ==
  ASSUME TypeOK, [Next]_vars
  PROVE  /\ topic' \in [Tables -> [Partitions -> Seq(Records)]]
         /\ \A t \in Tables, p \in Partitions : \A o \in DOMAIN topic[t][p] :
              o \in DOMAIN topic'[t][p] /\ topic'[t][p][o] = topic[t][p][o]
<1>1. topic \in [Tables -> [Partitions -> Seq(Records)]]
  BY DEF TypeOK, Records
<1>2. ASSUME NEW t \in Tables, NEW p \in Partitions, NEW x \in Records, Append2(t, p, x)
      PROVE  \A u \in Tables, q \in Partitions : \A o \in DOMAIN topic[u][q] :
               o \in DOMAIN topic'[u][q] /\ topic'[u][q][o] = topic[u][q][o]
  <2>1. topic[t][p] \in Seq(Records)
    BY <1>1
  <2>2. \A o \in DOMAIN topic[t][p] : /\ o \in DOMAIN Append(topic[t][p], x)
                                     /\ Append(topic[t][p], x)[o] = topic[t][p][o]
    BY <2>1, AppendProperties, LenProperties
  <2>3. \A u \in Tables, q \in Partitions :
          topic'[u][q] = IF u = t /\ q = p THEN Append(topic[t][p], x) ELSE topic[u][q]
    BY <1>2, Appends
  <2>4. QED
    BY <2>2, <2>3
<1>3. ASSUME NEW r \in Requests
      PROVE  tableOf[r[1]] \in Tables /\ Hash[r[1]] \in Partitions /\ r[1] \in Records
  BY EventsAssumption DEF Requests, TypeOK, Records
<1>4. CASE topic' = topic
  BY <1>1, <1>4
<1>5. CASE \E x \in Records, p \in Partitions : Append2(WriterTable, p, x)
  BY <1>2, <1>5, Appends, EventsAssumption
<1>6. CASE \E r \in Requests : Append2(tableOf[r[1]], Hash[r[1]], r[1])
  BY <1>2, <1>3, <1>6, Appends
<1>7. QED
  BY <1>4, <1>5, <1>6, TopicMoves

\* What a pod is after a step, the others being what they were.
PodIs(w, st, pos, seen, buf, hwm) ==
  /\ \A v \in Pods \ {w} : pod'[v] = pod[v]
  /\ pod'[w].st = st /\ pod'[w].pos = pos /\ pod'[w].seen = seen
  /\ pod'[w].buf = buf /\ pod'[w].hwm = hwm

LEMMA Starts ==
  ASSUME TypeOK, NEW w \in Pods, Start(w)
  PROVE  /\ PodIs(w, "poll", SeekToHwm(ResolveHwm(snaps)), {}, <<>>, NoMarks)
         /\ SeekToHwm(ResolveHwm(snaps)) \in Marks => pod' \in [Pods -> PodState]
<1> DEFINE pos == SeekToHwm(ResolveHwm(snaps))
<1>1. pod' = [pod EXCEPT ![w] = [[DownPod EXCEPT !.st = "poll"] EXCEPT !.pos = pos]]
  BY DEF Start
<1> HIDE DEF pos
<1>2. PodIs(w, "poll", pos, {}, <<>>, NoMarks)
  BY <1>1 DEF PodIs, DownPod, TypeOK
<1>3. DownPod \in PodState
  BY EmptySeq DEF DownPod, PodState, Marks, NoMarks, None
<1>4. ASSUME pos \in Marks
      PROVE  [[DownPod EXCEPT !.st = "poll"] EXCEPT !.pos = pos] \in PodState
  BY <1>3, <1>4 DEF PodState
<1>5. QED
  BY <1>1, <1>2, <1>4 DEF TypeOK, pos

LEMMA Exits ==
  ASSUME TypeOK, NEW w \in Pods, Exit(w)
  PROVE  /\ PodIs(w, "down", NoMarks, {}, <<>>, NoMarks)
         /\ pod' \in [Pods -> PodState]
<1>1. DownPod \in PodState
  BY EmptySeq DEF DownPod, PodState, Marks, NoMarks, None
<1>2. PodIs(w, "down", NoMarks, {}, <<>>, NoMarks)
  BY DEF Exit, PodIs, DownPod, TypeOK
<1>3. QED
  BY <1>1, <1>2 DEF Exit, TypeOK

LEMMA Writes ==
  ASSUME TypeOK, NEW w \in Pods, WriteBatch(w)
  PROVE  /\ PodIs(w, "written", pod[w].pos, pod[w].seen, pod[w].buf, pod[w].hwm)
         /\ pod' \in [Pods -> PodState]
<1>1. pod \in [Pods -> PodState] /\ pod[w] \in PodState
  BY DEF TypeOK
<1>2. pod' = [pod EXCEPT ![w] = [pod[w] EXCEPT !.st = "written"]]
  BY <1>1 DEF WriteBatch
<1>3. [pod[w] EXCEPT !.st = "written"] \in PodState
  BY <1>1 DEF PodState
<1>4. QED
  BY <1>1, <1>2, <1>3 DEF PodIs, PodState

LEMMA Commits ==
  ASSUME TypeOK, NEW w \in Pods, CommitOffsets(w)
  PROVE  /\ PodIs(w, "poll", pod[w].pos, pod[w].seen, <<>>, NoMarks)
         /\ pod' \in [Pods -> PodState]
<1> DEFINE new == [[[pod[w] EXCEPT !.st = "poll"] EXCEPT !.buf = <<>>] EXCEPT !.hwm = NoMarks]
<1>1. pod \in [Pods -> PodState] /\ pod[w] \in PodState
  BY DEF TypeOK
<1>2. pod' = [pod EXCEPT ![w] = new]
  BY <1>1 DEF CommitOffsets
<1>3. <<>> \in Seq(Rows) /\ NoMarks \in Marks
  BY EmptySeq DEF NoMarks, Marks, None
<1>4. new \in PodState
  BY <1>1, <1>3 DEF PodState
<1>5. QED
  BY <1>1, <1>2, <1>4 DEF PodIs, PodState

LEMMA Consumes ==
  ASSUME TypeOK, NEW w \in Pods, NEW p \in Partitions, Consume(w, p)
  PROVE  LET o == pod[w].pos[p]
             hwm == pod[w].hwm
             lost == WriterTopic[p][o] = Garbage
         IN  /\ o \in Nat \ {None} /\ o \in DOMAIN WriterTopic[p]
             /\ PodIs(w, "poll", [pod[w].pos EXCEPT ![p] = o + 1], pod[w].seen \cup {p},
                      IF lost THEN pod[w].buf ELSE Append(pod[w].buf, <<p, o>>),
                      [hwm EXCEPT ![p] = IF lost THEN hwm[p] ELSE Max({hwm[p], o})])
             /\ pod' \in [Pods -> PodState]
<1> DEFINE o == pod[w].pos[p]
           hwm == pod[w].hwm
           lost == WriterTopic[p][o] = Garbage
           buf == IF lost THEN pod[w].buf ELSE Append(pod[w].buf, <<p, o>>)
           top == IF lost THEN hwm[p] ELSE Max({hwm[p], o})
<1>1. pod \in [Pods -> PodState] /\ pod[w] \in PodState
  BY DEF TypeOK
<1>2. WriterTopic[p] \in Seq(Records)
  BY EventsAssumption DEF TypeOK, WriterTopic, Records
<1>3. o \in Nat \ {None} /\ o <= Len(WriterTopic[p]) /\ pod[w].st = "poll"
  BY <1>1 DEF Consume, PodState, Marks
<1>4. o \in DOMAIN WriterTopic[p]
  BY <1>2, <1>3, LenProperties DEF None
<1> DEFINE new == [[[[pod[w] EXCEPT !.pos = [pod[w].pos EXCEPT ![p] = o + 1]]
                      EXCEPT !.seen = pod[w].seen \cup {p}]
                      EXCEPT !.buf = buf]
                      EXCEPT !.hwm = [hwm EXCEPT ![p] = top]]
<1>5. pod' = [pod EXCEPT ![w] = new]
  BY <1>1 DEF Consume, PodState
<1> HIDE DEF buf, top
<1>6. PodIs(w, "poll", [pod[w].pos EXCEPT ![p] = o + 1], pod[w].seen \cup {p}, buf,
            [hwm EXCEPT ![p] = top])
  BY <1>1, <1>3, <1>5 DEF PodIs, PodState
<1>7. new \in PodState
  <2>1. <<p, o>> \in Rows /\ pod[w].buf \in Seq(Rows)
    BY <1>1, <1>3 DEF Rows, PodState
  <2>2. buf \in Seq(Rows)
    BY <2>1, AppendProperties DEF buf
  <2>3. hwm \in Marks /\ pod[w].pos \in Marks
    BY <1>1 DEF PodState
  <2>4. top \in Nat
    <3>1. hwm[p] \in Nat
      BY <2>3 DEF Marks
    <3> HIDE DEF o, hwm, lost
    <3>2. Max({hwm[p], o}) \in {hwm[p], o}
      <4>1. hwm[p] \in Int /\ o \in Int
        BY <1>3, <3>1
      <4>2. QED
        BY <4>1, MaxOfTwo
    <3>3. Max({hwm[p], o}) \in Nat
      BY <1>3, <3>1, <3>2
    <3>4. QED
      BY <3>1, <3>3 DEF top
  <2>5. [hwm EXCEPT ![p] = top] \in Marks /\ [pod[w].pos EXCEPT ![p] = o + 1] \in Marks
    BY <1>3, <2>3, <2>4 DEF Marks
  <2>6. pod[w].seen \cup {p} \in SUBSET Partitions
    BY <1>1 DEF PodState
  <2> HIDE DEF o, hwm, lost
  <2>7. QED
    BY <1>1, <2>2, <2>5, <2>6 DEF PodState
<1>8. QED
  BY <1>1, <1>3, <1>4, <1>5, <1>6, <1>7 DEF buf, top

LEMMA Rebalances ==
  ASSUME TypeOK, Rebalance
  PROVE  \E owner \in [Partitions -> {w \in Pods : Up(w)}] : \A w \in Pods :
           IF Up(w)
           THEN /\ pod'[w].st = pod[w].st /\ pod'[w].seen = {}
                /\ pod'[w].buf = pod[w].buf /\ pod'[w].hwm = pod[w].hwm
                /\ pod'[w].pos = [p \in Partitions |->
                                    IF owner[p] # w THEN None ELSE Max({1, group[p]})]
           ELSE pod'[w] = pod[w]
<1>1. pod \in [Pods -> PodState]
  BY DEF TypeOK
<1>2. PICK owner \in [Partitions -> {w \in Pods : Up(w)}] :
        pod' = [w \in Pods |->
         IF Up(w)
         THEN [pod[w] EXCEPT
                !.pos = [p \in Partitions |->
                          IF owner[p] # w THEN None ELSE Max({1, group[p]})],
                !.seen = {}]
         ELSE pod[w]]
  BY DEF Rebalance
<1>3. ASSUME NEW w \in Pods, Up(w)
      PROVE  /\ pod'[w].st = pod[w].st /\ pod'[w].seen = {}
             /\ pod'[w].buf = pod[w].buf /\ pod'[w].hwm = pod[w].hwm
             /\ pod'[w].pos = [p \in Partitions |->
                                 IF owner[p] # w THEN None ELSE Max({1, group[p]})]
  <2> DEFINE pos == [p \in Partitions |-> IF owner[p] # w THEN None ELSE Max({1, group[p]})]
  <2>1. pod'[w] = [[pod[w] EXCEPT !.pos = pos] EXCEPT !.seen = {}]
    BY <1>1, <1>2, <1>3
  <2> HIDE DEF pos
  <2>2. QED
    BY <1>1, <2>1 DEF PodState, pos
<1>4. QED
  BY <1>2, <1>3

\* The high-water mark of a partition is the largest a snapshot carries.
LEMMA HwmIsLargest ==
  ASSUME TypeOK, MarksCovered, NEW p \in Partitions
  PROVE  LET h == ResolveHwm(snaps)[p]
         IN  /\ h \in Nat
             /\ h = None \/ \E i \in DOMAIN snaps : h = snaps[i].hwm[p]
             /\ \A i \in DOMAIN snaps : snaps[i].hwm[p] <= h
<1> DEFINE S == {None} \cup {snaps[i].hwm[p] : i \in DOMAIN snaps}
<1>1. \A i \in DOMAIN snaps : snaps[i].hwm[p] \in Nat
  <2>1. \A i \in DOMAIN snaps : snaps[i] \in [rows : Seq(Rows), hwm : Marks]
    BY ZenonT(40), ElementOfSeq, LenProperties DEF TypeOK
  <2>2. QED
    BY <2>1 DEF Marks
<1>2. WriterTopic[p] \in Seq(Records)
  BY EventsAssumption DEF TypeOK, WriterTopic, Records
<1>3. Len(WriterTopic[p]) \in Nat /\ DOMAIN WriterTopic[p] = 1..Len(WriterTopic[p])
  BY <1>2, LenProperties
<1>4. \A i \in DOMAIN snaps : snaps[i].hwm[p] <= Len(WriterTopic[p])
  <2> SUFFICES ASSUME NEW i \in DOMAIN snaps, snaps[i].hwm[p] > 0
               PROVE  snaps[i].hwm[p] <= Len(WriterTopic[p])
    BY <1>1, <1>3
  <2>1. snaps[i].hwm[p] \in 1..snaps[i].hwm[p]
    BY <1>1
  <2>2. snaps[i].hwm[p] \in DOMAIN WriterTopic[p]
    BY <2>1 DEF MarksCovered, Covered
  <2>3. QED
    BY <1>3, <2>2
<1>5. S \subseteq Nat /\ S # {}
  BY <1>1 DEF None
<1>6. \A x \in S : x <= Len(WriterTopic[p])
  BY <1>3, <1>4 DEF None
<1>7. Max(S) \in S /\ \A x \in S : x <= Max(S)
  BY <1>3, <1>5, <1>6, MaxOf
<1>8. ResolveHwm(snaps)[p] = Max(S)
  BY DEF ResolveHwm
<1>9. QED
  BY <1>5, <1>7, <1>8

LEMMA SeekTypes ==
  ASSUME TypeOK, MarksCovered
  PROVE  SeekToHwm(ResolveHwm(snaps)) \in Marks
<1>1. \A p \in Partitions : ResolveHwm(snaps)[p] \in Nat
  BY HwmIsLargest
<1>2. QED
  BY <1>1 DEF SeekToHwm, Marks, None

LEMMA IngestTypes ==
  ASSUME TypeOK, [Next]_vars
  PROVE  /\ req' \in [Requests -> [st : {"unsent", "producing", "late", "done"},
                                  ans : {"none", "lost", "202", "400", "500"}]]
         /\ mark' \in [Events -> {"none", "live", "expired"}]
<1> DEFINE RS == [st : {"unsent", "producing", "late", "done"},
                  ans : {"none", "lost", "202", "400", "500"}]
           Good == req' \in [Requests -> RS] /\ mark' \in [Events -> {"none", "live", "expired"}]
<1>1. req \in [Requests -> RS] /\ mark \in [Events -> {"none", "live", "expired"}]
  BY DEF TypeOK
<1>2. ASSUME NEW r \in Requests, NEW a \in {"202", "400", "500"}, Answer(r, a)
      PROVE  req' \in [Requests -> RS]
  BY <1>1, <1>2 DEF Answer
<1>3. \A r \in Requests : r[1] \in Events
  BY DEF Requests
<1>4. \A e \in Events : TryMark(e, mark).mark \in [Events -> {"none", "live", "expired"}]
  <2> SUFFICES ASSUME NEW e \in Events
               PROVE  TryMark(e, mark).mark \in [Events -> {"none", "live", "expired"}]
    OBVIOUS
  <2> DEFINE purged == [x \in Events |-> IF mark[x] = "expired" THEN "none" ELSE mark[x]]
  <2>1. purged \in [Events -> {"none", "live", "expired"}]
    BY <1>1
  <2>2. \E kept \in {mark, purged} :
          TryMark(e, mark).mark \in {mark, kept, [kept EXCEPT ![e] = "live"]}
    BY DEF TryMark
  <2> HIDE DEF purged
  <2>3. QED
    BY <1>1, <2>1, <2>2
<1>5. ASSUME NEW r \in Requests, Receive(r) PROVE Good
  <2>1. CASE ~ NameMatches(tableOf[r[1]])
    BY <1>1, <1>2, <1>5, <2>1 DEF Receive
  <2>2. CASE NameMatches(tableOf[r[1]])
    <3>1. mark' = TryMark(r[1], mark).mark
      BY <1>5, <2>2 DEF Receive
    <3>2. req' = [req EXCEPT ![r].st = "producing"] \/ Answer(r, "202")
      BY <1>5, <2>2 DEF Receive
    <3>3. [req[r] EXCEPT !.st = "producing"] \in RS
      BY <1>1
    <3>4. req' \in [Requests -> RS]
      BY <1>1, <1>2, <3>2, <3>3
    <3>5. QED
      BY <1>3, <1>4, <3>1, <3>4
  <2>3. QED
    BY <2>1, <2>2
<1>6. ASSUME NEW r \in Requests, Produced(r) \/ ProduceFails(r) PROVE Good
  BY <1>1, <1>2, <1>3, <1>6 DEF Produced, ProduceFails, Unmark
<1>7. ASSUME NEW r \in Requests, ProduceUnknown(r) PROVE Good
  BY <1>1, <1>3, <1>7 DEF ProduceUnknown, Unmark
<1>8. ASSUME NEW r \in Requests, LateAppend(r) PROVE Good
  <2>1. [req[r] EXCEPT !.st = "done"] \in RS
    BY <1>1
  <2>2. QED
    BY <1>1, <1>8, <2>1 DEF LateAppend
<1>9. ASSUME IngestRestart PROVE Good
  <2>1. \A r \in Requests : req[r] \in RS
    BY <1>1
  <2>2. \A r \in Requests : [st |-> "done", ans |-> req[r].ans] \in RS
    BY <2>1
  <2>3. QED
    BY <1>1, <1>9, <2>2 DEF IngestRestart
<1>10. ASSUME NEW e \in Events, Expire(e) PROVE Good
  BY <1>1, <1>10 DEF Expire
<1>11. ASSUME Cleanup PROVE Good
  BY <1>1, <1>11 DEF Cleanup
<1>12. ASSUME IngestNext PROVE Good
  BY <1>5, <1>6, <1>7, <1>8, <1>9, <1>10, <1>11, <1>12 DEF IngestNext
<1>13. QED
  BY <1>1, <1>12, Frames

SnapState == [rows : Seq(Rows), hwm : Marks]

\* A pod has marks for what it buffers, and for nothing else.
LEMMA WriterTypes ==
  ASSUME TypeOK, MarksCovered, WriterNext
  PROVE  /\ snaps' \in Seq(SnapState) /\ group' \in Marks /\ pod' \in [Pods -> PodState]
         /\ \A i \in DOMAIN snaps' : snaps'[i].rows # <<>>
         /\ \A w \in Pods : pod'[w].buf = <<>> <=> pod'[w].hwm = NoMarks
<1> DEFINE Snaps == snaps' \in Seq(SnapState) /\ \A i \in DOMAIN snaps' : snaps'[i].rows # <<>>
           Bufs == \A w \in Pods : pod'[w].buf = <<>> <=> pod'[w].hwm = NoMarks
           Good == Snaps /\ group' \in Marks /\ pod' \in [Pods -> PodState] /\ Bufs
<1>1. /\ snaps \in Seq(SnapState) /\ group \in Marks /\ pod \in [Pods -> PodState]
      /\ \A i \in DOMAIN snaps : snaps[i].rows # <<>>
      /\ \A w \in Pods : pod[w].buf = <<>> <=> pod[w].hwm = NoMarks
  BY DEF TypeOK, SnapState
<1>2. ASSUME NEW w \in Pods, Start(w) PROVE Good
  <2>1. UNCHANGED <<snaps, group>>
    BY <1>2 DEF Start
  <2>2. PodIs(w, "poll", SeekToHwm(ResolveHwm(snaps)), {}, <<>>, NoMarks)
    BY <1>2, Starts
  <2>3. pod' \in [Pods -> PodState]
    BY <1>2, Starts, SeekTypes
  <2>4. QED
    BY <1>1, <2>1, <2>2, <2>3 DEF PodIs
<1>3. ASSUME NEW w \in Pods, Exit(w) PROVE Good
  <2>1. UNCHANGED <<snaps, group>>
    BY <1>3 DEF Exit
  <2>2. QED
    BY <1>1, <1>3, <2>1, Exits DEF PodIs
<1>4. ASSUME NEW w \in Pods, WriteBatch(w) PROVE Good
  <2>1. UNCHANGED group /\ pod[w].buf # <<>>
        /\ snaps' = Append(snaps, [rows |-> pod[w].buf, hwm |-> pod[w].hwm])
    BY <1>4 DEF WriteBatch
  <2>2. [rows |-> pod[w].buf, hwm |-> pod[w].hwm] \in SnapState
    BY <1>1 DEF PodState, SnapState
  <2>3. Snaps
    <3> DEFINE x == [rows |-> pod[w].buf, hwm |-> pod[w].hwm]
    <3>1. /\ Append(snaps, x) \in Seq(SnapState)
          /\ DOMAIN Append(snaps, x) = 1..(Len(snaps) + 1) /\ DOMAIN snaps = 1..Len(snaps)
          /\ \A i \in 1..Len(snaps) : Append(snaps, x)[i] = snaps[i]
          /\ Append(snaps, x)[Len(snaps) + 1] = x
          /\ Len(snaps) \in Nat
      BY <1>1, <2>2, AppendProperties, LenProperties
    <3>2. x.rows # <<>>
      BY <2>1
    <3> HIDE DEF x
    <3>3. \A i \in DOMAIN Append(snaps, x) : Append(snaps, x)[i].rows # <<>>
      <4> SUFFICES ASSUME NEW i \in 1..(Len(snaps) + 1)
                   PROVE  Append(snaps, x)[i].rows # <<>>
        BY <3>1
      <4>1. CASE i = Len(snaps) + 1
        BY <3>1, <3>2, <4>1
      <4>2. CASE i \in 1..Len(snaps)
        BY <1>1, <3>1, <4>2
      <4>3. QED
        BY <3>1, <4>1, <4>2
    <3>4. QED
      BY <2>1, <3>1, <3>3 DEF x
  <2>4. QED
    BY <1>1, <1>4, <2>1, <2>3, Writes DEF PodIs
<1>5. ASSUME NEW w \in Pods, CommitOffsets(w) PROVE Good
  <2>1. UNCHANGED snaps
    BY <1>5 DEF CommitOffsets
  <2>2. group' \in Marks
    <3>1. pod[w].pos \in Marks
      BY <1>1 DEF PodState
    <3>2. QED
      BY <1>1, <1>5, <3>1 DEF CommitOffsets, Marks
  <2>3. QED
    BY <1>1, <1>5, <2>1, <2>2, Commits DEF PodIs
<1>6. ASSUME NEW w \in Pods, NEW p \in Partitions, Consume(w, p) PROVE Good
  <2> DEFINE o == pod[w].pos[p]
             hwm == pod[w].hwm
             lost == WriterTopic[p][o] = Garbage
  <2>1. UNCHANGED <<snaps, group>>
    BY <1>6 DEF Consume
  <2>2. pod' \in [Pods -> PodState] /\ o \in Nat \ {None}
    BY <1>6, Consumes
  <2>3. /\ pod'[w].buf = IF lost THEN pod[w].buf ELSE Append(pod[w].buf, <<p, o>>)
        /\ pod'[w].hwm = [hwm EXCEPT ![p] = IF lost THEN hwm[p] ELSE Max({hwm[p], o})]
        /\ \A v \in Pods \ {w} : pod'[v] = pod[v]
    BY <1>6, Consumes DEF PodIs
  <2>4. pod[w].buf \in Seq(Rows) /\ hwm \in Marks
    BY <1>1 DEF PodState
  <2>5. CASE lost
    <3>1. pod'[w].hwm = hwm
      <4>1. pod'[w].hwm = [hwm EXCEPT ![p] = hwm[p]]
        BY <2>3, <2>5
      <4>2. QED
        BY <2>4, <4>1 DEF Marks
    <3>2. QED
      BY <1>1, <2>1, <2>2, <2>3, <2>5, <3>1
  <2>6. CASE ~lost
    <3>1. pod'[w].buf # <<>>
      <4>1. <<p, o>> \in Rows
        BY <2>2 DEF Rows
      <4>2. Len(Append(pod[w].buf, <<p, o>>)) = Len(pod[w].buf) + 1 /\ Len(pod[w].buf) \in Nat
        BY <2>4, <4>1, AppendProperties, LenProperties
      <4>3. QED
        BY <2>3, <2>6, <4>2, EmptySeq
    <3>2. pod'[w].hwm # NoMarks
      <4>1. hwm[p] \in Int /\ o \in Int
        BY <2>2, <2>4 DEF Marks, None
      <4>2. o > 0
        BY <2>2 DEF None
      <4> HIDE DEF o, hwm, lost
      <4>3. o <= Max({hwm[p], o}) /\ Max({hwm[p], o}) \in {hwm[p], o}
        BY <4>1, MaxOfTwo
      <4>4. Max({hwm[p], o}) # 0
        BY <4>1, <4>2, <4>3
      <4>5. pod'[w].hwm[p] # 0
        BY <2>3, <2>4, <2>6, <4>4 DEF Marks
      <4>6. QED
        BY <4>5 DEF NoMarks, None
    <3>3. QED
      BY <1>1, <2>1, <2>2, <2>3, <3>1, <3>2
  <2>7. QED
    BY <2>5, <2>6
<1>7. ASSUME Rebalance PROVE Good
  <2>1. UNCHANGED <<snaps, group>>
    BY <1>7 DEF Rebalance
  <2>2. Bufs
    BY <1>1, <1>7, Rebalances
  <2>3. pod' \in [Pods -> PodState]
    <3>1. PICK owner \in [Partitions -> {w \in Pods : Up(w)}] :
            pod' = [w \in Pods |->
             IF Up(w)
             THEN [pod[w] EXCEPT
                    !.pos = [p \in Partitions |->
                              IF owner[p] # w THEN None ELSE Max({1, group[p]})],
                    !.seen = {}]
             ELSE pod[w]]
      BY <1>7 DEF Rebalance
    <3>2. \A p \in Partitions : Max({1, group[p]}) \in Nat
      <4> SUFFICES ASSUME NEW p \in Partitions PROVE Max({1, group[p]}) \in Nat
        OBVIOUS
      <4>1. group[p] \in Nat
        BY <1>1 DEF Marks
      <4>2. Max({1, group[p]}) \in {1, group[p]}
        <5>1. 1 \in Int /\ group[p] \in Int
          BY <4>1
        <5>2. QED
          BY <5>1, MaxOfTwo
      <4>3. QED
        BY <4>1, <4>2
    <3>3. ASSUME NEW w \in Pods
          PROVE  [p \in Partitions |-> IF owner[p] # w THEN None ELSE Max({1, group[p]})] \in Marks
      BY <3>2 DEF Marks, None
    <3>4. ASSUME NEW w \in Pods, NEW pos \in Marks
          PROVE  [[pod[w] EXCEPT !.pos = pos] EXCEPT !.seen = {}] \in PodState
      BY <1>1 DEF PodState
    <3>5. QED
      BY <1>1, <3>1, <3>3, <3>4
  <2>4. QED
    BY <1>1, <2>1, <2>2, <2>3
<1>8. QED
  BY <1>2, <1>3, <1>4, <1>5, <1>6, <1>7 DEF WriterNext

LEMMA StepTypes ==
  ASSUME TypeOK, MarksCovered, [Next]_vars
  PROVE  TypeOK'
<1>1. CASE WriterNext
  BY <1>1, IngestTypes, TopicsGrow, WriterTypes, Frames DEF TypeOK, SnapState, Records
<1>2. CASE UNCHANGED writerVars
  BY <1>2, IngestTypes, TopicsGrow, Frames DEF TypeOK, writerVars, Records
<1>3. QED
  BY <1>1, <1>2, Frames DEF writerVars

-----------------------------------------------------------------------------
(***************************************************************************)
(* Nothing is skipped.                                                     *)
(***************************************************************************)

\* Covered, of the logs after the step.
CoveredNext(rows, p, n) ==
  \A o \in 1..n : /\ o \in DOMAIN WriterTopic'[p]
                  /\ WriterTopic'[p][o] # Garbage => <<p, o>> \in rows

LEMMA CoveredGrows ==
  ASSUME TypeOK, [Next]_vars, NEW p \in Partitions, NEW n, NEW rows, NEW more,
         Covered(rows, p, n), rows \subseteq more
  PROVE  CoveredNext(more, p, n)
<1>1. \A o \in DOMAIN WriterTopic[p] :
        o \in DOMAIN WriterTopic'[p] /\ WriterTopic'[p][o] = WriterTopic[p][o]
  BY TopicsGrow, EventsAssumption DEF WriterTopic
<1>2. QED
  BY <1>1 DEF Covered, CoveredNext

\* What a snapshot adds to the table is what the pod holds.
LEMMA WritesLand ==
  ASSUME TypeOK, NEW w \in Pods, WriteBatch(w)
  PROVE  /\ Len(snaps) \in Nat /\ DOMAIN snaps = 1..Len(snaps)
         /\ DOMAIN snaps' = 1..(Len(snaps) + 1)
         /\ \A i \in DOMAIN snaps : snaps'[i] = snaps[i]
         /\ snaps'[Len(snaps) + 1].rows = pod[w].buf
         /\ snaps'[Len(snaps) + 1].hwm = pod[w].hwm
         /\ Landed' = Landed \cup Held(w)
<1> DEFINE x == [rows |-> pod[w].buf, hwm |-> pod[w].hwm]
<1>1. snaps \in Seq(SnapState) /\ pod[w] \in PodState
  BY DEF TypeOK, SnapState
<1>2. x \in SnapState
  BY <1>1 DEF PodState, SnapState
<1>3. snaps' = Append(snaps, x)
  BY DEF WriteBatch
<1>4. x.rows = pod[w].buf /\ x.hwm = pod[w].hwm
  OBVIOUS
<1> HIDE DEF x
<1>5. /\ Len(snaps) \in Nat /\ DOMAIN snaps = 1..Len(snaps)
      /\ DOMAIN snaps' = 1..(Len(snaps) + 1)
      /\ \A i \in 1..Len(snaps) : snaps'[i] = snaps[i]
      /\ snaps'[Len(snaps) + 1] = x
  BY <1>1, <1>2, <1>3, AppendProperties, LenProperties
<1>6. DOMAIN snaps' = DOMAIN snaps \cup {Len(snaps) + 1}
  BY <1>5
<1>7. Landed' = Landed \cup Held(w)
  BY <1>4, <1>5, <1>6 DEF Landed, Held
<1>8. QED
  BY <1>4, <1>5, <1>7

\* What a record read adds to what a pod holds.
LEMMA ConsumesHold ==
  ASSUME TypeOK, NEW w \in Pods, NEW p \in Partitions, Consume(w, p)
  PROVE  LET o == pod[w].pos[p]
             old == pod[w].buf
             new == pod'[w].buf
         IN  /\ \A v \in Pods \ {w} : Held(v)' = Held(v)
             /\ \/ WriterTopic[p][o] = Garbage /\ new = old /\ Held(w)' = Held(w)
                \/ /\ Held(w)' = Held(w) \cup {<<p, o>>}
                   /\ Len(old) \in Nat /\ DOMAIN old = 1..Len(old)
                   /\ DOMAIN new = 1..(Len(old) + 1)
                   /\ \A k \in 1..Len(old) : new[k] = old[k]
                   /\ new[Len(old) + 1] = <<p, o>>
<1> DEFINE o == pod[w].pos[p]
           old == pod[w].buf
           new == pod'[w].buf
<1>1. old \in Seq(Rows) /\ o \in Nat \ {None} /\ <<p, o>> \in Rows
  BY Consumes DEF TypeOK, PodState, Rows
<1>2. /\ \A v \in Pods \ {w} : pod'[v] = pod[v]
      /\ new = IF WriterTopic[p][o] = Garbage THEN old ELSE Append(old, <<p, o>>)
  BY Consumes DEF PodIs
<1>3. \A v \in Pods \ {w} : Held(v)' = Held(v)
  BY <1>2 DEF Held
<1>4. CASE WriterTopic[p][o] = Garbage
  <2>1. Held(w)' = Held(w)
    BY <1>2, <1>4 DEF Held
  <2>2. QED
    BY <1>2, <1>3, <1>4, <2>1
<1>5. CASE WriterTopic[p][o] # Garbage
  <2> HIDE DEF o, old
  <2>1. /\ Len(old) \in Nat /\ DOMAIN old = 1..Len(old)
        /\ DOMAIN Append(old, <<p, o>>) = 1..(Len(old) + 1)
        /\ \A k \in 1..Len(old) : Append(old, <<p, o>>)[k] = old[k]
        /\ Append(old, <<p, o>>)[Len(old) + 1] = <<p, o>>
    BY <1>1, AppendProperties, LenProperties
  <2>2. DOMAIN new = DOMAIN old \cup {Len(old) + 1}
    BY <1>2, <1>5, <2>1
  <2>3. Held(w)' = Held(w) \cup {<<p, o>>}
    BY <1>2, <1>5, <2>1, <2>2 DEF Held, old
  <2>4. QED
    BY <1>2, <1>3, <1>5, <2>1, <2>3 DEF o, old
<1>6. QED
  BY <1>4, <1>5

\* The position a mark leads to passes what the mark passes.
LEMMA SeekCovers ==
  ASSUME TypeOK, MarksCovered, NEW p \in Partitions
  PROVE  Covered(Landed, p, SeekToHwm(ResolveHwm(snaps))[p] - 1)
<1> DEFINE h == ResolveHwm(snaps)[p]
<1>1. h \in Nat /\ (h = 0 \/ \E i \in DOMAIN snaps : h = snaps[i].hwm[p])
  BY HwmIsLargest DEF None
<1>2. SeekToHwm(ResolveHwm(snaps))[p] = IF h = 0 THEN 0 ELSE h + 1
  BY DEF SeekToHwm, None
<1> HIDE DEF h
<1>3. CASE h = 0
  BY <1>2, <1>3 DEF Covered
<1>4. CASE h # 0
  <2>1. SeekToHwm(ResolveHwm(snaps))[p] - 1 = h
    BY <1>1, <1>2, <1>4
  <2>2. PICK i \in DOMAIN snaps : h = snaps[i].hwm[p]
    BY <1>1, <1>4
  <2>3. QED
    BY <2>1, <2>2 DEF MarksCovered
<1>5. QED
  BY <1>3, <1>4

LEMMA StepCovered ==
  ASSUME TypeOK, MarksCovered, [Next]_vars
  PROVE  MarksCovered'
<1> DEFINE Snaps == \A i \in DOMAIN snaps', p \in Partitions :
                      CoveredNext(Landed', p, snaps'[i].hwm[p])
           Group == \A p \in Partitions : CoveredNext(Landed', p, group'[p] - 1)
           Holds(w) == /\ \A p \in Partitions :
                            /\ CoveredNext(Landed' \cup Held(w)', p, pod'[w].pos[p] - 1)
                            /\ CoveredNext(Landed' \cup Held(w)', p, pod'[w].hwm[p])
                       /\ pod'[w].st = "written" => Held(w)' \subseteq Landed'
<1>1. ASSUME Snaps, Group, \A w \in Pods : Holds(w)
      PROVE  MarksCovered'
  BY <1>1 DEF MarksCovered, Covered, CoveredNext
<1>2. /\ \A i \in DOMAIN snaps, p \in Partitions : CoveredNext(Landed, p, snaps[i].hwm[p])
      /\ \A p \in Partitions : CoveredNext(Landed, p, group[p] - 1)
      /\ \A w \in Pods, p \in Partitions :
           /\ CoveredNext(Landed \cup Held(w), p, pod[w].pos[p] - 1)
           /\ CoveredNext(Landed \cup Held(w), p, pod[w].hwm[p])
  BY CoveredGrows DEF MarksCovered
<1>3. \A w \in Pods : pod[w].st = "written" => Held(w) \subseteq Landed
  BY DEF MarksCovered
<1>4. CASE UNCHANGED writerVars
  <2>1. Landed' = Landed /\ \A w \in Pods : Held(w)' = Held(w)
    BY <1>4 DEF Landed, Held, writerVars
  <2>2. QED
    BY <1>1, <1>2, <1>3, <1>4, <2>1 DEF writerVars
<1>5. ASSUME UNCHANGED snaps
      PROVE  Landed' = Landed /\ Snaps
  <2>1. Landed' = Landed
    BY <1>5 DEF Landed
  <2>2. Snaps
    BY <1>2, <1>5, <2>1
  <2>3. QED
    BY <2>1, <2>2
<1>6. ASSUME UNCHANGED snaps, NEW v \in Pods, pod'[v] = pod[v]
      PROVE  Holds(v)
  <2>1. Held(v)' = Held(v)
    BY <1>6 DEF Held
  <2>2. QED
    BY <1>2, <1>3, <1>5, <1>6, <2>1
<1>7. ASSUME NEW w \in Pods, Start(w) PROVE MarksCovered'
  <2>1. UNCHANGED <<snaps, group>>
    BY <1>7 DEF Start
  <2>2. PodIs(w, "poll", SeekToHwm(ResolveHwm(snaps)), {}, <<>>, NoMarks)
    BY <1>7, Starts
  <2>3. Holds(w)
    <3>1. Held(w)' = {}
      BY <2>2 DEF PodIs, Held
    <3>2. \A p \in Partitions : CoveredNext(Landed, p, pod'[w].pos[p] - 1)
      BY <2>2, SeekCovers, CoveredGrows DEF PodIs
    <3>3. \A p \in Partitions : CoveredNext(Landed, p, pod'[w].hwm[p])
      BY <2>2 DEF PodIs, NoMarks, None, CoveredNext
    <3>4. pod'[w].st # "written"
      BY <2>2 DEF PodIs
    <3>5. QED
      BY <1>5, <2>1, <3>1, <3>2, <3>3, <3>4
  <2>4. ASSUME NEW v \in Pods \ {w} PROVE Holds(v)
    <3>1. pod'[v] = pod[v]
      BY <2>2 DEF PodIs
    <3>2. QED
      BY <1>6, <2>1, <3>1
  <2>5. QED
    BY <1>1, <1>2, <1>5, <2>1, <2>3, <2>4
<1>8. ASSUME NEW w \in Pods, Exit(w) PROVE MarksCovered'
  <2>1. UNCHANGED <<snaps, group>> /\ PodIs(w, "down", NoMarks, {}, <<>>, NoMarks)
    BY <1>8, Exits DEF Exit
  <2>2. Holds(w)
    BY <2>1 DEF PodIs, NoMarks, None, CoveredNext
  <2>3. ASSUME NEW v \in Pods \ {w} PROVE Holds(v)
    BY <1>6, <2>1 DEF PodIs
  <2>4. QED
    BY <1>1, <1>2, <1>5, <2>1, <2>2, <2>3
<1>9. ASSUME NEW w \in Pods, WriteBatch(w) PROVE MarksCovered'
  <2>1. UNCHANGED group
        /\ PodIs(w, "written", pod[w].pos, pod[w].seen, pod[w].buf, pod[w].hwm)
    BY <1>9, Writes DEF WriteBatch
  <2>2. /\ DOMAIN snaps' = DOMAIN snaps \cup {Len(snaps) + 1}
        /\ \A i \in DOMAIN snaps : snaps'[i] = snaps[i]
        /\ snaps'[Len(snaps) + 1].hwm = pod[w].hwm
        /\ Landed' = Landed \cup Held(w)
    <3>1. /\ Len(snaps) \in Nat /\ DOMAIN snaps = 1..Len(snaps)
          /\ DOMAIN snaps' = 1..(Len(snaps) + 1)
          /\ \A i \in DOMAIN snaps : snaps'[i] = snaps[i]
          /\ snaps'[Len(snaps) + 1].hwm = pod[w].hwm
          /\ Landed' = Landed \cup Held(w)
      BY <1>9, WritesLand
    <3>2. DOMAIN snaps' = DOMAIN snaps \cup {Len(snaps) + 1}
      BY <3>1
    <3>3. QED
      BY <3>1, <3>2
  <2>3. \A v \in Pods : Held(v)' = Held(v) /\ pod'[v].pos = pod[v].pos /\ pod'[v].hwm = pod[v].hwm
    BY <2>1 DEF PodIs, Held
  <2>4. Snaps
    <3> SUFFICES ASSUME NEW i \in DOMAIN snaps', NEW p \in Partitions
                 PROVE  CoveredNext(Landed', p, snaps'[i].hwm[p])
      OBVIOUS
    <3>1. CASE i \in DOMAIN snaps
      BY <1>2, <2>2, <3>1 DEF CoveredNext
    <3>2. CASE i = Len(snaps) + 1
      BY <1>2, <2>2, <3>2
    <3>3. QED
      BY <2>2, <3>1, <3>2
  <2>5. Group
    BY <1>2, <2>1, <2>2 DEF CoveredNext
  <2>6. ASSUME NEW v \in Pods PROVE Holds(v)
    <3>1. Landed \cup Held(v) \subseteq Landed' \cup Held(v)'
      BY <2>2, <2>3
    <3>2. \A p \in Partitions :
            /\ CoveredNext(Landed \cup Held(v), p, pod'[v].pos[p] - 1)
            /\ CoveredNext(Landed \cup Held(v), p, pod'[v].hwm[p])
      BY <1>2, <2>3
    <3>3. pod'[v].st = "written" => Held(v)' \subseteq Landed'
      BY <1>3, <2>1, <2>2, <2>3 DEF PodIs
    <3>4. QED
      BY <3>1, <3>2, <3>3 DEF CoveredNext
  <2>7. QED
    BY <1>1, <2>4, <2>5, <2>6
<1>10. ASSUME NEW w \in Pods, CommitOffsets(w) PROVE MarksCovered'
  <2>1. /\ UNCHANGED snaps /\ pod[w].st = "written"
        /\ PodIs(w, "poll", pod[w].pos, pod[w].seen, <<>>, NoMarks)
    BY <1>10, Commits DEF CommitOffsets
  <2>2. Landed \cup Held(w) = Landed
    BY <1>3, <2>1
  <2>3. \A p \in Partitions : group'[p] \in {pod[w].pos[p], group[p]}
    BY <1>10 DEF CommitOffsets
  <2>4. Group
    BY <1>2, <1>5, <2>1, <2>2, <2>3
  <2>5. Holds(w)
    <3>1. Held(w)' = {}
      BY <2>1 DEF PodIs, Held
    <3>2. \A p \in Partitions : CoveredNext(Landed, p, pod'[w].pos[p] - 1)
      BY <1>2, <2>1, <2>2 DEF PodIs
    <3>3. \A p \in Partitions : CoveredNext(Landed, p, pod'[w].hwm[p])
      BY <2>1 DEF PodIs, NoMarks, None, CoveredNext
    <3>4. QED
      BY <1>5, <2>1, <3>1, <3>2, <3>3 DEF PodIs
  <2>6. ASSUME NEW v \in Pods \ {w} PROVE Holds(v)
    BY <1>6, <2>1 DEF PodIs
  <2>7. QED
    BY <1>1, <1>5, <2>1, <2>4, <2>5, <2>6
<1>11. ASSUME NEW w \in Pods, NEW q \in Partitions, Consume(w, q) PROVE MarksCovered'
  <2> DEFINE o == pod[w].pos[q]
             hwm == pod[w].hwm
             lost == WriterTopic[q][o] = Garbage
  <2>1. /\ UNCHANGED <<snaps, group, topic>> /\ o \in Nat \ {None} /\ o \in DOMAIN WriterTopic[q]
        /\ PodIs(w, "poll", [pod[w].pos EXCEPT ![q] = o + 1], pod[w].seen \cup {q},
                 IF lost THEN pod[w].buf ELSE Append(pod[w].buf, <<q, o>>),
                 [hwm EXCEPT ![q] = IF lost THEN hwm[q] ELSE Max({hwm[q], o})])
    BY <1>11, Consumes DEF Consume
  <2>2. hwm \in Marks /\ pod[w].pos \in Marks
    BY DEF TypeOK, PodState
  <2>3. Held(w) \subseteq Held(w)' /\ (~lost => <<q, o>> \in Held(w)')
    BY <1>11, ConsumesHold
  <2>4. Landed \cup Held(w) \subseteq Landed' \cup Held(w)'
    BY <1>5, <2>1, <2>3
  <2>5. /\ pod'[w].pos = [pod[w].pos EXCEPT ![q] = o + 1] /\ pod'[w].st = "poll"
        /\ pod'[w].hwm = [hwm EXCEPT ![q] = IF lost THEN hwm[q] ELSE Max({hwm[q], o})]
    BY <2>1 DEF PodIs
  <2>6. \A p \in Partitions \ {q} : pod'[w].pos[p] = pod[w].pos[p] /\ pod'[w].hwm[p] = hwm[p]
    BY <2>2, <2>5 DEF Marks
  <2>7. pod'[w].pos[q] = o + 1 /\ pod'[w].hwm[q] \in {hwm[q], o}
    <3>1. pod'[w].pos[q] = o + 1
      BY <2>2, <2>5 DEF Marks
    <3>2. pod'[w].hwm[q] = IF lost THEN hwm[q] ELSE Max({hwm[q], o})
      BY <2>2, <2>5 DEF Marks
    <3>3. hwm[q] \in Int /\ o \in Int
      BY <2>1, <2>2 DEF Marks
    <3> HIDE DEF hwm, o, lost
    <3>4. Max({hwm[q], o}) \in {hwm[q], o}
      BY <3>3, MaxOfTwo
    <3>5. QED
      BY <3>1, <3>2, <3>4
  <2>8. CoveredNext(Landed \cup Held(w), q, o - 1) /\ CoveredNext(Landed \cup Held(w), q, hwm[q])
    BY <1>2
  <2>9. CoveredNext(Landed' \cup Held(w)', q, o)
    <3>1. CoveredNext(Landed' \cup Held(w)', q, o - 1)
      BY <2>4, <2>8 DEF CoveredNext
    <3>2. o \in DOMAIN WriterTopic'[q] /\ (WriterTopic'[q][o] # Garbage => <<q, o>> \in Held(w)')
      BY <2>1, <2>3 DEF WriterTopic
    <3>3. \A i \in 1..o : i \in 1..(o - 1) \/ i = o
      BY <2>1
    <3> HIDE DEF o
    <3>4. QED
      BY <3>1, <3>2, <3>3 DEF CoveredNext
  <2>10. Holds(w)
    <3> HIDE DEF o, hwm, lost
    <3>1. CoveredNext(Landed' \cup Held(w)', q, hwm[q])
      BY <2>4, <2>8 DEF CoveredNext
    <3>2. \A p \in Partitions \ {q} :
            /\ CoveredNext(Landed' \cup Held(w)', p, pod'[w].pos[p] - 1)
            /\ CoveredNext(Landed' \cup Held(w)', p, pod'[w].hwm[p])
      BY <1>2, <2>4, <2>6 DEF CoveredNext, hwm
    <3>3. pod'[w].pos[q] - 1 = o
      BY <2>1, <2>7
    <3>4. QED
      BY <2>5, <2>7, <2>9, <3>1, <3>2, <3>3
  <2>11. ASSUME NEW v \in Pods \ {w} PROVE Holds(v)
    BY <1>6, <2>1 DEF PodIs
  <2>12. QED
    BY <1>1, <1>2, <1>5, <2>1, <2>10, <2>11
<1>12. ASSUME Rebalance PROVE MarksCovered'
  <2>1. UNCHANGED <<snaps, group>>
    BY <1>12 DEF Rebalance
  <2>2. PICK owner \in [Partitions -> {w \in Pods : Up(w)}] : \A w \in Pods :
           IF Up(w)
           THEN /\ pod'[w].st = pod[w].st /\ pod'[w].seen = {}
                /\ pod'[w].buf = pod[w].buf /\ pod'[w].hwm = pod[w].hwm
                /\ pod'[w].pos = [p \in Partitions |->
                                    IF owner[p] # w THEN None ELSE Max({1, group[p]})]
           ELSE pod'[w] = pod[w]
    BY <1>12, Rebalances
  <2>3. \A p \in Partitions : CoveredNext(Landed, p, Max({1, group[p]}) - 1)
    <3> SUFFICES ASSUME NEW p \in Partitions
                 PROVE  CoveredNext(Landed, p, Max({1, group[p]}) - 1)
      OBVIOUS
    <3>1. 1 \in Int /\ group[p] \in Int
      BY DEF TypeOK, Marks
    <3>2. Max({1, group[p]}) \in {1, group[p]}
      BY <3>1, MaxOfTwo
    <3>3. CASE Max({1, group[p]}) = 1
      BY <3>3 DEF CoveredNext
    <3>4. CASE Max({1, group[p]}) = group[p]
      BY <1>2, <3>4
    <3>5. QED
      BY <3>2, <3>3, <3>4
  <2>4. ASSUME NEW w \in Pods, Up(w) PROVE Holds(w)
    <3>1. Held(w)' = Held(w) /\ pod'[w].hwm = pod[w].hwm /\ pod'[w].st = pod[w].st
      <4>1. /\ pod'[w].st = pod[w].st /\ pod'[w].buf = pod[w].buf
            /\ pod'[w].hwm = pod[w].hwm
        BY <2>2, <2>4
      <4>2. QED
        BY <4>1 DEF Held
    <3>2. \A p \in Partitions : CoveredNext(Landed', p, pod'[w].pos[p] - 1)
      <4> SUFFICES ASSUME NEW p \in Partitions
                   PROVE  CoveredNext(Landed', p, pod'[w].pos[p] - 1)
        OBVIOUS
      <4>1. pod'[w].pos[p] = None \/ pod'[w].pos[p] = Max({1, group[p]})
        BY ZenonT(40), <2>2, <2>4
      <4>2. CASE pod'[w].pos[p] = None
        BY <4>2 DEF CoveredNext, None
      <4>3. CASE pod'[w].pos[p] = Max({1, group[p]})
        BY <1>5, <2>1, <2>3, <4>3
      <4>4. QED
        BY <4>1, <4>2, <4>3
    <3>3. \A p \in Partitions : CoveredNext(Landed' \cup Held(w)', p, pod'[w].pos[p] - 1)
      BY <3>2 DEF CoveredNext
    <3>4. QED
      BY <1>2, <1>3, <1>5, <2>1, <3>1, <3>3
  <2>5. ASSUME NEW w \in Pods, ~Up(w) PROVE Holds(w)
    BY <1>6, <2>1, <2>2, <2>5
  <2>6. QED
    BY <1>1, <1>2, <1>5, <2>1, <2>4, <2>5
<1>13. QED
  BY <1>4, <1>7, <1>8, <1>9, <1>10, <1>11, <1>12, Frames DEF WriterNext, writerVars

-----------------------------------------------------------------------------
(***************************************************************************)
(* An accepted event is in its topic, and in it once.                      *)
(***************************************************************************)

LEMMA RequestPairs ==
  /\ \A r \in Requests : r[1] \in Events /\ r[2] \in 1..MaxSends /\ r = <<r[1], r[2]>>
  /\ \A e \in Events, k \in 1..MaxSends : <<e, k>> \in Requests
BY DEF Requests

Once(e) == \A i, j \in DOMAIN Log(e) : Log(e)[i] = e /\ Log(e)[j] = e => i = j

\* A record appended to a log is the one the log gains.
LEMMA LogAppends ==
  ASSUME TypeOK, UNCHANGED tableOf, NEW e \in Events,
         NEW t \in Tables, NEW p \in Partitions, NEW x \in Records, Append2(t, p, x)
  PROVE  /\ InTopic(e) => InTopic(e)'
         /\ t # tableOf[e] \/ x # e => (InTopic(e)' => InTopic(e)) /\ (Once(e) => Once(e)')
         /\ t = tableOf[e] /\ p = Hash[e] /\ x = e =>
              InTopic(e)' /\ (~InTopic(e) => Once(e)')
<1>1. Log(e) \in Seq(Records) /\ tableOf[e] \in Tables /\ Hash[e] \in Partitions
  BY EventsAssumption DEF TypeOK, Log, Records
<1>2. Log(e)' = IF tableOf[e] = t /\ Hash[e] = p THEN Append(topic[t][p], x) ELSE Log(e)
  BY <1>1, Appends DEF Log
<1>3. CASE tableOf[e] = t /\ Hash[e] = p
  <2>1. Log(e)' = Append(Log(e), x)
    BY <1>2, <1>3 DEF Log
  <2> DEFINE old == Log(e)
             new == Log(e)'
  <2>2. old \in Seq(Records) /\ new = Append(old, x)
    BY <1>1, <2>1
  <2> HIDE DEF old, new
  <2>3. /\ Len(old) \in Nat /\ DOMAIN old = 1..Len(old)
        /\ DOMAIN new = 1..(Len(old) + 1)
        /\ \A k \in 1..Len(old) : new[k] = old[k]
        /\ new[Len(old) + 1] = x
    BY <2>2, AppendProperties, LenProperties
  <2>4. DOMAIN new = DOMAIN old \cup {Len(old) + 1} /\ Len(old) + 1 \notin DOMAIN old
    BY <2>3
  <2>5. InTopic(e) <=> \E i \in DOMAIN old : old[i] = e
    BY DEF InTopic, old
  <2>6. InTopic(e)' <=> \E i \in DOMAIN new : new[i] = e
    BY DEF InTopic, new
  <2>7. Once(e) <=> \A i, j \in DOMAIN old : old[i] = e /\ old[j] = e => i = j
    BY DEF Once, old
  <2>8. Once(e)' <=> \A i, j \in DOMAIN new : new[i] = e /\ new[j] = e => i = j
    BY DEF Once, new
  <2>9. \A k \in DOMAIN old : new[k] = old[k]
    BY <2>3
  <2>10. QED
    BY <1>3, <2>3, <2>4, <2>5, <2>6, <2>7, <2>8, <2>9
<1>4. CASE ~(tableOf[e] = t /\ Hash[e] = p)
  <2>1. Log(e)' = Log(e)
    BY <1>2, <1>4
  <2>2. QED
    BY <1>4, <2>1 DEF InTopic, Once
<1>5. QED
  BY <1>3, <1>4

LEMMA LogStays ==
  ASSUME UNCHANGED <<tableOf, topic>>, NEW e
  PROVE  InTopic(e)' = InTopic(e) /\ Once(e)' = Once(e)
<1>1. Log(e)' = Log(e)
  BY DEF Log
<1>2. QED
  BY <1>1 DEF InTopic, Once

LEMMA InTopicStays ==
  ASSUME TypeOK, [Next]_vars, NEW e \in Events, InTopic(e)
  PROVE  InTopic(e)'
<1>1. tableOf[e] \in Tables /\ Hash[e] \in Partitions /\ UNCHANGED tableOf
  BY EventsAssumption, Frames DEF TypeOK
<1>2. \A i \in DOMAIN Log(e) : i \in DOMAIN Log(e)' /\ Log(e)'[i] = Log(e)[i]
  BY <1>1, TopicsGrow DEF Log
<1>3. PICK i \in DOMAIN Log(e) : Log(e)[i] = e
  BY DEF InTopic
<1>4. i \in DOMAIN Log(e)' /\ Log(e)'[i] = e
  BY <1>2, <1>3
<1>5. QED
  BY <1>4 DEF InTopic

\* What a request is after a step, the others being what they were.
ReqIs(r, st, ans) ==
  /\ \A q \in Requests \ {r} : req'[q] = req[q]
  /\ req'[r].st = st /\ req'[r].ans = ans

\* While nothing is lost, an event without a mark finds room for one.
LEMMA MarkFits ==
  ASSUME TypeOK, "cap" \notin faults, NEW e \in Events, mark[e] # "live",
         \A x \in Events : mark[x] # "expired"
  PROVE  TryMark(e, mark).mark = [mark EXCEPT ![e] = "live"]
<1> DEFINE purged == [x \in Events |-> IF mark[x] = "expired" THEN "none" ELSE mark[x]]
           M == {x \in Events : mark[x] # "none"}
<1>1. purged = mark
  BY DEF TypeOK
<1>2. M \subseteq Events /\ e \notin M
  BY DEF TypeOK
<1>3. IsFiniteSet(Events)
  BY EventsAssumption
<1>4. Cardinality(M) < Cardinality(Events)
  <2>1. IsFiniteSet(M) /\ Cardinality(M) <= Cardinality(Events)
    BY <1>2, <1>3, FS_Subset
  <2>2. Cardinality(M) # Cardinality(Events)
    BY <1>2, <1>3, FS_Subset
  <2>3. Cardinality(M) \in Nat /\ Cardinality(Events) \in Nat
    BY <1>3, <2>1, FS_CardinalityType
  <2>4. QED
    BY <2>1, <2>2, <2>3
<1>5. DedupMaxEntries = Cardinality(Events)
  BY DEF DedupMaxEntries
<1>6. ~(Cardinality(M) >= DedupMaxEntries)
  <2>1. Cardinality(M) \in Nat /\ Cardinality(Events) \in Nat
    BY <1>2, <1>3, FS_Subset, FS_CardinalityType
  <2>2. QED
    BY <1>4, <1>5, <2>1
<1>7. QED
  BY <1>6 DEF TryMark

\* The three ways a request is received.
LEMMA Receives ==
  ASSUME TypeOK, AnswersSound, NEW r \in Requests, Receive(r)
  PROVE  /\ UNCHANGED <<faults, tableOf, topic>> /\ MaySend(r) /\ req[r].ans = "none"
         /\ \/ ReqIs(r, "done", "400") /\ UNCHANGED mark
            \/ ReqIs(r, "done", "202") /\ UNCHANGED mark /\ mark[r[1]] = "live"
            \/ /\ ReqIs(r, "producing", "none") /\ mark[r[1]] # "live"
               /\ mark' = TryMark(r[1], mark).mark
<1>1. req \in [Requests -> [st : {"unsent", "producing", "late", "done"},
                            ans : {"none", "lost", "202", "400", "500"}]]
  BY DEF TypeOK
<1>2. UNCHANGED <<faults, tableOf, topic>> /\ MaySend(r) /\ req[r].ans = "none"
  BY DEF Receive, MaySend, AnswersSound
<1>3. ASSUME NEW a, Answer(r, a) PROVE ReqIs(r, "done", a)
  BY <1>1, <1>3 DEF Answer, ReqIs
<1>4. CASE ~ NameMatches(tableOf[r[1]])
  BY <1>2, <1>3, <1>4 DEF Receive
<1>5. CASE NameMatches(tableOf[r[1]]) /\ mark[r[1]] = "live"
  <2>1. TryMark(r[1], mark).new = FALSE /\ TryMark(r[1], mark).mark = mark
    BY <1>5 DEF TryMark
  <2>2. QED
    BY <1>2, <1>3, <1>5, <2>1 DEF Receive
<1>6. CASE NameMatches(tableOf[r[1]]) /\ mark[r[1]] # "live"
  <2>1. TryMark(r[1], mark).new = TRUE
    BY <1>6 DEF TryMark
  <2>2. req' = [req EXCEPT ![r].st = "producing"] /\ mark' = TryMark(r[1], mark).mark
    BY <1>6, <2>1 DEF Receive
  <2>3. ReqIs(r, "producing", "none")
    BY <1>1, <1>2, <2>2 DEF ReqIs
  <2>4. QED
    BY <1>2, <1>6, <2>2, <2>3
<1>7. QED
  BY <1>4, <1>5, <1>6

\* A mark that a step leaves live was live before, or is the one the request sets.
LEMMA MarksSet ==
  ASSUME TypeOK, NEW e \in Events, NEW x \in Events, TryMark(e, mark).mark[x] = "live"
  PROVE  mark[x] = "live" \/ x = e
<1>1. mark \in [Events -> {"none", "live", "expired"}]
  BY DEF TypeOK
<1> DEFINE purged == [y \in Events |-> IF mark[y] = "expired" THEN "none" ELSE mark[y]]
<1>2. \E kept \in {mark, purged} :
        TryMark(e, mark).mark \in {mark, kept, [kept EXCEPT ![e] = "live"]}
  BY DEF TryMark
<1>3. purged[x] = "live" => mark[x] = "live"
  BY <1>1
<1>4. purged \in [Events -> {"none", "live", "expired"}]
  BY <1>1
<1> HIDE DEF purged
<1>5. QED
  BY <1>1, <1>2, <1>3, <1>4

\* The order of the attempts holds as long as an error stays an error.
LEMMA OrderKept ==
  ASSUME InOrder, UNCHANGED faults,
         \A q \in Requests : /\ req'[q].st # "unsent" => req[q].st # "unsent"
                             /\ req[q].ans \in {"500", "lost"} => req'[q].ans \in {"500", "lost"}
  PROVE  InOrder'
<1> SUFFICES ASSUME "overlap" \notin faults, NEW e \in Events,
                    NEW j \in 1..MaxSends, NEW k \in 1..MaxSends, j < k, Sent(e, k)'
             PROVE  req'[<<e, j>>].ans \in {"500", "lost"}
  BY DEF InOrder, Sent
<1>1. <<e, j>> \in Requests /\ <<e, k>> \in Requests
  BY RequestPairs
<1>2. Sent(e, k)
  BY <1>1 DEF Sent
<1>3. QED
  BY <1>1, <1>2 DEF InOrder

LEMMA ReceiveIngest ==
  ASSUME TypeOK, IngestInv, [Next]_vars, NEW r \in Requests, Receive(r)
  PROVE  IngestInv'
<1> DEFINE e == r[1]
           n == r[2]
<1>1. e \in Events /\ n \in 1..MaxSends /\ r = <<e, n>>
  BY RequestPairs
<1> HIDE DEF e, n
<1>2. /\ AnswersSound /\ InOrder /\ MarksSound /\ MarksStay /\ AcceptedIsProduced /\ ProducedOnce
  BY DEF IngestInv
<1>3. UNCHANGED <<faults, tableOf, topic>> /\ MaySend(r) /\ req[r].ans = "none" /\ req[r].st = "unsent"
  BY <1>2, Receives DEF MaySend
<1>4. \/ ReqIs(r, "done", "400") /\ UNCHANGED mark
      \/ ReqIs(r, "done", "202") /\ UNCHANGED mark /\ mark[e] = "live"
      \/ /\ ReqIs(r, "producing", "none") /\ mark[e] # "live"
         /\ mark' = TryMark(e, mark).mark
  BY <1>2, Receives DEF e
<1>5. /\ \A q \in Requests \ {r} : req'[q] = req[q]
      /\ \/ req'[r].st = "done" /\ req'[r].ans \in {"400", "202"}
         \/ req'[r].st = "producing" /\ req'[r].ans = "none"
  BY <1>4 DEF ReqIs
<1>6. \A f \in Events, k \in 1..MaxSends :
        /\ <<f, k>> \in Requests
        /\ <<f, k>> # r => req'[<<f, k>>] = req[<<f, k>>]
        /\ <<f, k>> = r => f = e /\ k = n
  BY <1>1, <1>5, RequestPairs
<1>7. \A f \in Events : InTopic(f)' = InTopic(f) /\ Once(f)' = Once(f)
  BY <1>3, LogStays
<1>8. AnswersSound'
  BY <1>2, <1>5 DEF AnswersSound
<1>9. "overlap" \notin faults =>
        /\ \A j \in 1..MaxSends : j < n => req[<<e, j>>].ans \in {"500", "lost"}
        /\ \A k \in 1..MaxSends : n < k => req[<<e, k>>].st = "unsent"
  <2> SUFFICES ASSUME "overlap" \notin faults
               PROVE  /\ \A j \in 1..MaxSends : j < n => req[<<e, j>>].ans \in {"500", "lost"}
                      /\ \A k \in 1..MaxSends : n < k => req[<<e, k>>].st = "unsent"
    OBVIOUS
  <2>1. ASSUME NEW j \in 1..MaxSends, j < n
        PROVE  req[<<e, j>>].ans \in {"500", "lost"}
    <3>1. j \in 1..(n - 1)
      BY <1>1, <2>1, LoggerBoundsAssumption
    <3>2. QED
      BY <1>3, <3>1 DEF MaySend, e, n
  <2>2. ASSUME NEW k \in 1..MaxSends, n < k
        PROVE  req[<<e, k>>].st = "unsent"
    <3>1. Sent(e, k) => req[<<e, n>>].ans \in {"500", "lost"}
      BY <1>1, <1>2, <2>2 DEF InOrder
    <3>2. QED
      BY <1>1, <1>3, <3>1 DEF Sent
  <2>3. QED
    BY <2>1, <2>2
<1>10. InOrder'
  <2> SUFFICES ASSUME "overlap" \notin faults, NEW f \in Events,
                      NEW j \in 1..MaxSends, NEW k \in 1..MaxSends, j < k, Sent(f, k)'
               PROVE  req'[<<f, j>>].ans \in {"500", "lost"}
    BY <1>3 DEF InOrder, Sent
  <2>1. CASE <<f, k>> = r
    BY <1>6, <1>9, <2>1
  <2>2. CASE <<f, k>> # r
    <3>1. req[<<f, k>>].st # "unsent"
      BY <1>6, <2>2 DEF Sent
    <3>2. req[<<f, j>>].ans \in {"500", "lost"}
      BY <1>2, <3>1 DEF InOrder, Sent
    <3>3. <<f, j>> # r
      BY <1>3, <3>2
    <3>4. QED
      BY <1>6, <3>2, <3>3
  <2>3. QED
    BY <2>1, <2>2
<1>11. ASSUME NEW f \in Events, NEW k \in 1..MaxSends, Producing(f, k)
       PROVE  Producing(f, k)'
  <2>1. <<f, k>> # r
    BY <1>3, <1>11 DEF Producing
  <2>2. QED
    BY <1>6, <1>11, <2>1 DEF Producing
<1>12. MarksSound'
  <2> SUFFICES ASSUME "overlap" \notin faults, NEW f \in Events, mark'[f] = "live"
               PROVE  InTopic(f)' \/ \E k \in 1..MaxSends : Producing(f, k)'
    BY <1>3 DEF MarksSound
  <2>1. CASE mark[f] = "live"
    BY <1>2, <1>7, <1>11, <2>1 DEF MarksSound
  <2>2. CASE mark[f] # "live"
    <3>1. ReqIs(r, "producing", "none") /\ mark' = TryMark(e, mark).mark
      BY <1>4, <2>2
    <3>2. f = e
      BY <1>1, <2>2, <3>1, MarksSet
    <3>3. Producing(e, n)'
      BY <1>1, <3>1 DEF ReqIs, Producing
    <3>4. QED
      BY <1>1, <3>2, <3>3
  <2>3. QED
    BY <2>1, <2>2
<1>13. MarksStay'
  <2> SUFFICES ASSUME faults \subseteq {"overlap"} PROVE MarksStay'
    BY <1>3 DEF MarksStay
  <2>1. /\ \A q \in Requests : req[q].st # "late"
        /\ \A f \in Events :
             /\ mark[f] # "expired"
             /\ \A j, k \in 1..MaxSends : Producing(f, j) /\ Producing(f, k) => j = k
             /\ \A k \in 1..MaxSends : Producing(f, k) => mark[f] = "live"
             /\ tableOf[f] # WriterTable /\ InTopic(f) =>
                  mark[f] = "live" /\ \A k \in 1..MaxSends : ~Producing(f, k)
    BY <1>2 DEF MarksStay
  <2>2. \A q \in Requests : req'[q].st # "late"
    BY <1>5, <2>1
  <2>3. CASE UNCHANGED mark /\ req'[r].st = "done"
    <3>1. ASSUME NEW f \in Events, NEW k \in 1..MaxSends, Producing(f, k)'
          PROVE  Producing(f, k)
      BY <1>6, <2>3, <3>1 DEF Producing
    <3>2. QED
      BY <1>3, <1>7, <2>1, <2>2, <2>3, <3>1 DEF MarksStay
  <2>4. CASE req'[r].st = "producing" /\ mark[e] # "live" /\ mark' = TryMark(e, mark).mark
    <3>1. mark' = [mark EXCEPT ![e] = "live"]
      BY <1>1, <2>1, <2>4, MarkFits
    <3>2. mark'[e] = "live" /\ \A f \in Events \ {e} : mark'[f] = mark[f]
      BY <1>1, <3>1 DEF TypeOK
    <3>3. \A k \in 1..MaxSends : ~Producing(e, k)
      BY <1>1, <2>1, <2>4
    <3>4. ASSUME NEW f \in Events, NEW k \in 1..MaxSends, Producing(f, k)'
          PROVE  Producing(f, k) \/ (f = e /\ k = n)
      BY <1>6, <3>4 DEF Producing
    <3>5. tableOf[e] = WriterTable \/ ~InTopic(e)
      BY <1>1, <2>1, <2>4
    <3>6. ASSUME NEW f \in Events
          PROVE  /\ mark'[f] # "expired"
                 /\ \A j, k \in 1..MaxSends : Producing(f, j)' /\ Producing(f, k)' => j = k
                 /\ \A k \in 1..MaxSends : Producing(f, k)' => mark'[f] = "live"
                 /\ tableOf[f] # WriterTable /\ InTopic(f) =>
                      mark'[f] = "live" /\ \A k \in 1..MaxSends : ~Producing(f, k)'
      <4>1. CASE f = e
        BY <3>2, <3>3, <3>4, <3>5, <4>1
      <4>2. CASE f # e
        BY <2>1, <3>2, <3>4, <4>2
      <4>3. QED
        BY <4>1, <4>2
    <3>7. QED
      BY <1>3, <1>7, <2>2, <3>6 DEF MarksStay
  <2>5. QED
    BY <1>4, <2>3, <2>4 DEF ReqIs
<1>14. AcceptedIsProduced'
  <2> SUFFICES ASSUME "overlap" \notin faults, NEW f \in Events,
                      NEW k \in 1..MaxSends, req'[<<f, k>>].ans = "202"
               PROVE  InTopic(f)
    BY <1>3, <1>7 DEF AcceptedIsProduced, Answered
  <2>1. CASE <<f, k>> # r
    BY <1>2, <1>6, <2>1 DEF AcceptedIsProduced, Answered
  <2>2. CASE <<f, k>> = r
    <3>1. f = e /\ mark[e] = "live"
      BY <1>4, <1>6, <2>2 DEF ReqIs
    <3>2. ASSUME NEW j \in 1..MaxSends, Producing(e, j) PROVE FALSE
      <4>1. <<e, j>> \in Requests /\ req[<<e, j>>].st = "producing"
        BY <1>1, <3>2, RequestPairs DEF Producing
      <4>2. req[<<e, j>>].ans = "none"
        BY <1>2, <4>1 DEF AnswersSound
      <4>3. ~(j < n) /\ ~(n < j)
        BY <1>9, <4>1, <4>2
      <4>4. j = n
        BY <1>1, <4>3, LoggerBoundsAssumption
      <4>5. QED
        BY <1>1, <1>3, <4>1, <4>4
    <3>3. QED
      BY <1>1, <1>2, <3>1, <3>2 DEF MarksSound
  <2>3. QED
    BY <2>1, <2>2
<1>15. ProducedOnce'
  BY <1>2, <1>3, <1>7 DEF ProducedOnce, Once
<1>16. QED
  BY <1>8, <1>10, <1>12, <1>13, <1>14, <1>15 DEF IngestInv

\* A request at work that is answered: what all its ends have in common.
LEMMA Ends ==
  ASSUME IngestInv, UNCHANGED faults, NEW r \in Requests,
         \A q \in Requests \ {r} : req'[q] = req[q], req'[r].st \in {"late", "done"},
         \/ req[r].st = "producing"
         \/ req[r].st = "late" /\ req'[r].ans = req[r].ans
  PROVE  /\ AnswersSound' /\ InOrder'
         /\ \A f \in Events, k \in 1..MaxSends :
              /\ Producing(f, k)' <=> Producing(f, k) /\ <<f, k>> # r
              /\ <<f, k>> # r => req'[<<f, k>>] = req[<<f, k>>]
<1>1. AnswersSound /\ InOrder
  BY DEF IngestInv
<1>2. AnswersSound'
  BY <1>1 DEF AnswersSound
<1>3. req[r].st = "producing" => req[r].ans = "none"
  BY <1>1 DEF AnswersSound
<1>4. \A q \in Requests : /\ req'[q].st # "unsent" => req[q].st # "unsent"
                          /\ req[q].ans \in {"500", "lost"} => req'[q].ans \in {"500", "lost"}
  BY <1>3
<1>5. InOrder'
  BY <1>1, <1>4, OrderKept
<1>6. ASSUME NEW f \in Events, NEW k \in 1..MaxSends
      PROVE  /\ Producing(f, k)' <=> Producing(f, k) /\ <<f, k>> # r
             /\ <<f, k>> # r => req'[<<f, k>>] = req[<<f, k>>]
  <2>1. <<f, k>> \in Requests
    BY RequestPairs
  <2>2. CASE <<f, k>> = r
    BY <2>2 DEF Producing
  <2>3. CASE <<f, k>> # r
    BY <2>1, <2>3 DEF Producing
  <2>4. QED
    BY <2>2, <2>3
<1>7. QED
  BY <1>2, <1>5, <1>6

LEMMA ProducedIngest ==
  ASSUME TypeOK, IngestInv, [Next]_vars, NEW r \in Requests, Produced(r)
  PROVE  IngestInv'
<1> DEFINE e == r[1]
           n == r[2]
<1>1. e \in Events /\ n \in 1..MaxSends /\ r = <<e, n>> /\ e \in Records
  BY RequestPairs DEF Records
<1>2. /\ UNCHANGED <<faults, tableOf, mark>> /\ req[r].st = "producing"
      /\ Append2(tableOf[e], Hash[e], e) /\ Answer(r, "202")
  BY DEF Produced
<1>3. /\ \A q \in Requests \ {r} : req'[q] = req[q]
      /\ req'[r].st = "done" /\ req'[r].ans = "202"
  BY <1>2 DEF Answer, TypeOK
<1> HIDE DEF e, n
<1>4. tableOf[e] \in Tables /\ Hash[e] \in Partitions
  BY <1>1, EventsAssumption DEF TypeOK
<1>5. /\ AnswersSound' /\ InOrder'
      /\ \A f \in Events, k \in 1..MaxSends :
           /\ Producing(f, k)' <=> Producing(f, k) /\ <<f, k>> # r
           /\ <<f, k>> # r => req'[<<f, k>>] = req[<<f, k>>]
  BY <1>2, <1>3, Ends
<1>6. /\ InTopic(e)' /\ (~InTopic(e) => Once(e)')
      /\ \A f \in Events : InTopic(f) => InTopic(f)'
      /\ \A f \in Events \ {e} : (InTopic(f)' => InTopic(f)) /\ (Once(f) => Once(f)')
  BY <1>1, <1>2, <1>4, LogAppends
<1>7. MarksSound /\ MarksStay /\ AcceptedIsProduced /\ ProducedOnce
  BY DEF IngestInv
<1>8. Producing(e, n)
  BY <1>1, <1>2 DEF Producing
<1>9. MarksSound'
  <2> SUFFICES ASSUME "overlap" \notin faults, NEW f \in Events, mark[f] = "live"
               PROVE  InTopic(f)' \/ \E k \in 1..MaxSends : Producing(f, k)'
    BY <1>2 DEF MarksSound
  <2>1. CASE f = e
    BY <1>6, <2>1
  <2>2. CASE f # e
    <3>1. \A k \in 1..MaxSends : <<f, k>> # r
      BY <1>1, <2>2
    <3>2. QED
      BY <1>5, <1>6, <1>7, <3>1 DEF MarksSound
  <2>3. QED
    BY <2>1, <2>2
<1>10. ASSUME faults \subseteq {"overlap"}
       PROVE  /\ mark[e] = "live" /\ \A k \in 1..MaxSends : ~Producing(e, k)'
              /\ tableOf[e] # WriterTable => ~InTopic(e)
  <2>1. mark[e] = "live" /\ \A k \in 1..MaxSends : Producing(e, k) => k = n
    BY <1>1, <1>7, <1>8, <1>10 DEF MarksStay
  <2>2. tableOf[e] # WriterTable => ~InTopic(e)
    BY <1>1, <1>7, <1>8, <1>10 DEF MarksStay
  <2>3. QED
    BY <1>1, <1>5, <2>1, <2>2
<1>11. MarksStay'
  <2> SUFFICES ASSUME faults \subseteq {"overlap"} PROVE MarksStay'
    BY <1>2 DEF MarksStay
  <2>1. \A q \in Requests : req'[q].st # "late"
    BY <1>3, <1>7 DEF MarksStay
  <2>2. ASSUME NEW f \in Events
        PROVE  /\ mark[f] # "expired"
               /\ \A j, k \in 1..MaxSends : Producing(f, j)' /\ Producing(f, k)' => j = k
               /\ \A k \in 1..MaxSends : Producing(f, k)' => mark[f] = "live"
               /\ tableOf[f] # WriterTable /\ InTopic(f)' =>
                    mark[f] = "live" /\ \A k \in 1..MaxSends : ~Producing(f, k)'
    <3>1. /\ mark[f] # "expired"
          /\ \A j, k \in 1..MaxSends : Producing(f, j)' /\ Producing(f, k)' => j = k
          /\ \A k \in 1..MaxSends : Producing(f, k)' => mark[f] = "live"
      BY <1>5, <1>7 DEF MarksStay
    <3>2. CASE f = e
      BY <1>10, <3>1, <3>2
    <3>3. CASE f # e
      <4>1. tableOf[f] # WriterTable /\ InTopic(f) =>
              mark[f] = "live" /\ \A k \in 1..MaxSends : ~Producing(f, k)
        BY <1>7 DEF MarksStay
      <4>2. QED
        BY <1>5, <1>6, <3>1, <3>3, <4>1
    <3>4. QED
      BY <3>2, <3>3
  <2>3. QED
    BY <1>2, <2>1, <2>2 DEF MarksStay
<1>12. AcceptedIsProduced'
  <2> SUFFICES ASSUME "overlap" \notin faults, NEW f \in Events,
                      NEW k \in 1..MaxSends, req'[<<f, k>>].ans = "202"
               PROVE  InTopic(f)'
    BY <1>2 DEF AcceptedIsProduced, Answered
  <2>1. CASE f = e
    BY <1>6, <2>1
  <2>2. CASE f # e
    <3>1. <<f, k>> # r
      BY <1>1, <2>2
    <3>2. QED
      BY <1>5, <1>6, <1>7, <3>1 DEF AcceptedIsProduced, Answered
  <2>3. QED
    BY <2>1, <2>2
<1>13. ProducedOnce'
  <2> SUFFICES ASSUME faults \subseteq {"overlap"}, NEW f \in Events, tableOf[f] # WriterTable
               PROVE  Once(f)'
    BY <1>2 DEF ProducedOnce, Once
  <2>1. Once(f)
    BY <1>7 DEF ProducedOnce, Once
  <2>2. QED
    BY <1>6, <1>10, <2>1
<1>14. QED
  BY <1>5, <1>9, <1>11, <1>12, <1>13 DEF IngestInv

\* The produce fails, or its outcome is not known: the mark is rolled back.
LEMMA FailedIngest ==
  ASSUME TypeOK, IngestInv, [Next]_vars, NEW r \in Requests,
         ProduceFails(r) \/ ProduceUnknown(r)
  PROVE  IngestInv'
<1> DEFINE e == r[1]
           n == r[2]
<1>1. e \in Events /\ n \in 1..MaxSends /\ r = <<e, n>>
  BY RequestPairs
<1>2. /\ UNCHANGED <<faults, tableOf, topic>> /\ req[r].st = "producing"
      /\ mark' = [mark EXCEPT ![e] = "none"]
  BY DEF ProduceFails, ProduceUnknown, Unmark
<1>3. /\ \A q \in Requests \ {r} : req'[q] = req[q]
      /\ req'[r].st \in {"late", "done"} /\ req'[r].ans = "500"
      /\ faults \subseteq {"overlap"} => req'[r].st = "done"
  BY DEF Answer, TypeOK, ProduceFails, ProduceUnknown
<1> HIDE DEF e, n
<1>4. mark'[e] = "none" /\ \A f \in Events \ {e} : mark'[f] = mark[f]
  BY <1>1, <1>2 DEF TypeOK
<1>5. /\ AnswersSound' /\ InOrder'
      /\ \A f \in Events, k \in 1..MaxSends :
           /\ Producing(f, k)' <=> Producing(f, k) /\ <<f, k>> # r
           /\ <<f, k>> # r => req'[<<f, k>>] = req[<<f, k>>]
  BY <1>2, <1>3, Ends
<1>6. \A f \in Events : InTopic(f)' = InTopic(f) /\ Once(f)' = Once(f)
  BY <1>2, LogStays
<1>7. MarksSound /\ MarksStay /\ AcceptedIsProduced /\ ProducedOnce
  BY DEF IngestInv
<1>8. Producing(e, n)
  BY <1>1, <1>2 DEF Producing
<1>9. MarksSound'
  <2> SUFFICES ASSUME "overlap" \notin faults, NEW f \in Events, mark'[f] = "live"
               PROVE  InTopic(f) \/ \E k \in 1..MaxSends : Producing(f, k)'
    BY <1>2, <1>6 DEF MarksSound
  <2>1. f # e /\ mark[f] = "live"
    BY <1>4
  <2>2. \A k \in 1..MaxSends : <<f, k>> # r
    BY <1>1, <2>1
  <2>3. QED
    BY <1>5, <1>7, <2>1, <2>2 DEF MarksSound
<1>10. MarksStay'
  <2> SUFFICES ASSUME faults \subseteq {"overlap"} PROVE MarksStay'
    BY <1>2 DEF MarksStay
  <2>1. \A q \in Requests : req'[q].st # "late"
    BY <1>3, <1>7 DEF MarksStay
  <2>2. /\ \A k \in 1..MaxSends : Producing(e, k) => k = n
        /\ tableOf[e] # WriterTable => ~InTopic(e)
    BY <1>1, <1>7, <1>8 DEF MarksStay
  <2>3. ASSUME NEW f \in Events
        PROVE  /\ mark'[f] # "expired"
               /\ \A j, k \in 1..MaxSends : Producing(f, j)' /\ Producing(f, k)' => j = k
               /\ \A k \in 1..MaxSends : Producing(f, k)' => mark'[f] = "live"
               /\ tableOf[f] # WriterTable /\ InTopic(f) =>
                    mark'[f] = "live" /\ \A k \in 1..MaxSends : ~Producing(f, k)'
    <3>1. CASE f = e
      BY <1>1, <1>4, <1>5, <2>2, <3>1
    <3>2. CASE f # e
      <4>1. /\ mark[f] # "expired"
            /\ \A j, k \in 1..MaxSends : Producing(f, j) /\ Producing(f, k) => j = k
            /\ \A k \in 1..MaxSends : Producing(f, k) => mark[f] = "live"
            /\ tableOf[f] # WriterTable /\ InTopic(f) =>
                 mark[f] = "live" /\ \A k \in 1..MaxSends : ~Producing(f, k)
        BY <1>7 DEF MarksStay
      <4>2. QED
        BY <1>4, <1>5, <3>2, <4>1
    <3>3. QED
      BY <3>1, <3>2
  <2>4. QED
    BY <1>2, <1>6, <2>1, <2>3 DEF MarksStay
<1>11. AcceptedIsProduced'
  <2> SUFFICES ASSUME "overlap" \notin faults, NEW f \in Events,
                      NEW k \in 1..MaxSends, req'[<<f, k>>].ans = "202"
               PROVE  InTopic(f)
    BY <1>2, <1>6 DEF AcceptedIsProduced, Answered
  <2>1. <<f, k>> # r
    BY <1>3
  <2>2. QED
    BY <1>5, <1>7, <2>1 DEF AcceptedIsProduced, Answered
<1>12. ProducedOnce'
  BY <1>2, <1>6, <1>7 DEF ProducedOnce, Once
<1>13. QED
  BY <1>5, <1>9, <1>10, <1>11, <1>12 DEF IngestInv

LEMMA LateIngest ==
  ASSUME TypeOK, IngestInv, [Next]_vars, NEW r \in Requests, LateAppend(r)
  PROVE  IngestInv'
<1>1. UNCHANGED <<faults, tableOf, mark>> /\ req[r].st = "late"
  BY DEF LateAppend
<1>2. /\ \A q \in Requests \ {r} : req'[q] = req[q]
      /\ req'[r].st = "done" /\ req'[r].ans = req[r].ans
  BY DEF LateAppend, TypeOK
<1>3. /\ AnswersSound' /\ InOrder'
      /\ \A f \in Events, k \in 1..MaxSends : Producing(f, k)' <=> Producing(f, k) /\ <<f, k>> # r
  BY <1>1, <1>2, Ends
<1>4. \A f \in Events, k \in 1..MaxSends : Producing(f, k) => Producing(f, k)'
  BY <1>1, <1>3 DEF Producing
<1>5. \A f \in Events, k \in 1..MaxSends : req'[<<f, k>>].ans = req[<<f, k>>].ans
  BY <1>2, RequestPairs
<1>6. MarksSound /\ MarksStay /\ AcceptedIsProduced
  BY DEF IngestInv
<1>7. ~(faults \subseteq {"overlap"})
  BY <1>1, <1>6 DEF MarksStay
<1>8. MarksStay' /\ ProducedOnce'
  BY <1>1, <1>7 DEF MarksStay, ProducedOnce
<1>9. MarksSound'
  BY <1>1, <1>4, <1>6, InTopicStays DEF MarksSound
<1>10. AcceptedIsProduced'
  BY <1>1, <1>5, <1>6, InTopicStays DEF AcceptedIsProduced, Answered
<1>11. QED
  BY <1>3, <1>8, <1>9, <1>10 DEF IngestInv

LEMMA RestartIngest ==
  ASSUME TypeOK, IngestInv, [Next]_vars, IngestRestart
  PROVE  IngestInv'
<1>1. UNCHANGED <<faults, tableOf, topic>> /\ ~(faults \subseteq {"overlap"})
  BY DEF IngestRestart
<1>2. mark' = [e \in Events |-> "none"]
  BY DEF IngestRestart
<1>3. \A r \in Requests :
        \/ req[r].st = "producing" /\ req'[r].st = "late" /\ req'[r].ans = "lost"
        \/ req[r].st = "late" /\ req'[r].st = "done" /\ req'[r].ans = req[r].ans
        \/ req[r].st \notin {"producing", "late"} /\ req'[r] = req[r]
  BY DEF IngestRestart
<1>4. AnswersSound /\ InOrder /\ AcceptedIsProduced
  BY DEF IngestInv
<1>5. AnswersSound'
  BY <1>3, <1>4 DEF AnswersSound
<1>6. \A q \in Requests : /\ req'[q].st # "unsent" => req[q].st # "unsent"
                          /\ req[q].ans \in {"500", "lost"} => req'[q].ans \in {"500", "lost"}
  BY <1>3
<1>7. InOrder'
  BY <1>1, <1>4, <1>6, OrderKept
<1>8. MarksSound'
  BY <1>2 DEF MarksSound
<1>9. MarksStay' /\ ProducedOnce'
  BY <1>1 DEF MarksStay, ProducedOnce
<1>10. \A f \in Events, k \in 1..MaxSends :
         req'[<<f, k>>].ans = "202" => req[<<f, k>>].ans = "202"
  BY <1>3, RequestPairs
<1>11. AcceptedIsProduced'
  BY <1>1, <1>4, <1>10, InTopicStays DEF AcceptedIsProduced, Answered
<1>12. QED
  BY <1>5, <1>7, <1>8, <1>9, <1>11 DEF IngestInv

\* Marks that go leave the requests and the logs alone.
LEMMA ForgetIngest ==
  ASSUME TypeOK, IngestInv, [Next]_vars, Cleanup \/ \E e \in Events : Expire(e)
  PROVE  IngestInv'
<1>1. UNCHANGED <<faults, tableOf, req, topic>>
  BY DEF Cleanup, Expire
<1>2. \A e \in Events : mark'[e] = "live" => mark[e] = "live"
  BY DEF Cleanup, Expire, TypeOK
<1>3. AnswersSound /\ InOrder /\ MarksSound /\ MarksStay /\ AcceptedIsProduced /\ ProducedOnce
  BY DEF IngestInv
<1>4. ~(faults \subseteq {"overlap"})
  BY <1>3 DEF Cleanup, Expire, MarksStay
<1>5. \A f \in Events : InTopic(f)' = InTopic(f)
  BY <1>1, LogStays
<1>6. AnswersSound' /\ InOrder'
  BY <1>1, <1>3 DEF AnswersSound, InOrder, Sent
<1>7. MarksSound'
  <2>1. \A f \in Events, k \in 1..MaxSends : Producing(f, k)' = Producing(f, k)
    BY <1>1 DEF Producing
  <2>2. QED
    BY <1>1, <1>2, <1>3, <1>5, <2>1 DEF MarksSound
<1>8. MarksStay' /\ ProducedOnce'
  BY <1>1, <1>4 DEF MarksStay, ProducedOnce
<1>9. AcceptedIsProduced'
  BY <1>1, <1>3, <1>5 DEF AcceptedIsProduced, Answered
<1>10. QED
  BY <1>6, <1>7, <1>8, <1>9 DEF IngestInv

\* The other producers and the writer leave the ingest service alone.
LEMMA OthersIngest ==
  ASSUME TypeOK, IngestInv, [Next]_vars, UNCHANGED <<req, mark>>,
         topic' = topic \/ \E x \in Records, p \in Partitions : Append2(WriterTable, p, x)
  PROVE  IngestInv'
<1>1. UNCHANGED <<faults, tableOf>>
  BY Frames
<1>2. AnswersSound /\ InOrder /\ MarksSound /\ MarksStay /\ AcceptedIsProduced /\ ProducedOnce
  BY DEF IngestInv
<1>3. \A f \in Events : InTopic(f) => InTopic(f)'
  BY InTopicStays
<1>4. ASSUME NEW f \in Events, tableOf[f] # WriterTable
      PROVE  (InTopic(f)' => InTopic(f)) /\ (Once(f) => Once(f)')
  <2>1. CASE topic' = topic
    BY <1>1, <2>1, LogStays
  <2>2. CASE \E x \in Records, p \in Partitions : Append2(WriterTable, p, x)
    BY <1>1, <1>4, <2>2, LogAppends, EventsAssumption
  <2>3. QED
    BY <2>1, <2>2
<1>5. \A f \in Events, k \in 1..MaxSends : Producing(f, k)' = Producing(f, k)
  BY DEF Producing
<1>6. AnswersSound' /\ InOrder'
  BY <1>1, <1>2 DEF AnswersSound, InOrder, Sent
<1>7. MarksSound'
  BY <1>1, <1>2, <1>3, <1>5 DEF MarksSound
<1>8. MarksStay'
  BY <1>1, <1>2, <1>4, <1>5 DEF MarksStay
<1>9. AcceptedIsProduced'
  BY <1>1, <1>2, <1>3 DEF AcceptedIsProduced, Answered
<1>10. ProducedOnce'
  BY <1>1, <1>2, <1>4 DEF ProducedOnce, Once
<1>11. QED
  BY <1>6, <1>7, <1>8, <1>9, <1>10 DEF IngestInv

LEMMA StepIngest ==
  ASSUME TypeOK, IngestInv, [Next]_vars
  PROVE  IngestInv'
<1>1. CASE IngestNext
  BY <1>1, ReceiveIngest, ProducedIngest, FailedIngest, LateIngest, RestartIngest, ForgetIngest
  DEF IngestNext
<1>2. CASE UNCHANGED <<req, mark>> /\ ~IngestNext
  <2>1. topic' = topic \/ \E x \in Records, p \in Partitions : Append2(WriterTable, p, x)
    BY <1>2, Frames DEF Publish
  <2>2. QED
    BY <1>2, <2>1, OthersIngest
<1>3. QED
  BY <1>1, <1>2, Frames

-----------------------------------------------------------------------------
(***************************************************************************)
(* A record is in the table once.                                          *)
(***************************************************************************)

LEMMA RowTypes ==
  ASSUME TypeOK
  PROVE  /\ \A i \in DOMAIN snaps : snaps[i].hwm \in Marks /\ \A k \in DOMAIN snaps[i].rows :
              snaps[i].rows[k] \in Landed /\ snaps[i].rows[k] \in Rows
         /\ Landed \subseteq Rows
         /\ \A w \in Pods : Held(w) \subseteq Rows
<1>1. \A i \in DOMAIN snaps : snaps[i] \in SnapState
  BY ZenonT(40), ElementOfSeq, LenProperties DEF TypeOK, SnapState
<1>2. ASSUME NEW i \in DOMAIN snaps, NEW k \in DOMAIN snaps[i].rows
      PROVE  snaps[i].rows[k] \in Landed /\ snaps[i].rows[k] \in Rows
  <2>1. snaps[i].rows \in Seq(Rows)
    BY <1>1 DEF SnapState
  <2>2. snaps[i].rows[k] \in Rows
    BY <2>1, ElementOfSeq, LenProperties
  <2>3. QED
    BY <2>2 DEF Landed
<1>3. Landed \subseteq Rows
  BY <1>2 DEF Landed
<1>4. ASSUME NEW w \in Pods, NEW k \in DOMAIN pod[w].buf
      PROVE  pod[w].buf[k] \in Rows
  <2>1. pod[w].buf \in Seq(Rows)
    BY DEF TypeOK, PodState
  <2>2. QED
    BY <2>1, ElementOfSeq, LenProperties
<1>5. QED
  BY <1>1, <1>2, <1>3, <1>4 DEF Held, SnapState

RowsMarked ==
  \A i \in DOMAIN snaps : \A k \in DOMAIN snaps[i].rows :
    snaps[i].rows[k][2] <= snaps[i].hwm[snaps[i].rows[k][1]]

\* The position a pod starts from passes every row of the table.
LEMMA SeekPasses ==
  ASSUME TypeOK, MarksCovered, RowsMarked, NEW x \in Landed
  PROVE  x[2] < SeekToHwm(ResolveHwm(snaps))[x[1]]
<1>1. PICK i \in DOMAIN snaps : \E k \in DOMAIN snaps[i].rows : x = snaps[i].rows[k]
  BY DEF Landed
<1>2. x[1] \in Partitions /\ x[2] \in Nat \ {0}
  BY RowTypes DEF Rows, None
<1> DEFINE h == ResolveHwm(snaps)[x[1]]
<1>3. h \in Nat /\ snaps[i].hwm[x[1]] <= h /\ snaps[i].hwm[x[1]] \in Nat
  BY <1>1, <1>2, HwmIsLargest, RowTypes DEF Marks
<1>4. x[2] <= snaps[i].hwm[x[1]]
  BY <1>1 DEF RowsMarked
<1>5. SeekToHwm(ResolveHwm(snaps))[x[1]] = IF h = 0 THEN 0 ELSE h + 1
  BY <1>2 DEF SeekToHwm, None
<1> HIDE DEF h
<1>6. QED
  BY <1>2, <1>3, <1>4, <1>5

\* A pod whose table, position and buffer stay has what it had.
LEMMA NewStays ==
  ASSUME NEW w \in Pods, pod'[w] = pod[w], UNCHANGED snaps
  PROVE  BufferIsNew(w)' = BufferIsNew(w) /\ Up(w)' = Up(w)
<1>1. Landed' = Landed /\ Held(w)' = Held(w)
  BY DEF Landed, Held
<1>2. QED
  BY <1>1 DEF BufferIsNew, Up

LEMMA StartsNew ==
  ASSUME TypeOK, MarksCovered, RowsMarked, NEW w \in Pods, Start(w)
  PROVE  BufferIsNew(w)'
<1> DEFINE pos == SeekToHwm(ResolveHwm(snaps))
<1>1. UNCHANGED snaps /\ PodIs(w, "poll", pos, {}, <<>>, NoMarks)
  BY Starts DEF Start
<1>2. Landed' = Landed
  BY <1>1 DEF Landed
<1>3. /\ pod'[w].buf = <<>> /\ pod'[w].pos = pos /\ Held(w)' = {}
  BY <1>1 DEF PodIs, Held
<1>4. \A x \in Landed : x[2] < pos[x[1]]
  BY SeekPasses
<1>5. Landed \subseteq Rows
  BY RowTypes
<1> HIDE DEF pos
<1>6. pos = NoMarks => Landed = {}
  <2> SUFFICES ASSUME pos = NoMarks, NEW x \in Landed PROVE FALSE
    OBVIOUS
  <2>1. x[1] \in Partitions /\ x[2] \in Nat
    BY <1>5 DEF Rows
  <2>2. x[2] < 0
    BY <1>4, <2>1 DEF NoMarks, None
  <2>3. QED
    BY <2>1, <2>2
<1>7. QED
  BY <1>2, <1>3, <1>4, <1>6 DEF BufferIsNew

\* Nothing is buffered while no position is assigned.
LEMMA NoPosition ==
  ASSUME TypeOK, NEW w \in Pods, BufferIsNew(w), pod[w].pos = NoMarks
  PROVE  Held(w) = {} /\ Landed = {}
<1> SUFFICES ASSUME NEW x \in Held(w) PROVE FALSE
  BY DEF BufferIsNew
<1>1. x[1] \in Partitions /\ x[2] \in Nat
  BY RowTypes DEF Rows
<1>2. x[2] < 0
  BY <1>1 DEF BufferIsNew, NoMarks, None
<1>3. QED
  BY <1>1, <1>2

LEMMA WritesNew ==
  ASSUME TypeOK, RowsOnce, RowsMarked, NEW w \in Pods, BufferIsNew(w), WriteBatch(w)
  PROVE  BufferIsNew(w)' /\ RowsOnce' /\ RowsMarked'
<1> DEFINE last == Len(snaps) + 1
<1>1. PodIs(w, "written", pod[w].pos, pod[w].seen, pod[w].buf, pod[w].hwm)
  BY Writes
<1>2. /\ Len(snaps) \in Nat /\ DOMAIN snaps = 1..Len(snaps) /\ DOMAIN snaps' = 1..last
      /\ \A i \in DOMAIN snaps : snaps'[i] = snaps[i]
      /\ snaps'[last].rows = pod[w].buf /\ snaps'[last].hwm = pod[w].hwm
      /\ Landed' = Landed \cup Held(w)
  BY WritesLand
<1>3. DOMAIN snaps' = DOMAIN snaps \cup {last} /\ last \notin DOMAIN snaps
  BY <1>2
<1>4. /\ pod'[w].st = "written" /\ pod'[w].pos = pod[w].pos /\ pod'[w].buf = pod[w].buf
      /\ pod'[w].hwm = pod[w].hwm
  BY <1>1 DEF PodIs
<1>5. Held(w)' = Held(w)
  BY <1>4 DEF Held
<1> HIDE DEF last
<1>6. BufferIsNew(w)'
  BY <1>2, <1>4, <1>5, NoPosition DEF BufferIsNew
<1>7. \A k \in DOMAIN pod[w].buf : pod[w].buf[k] \in Held(w)
  BY DEF Held
<1>8. Held(w) \cap Landed = {}
  BY DEF BufferIsNew, WriteBatch
<1>9. \A i \in DOMAIN snaps : \A k \in DOMAIN snaps[i].rows : snaps[i].rows[k] \in Landed
  BY RowTypes
<1>10. RowsMarked'
  <2> SUFFICES ASSUME NEW i \in DOMAIN snaps', NEW k \in DOMAIN snaps'[i].rows
               PROVE  snaps'[i].rows[k][2] <= snaps'[i].hwm[snaps'[i].rows[k][1]]
    BY DEF RowsMarked
  <2>1. CASE i \in DOMAIN snaps
    BY <1>2, <2>1 DEF RowsMarked
  <2>2. CASE i = last
    BY <1>2, <1>7, <2>2 DEF BufferIsNew
  <2>3. QED
    BY <1>3, <2>1, <2>2
<1>11. RowsOnce'
  <2> SUFFICES ASSUME NEW i \in DOMAIN snaps', NEW j \in DOMAIN snaps',
                      NEW k \in DOMAIN snaps'[i].rows, NEW l \in DOMAIN snaps'[j].rows,
                      snaps'[i].rows[k] = snaps'[j].rows[l]
               PROVE  i = j /\ k = l
    BY DEF RowsOnce
  <2>1. CASE i \in DOMAIN snaps /\ j \in DOMAIN snaps
    BY <1>2, <2>1 DEF RowsOnce
  <2>2. CASE i = last /\ j = last
    BY <1>2, <2>2 DEF BufferIsNew
  <2>3. CASE i \in DOMAIN snaps /\ j = last
    BY <1>2, <1>7, <1>8, <1>9, <2>3
  <2>4. CASE i = last /\ j \in DOMAIN snaps
    BY <1>2, <1>7, <1>8, <1>9, <2>4
  <2>5. QED
    BY <1>3, <2>1, <2>2, <2>3, <2>4
<1>12. QED
  BY <1>6, <1>10, <1>11

LEMMA ConsumesNew ==
  ASSUME TypeOK, NEW w \in Pods, BufferIsNew(w), NEW p \in Partitions, Consume(w, p)
  PROVE  BufferIsNew(w)'
<1> DEFINE o == pod[w].pos[p]
           hwm == pod[w].hwm
           lost == WriterTopic[p][o] = Garbage
           old == pod[w].buf
           new == pod'[w].buf
<1>1. /\ o \in Nat \ {None}
      /\ PodIs(w, "poll", [pod[w].pos EXCEPT ![p] = o + 1], pod[w].seen \cup {p},
               IF lost THEN old ELSE Append(old, <<p, o>>),
               [hwm EXCEPT ![p] = IF lost THEN hwm[p] ELSE Max({hwm[p], o})])
  BY Consumes
<1>2. UNCHANGED snaps /\ pod[w].st = "poll"
  BY DEF Consume
<1>3. Landed' = Landed
  BY <1>2 DEF Landed
<1>4. pod[w].pos \in Marks /\ hwm \in Marks
  BY DEF TypeOK, PodState
<1>5. \/ lost /\ new = old /\ Held(w)' = Held(w)
      \/ /\ ~lost /\ Held(w)' = Held(w) \cup {<<p, o>>}
         /\ Len(old) \in Nat /\ DOMAIN old = 1..Len(old)
         /\ DOMAIN new = 1..(Len(old) + 1)
         /\ \A k \in 1..Len(old) : new[k] = old[k]
         /\ new[Len(old) + 1] = <<p, o>>
  <2>1. lost => new = old
    BY <1>1 DEF PodIs
  <2>2. lost => Held(w)' = Held(w)
    BY <2>1 DEF Held
  <2>3. QED
    BY <2>1, <2>2, ConsumesHold
<1>6. /\ pod'[w].pos = [pod[w].pos EXCEPT ![p] = o + 1]
      /\ pod'[w].hwm = [hwm EXCEPT ![p] = IF lost THEN hwm[p] ELSE Max({hwm[p], o})]
  BY <1>1 DEF PodIs
<1>7. hwm[p] \in Int /\ o \in Int
  BY <1>1, <1>4 DEF Marks
<1>8. Held(w) \subseteq Rows /\ Landed \subseteq Rows
  BY RowTypes
<1>9. /\ \A k, l \in DOMAIN old : old[k] = old[l] => k = l
      /\ \A x \in Held(w) : x[2] < pod[w].pos[x[1]] /\ x[2] <= hwm[x[1]]
      /\ Held(w) \cap Landed = {}
      /\ pod[w].pos # NoMarks => \A x \in Landed : x[2] < pod[w].pos[x[1]]
  BY <1>2 DEF BufferIsNew
<1>10. \A k \in DOMAIN old : old[k] \in Held(w)
  BY DEF Held
<1>11. pod'[w].pos[p] = o + 1 /\ \A q \in Partitions \ {p} : pod'[w].pos[q] = pod[w].pos[q]
  BY <1>4, <1>6 DEF Marks
<1>12. /\ pod'[w].hwm[p] = IF lost THEN hwm[p] ELSE Max({hwm[p], o})
       /\ \A q \in Partitions \ {p} : pod'[w].hwm[q] = hwm[q]
  BY <1>4, <1>6 DEF Marks
<1>13. pod[w].pos # NoMarks /\ pod'[w].pos # NoMarks
  <2>1. o # 0 /\ pod'[w].pos[p] # 0
    BY <1>1, <1>11 DEF None
  <2>2. QED
    BY <2>1 DEF NoMarks, None
<1>14. \A x \in Landed : x[2] < o \/ x[1] # p
  BY <1>9, <1>13
<1>15. \A x \in Held(w) : x[2] < o \/ x[1] # p
  BY <1>9
<1>16. \A x \in Rows : x[1] \in Partitions /\ x[2] \in Nat
  BY DEF Rows
<1>17. o = pod[w].pos[p]
  OBVIOUS
<1>18. \A x \in Rows : x[2] < pod[w].pos[x[1]] => x[2] < pod'[w].pos[x[1]]
  <2> SUFFICES ASSUME NEW x \in Rows, x[2] < pod[w].pos[x[1]]
               PROVE  x[2] < pod'[w].pos[x[1]]
    OBVIOUS
  <2>1. CASE x[1] = p
    <3>1. x[2] < o
      BY <1>17, <2>1
    <3> HIDE DEF o
    <3>2. QED
      BY <1>1, <1>11, <1>16, <2>1, <3>1
  <2>2. CASE x[1] # p
    BY <1>11, <1>16, <2>2
  <2>3. QED
    BY <2>1, <2>2
<1>19. hwm[p] <= pod'[w].hwm[p] /\ (~lost => o <= pod'[w].hwm[p])
  <2> HIDE DEF o, hwm, lost
  <2>1. /\ Max({hwm[p], o}) \in {hwm[p], o}
        /\ hwm[p] <= Max({hwm[p], o}) /\ o <= Max({hwm[p], o})
    BY <1>7, MaxOfTwo
  <2>2. QED
    BY <1>7, <1>12, <2>1
<1>20. \A x \in Held(w) : x[2] <= pod'[w].hwm[x[1]]
  <2> SUFFICES ASSUME NEW x \in Held(w) PROVE x[2] <= pod'[w].hwm[x[1]]
    OBVIOUS
  <2>1. x[1] \in Partitions /\ x[2] \in Nat /\ x[2] <= hwm[x[1]]
    BY <1>8, <1>9, <1>16
  <2>2. CASE x[1] = p
    <3>1. pod'[w].hwm[p] \in Int
      <4> HIDE DEF o, hwm, lost
      <4>1. Max({hwm[p], o}) \in {hwm[p], o}
        BY <1>7, MaxOfTwo
      <4>2. QED
        BY <1>7, <1>12, <4>1
    <3>2. x[2] <= hwm[p]
      BY <2>1, <2>2
    <3> HIDE DEF o, hwm, lost
    <3>3. QED
      BY <1>7, <1>19, <2>1, <2>2, <3>1, <3>2
  <2>3. CASE x[1] # p
    BY <1>12, <2>1, <2>3
  <2>4. QED
    BY <2>2, <2>3
<1> HIDE DEF o, hwm, lost, old, new
<1>21. CASE lost
  BY <1>3, <1>5, <1>8, <1>9, <1>13, <1>18, <1>20, <1>21 DEF BufferIsNew, new, old
<1>22. CASE ~lost
  <2>1. DOMAIN new = DOMAIN old \cup {Len(old) + 1} /\ \A k \in DOMAIN old : new[k] = old[k]
    <3>1. /\ Len(old) \in Nat /\ DOMAIN old = 1..Len(old)
          /\ DOMAIN new = 1..(Len(old) + 1)
          /\ \A k \in 1..Len(old) : new[k] = old[k]
      BY <1>5, <1>22
    <3>2. DOMAIN new = DOMAIN old \cup {Len(old) + 1}
      BY <3>1
    <3>3. QED
      BY <3>1, <3>2
  <2>2. <<p, o>> \notin Held(w) /\ <<p, o>> \notin Landed
    <3>1. ~(o < o)
      BY <1>7
    <3>2. <<p, o>>[1] = p /\ <<p, o>>[2] = o
      OBVIOUS
    <3>3. QED
      BY <1>14, <1>15, <3>1, <3>2
  <2>3. \A k, l \in DOMAIN new : new[k] = new[l] => k = l
    BY <1>5, <1>9, <1>10, <1>22, <2>1, <2>2
  <2>4. Held(w)' = Held(w) \cup {<<p, o>>}
    BY <1>5, <1>22
  <2>5. <<p, o>>[2] < pod'[w].pos[p] /\ <<p, o>>[2] <= pod'[w].hwm[p]
    BY <1>7, <1>11, <1>19, <1>22
  <2>6. \A x \in Held(w)' : x[2] < pod'[w].pos[x[1]] /\ x[2] <= pod'[w].hwm[x[1]]
    BY <1>8, <1>9, <1>18, <1>20, <2>4, <2>5
  <2>7. Held(w)' \cap Landed' = {}
    BY <1>3, <1>9, <2>2, <2>4
  <2>8. \A x \in Landed' : x[2] < pod'[w].pos[x[1]]
    BY <1>3, <1>8, <1>9, <1>13, <1>18
  <2>9. QED
    BY <1>13, <2>3, <2>6, <2>7, <2>8 DEF BufferIsNew, new
<1>23. QED
  BY <1>21, <1>22

LEMMA StepOnePod ==
  ASSUME TypeOK, MarksCovered, OnePod, [Next]_vars
  PROVE  OnePod'
<1> SUFFICES ASSUME faults \subseteq {"crash", "commit"} PROVE OnePod'
  BY Frames DEF OnePod
<1>1. UNCHANGED faults
  BY Frames
<1>2. /\ \A v, w \in Pods : Up(v) /\ Up(w) => v = w
      /\ \A w \in Pods : Up(w) => BufferIsNew(w)
      /\ RowsMarked /\ RowsOnce
  BY DEF OnePod, RowsMarked
<1>3. ASSUME NEW w \in Pods, \A v \in Pods \ {w} : ~Up(v)',
             Up(w)' => BufferIsNew(w)', RowsMarked', RowsOnce'
      PROVE  OnePod'
  BY <1>1, <1>3 DEF OnePod, RowsMarked
<1>4. UNCHANGED snaps => RowsMarked' /\ RowsOnce'
  BY <1>2 DEF RowsMarked, RowsOnce
<1>5. ASSUME NEW w \in Pods, \A v \in Pods \ {w} : pod'[v] = pod[v],
             Up(w) \/ \A v \in Pods : ~Up(v)
      PROVE  \A v \in Pods \ {w} : ~Up(v)'
  BY <1>2, <1>5 DEF Up
<1>6. ASSUME NEW w \in Pods, Start(w) PROVE OnePod'
  <2>1. UNCHANGED snaps /\ \A v \in Pods : ~Up(v)
    BY <1>6 DEF Start
  <2>2. \A v \in Pods \ {w} : pod'[v] = pod[v]
    BY <1>6, Starts DEF PodIs
  <2>3. BufferIsNew(w)'
    BY <1>2, <1>6, StartsNew
  <2>4. QED
    BY <1>3, <1>4, <1>5, <2>1, <2>2, <2>3
<1>7. ASSUME NEW w \in Pods, Exit(w) PROVE OnePod'
  <2>1. UNCHANGED snaps /\ Up(w)
    BY <1>7 DEF Exit
  <2>2. (\A v \in Pods \ {w} : pod'[v] = pod[v]) /\ ~Up(w)'
    BY <1>7, Exits DEF PodIs, Up
  <2>3. QED
    BY <1>3, <1>4, <1>5, <2>1, <2>2
<1>8. ASSUME NEW w \in Pods, WriteBatch(w) PROVE OnePod'
  <2>1. Up(w)
    BY <1>8 DEF WriteBatch, Up
  <2>2. \A v \in Pods \ {w} : pod'[v] = pod[v]
    BY <1>8, Writes DEF PodIs
  <2>3. BufferIsNew(w)' /\ RowsOnce' /\ RowsMarked'
    BY <1>2, <1>8, <2>1, WritesNew
  <2>4. QED
    BY <1>3, <1>5, <2>1, <2>2, <2>3
<1>9. ASSUME NEW w \in Pods, CommitOffsets(w) PROVE OnePod'
  <2>1. UNCHANGED snaps /\ Up(w)
    BY <1>9 DEF CommitOffsets, Up
  <2>2. PodIs(w, "poll", pod[w].pos, pod[w].seen, <<>>, NoMarks)
    BY <1>9, Commits
  <2>3. \A v \in Pods \ {w} : pod'[v] = pod[v]
    BY <2>2 DEF PodIs
  <2>4. /\ pod'[w].pos = pod[w].pos /\ pod'[w].buf = <<>> /\ Held(w)' = {}
        /\ Landed' = Landed
    BY <2>1, <2>2 DEF PodIs, Held, Landed
  <2>5. /\ pod[w].pos # NoMarks => \A x \in Landed : x[2] < pod[w].pos[x[1]]
        /\ pod[w].pos = NoMarks => Landed = {}
    BY <1>2, <2>1 DEF BufferIsNew
  <2>6. BufferIsNew(w)'
    BY <2>4, <2>5 DEF BufferIsNew
  <2>7. QED
    BY <1>3, <1>4, <1>5, <2>1, <2>3, <2>6
<1>10. ASSUME NEW w \in Pods, NEW p \in Partitions, Consume(w, p) PROVE OnePod'
  <2>1. UNCHANGED snaps /\ Up(w)
    BY <1>10 DEF Consume, Up
  <2>2. \A v \in Pods \ {w} : pod'[v] = pod[v]
    BY <1>10, Consumes DEF PodIs
  <2>3. BufferIsNew(w)'
    BY <1>2, <1>10, <2>1, ConsumesNew
  <2>4. QED
    BY <1>3, <1>4, <1>5, <2>1, <2>2, <2>3
<1>11. ASSUME Rebalance PROVE OnePod'
  <2>1. UNCHANGED snaps
    BY <1>11 DEF Rebalance
  <2>2. PICK w \in Pods : Up(w) /\ pod[w].pos = NoMarks
    BY <1>11 DEF Rebalance
  <2>3. \A v \in Pods : IF Up(v) THEN pod'[v].buf = pod[v].buf /\ pod'[v].hwm = pod[v].hwm
                                 ELSE pod'[v] = pod[v]
    BY <1>11, Rebalances
  <2>4. BufferIsNew(w) /\ \A v \in Pods \ {w} : pod'[v] = pod[v] /\ ~Up(v)
    BY <1>2, <2>2, <2>3
  <2>5. Held(w) = {} /\ Landed = {}
    BY <2>2, <2>4, NoPosition
  <2>6. Held(w)' = {} /\ Landed' = {} /\ pod'[w].buf = pod[w].buf
    <3>1. pod'[w].buf = pod[w].buf
      BY <2>2, <2>3
    <3>2. Held(w)' = Held(w)
      BY <3>1 DEF Held
    <3>3. Landed' = Landed
      BY <2>1 DEF Landed
    <3>4. QED
      BY <2>5, <3>1, <3>2, <3>3
  <2>7. BufferIsNew(w)'
    BY <2>4, <2>6 DEF BufferIsNew
  <2>8. QED
    BY <1>3, <1>4, <1>5, <2>1, <2>2, <2>4, <2>7
<1>12. CASE UNCHANGED writerVars
  <2>1. \A v \in Pods : BufferIsNew(v)' = BufferIsNew(v) /\ Up(v)' = Up(v)
    BY <1>12, NewStays DEF writerVars
  <2>2. QED
    BY <1>1, <1>2, <1>4, <1>12, <2>1 DEF OnePod, RowsMarked, writerVars
<1>13. QED
  BY <1>6, <1>7, <1>8, <1>9, <1>10, <1>11, <1>12, Frames DEF WriterNext, writerVars

-----------------------------------------------------------------------------
(***************************************************************************)
(* The theorems.                                                           *)
(***************************************************************************)

LEMMA InitInv == Init => IInv
<1> SUFFICES ASSUME Init PROVE IInv
  OBVIOUS
<1>1. TypeOK
  BY InitTypes
<1>2. /\ \A e \in Events, k \in 1..MaxSends :
           req[<<e, k>>].st = "unsent" /\ req[<<e, k>>].ans = "none"
      /\ \A r \in Requests : req[r].st = "unsent" /\ req[r].ans = "none"
  BY RequestPairs DEF Init
<1>3. \A e \in Events : DOMAIN Log(e) = {} /\ mark[e] = "none"
  <2> SUFFICES ASSUME NEW e \in Events PROVE DOMAIN Log(e) = {} /\ mark[e] = "none"
    OBVIOUS
  <2>1. tableOf[e] \in Tables /\ Hash[e] \in Partitions
    BY <1>1, EventsAssumption DEF TypeOK
  <2>2. QED
    BY <2>1, EmptySeq DEF Init, Log
<1>4. AnswersSound /\ InOrder /\ MarksSound
  BY <1>2, <1>3 DEF AnswersSound, InOrder, Sent, MarksSound
<1>5. MarksStay
  BY <1>2, <1>3 DEF MarksStay, Producing, InTopic
<1>6. AcceptedIsProduced /\ ProducedOnce
  BY <1>2, <1>3 DEF AcceptedIsProduced, Answered, ProducedOnce
<1>7. DOMAIN snaps = {} /\ group = NoMarks
  BY EmptySeq DEF Init
<1>8. /\ \A w \in Pods : /\ pod[w].st = "down" /\ pod[w].pos = NoMarks
                         /\ pod[w].hwm = NoMarks
  BY DEF Init, DownPod
<1>9. MarksCovered
  BY <1>7, <1>8 DEF MarksCovered, Covered, NoMarks, None
<1>10. OnePod
  BY <1>7, <1>8 DEF OnePod, Up, RowsOnce
<1>11. QED
  BY <1>1, <1>4, <1>5, <1>6, <1>9, <1>10 DEF IInv, IngestInv

LEMMA NextInv == IInv /\ [Next]_vars => IInv'
BY StepTypes, StepIngest, StepCovered, StepOnePod DEF IInv

LEMMA InductiveInvariant == Spec => []IInv
BY InitInv, NextInv, PTL DEF Spec

\* A request that was answered 202 has its event in the topic of the event's
\* table (main.go:183-203), in the topic once as long as no produce is cancelled,
\* no map is lost or full and no window passes (main.go:235-259); for any number
\* of events, partitions and attempts, in any interleaving of the handlers.
THEOREM AcceptedStays == Spec => []LoggerInv
<1>1. IInv => LoggerInv
  BY DEF IInv, IngestInv, LoggerInv, AcceptedOnce
<1>2. QED
  BY <1>1, InductiveInvariant, PTL

LEMMA CoveredAreThere ==
  ASSUME TypeOK, MarksCovered, NEW p \in Partitions, NEW o \in Passed(p),
         WriterTopic[p][o] # Garbage
  PROVE  Places(p, o) # {}
<1> DEFINE h == ResolveHwm(snaps)[p]
           g == group[p] - 1
<1>1. h \in Int /\ g \in Int
  BY HwmIsLargest DEF TypeOK, Marks
<1>2. h = None \/ \E i \in DOMAIN snaps : h = snaps[i].hwm[p]
  BY HwmIsLargest
<1>3. Covered(Landed, p, h)
  <2>1. CASE h = None
    BY <2>1 DEF Covered, None
  <2>2. CASE h # None
    BY <1>2, <2>2 DEF MarksCovered
  <2>3. QED
    BY <2>1, <2>2
<1>4. Covered(Landed, p, g)
  BY DEF MarksCovered
<1>5. o \in 1..Max({h, g})
  BY DEF Passed
<1> HIDE DEF h, g
<1>6. Max({h, g}) \in {h, g}
  BY <1>1, MaxOfTwo
<1>7. <<p, o>> \in Landed
  BY <1>3, <1>4, <1>5, <1>6 DEF Covered
<1>8. PICK i \in DOMAIN snaps : \E k \in DOMAIN snaps[i].rows : snaps[i].rows[k] = <<p, o>>
  BY <1>7 DEF Landed
<1>9. PICK k \in DOMAIN snaps[i].rows : snaps[i].rows[k] = <<p, o>>
  BY <1>8
<1>10. <<i, k>> \in UNION {{j} \X DOMAIN snaps[j].rows : j \in DOMAIN snaps}
  <2>1. <<i, k>> \in {i} \X DOMAIN snaps[i].rows
    OBVIOUS
  <2>2. QED
    BY <2>1
<1>11. <<i, k>> \in Places(p, o)
  BY <1>9, <1>10 DEF Places
<1>12. QED
  BY <1>11

LEMMA OnceIsOnce ==
  ASSUME RowsOnce, NEW p, NEW o
  PROVE  AtMostOnce(p, o)
<1> SUFFICES ASSUME NEW x \in Places(p, o), NEW y \in Places(p, o) PROVE x = y
  BY DEF AtMostOnce
<1>1. ASSUME NEW z \in Places(p, o)
      PROVE  /\ z = <<z[1], z[2]>> /\ z[1] \in DOMAIN snaps /\ z[2] \in DOMAIN snaps[z[1]].rows
             /\ snaps[z[1]].rows[z[2]] = <<p, o>>
  <2>1. z \in UNION {{i} \X DOMAIN snaps[i].rows : i \in DOMAIN snaps}
        /\ snaps[z[1]].rows[z[2]] = <<p, o>>
    BY DEF Places
  <2>2. PICK i \in DOMAIN snaps : z \in {i} \X DOMAIN snaps[i].rows
    BY <2>1
  <2>3. QED
    BY <2>1, <2>2
<1>2. x[1] = y[1] /\ x[2] = y[2]
  BY <1>1 DEF RowsOnce
<1>3. QED
  BY <1>1, <1>2

\* Whatever a high-water mark or a committed offset passes is in the table or
\* does not decode, whatever crashes, failed commits, rebalances and pods working
\* side by side do (writer.rs:139-199); and while one pod runs at a time from the
\* positions of its seek, no record is in the table twice (main.rs:6-8), for any
\* number of partitions, pods, records and snapshots.
THEOREM RecordsLandOnce == Spec => []LandsOnce
<1>1. IInv => NothingSkipped
  BY CoveredAreThere DEF IInv, NothingSkipped
<1>2. IInv => WrittenOnce
  BY OnceIsOnce DEF IInv, OnePod, WrittenOnce
<1>3. QED
  BY <1>1, <1>2, InductiveInvariant, PTL DEF LandsOnce
=============================================================================
