------------------------------- MODULE SkillRun -------------------------------
(* The runs of the skill post-pipeline-pr-merge in the agent service:          *)
(* workflows/skill-run.ts (one durable step around an agent), its tools under  *)
(* agents/Executor/tools (a Kafka topic, a proto file, a registered schema, an *)
(* Iceberg table and a writer's Deployment for each merged logger table) and   *)
(* finishSkill, with lib/kube.ts, lib/trino.ts and the skill loader.           *)
(* External: the agent, which follows the runbook of SKILL.md; Kafka, the      *)
(* Schema Registry, Trino and Kubernetes, each by what the tools rely on; and  *)
(* the workflow runtime, which runs a step that was cut off again from its     *)
(* beginning.  Abstracted: messages, clients and their disconnection, the SQL  *)
(* and the manifest but for what they name.                                    *)
EXTENDS SequencesExt, Integers

CONSTANTS
  LastRun,         \* runs are numbered by their start
  Loggers,         \* logger tables
  Columns,         \* lists of user columns
  Clashing,        \* those with the name of an implicit column
  SafeName,        \* table -> name of its Deployment
  ProtoName,       \* table -> name of its proto file
  Skills,          \* id -> owners, tools and whether its done[] checks pass
  RunInputs,       \* the inputs of the runs that are explored
  MaxTurns,        \* turns of the agent: stepCountIs(20)
  MaxPartitions,   \* bound: partitions of a topic
  MaxCuts,         \* bound: steps that are cut off and calls that are skipped
  NoThing,
  RunFaultSets     \* sets of "net", "cut", "model", "stray", "overlap" and "bump"

Runs == 1..LastRun

VARIABLES
  exec,      \* run -> its input, where its agent is and what it reports
  topics,    \* table -> partitions of logger.<table>: 0 without
  protos,    \* file -> the message in it
  subjects,  \* table -> the schemas of logger.<table>-value, in order
  iceberg,   \* table -> the user columns of its Iceberg table
  writers,   \* Deployment -> its table and replicas
  bumped,    \* tables whose partitions were raised since they were last counted
  cuts, faults

\* A merge has each of its tables once: definitions are rows of a table, by name.
OneEach(input) ==
  \A m, n \in DOMAIN input.definitions :
    input.definitions[m].table = input.definitions[n].table => m = n

SkillAssumption ==
  /\ LastRun \in Nat /\ MaxTurns \in Nat /\ MaxCuts \in Nat /\ MaxPartitions \in Nat \ {0}
  /\ NoThing \notin Columns /\ NoThing \notin [table : Loggers, replicas : Nat]
  /\ \A inputs \in RunInputs :
       /\ inputs \in [Runs -> [skill : STRING, definitions : Seq([table : Loggers, columns : Columns])]]
       /\ \A r \in Runs : OneEach(inputs[r])

services == <<topics, protos, subjects, iceberg, writers>>
vars == <<exec, topics, protos, subjects, iceberg, writers, bumped, cuts, faults>>

-----------------------------------------------------------------------------
\* getSkill: the skill exists and the executor owns it.
Loadable(id) == id \in DOMAIN Skills /\ "ExecutorAgent" \in Skills[id].owners

Registry == {"create_kafka_topic", "emit_logger_proto", "register_protobuf_schema",
             "create_iceberg_table", "start_logger_writer"}

\* Declared tools that are not registered are dropped.
Tools(id) == Skills[id].tools \cap Registry

Book == <<"create_kafka_topic", "emit_logger_proto", "register_protobuf_schema",
          "create_iceberg_table", "start_logger_writer">>

\* The calls of the runbook are at places: the tools in order, for one table after
\* the other.  Those of tools the skill does not have are passed over.
Merges(r) == exec[r].input.definitions
Places(r) == Len(Merges(r)) * Len(Book)
ToolAt(p) == Book[((p - 1) % Len(Book)) + 1]
MergeAt(r, p) == Merges(r)[((p - 1) \div Len(Book)) + 1]

Left(r) == {p \in exec[r].next..Places(r) : ToolAt(p) \in Tools(exec[r].input.skill)}
Place(r) == LET left == Left(r) IN CHOOSE p \in left : \A q \in left : p <= q

\* generatePayloadProto: the message of a table and its columns.
Message(table, columns) == [table |-> table, columns |-> columns]

Fresh(input) ==
  [input |-> input, at |-> "none", next |-> 1, turns |-> 0, failed |-> FALSE,
   counted |-> 0, verdict |-> "none", result |-> "none"]

Init ==
  /\ \E inputs \in RunInputs : exec = [r \in Runs |-> Fresh(inputs[r])]
  /\ topics = [t \in Loggers |-> 0]
  /\ protos = [f \in {ProtoName[t] : t \in Loggers} |-> NoThing]
  /\ subjects = [t \in Loggers |-> <<>>]
  /\ iceberg = [t \in Loggers |-> NoThing]
  /\ writers = [n \in {SafeName[t] : t \in Loggers} |-> NoThing]
  /\ bumped = {} /\ cuts = 0
  /\ faults \in RunFaultSets

-----------------------------------------------------------------------------
\* The POST starts a run; a webhook delivered twice, or two merges, start runs
\* side by side.  A skill that cannot be loaded ends it.
Start(r) ==
  /\ exec[r].at = "none"
  /\ \A q \in Runs : q < r => exec[q].at = "ended" \/ ("overlap" \in faults /\ exec[q].at # "none")
  /\ exec' = [exec EXCEPT ![r].at = IF Loadable(exec[r].input.skill) THEN "agent" ELSE "ended",
                          ![r].result = IF Loadable(exec[r].input.skill) THEN "none" ELSE "error"]
  /\ UNCHANGED <<services, bumped, cuts, faults>>

\* The agent makes the next call of the runbook while it has turns left.
Calls(r, tool) ==
  /\ exec[r].at = "agent" /\ exec[r].verdict = "none" /\ exec[r].turns < MaxTurns
  /\ Left(r) # {} /\ ToolAt(Place(r)) = tool

\* What it is called with: a table and its columns.
Call(r) == MergeAt(r, Place(r))

Returns(r, ok) ==
  exec' = [exec EXCEPT ![r].at = "agent", ![r].next = Place(r) + 1, ![r].turns = @ + 1,
                       ![r].failed = @ \/ ~ok]

\* A service does what it is asked; or the call fails, before or after it did.
Asked(r, done, undone) ==
  \/ done /\ Returns(r, TRUE)
  \/ "net" \in faults /\ (done \/ undone) /\ Returns(r, FALSE)

\* A topic that exists, or that another run creates first, is left as it is.
CreateKafkaTopic(r) ==
  /\ Calls(r, "create_kafka_topic")
  /\ LET t == Call(r).table
     IN Asked(r, topics' = [topics EXCEPT ![t] = IF @ = 0 THEN 1 ELSE @], UNCHANGED topics)
  /\ UNCHANGED <<protos, subjects, iceberg, writers, bumped, cuts, faults>>

EmitLoggerProto(r) ==
  /\ Calls(r, "emit_logger_proto")
  /\ LET c == Call(r)
     IN Asked(r, protos' = [protos EXCEPT ![ProtoName[c.table]] = Message(c.table, c.columns)],
              UNCHANGED protos)
  /\ UNCHANGED <<topics, subjects, iceberg, writers, bumped, cuts, faults>>

\* The registry gives a schema it has its old id, and a new one the next version.
RegisterProtobufSchema(r) ==
  /\ Calls(r, "register_protobuf_schema")
  /\ LET c == Call(r)
     IN Asked(r, subjects' = [subjects EXCEPT ![c.table] =
                   IF Contains(@, c.columns) THEN @ ELSE Append(@, c.columns)],
              UNCHANGED subjects)
  /\ UNCHANGED <<topics, protos, iceberg, writers, bumped, cuts, faults>>

\* IF NOT EXISTS: a table that is there keeps its columns.
CreateIcebergTable(r) ==
  /\ Calls(r, "create_iceberg_table")
  /\ LET c == Call(r)
     IN IF c.columns \in Clashing THEN Returns(r, FALSE) /\ UNCHANGED iceberg
        ELSE Asked(r, iceberg' = [iceberg EXCEPT ![c.table] = IF @ = NoThing THEN c.columns ELSE @],
                   UNCHANGED iceberg)
  /\ UNCHANGED <<topics, protos, subjects, writers, bumped, cuts, faults>>

\* Mutant: a topic that is missing counts as one partition.
PartitionsOrOne(t) == IF topics[t] = 0 THEN 1 ELSE topics[t]

\* getPartitionCount, which throws without the topic: 0.
Partitions(t) == topics[t]

\* start_logger_writer counts the partitions and fails without a topic ...
CountPartitions(r) ==
  /\ Calls(r, "start_logger_writer")
  /\ LET t == Call(r).table
     IN \/ /\ Partitions(t) # 0
           /\ exec' = [exec EXCEPT ![r].at = "apply", ![r].counted = Partitions(t)]
           /\ bumped' = bumped \ {t}
        \/ /\ Partitions(t) = 0 \/ "net" \in faults
           /\ Returns(r, FALSE) /\ UNCHANGED bumped
  /\ UNCHANGED <<services, cuts, faults>>

\* ... applies the manifest, which Kubernetes refuses if the Deployment selects
\* the pods of another table ...
ApplyManifest(r) ==
  /\ exec[r].at = "apply"
  /\ LET t == Call(r).table
         n == SafeName[t]
         w == [table |-> t, replicas |-> exec[r].counted]
     IN IF writers[n] # NoThing /\ writers[n].table # t
        THEN Returns(r, FALSE) /\ UNCHANGED writers
        ELSE \/ writers' = [writers EXCEPT ![n] = w] /\ exec' = [exec EXCEPT ![r].at = "wait"]
             \/ "net" \in faults /\ Returns(r, FALSE) /\ writers' \in {writers, [writers EXCEPT ![n] = w]}
  /\ UNCHANGED <<topics, protos, subjects, iceberg, bumped, cuts, faults>>

\* ... and waits: what is applied stays when the wait runs out.
WaitForDeployment(r) ==
  /\ exec[r].at = "wait"
  /\ \E ok \in {TRUE} \cup (IF "net" \in faults THEN {FALSE} ELSE {}) : Returns(r, ok)
  /\ UNCHANGED <<services, bumped, cuts, faults>>

\* The agent skips a call, or thinks it is done before it is.
Stray(r) ==
  /\ "stray" \in faults /\ exec[r].at = "agent" /\ cuts < MaxCuts
  /\ Left(r) # {}
  /\ cuts' = cuts + 1
  /\ \E n \in {Place(r) + 1, Places(r) + 1} : exec' = [exec EXCEPT ![r].next = n]
  /\ UNCHANGED <<services, bumped, faults>>

\* finishSkill: a failure the agent reports is kept, the rest is checked.
FinishSkill(r) ==
  /\ exec[r].at = "agent" /\ exec[r].verdict = "none" /\ exec[r].turns < MaxTurns
  /\ Left(r) = {}
  /\ exec' = [exec EXCEPT ![r].turns = @ + 1,
                          ![r].verdict = IF exec[r].failed \/ ~Skills[exec[r].input.skill].checked
                                         THEN "failed" ELSE "done"]
  /\ UNCHANGED <<services, bumped, cuts, faults>>

\* generate returns once the agent has finished or is out of turns: the result is
\* ok, whatever finishSkill was told.  A model that throws makes it an error.
Generated(r) ==
  /\ exec[r].at = "agent"
  /\ \/ /\ exec[r].verdict # "none" \/ exec[r].turns = MaxTurns
        /\ exec' = [exec EXCEPT ![r].at = "ended", ![r].result = "ok"]
     \/ /\ "model" \in faults
        /\ exec' = [exec EXCEPT ![r].at = "ended", ![r].result = "error"]
  /\ UNCHANGED <<services, bumped, cuts, faults>>

\* The step is cut off and runs again from its beginning.
CutOff(r) ==
  /\ "cut" \in faults /\ exec[r].at \in {"agent", "apply", "wait"} /\ cuts < MaxCuts
  /\ cuts' = cuts + 1
  /\ exec' = [exec EXCEPT ![r] = [Fresh(exec[r].input) EXCEPT !.at = "agent"]]
  /\ UNCHANGED <<services, bumped, faults>>

\* Someone raises the partitions of a topic.
AddPartition(t) ==
  /\ "bump" \in faults /\ topics[t] \in 1..(MaxPartitions - 1)
  /\ topics' = [topics EXCEPT ![t] = @ + 1] /\ bumped' = bumped \cup {t}
  /\ UNCHANGED <<exec, protos, subjects, iceberg, writers, cuts, faults>>

Next ==
  \/ \E r \in Runs : \/ Start(r) \/ CreateKafkaTopic(r) \/ EmitLoggerProto(r)
                     \/ RegisterProtobufSchema(r) \/ CreateIcebergTable(r)
                     \/ CountPartitions(r) \/ ApplyManifest(r) \/ WaitForDeployment(r)
                     \/ Stray(r) \/ FinishSkill(r) \/ Generated(r) \/ CutOff(r)
  \/ \E t \in Loggers : AddPartition(t)

Spec == Init /\ [][Next]_vars

-----------------------------------------------------------------------------
TypeOK ==
  /\ \A r \in Runs :
       /\ exec[r].at \in {"none", "agent", "apply", "wait", "ended"}
       /\ exec[r].verdict \in {"none", "done", "failed"} /\ exec[r].result \in {"none", "ok", "error"}
       /\ exec[r].turns \in 0..MaxTurns /\ exec[r].counted \in 0..MaxPartitions
  /\ topics \in [Loggers -> 0..MaxPartitions]
  /\ \A t \in Loggers : IsInjective(subjects[t]) /\ ToSet(subjects[t]) \subseteq Columns
  /\ iceberg \in [Loggers -> Columns \cup {NoThing}]
  /\ bumped \subseteq Loggers /\ cuts \in 0..MaxCuts /\ faults \in RunFaultSets

\* A Deployment reads a topic that exists, by at most as many replicas as it has
\* partitions, and is the one of its table.
WritersFit ==
  \A n \in DOMAIN writers : writers[n] # NoThing =>
    /\ SafeName[writers[n].table] = n
    /\ writers[n].replicas \in 1..topics[writers[n].table]

Merged(r) == ToSet(Merges(r))

\* A run that reports its skill done has made all of it, for each of its tables,
\* when the agent follows the runbook; a run that was cut off, or met another,
\* makes nothing twice and unmakes nothing.
DoneIsThere ==
  "stray" \notin faults =>
    \A r \in Runs : exec[r].verdict = "done" /\ Tools(exec[r].input.skill) = Registry =>
      \A d \in Merged(r) :
        /\ topics[d.table] > 0 /\ Contains(subjects[d.table], d.columns)
        /\ iceberg[d.table] # NoThing
        /\ writers[SafeName[d.table]] # NoThing /\ writers[SafeName[d.table]].table = d.table

\* r is the last run that has touched the table.
IsLast(r, t) ==
  \A q \in Runs : q > r /\ exec[q].at # "none" => \A d \in Merged(q) : d.table # t

\* register-protobuf-schema.ts:33, start-logger-writer.ts:6-8: one run after the
\* other, the file holds what the last one that is done registered, and the
\* writer has a replica for each partition that was there; the newest schema is
\* its own unless it was registered before.  Tables whose names give one file
\* overwrite each other's.
LastRunShows ==
  faults \cap {"overlap", "stray"} = {} =>
    \A r \in Runs, t \in Loggers : \A d \in Merged(r) :
      /\ exec[r].verdict = "done" /\ Tools(exec[r].input.skill) = Registry
      /\ d.table = t /\ IsLast(r, t)
      => /\ writers[SafeName[t]].replicas = topics[t] \/ t \in bumped
         /\ (\A u \in Loggers : ProtoName[u] = ProtoName[t] => u = t)
              => protos[ProtoName[t]] = Message(t, d.columns)
         /\ (\A q \in 1..(r - 1) : \A e \in Merged(q) : e.table = t => e.columns # d.columns)
              => Last(subjects[t]) = d.columns

\* What the runs of the skill leave of the streams of the merged tables.
SkillInv == TypeOK /\ WritersFit /\ DoneIsThere /\ LastRunShows
=============================================================================
