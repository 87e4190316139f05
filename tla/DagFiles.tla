------------------------------ MODULE DagFiles ------------------------------
(***************************************************************************)
(* DAGs as data: the order in which the runner takes the tasks of a DAG    *)
(* (dag-topology.ts), the DAG files generated from the merged Lattik       *)
(* Tables (dag-generator.ts), and the DAGs the Airflow renderer builds     *)
(* from the files (renderer.py).                                           *)
(*                                                                         *)
(* A task of a runner DAG is a record [id, dependsOn].  A name is the      *)
(* sequence of its parts between underscores, a source the pair of its     *)
(* schema and its table, a task id of a file the pair of its prefix and a  *)
(* name.                                                                   *)
(***************************************************************************)
EXTENDS Integers, FiniteSets, SequencesExt

CONSTANTS
  Null,        \* an optional field that is absent
  Failed       \* an error thrown

-----------------------------------------------------------------------------
(* topoSort.                                                               *)

Ids(tasks) == {tasks[i].id : i \in DOMAIN tasks}

\* Mutant: a dependency named twice counts once.
InDegreeDistinct(tasks, id) ==
  Cardinality(Range(tasks[Max({i \in DOMAIN tasks : tasks[i].id = id})].dependsOn))

\* indegree: of the last task that has the id.
InDegree(tasks, id) == Len(tasks[Max({i \in DOMAIN tasks : tasks[i].id = id})].dependsOn)

\* adj: the dependants in the order they were read, as often as they name it.
Adjacent(tasks, id) ==
  FlattenSeq([i \in DOMAIN tasks |-> LET named == SelectSeq(tasks[i].dependsOn, LAMBDA d : d = id)
                                     IN [k \in DOMAIN named |-> tasks[i].id]])

\* The first id that is ready is taken out and its dependants are counted down.
RECURSIVE Drain(_, _, _, _)
Drain(tasks, ready, indegree, out) ==
  IF ready = << >> THEN out
  ELSE LET after == FoldLeft(LAMBDA acc, child :
                       [deg |-> [acc.deg EXCEPT ![child] = @ - 1],
                        ready |-> IF acc.deg[child] = 1 THEN Append(acc.ready, child) ELSE acc.ready],
                       [deg |-> indegree, ready |-> Tail(ready)], Adjacent(tasks, Head(ready)))
       IN Drain(tasks, after.ready, after.deg, Append(out, Head(ready)))

TopoSort(tasks) ==
  LET ids   == FoldLeft(LAMBDA acc, t : IF t.id \in Range(acc) THEN acc ELSE Append(acc, t.id), << >>, tasks)
      deg   == [id \in Ids(tasks) |-> InDegree(tasks, id)]
      order == Drain(tasks, SelectSeq(ids, LAMBDA id : deg[id] = 0), deg, << >>)
  IN IF \E i \in DOMAIN tasks : Range(tasks[i].dependsOn) \ Ids(tasks) # {} THEN Failed
     ELSE IF Len(order) # Len(tasks) THEN Failed ELSE order

\* What it promises: of a DAG, and of nothing else, an order of its tasks in
\* which each comes after what it depends on.
Acyclic(tasks) ==
  \A S \in SUBSET Ids(tasks) \ {{}} :
    \E i \in DOMAIN tasks : tasks[i].id \in S /\ Range(tasks[i].dependsOn) \cap S = {}

IsDag(tasks) == /\ Cardinality(Ids(tasks)) = Len(tasks)
                /\ \A i \in DOMAIN tasks : Range(tasks[i].dependsOn) \subseteq Ids(tasks)
                /\ Acyclic(tasks)

SortsTasks(tasks) ==
  LET order == TopoSort(tasks)
  IN IF IsDag(tasks)
     THEN /\ Range(order) = Ids(tasks) /\ Len(order) = Len(tasks)
          /\ \A i, j \in DOMAIN order : \A k \in DOMAIN tasks :
               (tasks[k].id = order[i] /\ order[j] \in Range(tasks[k].dependsOn)) => j < i
     ELSE order = Failed

-----------------------------------------------------------------------------
(* generateDags.  A definition is a record [name, valid, specName,         *)
(* families]: the name of its row, whether its spec passes the schema, the *)
(* name in the spec, if any, and the column families, each a record        *)
(* [name, source, lifetime].                                               *)

Task(id, operator, dependencies) == [id |-> id, operator |-> operator, dependencies |-> dependencies]

\* "wait__" and the source, its dot replaced by an underscore.
WaitId(source) == <<"wait", source[1] \o source[2]>>

TaskIds(tasks) == [i \in DOMAIN tasks |-> tasks[i].id]

DagSpecForLattikTable(name, families) ==
  LET sources == FoldLeft(LAMBDA acc, f : IF f.source \in Range(acc) THEN acc ELSE Append(acc, f.source), << >>, families)
      waits   == [i \in DOMAIN sources |-> Task(WaitId(sources[i]), "wait", << >>)]
  IN Append(waits, Task(<<"build", name>>, "spark", TaskIds(waits)))

\* A family without a name goes by the table of its source.
FamilyName(f) == IF f.name = Null THEN f.source[2] ELSE f.name

\* backfillStrategy: a family with a lifetime_window column is sequential.
FamilyTasks(f) ==
  LET id(prefix) == <<prefix, FamilyName(f)>>
  IN IF f.lifetime THEN <<Task(id("backfill"), "spark", << >>)>>
     ELSE <<Task(id("backfill_deltas"), "spark", << >>),
            Task(id("backfill_cumulative"), "spark", <<id("backfill_deltas")>>)>>

BackfillDagSpecForLattikTable(name, families) ==
  LET tasks == FlattenSeq([i \in DOMAIN families |-> FamilyTasks(families[i])])
  IN Append(tasks, Task(<<"backfill_commit", name>>, "spark", TaskIds(tasks)))

\* The name in the spec wins over the name of the row, which no schema bounds.
TableName(d) == IF d.specName = Null THEN d.name ELSE d.specName

\* The files after generateDags: those of the valid definitions and no
\* others; "bad" are the names that are no identifiers.  Definitions that
\* resolve to one name are left out: their files race.
GenerateDags(defs, bad) ==
  LET valid == {i \in DOMAIN defs : defs[i].valid}
      file(d) == {<<<<"lattik", TableName(d)>>, DagSpecForLattikTable(TableName(d), d.families)>>,
                  <<<<"backfill", TableName(d)>>, BackfillDagSpecForLattikTable(TableName(d), d.families)>>}
  IN IF \E i \in valid : TableName(defs[i]) \in bad THEN Failed ELSE UNION {file(defs[i]) : i \in valid}

-----------------------------------------------------------------------------
(* The renderer: a DAG is its tasks and the edges between them; a task id  *)
(* that is taken is an error of Airflow and loses the DAG.                 *)

CreateDag(tasks) ==
  LET ids == {tasks[i].id : i \in DOMAIN tasks}
  IN IF Cardinality(ids) # Len(tasks) THEN Failed
     ELSE [tasks |-> ids,
           edges |-> UNION {{<<d, tasks[i].id>> : d \in Range(tasks[i].dependencies) \cap ids} : i \in DOMAIN tasks}]

Generate(files) ==
  LET built == {f \in files : CreateDag(f[2]) # Failed}
  IN {<<f[1], CreateDag(f[2])>> : f \in built}

\* What the two promise together: every table has its two DAGs and nothing
\* else has any; before a table is built all of its sources are awaited, and
\* before a backfill is committed every family has been through its steps.
\* (Sources, or families, that share a task id cost the table that DAG.)
DistinctBy(families, Key(_), keyed(_)) ==
  \A i, j \in DOMAIN families : keyed(families[i]) # keyed(families[j]) => Key(families[i]) # Key(families[j])

TablesAreDeployed(defs, bad) ==
  LET files   == GenerateDags(defs, bad)
      dags    == Generate(files)
      valid   == {defs[i] : i \in {j \in DOMAIN defs : defs[j].valid}}
      Of(id)  == {r[2] : r \in {s \in dags : s[1] = id}}
      Waits(d) == {WaitId(d.families[i].source) : i \in DOMAIN d.families}
      Source(f) == f.source
      Wait(f)  == WaitId(f.source)
      Awaited(d) == \A g \in Of(<<"lattik", TableName(d)>>) :
                      g.edges = Waits(d) \X {<<"build", TableName(d)>>}
      Precedes(g, x, y) == <<x, y>> \in g.edges
      Passed(d) == \A g \in Of(<<"backfill", TableName(d)>>) : \A i \in DOMAIN d.families :
                     \A t \in Range(FamilyTasks(d.families[i])) :
                       /\ Precedes(g, t.id, <<"backfill_commit", TableName(d)>>)
                       /\ t.id[1] = "backfill_cumulative" =>
                            Precedes(g, <<"backfill_deltas", FamilyName(d.families[i])>>, t.id)
      Clash(d) == \E i, j \in DOMAIN d.families : i # j /\ FamilyName(d.families[i]) = FamilyName(d.families[j])
                                                  /\ d.families[i].lifetime = d.families[j].lifetime
  IN IF files = Failed THEN \E d \in valid : TableName(d) \in bad
     ELSE /\ \A r \in dags : \E d \in valid : r[1] \in {<<"lattik", TableName(d)>>, <<"backfill", TableName(d)>>}
          /\ \A d \in valid : /\ Of(<<"lattik", TableName(d)>>) # {} <=> DistinctBy(d.families, Wait, Source)
                              /\ Of(<<"backfill", TableName(d)>>) # {} <=> ~ Clash(d)
                              /\ Awaited(d) /\ Passed(d)
=============================================================================
