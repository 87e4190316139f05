------------------------------ MODULE MCForms ------------------------------
(* Instances of CanvasForms, FormInputs, AnalystCanvas, DefinitionFlow,    *)
(* DagSync and SkillRun for TLC: parts of one run, from the canvases and   *)
(* their inputs to a pull request, from a push to its DAGs, and from a     *)
(* merge to its streams.                                                   *)
EXTENDS CanvasForms, Workflows, BrowserInputs

VARIABLE part

-----------------------------------------------------------------------------
MCLastPart == ("a.x" :> "x") @@ ("b.x" :> "x")

Logger(columns) == [kind |-> "logger_table", input |-> [name |-> "s.t", user_columns |-> columns]]
C(n) == [name |-> n, type |-> "string"]
Lifetime(n) == [name |-> n, strategy |-> "lifetime_window", agg |-> "sum(v)"]
Lattik(columns) == [kind |-> "lattik_table",
  input |-> [name |-> "s.t", primary_key |-> <<[column |-> "id", entity |-> "user"]>>,
             column_families |-> <<[source |-> "a.x", columns |-> columns]>>]]

MCInputs ==
  {Logger(<<C("a") @@ [description |-> "d"], C("b") @@ [classification |-> [pii |-> FALSE]]>>),
   Lattik(<<Lifetime("a"), Lifetime("b")>>),
   [kind |-> "metric", input |-> [calculations |-> <<[expression |-> "e", source_table |-> "a.x"]>>]],
   [kind |-> "logger_table", input |-> [columns |-> <<>>]]}

MCFills ==
  {<<<<"name", "a">>, <<"type", "int64">>, <<"flag", "pii">>, <<"tag", "t">>>>,
   <<<<"name", "c">>, <<"flag", "pii">>, <<"flag", "phi">>, <<"tag", "t">>, <<"untag", "t">>, <<"dimension", "Bad">>>>,
   <<<<"name", "c">>, <<"source", "b.x">>, <<"expr", "v">>>>,
   <<<<"name", "b">>, <<"source", "a.x">>, <<"strategy", "prepend_list">>, <<"expr", "v">>>>,
   <<<<"name", "c">>, <<"strategy", "bitmap_activity">>, <<"derived", TRUE>>>>}

MCFields == {<<"retention", "90d">>, <<"column", "id">>, <<"source_table", "b.x">>}

P(path, value) == [path |-> path, value |-> value]
MCPatches ==
  {<<P(<<"user_columns", 2, "classification", "pii">>, TRUE), P(<<"user_columns", 3>>, C("a"))>>,
   <<P(<<"column_families", 1, "columns", 2, "description">>, "r")>>}

-----------------------------------------------------------------------------
MCSafe == [n \in Names |-> "a_b"]

InForm(n, spec) == [kind |-> "form", name |-> n, spec |-> spec]
InEditor(n, spec) == [kind |-> "yaml", name |-> n, file |-> [yaml |-> spec]]

\* Two conversations about one definition, or about a.b and a_b.
MCCanvases ==
  {("c1" :> InForm("a.b", "s")) @@ ("c2" :> InEditor(n, "t")) : n \in Names} \cup
  {("c1" :> InEditor("a.b", "s")) @@ ("c2" :> InEditor("a.b", "t"))}

MCFiles == {[n \in Names |-> IF n = "a.b" THEN old ELSE Absent] : old \in {Absent, [yaml |-> "s"]}}

MCFaultSets == {{"crash"}, {"error"}, {"clash"}, {"merge"}}

\* What is saved from a form, as stated in CanvasForms, in the part that moves it.
SpecIsShown == part = "form" => SavedIsShown

-----------------------------------------------------------------------------
MCPaths == <<"a", "b">>
MCContents == {<<"one", 1>>, <<"one", 2>>, <<"two", 1>>, <<"one", 0>>}
MCIdOf == [c \in MCContents |-> c[1]]
MCValid == {c \in MCContents : c[2] # 0}

\* Files added, edited, broken, renamed in place, moved and removed; in the last
\* one two files declare one id.
MCRepos ==
  {[p \in {"a", "b"} |-> IF p = "a" THEN x[1] ELSE x[2]] :
     x \in {<<<<"one", 1>>, Absent>>, <<<<"one", 2>>, <<"two", 1>>>>, <<<<"one", 0>>, <<"two", 1>>>>,
            <<<<"two", 1>>, <<"one", 1>>>>, <<Absent, Absent>>,
            <<<<"one", 1>>, <<"one", 2>>>>}}

MCSyncFaults == {{"fetch"}, {"db"}, {"stale"}, {"overlap"}}

-----------------------------------------------------------------------------
MCFunctions == {<<>>, <<2>>, <<1, 2>>}

-----------------------------------------------------------------------------
\* More rows than are read, as many, and none.
MCRows == [q \in Queries |-> CASE q \in {"long", "scan"} -> 3 [] q = "full" -> 2 [] OTHER -> 0]
MCColumns == [q \in Queries |-> CASE q = "long" -> <<"a", "b">> [] q = "full" -> <<"b">> [] OTHER -> <<"a">>]
MCCharts == {{"a"}, {"a", "b"}}

-----------------------------------------------------------------------------
Merge(t, c) == [table |-> t, columns |-> c]
Run(merged) == [skill |-> "post-pipeline-pr-merge", definitions |-> merged]

\* a.b_c and a_b.c share the name of a Deployment and of a proto file.
MCSafeName == ("a.d" :> "a-d") @@ ("a.b_c" :> "a-b-c") @@ ("a_b.c" :> "a-b-c")
MCProtoName == ("a.d" :> "a_d") @@ ("a.b_c" :> "a_b_c") @@ ("a_b.c" :> "a_b_c")

MCTools == {"create_kafka_topic", "emit_logger_proto", "register_protobuf_schema",
            "create_iceberg_table", "start_logger_writer"}

MCSkills ==
  ("post-pipeline-pr-merge" :> [owners |-> {"ExecutorAgent"}, tools |-> MCTools, checked |-> TRUE]) @@
  ("part" :> [owners |-> {"ExecutorAgent"}, tools |-> {"create_kafka_topic", "other"}, checked |-> FALSE]) @@
  ("chat" :> [owners |-> {"DataArchitect"}, tools |-> {}, checked |-> TRUE])

\* A table changed and changed back; tables that share their names, one with a
\* column of its own name; two tables in one merge, and three, which are one
\* more than the agent has turns for.
MCRunInputs ==
  {<<Run(<<Merge("a.d", "x")>>), Run(<<Merge("a.d", "y")>>), Run(<<Merge("a.d", "x")>>)>>,
   <<Run(<<Merge("a.b_c", "x"), Merge("a.d", "bad")>>), Run(<<Merge("a_b.c", "y")>>),
     [skill |-> "gone", definitions |-> <<>>]>>,
   <<Run(<<Merge("a.d", "x"), Merge("a.b_c", "y")>>),
     [skill |-> "part", definitions |-> <<Merge("a.d", "x")>>], [skill |-> "gone", definitions |-> <<>>]>>,
   <<Run(<<Merge("a.d", "x"), Merge("a.b_c", "y"), Merge("a_b.c", "x")>>),
     [skill |-> "chat", definitions |-> <<>>], [skill |-> "gone", definitions |-> <<>>]>>}

MCRunFaultSets == {{"net", "cut"}, {"model"}, {"stray"}, {"overlap", "cut"}, {"bump", "cut"}}

-----------------------------------------------------------------------------
\* Overlapping syncs are of two pushes, three tables are in one merge without
\* faults but of the model, and the step that dies is of a form or next to one.
MCInit ==
  /\ part \in {"form", "flow", "sync", "source", "box", "expr", "analyst", "skill"}
  /\ Init /\ Flow!Init /\ Sync!Init /\ Input!Init /\ Analyst!Init /\ Skill!Init
  /\ \/ part = "form"
     \/ part # "form" /\ form.kind = "metric"
  /\ \/ part = "flow" /\ (faults = {"crash"} => canvas["c1"].kind = "form")
     \/ /\ part # "flow" /\ main = (CHOOSE m \in Files : TRUE)
        /\ canvas = (CHOOSE s \in Canvases : TRUE) /\ faults = (CHOOSE f \in FaultSets : TRUE)
  /\ \/ part = "sync"
     \/ part # "sync" /\ syncFaults = {"fetch"}
  /\ \/ part = "box"
     \/ part # "box" /\ box.kind = "entity"
  /\ \/ part = "analyst"
     \/ part # "analyst" /\ agent = "specs"
  /\ \/ part = "skill" /\ (Len(exec[1].input.definitions) = 3 => runFaults = {"model"})
     \/ part # "skill" /\ runFaults = {"model"} /\ Len(exec[1].input.definitions) = 1

MCNext ==
  \/ part = "form" /\ Next /\ UNCHANGED <<part, flowVars, syncVars, inputVars, analystVars, skillVars>>
  \/ part = "flow" /\ Flow!Next /\ UNCHANGED <<part, vars, syncVars, inputVars, analystVars, skillVars>>
  \/ /\ part = "sync" /\ Sync!Next
     /\ "overlap" \in syncFaults => Len(uploads') <= 2
     /\ UNCHANGED <<part, vars, flowVars, inputVars, analystVars, skillVars>>
  \/ /\ UNCHANGED <<part, vars, flowVars, syncVars, analystVars, skillVars>>
     /\ \/ part = "source" /\ Input!NextSource
        \/ part = "box" /\ Input!NextBox
        \/ part = "expr" /\ Input!NextExpr
  \/ part = "analyst" /\ Analyst!Next /\ UNCHANGED <<part, vars, flowVars, syncVars, inputVars, skillVars>>
  \/ part = "skill" /\ Skill!Next /\ UNCHANGED <<part, vars, flowVars, syncVars, inputVars, analystVars>>

MCSpec == MCInit /\ [][MCNext]_<<part, vars, flowVars, syncVars, inputVars, analystVars, skillVars>>
=============================================================================
