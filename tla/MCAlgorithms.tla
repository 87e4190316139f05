---------------------------- MODULE MCAlgorithms ----------------------------
(* Instances of the modules of one algorithm each for TLC, by their inputs, *)
(* and of ChatStream, whose algorithm reads a stream as it is written.      *)
EXTENDS Integers, FiniteSets, SequencesExt

CONSTANTS Null, Failed, MaxDepth, Broken,
          RunAgents, Tried, MaxLoopSteps, MaxDeltas, MaxCalls, MaxRetries, MaxReads,
          StreamFaultSets  \* of ChatStream

VARIABLES input, run, log, row, owned, reader, shown, faults

streamVars == <<run, log, row, owned, reader, shown, faults>>

S == INSTANCE Stitch
E == INSTANCE TypeChecker
D == INSTANCE DagFiles
P == INSTANCE PrCheck
C == INSTANCE ChatStream

-----------------------------------------------------------------------------
(* Loads over the keys 1..3: L1 holds column a, L2 the columns b and n.    *)
Keys == 1..3

CellOf(c, k) == CASE c = "id" -> k [] c = "a" -> 10 + k [] c = "n" -> k [] OTHER -> IF k = 2 THEN Null ELSE 20 + k

LoadOf(cols, keys, format) ==
  [format |-> format,
   files |-> [bit \in 1..2 |->
     LET mine == {k \in keys : k % 2 = bit - 1}
         up   == SetToSortSeq(mine, <)
         seq  == IF format = "vortex" THEN Reverse(up) ELSE up
     IN [i \in DOMAIN seq |-> [c \in cols \cup {"id"} |-> CellOf(c, seq[i])]]]]

Tables == {[pk |-> <<"id">>, count |-> {"n", "m"}, manifest |-> [a |-> "L1", b |-> "L2", n |-> "L2"],
            loads |-> [L1 |-> LoadOf({"a"}, k1, f1), L2 |-> LoadOf({"b", "n"}, k2, f2)]] :
              k1 \in SUBSET Keys, k2 \in SUBSET Keys, f1 \in {"parquet", "vortex"}, f2 \in {"parquet", "vortex"}}

In(values) == [type |-> "in", values |-> values, nullable |-> FALSE]
Within(lo, hi, closed) == [type |-> "range", min |-> lo, max |-> hi, closed |-> closed, nullable |-> FALSE]
Domains == {<< >>, [id |-> In({2})], [id |-> In({1, 3})], [id |-> Within(2, 3, TRUE)], [id |-> Within(1, 3, TRUE)],
            [id |-> Within(1, 2, FALSE)], [a |-> In({11})], [id |-> [In({1}) EXCEPT !.nullable = TRUE]]}

Selects == {<< >>, <<"id">>, <<"b">>, <<"id", "a", "b">>, <<"n", "a">>, <<"a", "m", "w">>}

Scans == [kind : {"scan"}, table : Tables, cols : Selects, domains : Domains]

ScanCase == /\ input.kind = "none"
            /\ input' \in Scans

\* The names of an older manifest and of the newest, in either order, and what
\* the load.json of each load may name: the driver's leave out the keys.
Older == [version |-> 9, of |-> "L9"]
Newest == [version |-> 10, of |-> "L2"]

Jsons == {[L1 |-> <<"id", "a">>, L2 |-> <<"id", "b", "n">>], [L1 |-> <<"a", "id">>, L2 |-> <<"n", "b", "id">>],
          [L1 |-> <<"a">>, L2 |-> <<"b", "n">>]}

DuckDbReads(t) ==
  LET manifests == (Older :> [a |-> "L1"]) @@ (Newest :> t.manifest)
  IN \A listing \in {<<Older, Newest>>, <<Newest, Older>>}, json \in Jsons, order \in SetToSeqs({"L1", "L2"}) :
       S!DuckIsJoin(t, manifests, listing, json, order)

\* Reading a table returns the full outer join, in key order, of the loads
\* of the columns asked for: whichever of the two stitchers the filter
\* selects (stitcher/naive.rs, stitcher/indexed.rs), in both file formats,
\* whatever keys each load holds and in whatever order a query names the
\* columns (LattikPageSource).  So does DuckDB's scan of all the columns, which
\* finds manifest, loads and keys itself (resolve.rs).
StitchIsJoin ==
  input.kind = "scan" =>
    /\ S!ReadIsJoin(input.table, input.cols, input.domains)
    /\ (input.domains = << >> /\ input.cols = << >>) => DuckDbReads(input.table)

-----------------------------------------------------------------------------
(* Columns of every strategy over three days of events of one key, and     *)
(* the bucket counts a load's size leads to with the hashes of its keys.   *)
Col(strategy, fn) == [strategy |-> strategy, fn |-> fn, words |-> {}, max_length |-> 2]

RunningColumns == {Col("lifetime_window", fn) : fn \in {"count", "sum", "max", "min", "last"}}
                  \cup {Col("prepend_list", "list"), Col("bitmap_activity", "bitmap")}

DayCase == /\ input.kind = "none"
           /\ \E col \in RunningColumns, a, b, c \in {<< >>, <<1>>, <<3>>, <<2, 1>>, <<1, 3>>} :
                input' = [kind |-> "days", col |-> col, days |-> <<a, b, c>>]

BucketCase == /\ input.kind = "none"
              /\ \E k \in 0..12, hashes \in {<<x>> : x \in {0, 1, 7, 4095}} \cup
                     {<<x, y>> : x, y \in {0, 5, 31, 63}} \cup {<<x, y, z>> : x, y, z \in {0, 3, 63}} :
                   input' = [kind |-> "buckets", total |-> 2^k, hashes |-> hashes]

\* The loads the drivers write are what reads rely on: after any days the
\* running value of a column is the aggregate of all the events so far, and
\* bucketing puts every row into one of the buckets, in such a way that a
\* load with half the buckets of another aligns with it bucket by bucket
\* (lattik_driver_utils.py merge_cumulative and apply_bucketing, bucket.rs).
LoadsAreBuilt ==
  /\ input.kind = "days" => S!RunningIsLifetime(input.col, input.days)
  /\ input.kind = "buckets" => S!BucketsFit(input.total, input.hashes)

-----------------------------------------------------------------------------
(* Expression trees: every operator around a tree, three deep.             *)
A == E!Column("A")

Agg(name, mod, args) == E!Node("AggregateCall", name, mod, args)
Star == E!Node("Star", "*", "", << >>)
Item(e, dir, nulls) == E!Node("Item", dir, nulls, <<e>>)
Bound(op, mod, args) == E!Node("Bound", op, mod, args)
Window(func, part, order, frame) == E!Node("WindowExpr", "", "", <<func, E!List(part), E!List(order), frame>>)

Operators == {"OR", "AND", "=", "<", "+", "-", "*"}

Around(c) ==
  {E!Binary(op, c, A) : op \in Operators} \cup {E!Binary(op, A, c) : op \in Operators} \cup
  {E!Node("UnaryExpr", op, "", <<c>>) : op \in {"NOT", "-"}} \cup
  {E!Node("BetweenExpr", "", "", <<c, A, A>>), E!Node("BetweenExpr", "", "NOT", <<A, c, A>>),
   E!Node("BetweenExpr", "", "", <<A, A, c>>), E!Node("InExpr", "", "NOT", <<c, A, A>>),
   E!Node("InExpr", "", "", <<A, A, c>>), E!Node("IsNullExpr", "", "", <<c>>),
   E!Node("IsNullExpr", "", "NOT", <<c>>), E!Node("LikeExpr", "", "", <<c, A>>),
   E!Node("LikeExpr", "", "NOT", <<A, c>>), E!Node("CastExpr", "INT64", "", <<c>>),
   E!Node("CaseExpr", "", "", <<E!Nothing, c, A, A, c, E!Nothing>>),
   E!Node("CaseExpr", "", "", <<c, A, A, c>>), E!Node("FunctionCall", "F", "", <<A, c>>),
   Agg("SUM", "DISTINCT", <<E!Nothing, c>>), Agg("LAST", "", <<c, A>>),
   Window(Agg("COUNT", "", <<c, Star>>), <<c, A>>, <<Item(c, "DESC", "LAST"), Item(A, "ASC", "")>>, E!Nothing),
   Window(E!Node("FunctionCall", "F", "", << >>), << >>, <<Item(A, "ASC", "FIRST")>>,
          E!Node("Frame", "ROWS", "", <<Bound("PRECEDING", "", <<c>>), Bound("CURRENT", "ROW", << >>)>>)),
   Window(Agg("MAX", "", <<E!Nothing, A>>), <<c>>, << >>,
          E!Node("Frame", "RANGE", "", <<Bound("UNBOUNDED", "PRECEDING", << >>)>>))}

Leaves == {E!Literal("INTEGER", "1"), E!Literal("word", "NULL"), E!Node("ColumnRef", "ORDER", "T", << >>)}
          \cup {E!Column(n) : n \in {"A", "LAST", "STRING", "UNIT PRICE"}}

TreeCase == /\ input.kind = "none"
            /\ \E e0 \in Leaves : \E e1 \in Around(e0) \cup {e0} :
                 input' = [kind |-> "tree", depth |-> 1, tree |-> e1]

\* One operator more around a tree, of the plain leaf only.
Deeper == /\ input.kind = "tree"
          /\ input.depth < 3
          /\ input.tree \in {A} \cup Around(A) \/ input.depth > 1
          /\ \E e \in Around(input.tree) : input' = [kind |-> "tree", depth |-> input.depth + 1, tree |-> e]

\* What the emitter writes of a tree (emit-sql.ts) parses back to that very
\* tree (lexer.ts, parse.ts): it adds the parentheses the precedences of
\* the grammar need, keeps the order of operands, and quotes the names that
\* are no plain words.  The trees it does not hold of are listed by Plain
\* and are exactly those: it fails on each of them.
TreesSurvive == input.kind = "tree" => E!SurvivesEmit(input.tree)

-----------------------------------------------------------------------------
(* Expressions over columns of several types, two operators deep.          *)
Schema == <<[name |-> "I", table |-> "", type |-> E!T("int32", FALSE)],
            [name |-> "L", table |-> "", type |-> E!T("int64", TRUE)],
            [name |-> "S", table |-> "T", type |-> E!T("string", FALSE)],
            [name |-> "S", table |-> "U", type |-> E!T("date", TRUE)],
            [name |-> "P", table |-> "", type |-> E!T("timestamp", FALSE)],
            [name |-> "J", table |-> "", type |-> E!T("json", FALSE)]>>

Typed == {E!Column(n) : n \in {"I", "L", "S", "P", "J", "Z"}}
         \cup {E!Node("ColumnRef", "S", "U", << >>), E!Literal("word", "NULL"), E!Literal("DECIMAL", "1.5")}

Mixed == {E!Column("L"), E!Column("P"), E!Literal("word", "NULL")}

Yes == E!Literal("word", "TRUE")

Of(x, y) ==
  {E!Binary(op, x, y) : op \in {"+", "||", "<", "AND"}} \cup
  {E!Node("FunctionCall", f, "", <<x, y>>) : f \in {"COALESCE", "GREATEST", "NVL", "NULLIF"}} \cup
  {E!Node("FunctionCall", "IF", "", <<Yes, x, y>>), E!Node("CaseExpr", "", "", <<E!Nothing, Yes, x, Yes, y, E!Nothing>>),
   E!Node("CaseExpr", "", "", <<E!Nothing, Yes, x, y>>), E!Node("UnaryExpr", "-", "", <<x>>),
   E!Node("UnaryExpr", "NOT", "", <<x>>), E!Node("CastExpr", "int64", "", <<x>>),
   E!Node("IsNullExpr", "", "", <<x>>), Agg("SUM", "", <<y, x>>), Agg("MAX", "", <<E!Nothing, x>>),
   Agg("COUNT", "", <<E!Nothing, Star>>)}

TypeCase == /\ input.kind = "none"
            /\ \E x, y \in Typed : \E e \in Of(x, y) : input' = [kind |-> "typed", depth |-> 1, tree |-> e]

TypeDeeper == /\ input.kind = "typed"
              /\ input.depth = 1
              /\ \E y \in Mixed : \E e \in Of(input.tree, y) \cup Of(y, input.tree) :
                   input' = [kind |-> "typed", depth |-> 2, tree |-> e]

\* An expression the checker accepts has a type that every value it can
\* evaluate to belongs to: the branches of CASE, IF, COALESCE and GREATEST
\* are all widened to it, and NULL is a value only where the checker keeps
\* track of it (check.ts, data-types.ts commonType).  Mismatches the checker
\* does not report (Reported) are left aside.
TypesAreSound == input.kind = "typed" => E!TypesHold(input.tree, Schema)

\* An expression is read back as it was written, and has the type of its values.
ExpressionsKeepMeaning == TreesSurvive /\ TypesAreSound

-----------------------------------------------------------------------------
(* DAGs of three tasks, two of which may share an id, and the merged       *)
(* tables the DAG files come from.                                         *)
Deps == {<< >>} \cup {<<x>> : x \in 1..4} \cup {<<x, y>> : x, y \in 1..3} \cup {<<1, 1, 2>>, <<2, 1, 2>>}

OrderCase == /\ input.kind = "none"
             /\ \E ids \in {<<1, 2, 3>>, <<3, 1, 2>>, <<1, 2, 1>>}, d1, d2, d3 \in Deps :
                  input' = [kind |-> "order", tasks |-> <<[id |-> ids[1], dependsOn |-> d1],
                              [id |-> ids[2], dependsOn |-> d2], [id |-> ids[3], dependsOn |-> d3]>>]

Sources == {<<<<"a">>, <<"b", "c">>>>, <<<<"a", "b">>, <<"c">>>>, <<<<"d">>, <<"c">>>>}
Families == [name : {Null, <<"f">>}, source : Sources, lifetime : BOOLEAN]
Merged(name) == [name : {name}, valid : BOOLEAN, specName : {Null, Append(name, "s")},
                 families : {<<f>> : f \in Families} \cup {<<f, g>> : f, g \in Families} \cup {<< >>}]

FilesCase == /\ input.kind = "none"
             /\ \E d \in Merged(<<"t">>), e \in {x \in Merged(<<"Bad">>) : Len(x.families) < 2} :
                  input' = [kind |-> "files", defs |-> <<d, e>>]

\* topoSort orders all the tasks of a DAG after their dependencies, and
\* reports a cycle exactly when there is one; every table that passes
\* validation is deployed by the files generateDags writes, with one
\* Airflow task for each family and each source, in DAGs the renderer can
\* create (dag-topology.ts, dag-generator.ts, renderer.py).
DagsAreComplete ==
  /\ input.kind = "order" => D!SortsTasks(input.tasks)
  /\ input.kind = "files" => D!TablesAreDeployed(input.defs, {<<"Bad">>})

-----------------------------------------------------------------------------
(* Pull requests of up to three files over a few definitions.              *)
Def(kind, name) == [kind |-> kind, name |-> name, shape |-> TRUE, sound |-> TRUE, exprs |-> TRUE,
                    entities |-> {}, dims |-> {}, reads |-> {}, column |-> "", cols |-> {}]

Entity(name) == Def("entity", name)
Dimension(e, c) == [Def("dimension", "d") EXCEPT !.entities = {e}, !.reads = {"s.t"}, !.column = c]
Events(dims, cols) == [Def("logger_table", "s.t") EXCEPT !.dims = dims, !.cols = cols]
Wide(e) == [Def("lattik_table", "w") EXCEPT !.entities = {e}, !.reads = {"s.t"}, !.cols = {"c1"}]
Metric(t) == [Def("metric", "m") EXCEPT !.reads = {t}]

Rows == {Entity("e1"), Dimension("e1", "c1"), Events({}, {"c1"}), Wide("e1"), [Wide("e1") EXCEPT !.shape = FALSE]}
Id(spec) == <<spec.kind, spec.name>>
Databases == {[id \in {Id(r) : r \in defs} |-> CHOOSE r \in defs : Id(r) = id] :
                defs \in {s \in SUBSET Rows : \A x, y \in s : Id(x) = Id(y) => x = y}}

Written == {Entity("e1"), Entity("e2"), Events({}, {"c1"}), Events({"d"}, {"c2"}), Wide("e1"), Wide("e2"),
            Metric("s.t"), Metric("w")} \cup {Dimension(e, c) : e \in {"e1", "e2"}, c \in {"c1", "c2"}}

Change(status, path, previous, spec) == [status |-> status, path |-> path, previous |-> previous, spec |-> spec]
None == <<"", "">>

Changes(db) ==
  {Change(IF Id(s) \in DOMAIN db THEN "modified" ELSE "added", Id(s), None, s) : s \in Written} \cup
  {Change("removed", id, None, Broken) : id \in DOMAIN db} \cup
  {Change("renamed", <<"entity", "e2">>, id, Entity("e2")) : id \in {i \in DOMAIN db : i[1] = "entity"}} \cup
  {Change("added", <<"metric", "n">>, None, Broken),
   Change("added", <<"metric", "m">>, None, [Metric("w") EXCEPT !.sound = FALSE])}

Touched(c) == {c.path, c.previous} \ {None}

PrCase == /\ input.kind = "none"
          /\ \E db \in Databases : \E n \in 1..3 : \E pr \in kSubset(n, Changes(db)) :
               /\ \A c, d \in pr : c # d => Touched(c) \cap Touched(d) = {}
               /\ input' = [kind |-> "pr", db |-> db, pr |-> pr]

\* The check of a pull request passes it exactly when every definition it
\* writes is valid among the definitions as they are after the merge: what
\* it removes is gone, what it adds in the same pull request is there
\* (validate-pr/route.ts, validation/index.ts).
PrCheckMatchesMerge == input.kind = "pr" => P!CheckMatchesMerge(input.db, input.pr)

-----------------------------------------------------------------------------
\* Where steps run again and connections are lost, one turn of the loop is enough.
MCLoopSteps == [a \in RunAgents |-> IF a = "PipelineManager" THEN 1 ELSE 2]
MCStreamFaultSets == {{"retry"}, {"retry", "lost"}, {"refinish", "lost"}, {"fail", "unowned", "lost"}}

\* The stream of a chat run, as stated in ChatStream.
StreamInv == input.kind = "stream" => C!StreamInv

-----------------------------------------------------------------------------
Init ==
  /\ C!Init
  /\ (run.agent = "PipelineManager") = (faults = {"retry", "lost"})
  /\ \/ input = [kind |-> "none"] /\ faults = {"retry"}
     \/ input = [kind |-> "stream"]

Cases == ScanCase \/ DayCase \/ BucketCase \/ TreeCase \/ Deeper \/ TypeCase \/ TypeDeeper \/ OrderCase \/ FilesCase \/ PrCase

Next ==
  \/ Cases /\ UNCHANGED streamVars
  \/ input.kind = "stream" /\ C!Next /\ UNCHANGED input

Spec == Init /\ [][Next]_<<input, streamVars>>
=============================================================================
