---------------------------- MODULE AnalystCanvas ----------------------------
(***************************************************************************)
(* The canvas of the Data Analyst: queries read page by page from Trino    *)
(* (trino-client.ts) or at once from DuckDB (duckdb-client.ts), the tools  *)
(* that put their results on the canvas, and the tab that shows it, where  *)
(* the user edits the SQL and turns the pages of the table.                *)
(*                                                                         *)
(* agent says which tools: those of the extension's agent hand a copy of   *)
(* the canvas from one to the next and answer with a whole spec of it      *)
(* (spec-builder.ts), "specs"; those of the agent loop answer with an      *)
(* intent of one surface, "intents".  A row is <<query, number>>; charts   *)
(* are of one type.  History: the field of, the query whose outcome a spec *)
(* shows, and cut, that a result with fewer rows came under the table.     *)
(***************************************************************************)
EXTENDS Integers, Sequences, FiniteSets, SequencesExt, FiniteSetsExt

CONSTANTS
  Queries,      \* the SQL there is
  Forbidden,    \* not read-only
  Scans,        \* lattik_scan: for DuckDB
  Sizes,        \* how many rows each has
  Heads,        \* and which columns
  ChartColumns, \* what a chart may be drawn of: sets of column names
  MaxRows, PageSize,
  MaxCalls,     \* bound: tool calls
  MaxTouches    \* bound: steps of the user on the canvas

AnalystAssumption ==
  /\ MaxRows \in Nat /\ PageSize \in Nat \ {0}
  /\ Sizes \in [Queries -> Nat] /\ Heads \in [Queries -> Seq(STRING)]
  /\ ChartColumns \subseteq SUBSET STRING

VARIABLES
  agent,    \* which tools
  tab,      \* the canvas on display: its spec, whether its SQL was edited, the page
  held,     \* the copy of the canvas the tools of one request share; Off between requests
  query,    \* the query that runs; Idle when none does
  out,      \* the answer of the last tool, until the tab shows it
  duckdb,   \* the process's DuckDB: "new", "ready", "failed"
  calls, touches

vars == <<agent, tab, held, query, out, duckdb, calls, touches>>

None == "none"
Off == [off |-> TRUE]
Idle == [phase |-> "idle"]
Nothing == [panels |-> {}]

-----------------------------------------------------------------------------
(* The spec of the canvas and the state the tools read out of it.          *)

NoState == [sql |-> None, columns |-> <<>>, rows |-> <<>>, status |-> None, truncated |-> FALSE,
            chart |-> {}, hidden |-> {}, of |-> None]

Panels(s) ==
  ({"sql"} \ s.hidden)
  \cup (IF s.status = "success" THEN {"stats"} \cup ({"results"} \ s.hidden) ELSE {})
  \cup (IF s.status = "error" THEN {"error"} ELSE {})
  \cup (IF s.chart # {} THEN {"chart"} \ s.hidden ELSE {})

\* An absent SQL is left out the first time; the spec's state holds "" for it,
\* which the next tool takes for a text.
Build(s) ==
  [panels |-> IF s.sql = None THEN Panels(s) \ {"sql"} ELSE Panels(s),
   state |-> [s EXCEPT !.sql = IF @ = None THEN "" ELSE @]]

Extract(spec) == IF spec = Nothing THEN NoState ELSE spec.state

\* What a tool goes on from: the loop's tools know nothing of the canvas.
Current == IF agent = "specs" THEN Extract(held) ELSE NoState

\* What is left when new SQL is shown, or when a query fails.
Cleared(s, sql) == [NoState EXCEPT !.sql = sql, !.hidden = s.hidden]

WithResults(s, q, columns, rows, truncated) ==
  [s EXCEPT !.sql = q, !.of = q, !.columns = columns, !.rows = rows, !.status = "success",
            !.truncated = truncated, !.chart = IF @ \subseteq ToSet(columns) THEN @ ELSE {}]

WithError(s, q) == [Cleared(s, q) EXCEPT !.status = "error", !.of = q]

\* The intents of the agent loop as specs: one surface each, and all of its
\* data in the element's own properties.
Surface(panel, s) == [panels |-> {panel}, state |-> s]

-----------------------------------------------------------------------------
Init ==
  /\ agent \in {"specs", "intents"}
  /\ tab = [spec |-> Nothing, edited |-> FALSE, page |-> 0, cut |-> FALSE]
  /\ held = Off /\ query = Idle /\ out = Nothing /\ duckdb = "new"
  /\ calls = 0 /\ touches = 0

\* The user's message: the agent starts from the canvas the request carries.
Ask ==
  /\ held = Off /\ out = Nothing /\ calls < MaxCalls
  /\ held' = tab.spec
  /\ UNCHANGED <<agent, tab, query, out, duckdb, calls, touches>>

Answer ==
  /\ held # Off /\ query = Idle
  /\ held' = Off
  /\ UNCHANGED <<agent, tab, query, out, duckdb, calls, touches>>

Call ==
  /\ held # Off /\ query = Idle /\ calls < MaxCalls
  /\ calls' = calls + 1

\* A tool's answer: in the loop, nothing is handed on.
Return(s, surface) ==
  IF agent = "specs" THEN held' = Build(s) /\ out' = Build(s)
  ELSE held' = held /\ out' = Surface(surface, s)

-----------------------------------------------------------------------------
(* The tools.                                                              *)

RenderSqlEditor(q) ==
  /\ Call
  /\ Return(Cleared(Current, q), "sql")
  /\ UNCHANGED <<agent, tab, query, duckdb, touches>>

\* The extension's tool checks the columns; the loop's takes the agent's word.
RenderChart(columns) ==
  /\ Call
  /\ IF agent = "specs" /\ ~(columns \subseteq ToSet(Current.columns)) THEN UNCHANGED <<held, out>>
     ELSE Return([Current EXCEPT !.chart = columns], "chart card")
  /\ UNCHANGED <<agent, tab, query, duckdb, touches>>

UpdateLayout(hidden) ==
  /\ Call /\ agent = "specs"
  /\ Return([Current EXCEPT !.hidden = hidden], "")
  /\ UNCHANGED <<agent, tab, query, duckdb, touches>>

\* runQuery: with the agent's SQL, or the one of the copy it holds.
RunQuery(q) ==
  /\ Call
  /\ q # None /\ q # ""
  /\ query' = [phase |-> "running", sql |-> q, columns |-> <<>>, rows |-> <<>>, sent |-> 0, truncated |-> FALSE]
  /\ UNCHANGED <<agent, tab, held, out, duckdb, touches>>

Fails ==
  /\ IF agent = "specs" THEN Return(WithError(Current, query.sql), "") ELSE UNCHANGED <<held, out>>
  /\ query' = Idle

Succeeds(columns, rows, truncated) ==
  /\ Return(WithResults(Current, query.sql, columns, rows, truncated), "result table")
  /\ query' = Idle

\* The extension alone has DuckDB; in the loop all queries are Trino's.
InDuckDb == query.sql \in Scans /\ agent = "specs"

\* An HTTP or a query error, at the submission or at any page, the timeout, or
\* a statement that is refused.
QueryFails ==
  /\ query.phase = "running"
  /\ Fails
  /\ duckdb' \in IF InDuckDb /\ query.sql \notin Forbidden /\ duckdb = "new" THEN {"failed", "ready"} ELSE {duckdb}
  /\ UNCHANGED <<agent, tab, calls, touches>>

Refused == query.sql \in Forbidden \/ (InDuckDb /\ duckdb = "failed")

FirstRows(rows) == SubSeq(rows, 1, Min({Len(rows), MaxRows}))

\* Mutant: a result that is exactly full counts as cut.
CollectedFull(rows, data) ==
  [rows |-> FirstRows(rows \o data), truncated |-> Len(rows \o data) >= MaxRows]

\* The rows of a page are taken one by one until there are maxRows.
Collected(rows, data) ==
  [rows |-> FirstRows(rows \o data), truncated |-> Len(rows \o data) > MaxRows]

AllRows(q) == [i \in 1..Sizes[q] |-> <<q, i>>]

\* One page of Trino's: some of the rows that are left, none at all while it
\* is still at work, and the columns with the first of them at the latest.
TrinoPage(n, last) ==
  LET named == n > 0 \/ last \/ query.columns # <<>>
      columns == IF named THEN Heads[query.sql] ELSE <<>>
      got == Collected(query.rows, SubSeq(AllRows(query.sql), query.sent + 1, query.sent + n))
  IN /\ query.phase = "running" /\ ~Refused /\ ~InDuckDb
     /\ query.sent + n <= Sizes[query.sql]
     /\ last => query.sent + n = Sizes[query.sql]
     /\ IF last \/ got.truncated THEN Succeeds(columns, got.rows, got.truncated)
        ELSE /\ query' = [query EXCEPT !.columns = columns, !.rows = got.rows, !.sent = @ + n]
             /\ UNCHANGED <<held, out>>
     /\ UNCHANGED <<agent, tab, duckdb, calls, touches>>

\* DuckDB has all the rows at once, and the columns are the keys of the first.
DuckDbRows ==
  LET all == AllRows(query.sql) IN
  /\ query.phase = "running" /\ ~Refused /\ InDuckDb
  /\ Succeeds(IF all = <<>> THEN <<>> ELSE Heads[query.sql],
              Collected(<<>>, all).rows, Collected(<<>>, all).truncated)
  /\ duckdb' = "ready"
  /\ UNCHANGED <<agent, tab, calls, touches>>

-----------------------------------------------------------------------------
(* The tab.                                                                *)

\* An answer with the panels on display keeps the SQL the user has edited; the
\* table keeps its page as long as it stays on the canvas.
Show ==
  /\ out # Nothing
  /\ LET same == tab.spec.panels = out.panels
         stays == "results" \in tab.spec.panels \cap out.panels
         fewer == IF stays THEN Len(out.state.rows) < Len(tab.spec.state.rows) ELSE FALSE
     IN tab' = [spec |-> IF same /\ tab.edited THEN [out EXCEPT !.state.sql = tab.spec.state.sql] ELSE out,
                edited |-> same /\ tab.edited,
                page |-> IF stays THEN tab.page ELSE 0,
                cut |-> stays /\ (tab.cut \/ fewer)]
  /\ out' = Nothing
  /\ UNCHANGED <<agent, held, query, duckdb, calls, touches>>

Touch == touches < MaxTouches /\ touches' = touches + 1

EditSql(q) ==
  /\ Touch /\ "sql" \in tab.spec.panels
  /\ q # tab.spec.state.sql
  /\ tab' = [tab EXCEPT !.spec.state.sql = q, !.edited = TRUE]
  /\ UNCHANGED <<agent, held, query, out, duckdb, calls>>

TotalPages == (Len(tab.spec.state.rows) + PageSize - 1) \div PageSize

\* The buttons are there when the table has more than one page.
TurnPage(by) ==
  /\ Touch /\ "results" \in tab.spec.panels
  /\ TotalPages > 1
  /\ IF by = 1 THEN tab.page < TotalPages - 1 ELSE tab.page # 0
  /\ tab' = [tab EXCEPT !.page = @ + by]
  /\ UNCHANGED <<agent, held, query, out, duckdb, calls>>

Tools ==
  \/ \E q \in Queries : RenderSqlEditor(q) \/ RunQuery(q)
  \/ \E c \in ChartColumns : RenderChart(c)
  \/ \E h \in {{}, {"sql"}, {"results", "chart"}} : UpdateLayout(h)
  \/ held # Off /\ agent = "specs" /\ RunQuery(Current.sql)

Next ==
  \/ Ask \/ Answer \/ Tools \/ Show
  \/ QueryFails \/ DuckDbRows
  \/ \E n \in 0..MaxRows + 1, last \in BOOLEAN : TrinoPage(n, last)
  \/ \E q \in Queries : EditSql(q)
  \/ \E by \in {-1, 1} : TurnPage(by)

Spec == Init /\ [][Next]_vars

-----------------------------------------------------------------------------
(* Properties.                                                             *)

Shown == {s \in {tab.spec, held, out} : s # Nothing /\ s # Off}

\* What a spec shows as the results of a query are its first maxRows rows, in
\* order, under its columns, and it says that there are more exactly when there
\* are; after an error there is neither an older result nor a chart.
ResultsAreTheQuerys ==
  \A spec \in Shown :
    LET s == spec.state IN
    /\ s.status = "success" =>
         /\ s.rows = FirstRows(AllRows(s.of))
         /\ s.truncated = (Sizes[s.of] > MaxRows)
         /\ s.columns = Heads[s.of] \/ s.rows = <<>>
    /\ s.status # "success" => s.rows = <<>> /\ s.columns = <<>> /\ (agent = "specs" => s.chart = {})

\* A chart of the extension's is drawn of columns its results have, whichever
\* queries ran since it was asked for.
ChartFits ==
  agent = "specs" => \A spec \in Shown : spec.state.chart \subseteq ToSet(spec.state.columns)

\* The table shows a page that has rows, unless a result with fewer rows came
\* under the page the user had turned to.
PageHasRows ==
  "results" \in tab.spec.panels /\ tab.page > 0 /\ ~tab.cut => tab.page < TotalPages

\* What the analyst's canvas shows, in all its copies.
AnalystInv == ResultsAreTheQuerys /\ ChartFits /\ PageHasRows
=============================================================================
