----------------------------- MODULE FormState -----------------------------
(***************************************************************************)
(* The definition forms of the Data Architect as data: what a render tool  *)
(* may pass (form-schemas.ts), the state it becomes on the canvas          *)
(* (form-builders.ts), the rows a form shows (data-architect-canvas.tsx),  *)
(* the spec it is saved as (canvas-to-spec.ts) and how a saved spec is     *)
(* read (schema.ts).                                                       *)
(*                                                                         *)
(* An object is a record of the fields that are there; undefined is absent *)
(* and React's _key is the field key.                                      *)
(***************************************************************************)
EXTENDS Naturals, FiniteSets, SequencesExt

CONSTANT LastPart   \* the last segment of the name of each source

Get(o, f, default) == IF f \in DOMAIN o THEN o[f] ELSE default
Only(o, S) == Restrict(o, DOMAIN o \cap S)
Omit(o, S) == Restrict(o, DOMAIN o \ S)
Nothing == [f \in {} |-> f]

\* The fields of an object that are set to something.
NonEmpty(o, S) == Only(o, {f \in S : Get(o, f, "") # ""})

-----------------------------------------------------------------------------
(***************************************************************************)
(* What the agent may pass.                                                *)
(***************************************************************************)

SpecTypes == {"string", "int32", "int64", "float", "double", "boolean", "timestamp", "date", "json"}
FormTypes == SpecTypes \cup {"bytes"}

\* The scalar fields of each form, with what it shows for a field not given.
Defaults ==
  LET named == [name |-> "", description |-> ""] IN
  [entity       |-> named @@ [id_field |-> "", id_type |-> "string"],
   dimension    |-> named @@ [entity |-> "", source_table |-> "", source_column |-> "",
                              data_type |-> "string"],
   logger_table |-> named @@ [retention |-> "30d", dedup_window |-> "1h"],
   lattik_table |-> named @@ [retention |-> "30d"],
   metric       |-> named]

BackfillDefaults == [lookback |-> "30d", parallelism |-> 1]

ListsOf ==
  [entity |-> {}, dimension |-> {}, logger_table |-> {"user_columns"},
   lattik_table |-> {"primary_key", "column_families", "derived_columns"},
   metric |-> {"calculations"}]

\* The fields a row must and may have: strict schemas know no others.
RowFields ==
  [user_columns    |-> [must |-> {"name", "type"}, max |-> 50,
                        may |-> {"dimension", "description", "classification"}],
   primary_key     |-> [must |-> {"column", "entity"}, may |-> {}, max |-> 20],
   column_families |-> [must |-> {"source", "columns"}, may |-> {"name", "key_mapping"}, max |-> 20],
   derived_columns |-> [must |-> {"name", "expr"}, may |-> {}, max |-> 20],
   calculations    |-> [must |-> {"expression", "source_table"}, may |-> {}, max |-> 20]]

\* The fields of a family column that belong to its strategy.
Params ==
  [lifetime_window |-> {"agg"}, prepend_list |-> {"expr", "max_length"},
   bitmap_activity |-> {"granularity", "window"}]

ColumnFits(c) ==
  /\ Get(c, "strategy", "") \in DOMAIN Params
  /\ DOMAIN c = {"name", "strategy"} \cup Params[c.strategy]

Fits(kind, s) ==
  /\ DOMAIN s \subseteq DOMAIN Defaults[kind] \cup ListsOf[kind] \cup
                        (IF kind = "lattik_table" THEN {"backfill"} ELSE {})
  /\ \A l \in ListsOf[kind] \cap DOMAIN s :
       /\ Len(s[l]) <= RowFields[l].max
       /\ \A i \in DOMAIN s[l] :
            /\ RowFields[l].must \subseteq DOMAIN s[l][i]
            /\ DOMAIN s[l][i] \subseteq RowFields[l].must \cup RowFields[l].may
            /\ l = "user_columns" => s[l][i].type \in FormTypes
            /\ l = "column_families" => \A j \in DOMAIN s[l][i].columns : ColumnFits(s[l][i].columns[j])

\* The schema of the tool is narrower: the dimension of a column is the user's.
AgentFits(kind, s) ==
  /\ Fits(kind, s)
  /\ \A i \in DOMAIN Get(s, "user_columns", <<>>) : "dimension" \notin DOMAIN s.user_columns[i]

-----------------------------------------------------------------------------
(***************************************************************************)
(* What it becomes on the canvas.                                          *)
(***************************************************************************)

Keyed(rows, k) == [i \in DOMAIN rows |-> [key |-> Append(k, i)] @@ rows[i]]

FamilyRow(cf, k) ==
  [key |-> k, source |-> cf.source,
   name |-> IF Get(cf, "name", "") # "" THEN cf.name ELSE LastPart[cf.source],
   key_mapping |-> Keyed(Get(cf, "key_mapping", <<>>), Append(k, 1)),
   columns |-> Keyed(cf.columns, Append(k, 2))]

\* The n-th rendering.  What does not fit becomes the empty form.
Rendered(kind, input, n) ==
  LET s == IF Fits(kind, input) THEN input ELSE Nothing
      rows(l) == IF l = "column_families"
                   THEN [i \in DOMAIN Get(s, l, <<>>) |-> FamilyRow(s[l][i], <<n, l, i>>)]
                   ELSE Keyed(Get(s, l, <<>>), <<n, l>>)
  IN Only(s, DOMAIN Defaults[kind]) @@ Defaults[kind] @@ [l \in ListsOf[kind] |-> rows(l)] @@
     IF kind = "lattik_table" THEN [backfill |-> Get(s, "backfill", Nothing) @@ BackfillDefaults]
                              ELSE Nothing

\* dedupKey: the same row is one with the same key or, where neither has a
\* key, the same name.
SameRow(r, s) ==
  \/ "key" \in DOMAIN r /\ "key" \in DOMAIN s /\ r.key = s.key
  \/ /\ "key" \notin DOMAIN r \cup DOMAIN s
     /\ Get(r, "name", "") # "" /\ Get(r, "name", "") = Get(s, "name", "")

Deduped(rows) ==
  LET first == {i \in DOMAIN rows : \A j \in 1..i-1 : ~SameRow(rows[j], rows[i])}
      at == SetToSortSeq(first, <)
  IN [i \in DOMAIN at |-> rows[at[i]]]

\* The state the form works on: the lists of the canvas without duplicates.
Shown(form) ==
  [f \in DOMAIN form.state |-> IF f \in ListsOf[form.kind] THEN Deduped(form.state[f])
                                                            ELSE form.state[f]]

-----------------------------------------------------------------------------
(***************************************************************************)
(* What is saved.                                                          *)
(***************************************************************************)

\* Mutant: the keys are gone before the duplicates are looked for.
CleanedFirst(rows) == Deduped([i \in DOMAIN rows |-> Omit(rows[i], {"key"})])

\* cleanValue: without duplicates, then without keys.
Cleaned(rows) == [i \in DOMAIN Deduped(rows) |-> Omit(Deduped(rows)[i], {"key"})]

CleanedRow(r) ==
  [f \in DOMAIN r |-> IF f \in {"columns", "key_mapping"} THEN Cleaned(r[f]) ELSE r[f]]

Sanitized(form) ==
  [f \in DOMAIN form.state |->
     IF f \in ListsOf[form.kind]
       THEN [i \in DOMAIN Cleaned(form.state[f]) |-> CleanedRow(Cleaned(form.state[f])[i])]
       ELSE form.state[f]]

TrueFlags(c) ==
  {f \in DOMAIN Get(c, "classification", Nothing) : c.classification[f]}

LoggerColumn(c) ==
  Only(c, {"name", "type", "dimension", "description"}) @@
  (IF TrueFlags(c) # {} THEN [classification |-> [f \in TrueFlags(c) |-> TRUE]] ELSE Nothing) @@
  (IF Get(c, "tags", <<>>) # <<>> THEN [tags |-> c.tags] ELSE Nothing)

\* The fields of other strategies, of an earlier edit, are left behind.
FamilyColumn(c) ==
  IF Get(c, "strategy", "") \notin DOMAIN Params THEN c
  ELSE Only(c, {"name", "strategy"} \cup Params[c.strategy]) @@
       NonEmpty(c, IF c.strategy = "bitmap_activity" THEN {"description"} ELSE {"type", "description"})

Mapping(pairs) ==
  LET of(pk) == {i \in DOMAIN pairs : Get(pairs[i], "pk_column", "") = pk}
      pks == {Get(pairs[i], "pk_column", "") : i \in DOMAIN pairs} \ {""}
  IN [pk \in pks |-> pairs[CHOOSE i \in of(pk) : \A j \in of(pk) : j <= i].source_column]

LattikSpec(s) ==
  LET bf == Get(s, "backfill", Nothing)
      own == {f \in DOMAIN bf \cap DOMAIN BackfillDefaults : bf[f] # BackfillDefaults[f]}
      families == [i \in DOMAIN s.column_families |->
                     LET cf == s.column_families[i]
                     IN Only(cf, {"name", "source"}) @@
                        [key_mapping |-> Mapping(cf.key_mapping),
                         columns |-> [j \in DOMAIN cf.columns |-> FamilyColumn(cf.columns[j])]]]
  IN Only(s, {"name", "description"}) @@
     [primary_key |-> s.primary_key, column_families |-> families] @@
     (IF s.derived_columns # <<>> THEN [derived_columns |-> s.derived_columns] ELSE Nothing) @@
     (IF own # {} THEN [backfill |-> Restrict(bf, own)] ELSE Nothing)

\* canvasStateToSpec.
ToSpec(form) ==
  LET s == Sanitized(form) IN
  CASE form.kind \in {"entity", "dimension"} -> Only(s, DOMAIN Defaults[form.kind])
    [] form.kind = "logger_table" ->
         Only(s, DOMAIN Defaults.logger_table) @@
         [columns |-> [i \in DOMAIN s.user_columns |-> LoggerColumn(s.user_columns[i])]]
    [] form.kind = "lattik_table" -> LattikSpec(s)
    [] form.kind = "metric" -> Only(s, {"name", "description", "calculations"})

-----------------------------------------------------------------------------
(***************************************************************************)
(* How it is read.                                                         *)
(***************************************************************************)

\* schema.ts refuses a spec that lacks a field or has a type it does not know.
WellFormed(kind, spec) ==
  CASE kind = "dimension" -> spec.data_type \in SpecTypes
    [] kind = "logger_table" ->
         \A i \in DOMAIN spec.columns :
           {"name", "type"} \subseteq DOMAIN spec.columns[i] /\ spec.columns[i].type \in SpecTypes
    [] kind = "lattik_table" ->
         \A i \in DOMAIN spec.column_families :
           \A c \in ToSet(spec.column_families[i].columns) :
             /\ {"name", "strategy"} \subseteq DOMAIN c /\ c.strategy \in DOMAIN Params
             /\ Params[c.strategy] \subseteq DOMAIN c
    [] OTHER -> TRUE

\* The defaults it fills in.
Parsed(kind, spec) ==
  CASE kind = "logger_table" -> spec @@ [retention |-> "30d", dedup_window |-> "1h"]
    [] kind = "lattik_table" -> spec @@ [derived_columns |-> <<>>]
    [] OTHER -> spec
=============================================================================
