---------------------------- MODULE CanvasForms ----------------------------
(***************************************************************************)
(* A form on the canvas and the hands that change it: the agent, which     *)
(* renders it (render-forms.ts); the user, who edits its fields and rows   *)
(* (registry.tsx), the columns of a table in a popup; and the cards of a   *)
(* review (review-definition.ts, review-suggestions.tsx), patches against  *)
(* the state the reviewer saw.                                             *)
(*                                                                         *)
(* Rows are addressed by their place: a popup remembers the place it was   *)
(* opened on, a card the place the reviewer saw.  The keys on and seen     *)
(* below remember the row that was there, and moved whether another hand   *)
(* has changed the form since; the code has neither.                       *)
(***************************************************************************)
EXTENDS FormState, TLC

CONSTANTS
  Inputs,       \* what the agent renders: [kind, input]
  Fills,        \* the changes the user makes in a popup
  Fields,       \* the values the user puts into a field of a form
  Patches,      \* the patches a reviewer suggests: [path, value]
  BadNames,     \* names that are not in snake case
  MaxRenders,   \* bound: renderings
  MaxEdits      \* bound: edits of the user

VARIABLES
  form,     \* the form: kind and state
  edited,   \* the paths the user has edited
  popup,    \* the popup of a table's form
  cards,    \* the cards of the last review
  made,     \* renderings, and rows made by hand
  edits     \* counts the edits

vars == <<form, edited, popup, cards, made, edits>>

Closed == [mode |-> "none"]

Init ==
  /\ \E in \in Inputs : form = [kind |-> in.kind, state |-> Rendered(in.kind, in.input, 1)]
  /\ edited = {} /\ popup = Closed /\ cards = <<>> /\ made = 1 /\ edits = 0

-----------------------------------------------------------------------------
(* Values at a path, as a sequence that is empty where there is none.       *)

RECURSIVE ValueAt(_, _), SetAt(_, _, _)

ValueAt(o, path) ==
  IF path = <<>> THEN <<o>>
  ELSE IF Head(path) \notin DOMAIN o THEN <<>> ELSE ValueAt(o[Head(path)], Tail(path))

SetAt(o, path, value) ==
  LET f == Head(path) IN
  IF Len(path) > 1 THEN (f :> SetAt(Get(o, f, Nothing), Tail(path), value)) @@ o
  ELSE IF value = <<>> THEN Omit(o, {f}) ELSE (f :> value[1]) @@ o

\* mergeStateChanges.
Write(path, value) ==
  /\ form' = [form EXCEPT !.state = SetAt(@, path, <<value>>)]
  /\ edited' = edited \cup {path}

\* The agent renders the same form again or another one.  In the same form
\* what the user has edited stays, path by path; the popup stays open.
Render(in) ==
  LET new == Rendered(in.kind, in.input, made + 1)
      kept == {p \in edited : ValueAt(form.state, p) # ValueAt(new, p)}
  IN /\ made < MaxRenders /\ made' = made + 1
     /\ AgentFits(in.kind, in.input)
     /\ IF in.kind = form.kind
          THEN /\ form' = [form EXCEPT !.state =
                             FoldSet(LAMBDA p, s : SetAt(s, p, ValueAt(form.state, p)), new, kept)]
               /\ popup' = IF popup = Closed THEN popup ELSE [popup EXCEPT !.moved = TRUE]
               /\ UNCHANGED edited
          ELSE /\ form' = [kind |-> in.kind, state |-> new]
               /\ edited' = {} /\ popup' = Closed
     /\ cards' = [i \in DOMAIN cards |-> [cards[i] EXCEPT !.moved = TRUE]]
     /\ UNCHANGED edits

-----------------------------------------------------------------------------
(***************************************************************************)
(* The user: fields, primary keys and calculations, edited in place.       *)
(***************************************************************************)

\* The rows of a list as the form has them.
Rows(l) == IF l \in ListsOf[form.kind] THEN Shown(form)[l] ELSE <<>>

Without(rows, i) == RemoveAt(rows, i)

\* The places of a list are no longer those the cards were made for.
Shift == cards' = [i \in DOMAIN cards |-> [cards[i] EXCEPT !.moved = TRUE]]

Edit == popup = Closed /\ edits < MaxEdits /\ edits' = edits + 1

\* The inputs of the name, the description and the other scalar fields.
SetField(f, v) ==
  /\ Edit /\ f \in DOMAIN Defaults[form.kind] /\ form.state[f] # v
  /\ Write(<<f>>, v)
  /\ UNCHANGED <<popup, cards, made>>

\* "add" of a primary key or a calculation: an empty row, to be filled in.
AddRow(l) ==
  LET fields == RowFields[l].must IN
  /\ Edit /\ l \in {"primary_key", "calculations"} \cap ListsOf[form.kind]
  /\ Write(<<l>>, Append(Rows(l), [key |-> <<edits>>] @@ [f \in fields |-> ""]))
  /\ Shift /\ UNCHANGED <<popup, made>>

\* updatePk, updateCalc: as it is typed.
UpdateRow(l, i, f, v) ==
  /\ Edit /\ l \in {"primary_key", "calculations"} \cap ListsOf[form.kind]
  /\ i \in DOMAIN Rows(l) /\ f \in RowFields[l].must /\ Rows(l)[i][f] # v
  /\ Write(<<l>>, [Rows(l) EXCEPT ![i] = (f :> v) @@ @])
  /\ UNCHANGED <<popup, cards, made>>

RemoveRow(l, i) ==
  /\ Edit /\ l \in {"primary_key", "calculations", "user_columns"}
  /\ i \in DOMAIN Rows(l)
  /\ Write(<<l>>, Without(Rows(l), i))
  /\ Shift /\ UNCHANGED <<popup, made>>

-----------------------------------------------------------------------------
(***************************************************************************)
(* The columns of a lattik table: those of the families, and the derived   *)
(* ones.                                                                   *)
(***************************************************************************)

NoFamily == <<>>   \* the derived columns, among the keys of families

Families == Rows("column_families")
ColumnsOf(k) ==
  IF k = NoFamily THEN Rows("derived_columns")
  ELSE Families[CHOOSE i \in DOMAIN Families : Families[i].key = k].columns

ColumnLists == IF form.kind = "lattik_table"
                 THEN {NoFamily} \cup {Families[i].key : i \in DOMAIN Families} ELSE {}

\* The table shows the columns that have a name.
Named(columns) == SelectSeq(columns, LAMBDA c : Get(c, "name", "") # "")

WriteColumns(k, columns) ==
  IF k = NoFamily THEN Write(<<"derived_columns">>, columns)
  ELSE Write(<<"column_families">>,
             [i \in DOMAIN Families |-> IF Families[i].key = k
                                          THEN [Families[i] EXCEPT !.columns = columns]
                                          ELSE Families[i]])

\* Mutant: the column before the one shown.
RemoveColumnBefore(k, i) ==
  /\ Edit /\ k \in ColumnLists /\ i \in DOMAIN Named(ColumnsOf(k))
  /\ WriteColumns(k, Without(ColumnsOf(k), IF i > 1 THEN i - 1 ELSE i))
  /\ Shift /\ UNCHANGED <<popup, made>>

\* removeCol takes the place among the columns shown for that among all.
RemoveColumn(k, i) ==
  /\ Edit /\ k \in ColumnLists /\ i \in DOMAIN Named(ColumnsOf(k))
  /\ WriteColumns(k, Without(ColumnsOf(k), i))
  /\ Shift /\ UNCHANGED <<popup, made>>

-----------------------------------------------------------------------------
(***************************************************************************)
(* The popup that adds or edits a column.                                  *)
(***************************************************************************)

EmptyLoggerDraft ==
  [name |-> "", type |-> "", description |-> "", dimension |-> "",
   classification |-> Nothing, tags |-> <<>>]

EmptyColumnDraft ==
  [name |-> "", derived |-> FALSE, strategy |-> "lifetime_window", expr |-> "", source |-> "",
   description |-> "", max_length |-> 10, granularity |-> "day", window |-> 365]

Opened(mode, list, i, on, draft) ==
  [mode |-> mode, list |-> list, i |-> i, on |-> on, draft |-> draft, filled |-> FALSE, moved |-> FALSE]

OpenAdd ==
  /\ popup = Closed /\ edits < MaxEdits
  /\ popup' = CASE form.kind = "logger_table" -> Opened("add", NoFamily, 0, <<>>, EmptyLoggerDraft)
                [] form.kind = "lattik_table" -> Opened("add", NoFamily, 0, <<>>, EmptyColumnDraft)
                [] OTHER -> Closed
  /\ UNCHANGED <<form, edited, cards, made, edits>>

\* startEdit of a logger table.
StartEdit(i) ==
  /\ popup = Closed /\ edits < MaxEdits /\ i \in DOMAIN Rows("user_columns")
  /\ LET c == Rows("user_columns")[i]
     IN popup' = Opened("edit", NoFamily, i, Get(c, "key", <<>>),
                        Only(c, DOMAIN EmptyLoggerDraft) @@ [EmptyLoggerDraft EXCEPT !.type = "string"])
  /\ UNCHANGED <<form, edited, cards, made, edits>>

\* startEditCol of a lattik table: the row clicked is the i-th shown.
StartEditCol(k, i) ==
  /\ popup = Closed /\ edits < MaxEdits
  /\ k \in ColumnLists /\ i \in DOMAIN Named(ColumnsOf(k))
  /\ LET c == ColumnsOf(k)[i]
         old == Only(c, {"name", "expr", "description", "strategy", "max_length",
                         "granularity", "window"}) @@
                (IF Get(c, "agg", "") # "" THEN [expr |-> c.agg] ELSE Nothing) @@ EmptyColumnDraft
     IN popup' = Opened("edit", k, i, Named(ColumnsOf(k))[i].key,
                        IF k = NoFamily THEN [old EXCEPT !.derived = TRUE]
                        ELSE [old EXCEPT !.source =
                                Families[CHOOSE f \in DOMAIN Families : Families[f].key = k].source])
  /\ UNCHANGED <<form, edited, cards, made, edits>>

Close ==
  /\ popup # Closed /\ popup' = Closed
  /\ UNCHANGED <<form, edited, cards, made, edits>>

\* toggleClassification.
Toggled(c, flag) == IF Get(c, flag, FALSE) THEN Omit(c, {flag}) ELSE (flag :> TRUE) @@ c

\* A change in a popup.  A tag is committed once; Derived clears the source.
Filled(d, f, v) ==
  CASE f = "flag" -> [d EXCEPT !.classification = Toggled(@, v)]
    [] f = "tag" -> [d EXCEPT !.tags = IF Contains(@, v) THEN @ ELSE Append(@, v)]
    [] f = "untag" -> [d EXCEPT !.tags = SelectSeq(@, LAMBDA t : t # v)]
    [] f = "derived" /\ v -> [d EXCEPT !.derived = TRUE, !.source = ""]
    [] OTHER -> [d EXCEPT ![f] = v]

\* What the user changes in a popup, in some order.  An edited column stays in
\* its family: the mode is not offered.
Fill(changes) ==
  /\ popup # Closed /\ ~popup.filled
  /\ \A i \in DOMAIN changes :
       /\ changes[i][1] \in DOMAIN popup.draft \cup
                            (IF form.kind = "logger_table" THEN {"flag", "tag", "untag"} ELSE {})
       /\ changes[i][1] = "derived" => popup.mode = "add"
  /\ popup' = [popup EXCEPT !.filled = TRUE, !.draft =
                 FoldLeft(LAMBDA d, c : Filled(d, c[1], c[2]), @, changes)]
  /\ UNCHANGED <<form, edited, cards, made, edits>>

\* addCol and saveEdit of a logger table.
LoggerRow(d) ==
  [name |-> d.name, type |-> d.type] @@ NonEmpty(d, {"description", "dimension"}) @@
  (IF d.classification # Nothing THEN [classification |-> d.classification] ELSE Nothing) @@
  (IF d.tags # <<>> THEN [tags |-> d.tags] ELSE Nothing)

SaveLogger ==
  /\ popup # Closed /\ form.kind = "logger_table"
  /\ popup.draft.name # "" /\ popup.draft.dimension \notin BadNames
  /\ LET rows == Rows("user_columns")
     IN Write(<<"user_columns">>,
          IF popup.mode = "add"
            THEN Append(rows, [key |-> <<edits>>] @@ LoggerRow(popup.draft))
            ELSE [i \in DOMAIN rows |->
                    IF i = popup.i THEN LoggerRow(popup.draft) @@ Omit(rows[i], DOMAIN EmptyLoggerDraft)
                                   ELSE rows[i]])
  /\ IF popup.mode = "add" THEN Shift ELSE UNCHANGED cards
  /\ popup' = Closed /\ edits' = edits + 1 /\ UNCHANGED made

\* buildFamilyCol, and the column addCol makes.
FamilyRowOf(d) ==
  [name |-> d.name, strategy |-> d.strategy] @@ NonEmpty(d, {"description"}) @@
  CASE d.strategy = "lifetime_window" -> [agg |-> d.expr]
    [] d.strategy = "prepend_list" -> [expr |-> d.expr, max_length |-> d.max_length]
    [] d.strategy = "bitmap_activity" -> [granularity |-> d.granularity, window |-> d.window]

DerivedRowOf(d) == [name |-> d.name, expr |-> d.expr] @@ NonEmpty(d, {"description"})

\* A strategy other than bitmap needs an expression, even the one a derived
\* column was given before it was one.
Savable(d) == d.name # "" /\ (d.strategy # "bitmap_activity" => d.expr # "")

\* saveCol: the family is found by its key, the column by its place.
SaveColumn ==
  LET d == popup.draft
      columns == ColumnsOf(popup.list)
      new == IF popup.list = NoFamily THEN DerivedRowOf(d) ELSE FamilyRowOf(d)
      old(c) == Omit(c, {"description"} \cup UNION {Params[s] : s \in DOMAIN Params})
  IN /\ popup # Closed /\ form.kind = "lattik_table" /\ popup.mode = "edit" /\ Savable(d)
     /\ IF popup.list \in ColumnLists
          THEN WriteColumns(popup.list, [i \in DOMAIN columns |-> IF i = popup.i THEN new @@ old(columns[i])
                                                                                 ELSE columns[i]])
          ELSE Write(<<"column_families">>, Families)
     /\ popup' = Closed /\ edits' = edits + 1 /\ UNCHANGED <<cards, made>>

\* Mutant: the family of a source is the one of its name.
FamilyNamed(source) == {i \in DOMAIN Families : Families[i].name = LastPart[source]}

FamilyOf(source) == {i \in DOMAIN Families : Families[i].source = source}

\* addCol: into the first family of the source, or a new one whose key
\* mapping is that of the primary keys now.
AddColumn ==
  LET d == popup.draft
      key == <<edits>>
      row == [key |-> key] @@ FamilyRowOf(d)
      found == FamilyOf(d.source)
      first == CHOOSE i \in found : \A j \in found : i <= j
      pks == SelectSeq(Rows("primary_key"), LAMBDA pk : pk.column # "")
  IN /\ popup # Closed /\ form.kind = "lattik_table" /\ popup.mode = "add" /\ Savable(d)
     /\ CASE d.derived ->
               Write(<<"derived_columns">>, Append(Rows("derived_columns"), [key |-> key] @@ DerivedRowOf(d)))
          [] ~d.derived /\ d.source = "" -> UNCHANGED <<form, edited>>
          [] ~d.derived /\ d.source # "" /\ found # {} ->
               WriteColumns(Families[first].key, Append(Families[first].columns, row))
          [] ~d.derived /\ d.source # "" /\ found = {} ->
               Write(<<"column_families">>, Append(Families,
                 [key |-> <<edits, 1>>, name |-> LastPart[d.source], source |-> d.source,
                  key_mapping |-> [i \in DOMAIN pks |-> [key |-> <<edits, 2, i>>, pk_column |-> pks[i].column,
                                                         source_column |-> pks[i].column]],
                  columns |-> <<row>>]))
     /\ Shift /\ popup' = Closed /\ edits' = edits + 1 /\ UNCHANGED made

-----------------------------------------------------------------------------
(***************************************************************************)
(* The review.                                                             *)
(***************************************************************************)

\* The key of the row of a path, which the reviewer does not see.
RowOf(path) ==
  LET row == ValueAt(Shown(form), SubSeq(path, 1, IF Len(path) = 5 THEN 4 ELSE 2))
  IN IF Len(path) = 1 \/ row = <<>> THEN <<>> ELSE Get(row[1], "key", <<>>)

\* A path stays within its lists, or is at their end.
Reaches(state, path) ==
  \A n \in {2, 4} : (n <= Len(path) /\ (n = 4 => Len(path) = 5)) =>
    LET list == ValueAt(state, SubSeq(path, 1, n - 1))
    IN list # <<>> /\ path[n] \in 1..Len(list[1]) + (IF n = Len(path) THEN 1 ELSE 0)

\* reviewDefinition: the reviewer's paths are places in the sanitized state.
Review(patches) ==
  /\ \A i \in DOMAIN cards : cards[i].decision # "none"
  /\ \A i \in DOMAIN patches : Reaches(Sanitized(form), patches[i].path)
  /\ cards' = [i \in DOMAIN patches |-> patches[i] @@
                [decision |-> "none", seen |-> RowOf(patches[i].path),
                 moved |-> Shown(form) # form.state]]
  /\ UNCHANGED <<form, edited, popup, made, edits>>

\* handleDecision: an accepted patch is merged into the state as an edit.  One
\* that has come to lie beyond its list is left out.
Accept(i) ==
  /\ i \in DOMAIN cards /\ cards[i].decision = "none" /\ Reaches(form.state, cards[i].path)
  /\ Write(cards[i].path, cards[i].value)
  /\ cards' = [cards EXCEPT ![i].decision = "accepted"]
  /\ popup' = IF popup # Closed /\ Len(cards[i].path) = 2 THEN [popup EXCEPT !.moved = TRUE] ELSE popup
  /\ UNCHANGED <<made, edits>>

Deny(i) ==
  /\ i \in DOMAIN cards /\ cards[i].decision = "none"
  /\ cards' = [cards EXCEPT ![i].decision = "denied"]
  /\ UNCHANGED <<form, edited, popup, made, edits>>

Next ==
  \/ \E in \in Inputs : Render(in)
  \/ \E p \in Fields : SetField(p[1], p[2])
  \/ \E l \in {"primary_key", "calculations", "user_columns"} :
       \/ AddRow(l)
       \/ \E i \in 1..3 : RemoveRow(l, i) \/ \E p \in Fields : UpdateRow(l, i, p[1], p[2])
  \/ \E k \in ColumnLists, i \in 1..3 : RemoveColumn(k, i) \/ StartEditCol(k, i)
  \/ OpenAdd \/ Close \/ SaveLogger \/ SaveColumn \/ AddColumn
  \/ \E i \in 1..3 : StartEdit(i) \/ Accept(i) \/ Deny(i)
  \/ \E changes \in Fills : Fill(changes)
  \/ \E patches \in Patches : Review(patches)

Spec == Init /\ [][Next]_vars

-----------------------------------------------------------------------------
(***************************************************************************)
(* Properties.                                                             *)
(***************************************************************************)

LoggerView(c) ==
  [name |-> Get(c, "name", ""), type |-> Get(c, "type", ""), tags |-> Get(c, "tags", <<>>),
   description |-> Get(c, "description", ""), dimension |-> Get(c, "dimension", ""),
   flags |-> TrueFlags(c)]

ColumnView(c) ==
  NonEmpty(c, {"name", "strategy", "description"}) @@
  Only(c, IF Get(c, "strategy", "") \in DOMAIN Params THEN Params[c.strategy] ELSE {"expr"})

ViewOf(kind, s) ==
  [fields |-> [f \in DOMAIN Defaults[kind] \ (IF kind = "lattik_table" THEN {"retention"} ELSE {}) |->
                 Get(s, f, Defaults[kind][f])],
   columns |-> IF kind # "logger_table" THEN <<>>
               ELSE [i \in DOMAIN s.user_columns |-> LoggerView(s.user_columns[i])],
   families |-> IF kind # "lattik_table" THEN <<>>
                ELSE [i \in DOMAIN s.column_families |->
                        LET cf == s.column_families[i]
                        IN <<cf.name, cf.source, [j \in DOMAIN cf.columns |-> ColumnView(cf.columns[j])]>>],
   derived |-> IF kind # "lattik_table" THEN <<>>
               ELSE [i \in DOMAIN s.derived_columns |-> ColumnView(s.derived_columns[i])],
   rows |-> [l \in ListsOf[kind] \cap {"primary_key", "calculations"} |->
               [i \in DOMAIN s[l] |-> Omit(s[l][i], {"key"})]]]

Respelled(kind, spec) == IF kind = "logger_table" THEN [user_columns |-> spec.columns] @@ spec ELSE spec

\* "what the reviewer sees and what the user sees agree" (canvas-to-spec.ts:61):
\* whatever the agent, the user and the reviewer have done to a form, the spec
\* saved from it, read with the defaults of its schema, is what the form shows:
\* every row in its place, none merged with another of the same name, the flags
\* that are set, the fields of the column's strategy.  The retention of a lattik
\* table is not saved.
SavedIsShown ==
  LET spec == ToSpec(form) IN
  WellFormed(form.kind, spec) =>
    ViewOf(form.kind, Respelled(form.kind, Parsed(form.kind, spec))) = ViewOf(form.kind, Shown(form))

\* The rows of a form, those of the families apart from the families.
Leaves(f) ==
  LET s == Shown(f) IN
  UNION {ToSet(s[l]) : l \in ListsOf[f.kind] \ {"column_families"}} \cup
  IF f.kind # "lattik_table" THEN {}
  ELSE UNION {{Omit(cf, {"columns", "key_mapping"})} \cup ToSet(cf.columns) : cf \in ToSet(s.column_families)}

RowsOf(f, k) == {r \in Leaves(f) : Get(r, "key", <<>>) = k}

\* The keys of the rows that are not the same in two forms.
Touched(f, g) ==
  {k \in {Get(r, "key", <<>>) : r \in Leaves(f) \cup Leaves(g)} : RowsOf(f, k) # RowsOf(g, k)}

AllNamed(columns) == \A c \in ToSet(columns) : Get(c, "name", "") # ""

\* An edit lands on the row it was meant for, although rows are addressed by
\* their place: removing a row removes the one clicked; saving a popup changes
\* the column it was opened on, and an accepted card the row its reviewer saw,
\* unless the agent has rendered the form since or rows were added or removed; a new
\* column joins the family of its source and leaves the other rows alone.
\* Columns without a name, which the table does not show, shift the places of a
\* family (registry.tsx:1989).
EditsLand ==
  [][form' # form =>
     /\ \A l \in {"primary_key", "calculations", "user_columns"}, i \in 1..3 :
          RemoveRow(l, i) => Touched(form, form') = {Get(Rows(l)[i], "key", <<>>)}
     /\ \A k \in ColumnLists, i \in 1..3 :
          RemoveColumn(k, i) /\ AllNamed(ColumnsOf(k)) =>
            Touched(form, form') = {Named(ColumnsOf(k))[i].key}
     /\ (SaveLogger \/ SaveColumn) /\ popup.mode = "edit" /\ ~popup.moved
          /\ (popup.list \in ColumnLists => AllNamed(ColumnsOf(popup.list)))
          => Touched(form, form') \subseteq {popup.on}
     /\ SaveLogger /\ popup.mode = "add" => Touched(form, form') = {<<edits>>}
     /\ AddColumn => /\ Touched(form, form') \subseteq {<<edits>>, <<edits, 1>>}
                     /\ \A cf \in ToSet(Shown(form').column_families) :
                          (\E c \in ToSet(cf.columns) : c.key = <<edits>>) => cf.source = popup.draft.source
     /\ \A i \in 1..3 : Accept(i) /\ ~cards[i].moved => Touched(form, form') \subseteq {cards[i].seen, <<>>}]_vars
=============================================================================
