------------------------------ MODULE PrCheck -------------------------------
(***************************************************************************)
(* The check of a pull request over definitions before it is merged: the   *)
(* validate-pr route, the validators it runs on a virtual snapshot, and    *)
(* the validators the agents run on what is merged (validation/index.ts).  *)
(*                                                                         *)
(* A definition is identified by <<kind, name>>, from its path.  A spec is *)
(* a record [kind, name, shape, sound, exprs, entities, dims, reads,       *)
(* column, cols]: whether it passes the schema of its kind, the checks on  *)
(* names, descriptions and windows, and those on expressions; the          *)
(* entities, dimensions and tables it names; the column a dimension reads, *)
(* and the columns a table has.                                            *)
(***************************************************************************)
EXTENDS Integers, FiniteSets, SequencesExt

CONSTANT Broken    \* a file that cannot be fetched or is no YAML

TableKinds == {"logger_table", "lattik_table"}

\* A change of a pull request is a record [status, path, previous, spec].
\* removes and upserts, from the status GitHub gives of each file.
Removes(pr) == {c.path : c \in {x \in pr : x.status = "removed"}}
               \cup {c.previous : c \in {x \in pr : x.status = "renamed"}}

Upserts(pr) == {c \in pr : c.status \in {"added", "modified", "renamed", "copied", "changed"}}

\* pending: what could be read; an unreadable file is an error of its own.
Pending(pr) == {c \in Upserts(pr) : c.spec # Broken}

-----------------------------------------------------------------------------
(* The merged definitions are a function from identities to specs.         *)

\* Mutant: the names a pull request removes stay.
BuildNamesKept(kind, db, pr) == {id[2] : id \in {i \in DOMAIN db \cup {c.path : c \in Pending(pr)} : i[1] = kind}}

\* buildNames, for one kind.
BuildNames(kind, db, pr) ==
  {id[2] : id \in {i \in (DOMAIN db \ Removes(pr)) \cup {c.path : c \in Pending(pr)} : i[1] = kind}}

\* The specs of one kind of table that pass the schema, the merged ones first.
ParsedTables(kind, db, pr) ==
  LET merged == {id \in DOMAIN db \ Removes(pr) : id[1] = kind /\ db[id].shape}
      fresh  == {c \in Pending(pr) : c.path[1] = kind /\ c.spec.shape}
  IN SetToSeq({db[id] : id \in merged}) \o SetToSeq({c.spec : c \in fresh})

Snapshot(db, pr) ==
  [entityNames |-> BuildNames("entity", db, pr), dimensionNames |-> BuildNames("dimension", db, pr),
   tableNames |-> UNION {BuildNames(k, db, pr) : k \in TableKinds},
   tables |-> ParsedTables("logger_table", db, pr) \o ParsedTables("lattik_table", db, pr)]

\* validateTableExists over parsed tables.
TableExists(name, tables) == \E i \in DOMAIN tables : tables[i].name = name

\* validateColumnExists: of the tables of that name, the first is looked at.
ColumnExists(name, column, tables) ==
  LET named == SelectSeq(tables, LAMBDA t : t.name = name)
  IN named # << >> /\ column \in named[1].cols

\* validateAgainstSnapshot
PassesSnapshot(spec, snap) ==
  /\ spec.shape /\ spec.sound
  /\ spec.kind \in {"dimension", "lattik_table"} => spec.entities \subseteq snap.entityNames
  /\ spec.kind \in {"dimension", "lattik_table"} => \A t \in spec.reads : TableExists(t, snap.tables)
  /\ spec.kind = "dimension" => \A t \in spec.reads : ColumnExists(t, spec.column, snap.tables)
  /\ spec.kind = "logger_table" => spec.dims \subseteq snap.dimensionNames
  /\ spec.kind = "metric" => spec.reads \subseteq snap.tableNames

\* POST: the verdict, which a pull request without definitions always gets.
Ok(db, pr) == /\ Pending(pr) = Upserts(pr)
              /\ \A c \in Pending(pr) : PassesSnapshot(c.spec, Snapshot(db, pr))

-----------------------------------------------------------------------------
(* validate, which the agents' static checks run on the merged             *)
(* definitions; the loaders skip a merged table that fails the schema.     *)

MergedNames(kinds, db) == {id[2] : id \in {i \in DOMAIN db : i[1] \in kinds}}

MergedTables(db) == {db[id] : id \in {i \in DOMAIN db : i[1] \in TableKinds /\ db[i].shape}}

ValidateDimension(spec, db) ==
  /\ spec.entities \subseteq MergedNames({"entity"}, db)
  /\ \A t \in spec.reads : \E table \in MergedTables(db) : table.name = t /\ spec.column \in table.cols

ValidateLattikTable(spec, db) ==
  /\ spec.entities \subseteq MergedNames({"entity"}, db)
  /\ \A t \in spec.reads : \E table \in MergedTables(db) : table.name = t
  /\ spec.exprs

Validate(spec, db) ==
  /\ spec.shape /\ spec.sound
  /\ CASE spec.kind = "entity"       -> TRUE
       [] spec.kind = "dimension"    -> ValidateDimension(spec, db)
       [] spec.kind = "logger_table" -> spec.dims \subseteq MergedNames({"dimension"}, db)
       [] spec.kind = "lattik_table" -> ValidateLattikTable(spec, db)
       [] spec.kind = "metric"       -> spec.exprs /\ spec.reads \subseteq MergedNames(TableKinds, db)

-----------------------------------------------------------------------------
(* What the check promises: it passes the pull requests after whose merge  *)
(* every definition they write is valid.                                   *)

AfterMerge(db, pr) ==
  [id \in (DOMAIN db \ Removes(pr)) \cup {c.path : c \in Upserts(pr)} |->
     IF \E c \in Upserts(pr) : c.path = id THEN (CHOOSE c \in Upserts(pr) : c.path = id).spec ELSE db[id]]

\* A pull request that rewrites a table and a dimension that reads it: the
\* dimension is checked against the columns the table had.
ReadsRewritten(db, pr) ==
  \E c, d \in Pending(pr) : /\ c.path \in DOMAIN db \ Removes(pr) /\ c.path[1] \in TableKinds
                            /\ d.spec.kind = "dimension" /\ c.path[2] \in d.spec.reads

\* The expressions, which only the agents check, left aside.
CheckMatchesMerge(db, pr) ==
  ~ ReadsRewritten(db, pr) =>
    (Ok(db, pr) <=> \A c \in Upserts(pr) : /\ c.spec # Broken
                                           /\ Validate([c.spec EXCEPT !.exprs = TRUE], AfterMerge(db, pr)))
=============================================================================
