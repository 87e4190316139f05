------------------------------- MODULE Stitch -------------------------------
(***************************************************************************)
(* How a Lattik Table is written and read back: the Spark drivers spread   *)
(* a load over buckets and merge a day into the running value of every     *)
(* column, the Trino connector turns a query into a stitch session, and    *)
(* the Rust core joins the loads of the columns on the primary key.        *)
(*                                                                         *)
(* A row is a function from column names to values; keys are integers.     *)
(* Arrow types are kept only where they decide between an error and a      *)
(* result ("int64" or not), batches are not: what is modelled is the       *)
(* sequence of all the rows a session returns.                             *)
(***************************************************************************)
EXTENDS Integers, FiniteSets, SequencesExt

CONSTANTS
  Null,        \* an absent cell
  Failed       \* a session that returned an error instead of rows

-----------------------------------------------------------------------------
(* Buckets: lattik_driver_utils.py and bucket.rs.                          *)

NextPowerOf2(n) == Min({p \in {2^k : k \in 0..12} : p >= n \/ p = 4096})

SqrtFloor(n) == Max({r \in 0..64 : r * r <= n})

\* determine_bucket_levels, from the number of buckets the size asks for.
BucketLevels(total, keys) ==
  LET first == NextPowerOf2(SqrtFloor(total))
      rest  == Max({1, total \div first})
      sub   == NextPowerOf2(SqrtFloor(rest))
  IN IF keys <= 1 THEN <<total>>
     ELSE IF keys = 2 THEN <<first, rest>>
     ELSE <<first, sub, Max({1, rest \div sub})>>

\* total_buckets, and what determine_bucket_levels promises of it.
Product(levels) == FoldSeq(LAMBDA a, b : a * b, 1, levels)

\* The level of key i: a fourth key shares the last level.
LevelOf(levels, i) == levels[Min({i, Len(levels)})]

\* apply_bucketing, hierarchical_bucket_id: the last key counts least.
BucketId(hashes, levels) ==
  LET place[i \in 1..Len(hashes)] == IF i = Len(hashes) THEN 1 ELSE place[i + 1] * LevelOf(levels, i + 1)
  IN FoldSeq(LAMBDA a, b : a + b, 0, [i \in 1..Len(hashes) |-> (hashes[i] % LevelOf(levels, i)) * place[i]])

AlignBucket(fine, fineCount, coarseCount) == IF fineCount = coarseCount THEN fine ELSE fine % coarseCount

-----------------------------------------------------------------------------
(* The running value of a column: merge_cumulative.  A column is a record  *)
(* of its strategy, the aggregate function, what else the text of the      *)
(* aggregate contains (the code looks for "count", "sum", "max" and "min"  *)
(* anywhere in it) and the bound of a list.                                *)

Mentions(col, word) == word = col.fn \/ word \in col.words

OrZero(v) == IF v = Null THEN 0 ELSE v

OrEmpty(v) == IF v = Null THEN << >> ELSE v

Pick(op(_, _), c, d) == IF c = Null THEN d ELSE IF d = Null THEN c ELSE op(c, d)

\* compute_delta and aggregate_family: one day's events of one key; a key
\* without events has no row that day.
Delta(col, events) ==
  IF events = << >> THEN Null
  ELSE CASE col.strategy = "prepend_list"    -> events
         [] col.strategy = "bitmap_activity" -> 1
         [] OTHER -> CASE col.fn = "count" -> Len(events)
                       [] col.fn = "sum"   -> FoldSeq(LAMBDA a, b : a + b, 0, events)
                       [] col.fn = "max"   -> Max(Range(events))
                       [] col.fn = "min"   -> Min(Range(events))
                       [] col.fn = "last"  -> Last(events)

\* Mutant: a day without events empties the cell.
MergeCellInner(col, c, d) == IF d = Null THEN Null ELSE Pick(LAMBDA x, y : x + y, c, d)

\* One cell of the full outer join of the running load and the day's delta.
MergeCell(col, c, d) ==
  CASE col.strategy = "prepend_list" ->
         LET all == OrEmpty(d) \o OrEmpty(c) IN SubSeq(all, 1, Min({col.max_length, Len(all)}))
    [] col.strategy = "bitmap_activity" -> IF c # Null \/ d # Null THEN 1 ELSE 0
    [] Mentions(col, "count") \/ Mentions(col, "sum") -> OrZero(c) + OrZero(d)
    [] Mentions(col, "max") -> Pick(LAMBDA x, y : Max({x, y}), c, d)
    [] Mentions(col, "min") -> Pick(LAMBDA x, y : Min({x, y}), c, d)
    [] OTHER -> IF d # Null THEN d ELSE c

\* merge_cumulative for one key: a key in neither load has no row, and
\* without a running load the delta is the running value as it is.
Merge(col, first, c, d) == IF first \/ (c = Null /\ d = Null) THEN d ELSE MergeCell(col, c, d)

\* backfill_family over the days of a family that cascades: the running
\* value of one key after each day (other keys keep every day non-empty).
Running(col, days) ==
  LET after[n \in 0..Len(days)] == IF n = 0 THEN Null ELSE Merge(col, n = 1, after[n - 1], Delta(col, days[n]))
  IN after[Len(days)]

-----------------------------------------------------------------------------
(* A table is a record: "pk", the key columns in order; "count", the       *)
(* columns whose aggregate mentions "count", the only ones declared        *)
(* int64; "manifest", the load of each column that has one; "loads", each  *)
(* load's format and its bucket files, sequences of rows.                  *)

IsKey(t, c) == \E i \in DOMAIN t.pk : t.pk[i] = c

\* deriveColumnTypes
DeclaredInt(t, c) == IsKey(t, c) \/ c \in t.count

\* The rows of a load in the order its files are listed: scan_data.
Scan(load) == FlattenSeq(load.files)

\* A row id is its file and its place in it: encode_row_id, decode_row_id.
RowAt(load, id) == load.files[id[1]][id[2]]

Passes(v, f) == CASE f.type = "in"    -> v \in f.values
                  [] f.type = "range" -> f.min <= v /\ v <= f.max
                  [] OTHER            -> TRUE

\* extractPkFilter: a filter for the stitcher out of the domain of a key
\* column: a discrete set, or one range closed on both sides.
PkFilter(t, domains) ==
  LET usable == {c \in DOMAIN domains : IsKey(t, c) /\ ~ domains[c].nullable
                     /\ (domains[c].type = "in" \/ (domains[c].type = "range" /\ domains[c].closed))}
  IN IF usable = {} THEN [type |-> "none"] ELSE domains[CHOOSE c \in usable : TRUE]

\* LattikPageSource: the loads of the requested columns, and all the loads
\* of the manifest when no requested column has one.
LoadsRead(t, cols) ==
  LET named == {t.manifest[c] : c \in Range(cols) \cap DOMAIN t.manifest}
  IN IF named = {} THEN Range(t.manifest) ELSE named

\* build_output_schema: the keys first, then what else is requested.
OutputSchema(t, cols) == t.pk \o SelectSeq(cols, LAMBDA c : ~ IsKey(t, c))

\* build_load_schema for one load: the columns a reader declares.
LoadColumns(t, cols, l) == {c \in Range(cols) \cap DOMAIN t.manifest : t.manifest[c] = l}

\* load_for_column: the load whose reader declares the column.
OwnerOf(t, cols, c) ==
  LET owners == {l \in LoadsRead(t, cols) : c \in LoadColumns(t, cols, l)}
  IN IF owners = {} THEN Null ELSE CHOOSE l \in owners : TRUE

\* build_pk_array: key values fit only a column declared int64.
PkColumn(isInt, keys) == IF isInt THEN keys ELSE Failed

SortedKeys(keys) == SetToSortSeq(keys, <)

-----------------------------------------------------------------------------
(* The two stitchers of lattik-stitch-core.                                *)

\* Positions in the scan of a load, by key: a later row replaces.
RowOf(load, key, f) ==
  LET rows == Scan(load)
      kept == {i \in DOMAIN rows : Passes(rows[i][key], f)}
  IN [v \in {rows[i][key] : i \in kept} |-> Max({i \in kept : rows[i][key] = v})]

NullKey(load, key) == \E i \in DOMAIN Scan(load) : Scan(load)[i][key] = Null

\* Rows out of columns, unless building one of the columns failed.
Batch(out, keys, column(_)) ==
  IF keys = << >> THEN << >>
  ELSE IF \E c \in Range(out) : column(c) = Failed THEN Failed
  ELSE [i \in DOMAIN keys |-> [c \in Range(out) |-> column(c)[i]]]

\* NaiveStitcher::init: every column no load owns is built as a key column.
Naive(t, cols, f) ==
  LET key   == t.pk[1]
      loads == LoadsRead(t, cols)
      rowOf == [l \in loads |-> RowOf(t.loads[l], key, f)]
      keys  == SortedKeys(UNION {DOMAIN rowOf[l] : l \in loads})
      Column(c) ==
        LET l == OwnerOf(t, cols, c)
        IN IF l = Null THEN PkColumn(DeclaredInt(t, c), keys)
           ELSE [i \in DOMAIN keys |-> IF keys[i] \in DOMAIN rowOf[l]
                                       THEN Scan(t.loads[l])[rowOf[l][keys[i]]][c] ELSE Null]
  IN IF \E l \in loads : NullKey(t.loads[l], key) THEN Failed
     ELSE Batch(OutputSchema(t, cols), keys, Column)

\* pk_index.vortex of one file: keys and row numbers in key order.
IndexFile(rows, key) ==
  SetToSortSeq({<<rows[i][key], i>> : i \in DOMAIN rows},
               LAMBDA x, y : x[1] < y[1] \/ (x[1] = y[1] /\ x[2] < y[2]))

\* Key and row id of every row that passes: probe_index over the index
\* files of a Vortex load, the filtered scan of a Parquet one.
Probe(load, key, f) ==
  LET ofFile(n) == [i \in DOMAIN load.files[n] |->
                      IF load.format = "vortex"
                      THEN LET e == IndexFile(load.files[n], key)[i] IN <<e[1], <<n, e[2]>>>>
                      ELSE <<load.files[n][i][key], <<n, i>>>>]
  IN SelectSeq(FlattenSeq([n \in DOMAIN load.files |-> ofFile(n)]), LAMBDA m : Passes(m[1], f))

\* Mutant: the rows stay in the order the files are read in.
FetchGrouped(load, ids) ==
  LET read == SortSeq(ids, LAMBDA x, y : x[1] < y[1]) IN [i \in DOMAIN ids |-> RowAt(load, read[i])]

\* fetch_rows: grouped by file, read, and put back in the order asked for.
Fetch(load, ids) == [i \in DOMAIN ids |-> RowAt(load, ids[i])]

\* For each key its place among the rows fetched, counted over the keys.
FetchIndex(keys, has) ==
  [i \in DOMAIN keys |-> IF keys[i] \in has THEN Cardinality({j \in 1..i : keys[j] \in has}) ELSE Null]

\* IndexedStitcher::init: needs a filter, builds one key column, and skips
\* as many columns of the schema as there are keys.
Indexed(t, cols, f) ==
  LET key   == t.pk[1]
      loads == LoadsRead(t, cols)
      found == [l \in loads |-> Probe(t.loads[l], key, f)]
      ids   == [l \in loads |-> [v \in {m[1] : m \in Range(found[l])} |->
                  found[l][Max({i \in DOMAIN found[l] : found[l][i][1] = v})][2]]]
      keys  == SortedKeys(UNION {DOMAIN ids[l] : l \in loads})
      Column(c) ==
        LET l    == OwnerOf(t, cols, c)
            mine == SelectSeq(keys, LAMBDA v : v \in DOMAIN ids[l])
            rows == Fetch(t.loads[l], [i \in DOMAIN mine |-> ids[l][mine[i]]])
            at   == FetchIndex(keys, DOMAIN ids[l])
        IN IF IsKey(t, c) THEN PkColumn(DeclaredInt(t, c), keys)
           ELSE IF l = Null THEN [i \in DOMAIN keys |-> Null]
           ELSE [i \in DOMAIN keys |-> IF at[i] = Null THEN Null ELSE rows[at[i]][c]]
  IN IF f.type = "none" \/ \E l \in loads : NullKey(t.loads[l], key) THEN Failed
     ELSE IF keys # << >> /\ Len(t.pk) # 1 THEN Failed
     ELSE Batch(OutputSchema(t, cols), keys, Column)

\* StitchSession over the configuration of LattikPageSource, and the page
\* of the requested columns: the indexed stitcher whenever there is a filter.
Read(t, cols, domains) ==
  LET f    == PkFilter(t, domains)
      rows == IF LoadsRead(t, cols) = {} THEN Failed
              ELSE IF f.type = "none" THEN Naive(t, cols, f) ELSE Indexed(t, cols, f)
  IN IF rows = Failed THEN Failed ELSE [i \in DOMAIN rows |-> [c \in Range(cols) |-> rows[i][c]]]

-----------------------------------------------------------------------------
(* DuckDB's table function: what a scan reads it finds in the bucket       *)
(* itself, the manifests by their names and the keys by what a load.json   *)
(* names besides the columns the manifest takes from that load.            *)

\* find_latest_manifest: of two names with one version the first listed, a
\* manifest that was never committed like any other.
LatestManifest(listing) ==
  LET newest == {i \in DOMAIN listing : \A j \in DOMAIN listing : listing[j].version <= listing[i].version}
  IN IF newest = {} THEN Null ELSE listing[Min(newest)]

LoadedFrom(t, l) == {c \in DOMAIN t.manifest : t.manifest[c] = l}

\* The loads in the order a hash map gives them, up to the first that names
\* more than the manifest takes from it.
Informative(t, json, order) ==
  {i \in DOMAIN order : ~ Range(json[order[i]]) \subseteq LoadedFrom(t, order[i])}

InferredKeys(t, json, order) ==
  LET n == Informative(t, json, order)
      l == order[Min(n)]
  IN IF n = {} THEN << >> ELSE SelectSeq(json[l], LAMBDA c : c \notin LoadedFrom(t, l))

\* resolve_table_scan.  A load that comes before the keys are known is read
\* without them, which is too little of a Parquet file.
TableScan(t, json, order) ==
  LET keyed   == [t EXCEPT !.pk = InferredKeys(t, json, order), !.count = {}]
      before  == {order[i] : i \in 1..(Min(Informative(t, json, order)) - 1)}
      keyless == {l \in before : t.loads[l].format = "parquet" /\ Scan(t.loads[l]) # << >>}
  IN IF order = << >> \/ keyed.pk = << >> \/ keyless # {} THEN Failed
     ELSE Naive(keyed, SetToSeq(DOMAIN t.manifest), [type |-> "none"])

\* lattik_scan: always the latest version.
DuckScan(t, manifests, listing, json, order) ==
  LET read == [t EXCEPT !.manifest = manifests[LatestManifest(listing)]]
  IN IF listing = << >> THEN Failed
     ELSE TableScan(read, json, SelectSeq(order, LAMBDA l : LoadedFrom(read, l) # {}))

-----------------------------------------------------------------------------
(* What they are meant to compute.                                         *)

\* The full outer join of the loads read, in key order.
Joined(t, cols, f) ==
  LET key     == t.pk[1]
      rows(l) == Range(Scan(t.loads[l]))
      keys    == SortedKeys({v \in UNION {{r[key] : r \in rows(l)} : l \in LoadsRead(t, cols)} : Passes(v, f)})
      Cell(c, v) ==
        IF c = key THEN v
        ELSE IF c \notin DOMAIN t.manifest THEN Null
        ELSE LET mine == {r \in rows(t.manifest[c]) : r[key] = v}
             IN IF mine = {} THEN Null ELSE (CHOOSE r \in mine : TRUE)[c]
  IN [i \in DOMAIN keys |-> [c \in Range(cols) |-> Cell(c, keys[i])]]

\* A read of a table with one key column is that join, whichever stitcher
\* the filter selects; without a filter, for columns that have a load.
ReadIsJoin(t, cols, domains) ==
  LET f == PkFilter(t, domains)
  IN (Len(t.pk) = 1 /\ (f.type = "none" => \A c \in Range(cols) : IsKey(t, c) \/ c \in DOMAIN t.manifest))
       => Read(t, cols, domains) = Joined(t, cols, f)

\* DuckDB reads the same join of all the columns of t, whose manifest is the one
\* of the highest version, in whatever order it meets the loads and the names are
\* listed, from load.json that name the keys and besides them what the manifest
\* takes from the load.
DuckIsJoin(t, manifests, listing, json, order) ==
  (\A l \in Range(order) : Range(json[l]) = Range(t.pk) \cup LoadedFrom(t, l))
    => DuckScan(t, manifests, listing, json, order)
         = Joined(t, t.pk \o SetToSeq(DOMAIN t.manifest), [type |-> "none"])

\* The running value is the aggregate of all the events so far (for a
\* list, up to its bound: the first load is not cut to it).
RunningIsLifetime(col, days) ==
  LET all == FlattenSeq(IF col.strategy = "prepend_list" THEN Reverse(days) ELSE days)
      cut(s) == IF s = Null THEN Null ELSE SubSeq(s, 1, Min({col.max_length, Len(s)}))
  IN IF col.strategy = "prepend_list" THEN cut(Running(col, days)) = cut(Delta(col, all))
     ELSE Running(col, days) = Delta(col, all)

\* The levels multiply to the number of buckets, every row falls into one,
\* and halving the first level merges whole buckets.
BucketsFit(total, hashes) ==
  LET levels == BucketLevels(total, Len(hashes))
      coarse == [levels EXCEPT ![1] = Max({1, @ \div 2})]
      id     == BucketId(hashes, levels)
  IN /\ Product(levels) = total
     /\ id \in 0..(total - 1)
     /\ AlignBucket(id, total, Product(coarse)) = BucketId(hashes, coarse)
=============================================================================
