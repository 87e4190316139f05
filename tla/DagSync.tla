------------------------------ MODULE DagSync ------------------------------
(***************************************************************************)
(* The manifest-driven reconciler of one branch (lib/dag-reconciler.ts,     *)
(* called by POST /api/dags/sync).  Every push of the pipelines repository   *)
(* uploads its DAG files to Blob and asks for a sync with its manifest,      *)
(* which names each file and the hash of its content.  A sync loads the      *)
(* rows of the branch, walks the manifest, and archives what it has not      *)
(* seen.  Nothing orders the syncs of two pushes.                            *)
(*                                                                         *)
(* A content stands for the text of a file and for its hash; IdOf and Valid  *)
(* say what it declares.                                                     *)
(***************************************************************************)
EXTENDS Integers, SequencesExt

CONSTANTS
  Paths,       \* the paths of a bundle, in the order of the manifest (a sequence)
  Contents,    \* texts of DAG files
  IdOf,        \* [Contents -> ids]: the id of the YAML
  Valid,       \* the contents dagDefSchema accepts
  Absent,      \* no such file, no such row
  Repos,       \* the states of the repository a push may have
  MaxPushes,   \* bound: pushes
  FaultSets    \* which faults may happen together

Ids == {IdOf[c] : c \in Contents}
PathSet == Range(Paths)
Pushes == 1..MaxPushes

\* A read of Blob may fail ("fetch") or return the text of an earlier upload
\* ("stale"); the sync of a push may start before the one of the push before it
\* has ended ("overlap"); a sync may be cut off by an error of the database
\* ("db").
Faults == {"fetch", "stale", "overlap", "db"}

VARIABLES
  faults,
  uploads,  \* the states of the repository uploaded so far, newest last
  rows,     \* dags of the branch, by id
  sync      \* per push: the sync it asked for

vars == <<faults, uploads, rows, sync>>

NoSync == [st |-> "none", loaded |-> {}, at |-> 1, seen |-> {}, errors |-> 0]

RowStates == [path : PathSet, hash : Contents, raw : Valid, archived : BOOLEAN]

\* A path is in a bundle once, and no row is a missing one.
SyncAssumption ==
  /\ Paths \in Seq(PathSet)
  /\ \A m, n \in DOMAIN Paths : Paths[m] = Paths[n] => m = n
  /\ Valid \subseteq Contents
  /\ Absent \notin Contents \cup RowStates
  /\ Repos \subseteq [PathSet -> Contents \cup {Absent}]
  /\ MaxPushes \in Nat

\* The bundle is uploaded before its sync is asked for.
Push(repo) ==
  LET k == Len(uploads) + 1
  IN  /\ k \in Pushes
      /\ "overlap" \notin faults => \A j \in 1..(k - 1) : sync[j].st \in {"done", "failed"}
      /\ uploads' = Append(uploads, repo)
      /\ UNCHANGED <<faults, rows, sync>>

\* The rows of the branch are read once, before the loop.
Load(k) ==
  /\ k <= Len(uploads)
  /\ sync[k].st = "none"
  /\ sync' = [sync EXCEPT ![k].st = "entries",
                          ![k].loaded = {<<i, rows[i]>> : i \in {j \in Ids : rows[j] # Absent}}]
  /\ UNCHANGED <<faults, uploads, rows>>

\* existingBySourcePath: the active rows whose path and hash are the entry's.
\* Several rows of one path leave the last one read in the map, and the query
\* has no order: any of them.
Unchanged(k, path) ==
  {x \in sync[k].loaded :
     x[2].path = path /\ x[2].hash = uploads[k][path] /\ ~ x[2].archived}

SamePath(k, path) == {x \in sync[k].loaded : x[2].path = path}

\* The manifest of a push lists its files, in the order of Paths: the positions
\* its sync has still to walk, the next one, and its file.
Left(k) == {n \in DOMAIN Paths : sync[k].at <= n /\ uploads[k][Paths[n]] # Absent}

At(k) == CHOOSE n \in Left(k) : \A m \in Left(k) : n <= m

Entry(k) == Paths[At(k)]

InEntries(k) == sync[k].st = "entries" /\ Left(k) # {}

Skip(k) ==
  /\ InEntries(k)
  /\ \E x \in Unchanged(k, Entry(k)) :
       sync' = [sync EXCEPT ![k].at = At(k) + 1, ![k].seen = @ \cup {x[1]}]
  /\ UNCHANGED <<faults, uploads, rows>>

\* What a read of the path may return: the newest upload has overwritten it, or
\* removed it (then the read fails).
Readable(path) ==
  {uploads[j][path] : j \in IF "stale" \in faults THEN DOMAIN uploads ELSE {Len(uploads)}}

MustFetch(k) ==
  /\ InEntries(k)
  /\ Unchanged(k, Entry(k)) = {} \/ SamePath(k, Entry(k)) \ Unchanged(k, Entry(k)) # {}

\* The text cannot be read or does not parse: an error, and the id is not seen.
FetchError(k) ==
  /\ MustFetch(k)
  /\ \/ "fetch" \in faults
     \/ Readable(Entry(k)) \ Valid # {}
  /\ sync' = [sync EXCEPT ![k].at = At(k) + 1, ![k].errors = @ + 1]
  /\ UNCHANGED <<faults, uploads, rows>>

\* insert ... on conflict (id, branch) do update: the hash is the manifest's, the
\* text and what is parsed from it are what was read.
Upsert(k, c) ==
  rows' = [rows EXCEPT ![IdOf[c]] =
    [path |-> Entry(k), hash |-> uploads[k][Entry(k)], raw |-> c, archived |-> FALSE]]

Process(k) ==
  /\ MustFetch(k)
  /\ \E c \in Readable(Entry(k)) \cap Valid :
       /\ Upsert(k, c)
       /\ sync' = [sync EXCEPT ![k].at = At(k) + 1, ![k].seen = @ \cup {IdOf[c]}]
  /\ UNCHANGED <<faults, uploads>>

\* Mutant: a sync that has seen no id archives nothing.
ArchivedIdsUnlessNone(k) ==
  {i \in Ids : sync[k].seen # {} /\ rows[i] # Absent /\ i \notin sync[k].seen}

\* The active rows of the branch the sync has not seen; all of them when it has
\* seen none (archiveBranch).
ArchivedIds(k) == {i \in Ids : rows[i] # Absent /\ i \notin sync[k].seen}

Archive(k) ==
  /\ sync[k].st = "entries"
  /\ Left(k) = {}
  /\ rows' = [i \in Ids |-> IF i \in ArchivedIds(k) THEN [rows[i] EXCEPT !.archived = TRUE]
                            ELSE rows[i]]
  /\ sync' = [sync EXCEPT ![k] = [NoSync EXCEPT !.st = "done", !.errors = sync[k].errors]]
  /\ UNCHANGED <<faults, uploads>>

\* A statement fails: the route answers 500 with the work half done.
Fail(k) ==
  /\ "db" \in faults
  /\ sync[k].st = "entries"
  /\ sync' = [sync EXCEPT ![k] = [NoSync EXCEPT !.st = "failed"]]
  /\ UNCHANGED <<faults, uploads, rows>>

Init ==
  /\ faults \in FaultSets
  /\ uploads = <<>>
  /\ rows = [i \in Ids |-> Absent]
  /\ sync = [k \in Pushes |-> NoSync]

Next ==
  \/ \E repo \in Repos : Push(repo)
  \/ \E k \in Pushes : Load(k) \/ Skip(k) \/ FetchError(k) \/ Process(k) \/ Archive(k) \/ Fail(k)

Spec == Init /\ [][Next]_vars

\* The variables have their types; a row holds a text that declares its id, and a
\* sync has not gone past the end.
TypeOK ==
  /\ faults \in FaultSets
  /\ uploads \in Seq(Repos) /\ Len(uploads) <= MaxPushes
  /\ \A i \in Ids : rows[i] # Absent =>
       /\ rows[i] \in RowStates
       /\ IdOf[rows[i].raw] = i
  /\ \A k \in Pushes :
       /\ sync[k].st \in {"none", "entries", "done", "failed"}
       /\ sync[k].st = "entries" => sync[k].at \in 1..(Len(Paths) + 1)
       /\ sync[k].seen \subseteq Ids

Active(i) == rows[i] # Absent /\ ~ rows[i].archived

Declares(k, path, i) == uploads[k][path] # Absent /\ IdOf[uploads[k][path]] = i

UniqueIds(k) == \A i \in Ids : \A p, q \in PathSet : Declares(k, p, i) /\ Declares(k, q, i) => p = q

\* dag-reconciler.ts:54-64.  Once the sync of the newest push is done without
\* errors, the active rows of the branch are the DAGs of its manifest, each with
\* the path, the hash and the text the push uploaded, whatever was renamed,
\* moved, removed or brought back, and whatever earlier syncs left half done.
\* (It needs the syncs of pushes not to overlap, and Blob to return what was
\* written last; and a manifest that gives an id to one file.)
RowsFollowManifest ==
  LET k == Len(uploads)
  IN  (/\ faults \cap {"stale", "overlap"} = {}
       /\ k > 0
       /\ sync[k].st = "done"
       /\ sync[k].errors = 0
       /\ UniqueIds(k)) =>
      \A i \in Ids :
        /\ Active(i) <=> \E p \in PathSet : Declares(k, p, i)
        /\ Active(i) => /\ Declares(k, rows[i].path, i)
                        /\ rows[i].raw = uploads[k][rows[i].path]
                        /\ rows[i].hash = rows[i].raw

\* dag-reconciler.ts:66-188: the rows are rows of the files that declare them, and
\* those of the branch are the manifest's.
SyncInv == TypeOK /\ RowsFollowManifest

=============================================================================
