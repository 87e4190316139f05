--------------------------- MODULE WorkflowProofs ---------------------------
(***************************************************************************)
(* Proofs about the workflows around the definitions, the DAGs and the     *)
(* streams of merged tables, and about the canvas of the analyst.          *)
(***************************************************************************)
EXTENDS Workflows, Integers, Sequences, SequenceTheorems, WellFoundedInduction, TLAPS

-----------------------------------------------------------------------------
(***************************************************************************)
(* The syncs of the DAG files of a branch.                                 *)
(***************************************************************************)
Newest == Len(uploads)

SyncStates == [st : {"none", "entries", "done", "failed"}, loaded : SUBSET (Sync!Ids \X Sync!RowStates),
               at : 1..(Len(Paths) + 1), seen : SUBSET Sync!Ids, errors : Nat]

\* A push that has not happened has no sync, and a row is that of the id its
\* text declares.
SyncTypes ==
  /\ syncFaults \in SyncFaultSets
  /\ uploads \in Seq(Repos) /\ Newest <= MaxPushes
  /\ rows \in [Sync!Ids -> Sync!RowStates \cup {Absent}]
  /\ \A i \in Sync!Ids : rows[i] # Absent => IdOf[rows[i].raw] = i
  /\ sync \in [Sync!Pushes -> SyncStates]
  /\ \A k \in Sync!Pushes : /\ k > Newest => sync[k].st = "none"
                            /\ sync[k].st = "none" => sync[k] = Sync!NoSync
                            /\ \A x \in sync[k].loaded : IdOf[x[2].raw] = x[1]

Calm == syncFaults \cap {"stale", "overlap"} = {}

\* The positions a sync has walked that hold a file, and what it writes of one.
Walked(k) == {n \in DOMAIN Paths : n < sync[k].at /\ uploads[k][Paths[n]] # Absent}

Written(k, n) == [path |-> Paths[n], hash |-> uploads[k][Paths[n]],
                  raw |-> uploads[k][Paths[n]], archived |-> FALSE]

\* Every sync but the newest is over, and a row has the text of its hash.
RowsAreFiles ==
  /\ \A j \in Sync!Pushes : j < Newest => sync[j].st \in {"done", "failed"}
  /\ \A i \in Sync!Ids : rows[i] # Absent => rows[i].raw = rows[i].hash

\* A sync at work has seen the ids of the files it has walked, but for errors,
\* has written no others, and has left the rows it has not written.
WalkSound ==
  LET k == Newest
  IN  k > 0 /\ sync[k].st = "entries" =>
        /\ \A x \in sync[k].loaded :
             /\ x[2].raw = x[2].hash
             /\ \/ rows[x[1]] = x[2]
                \/ \E n \in Walked(k) : Sync!Declares(k, Paths[n], x[1])
        /\ \A i \in sync[k].seen : \E n \in Walked(k) :
             /\ Sync!Declares(k, Paths[n], i) /\ Written(k, n) \in Sync!RowStates
             /\ Sync!UniqueIds(k) => rows[i] = Written(k, n)
        /\ sync[k].errors = 0 =>
             \A n \in Walked(k) : IdOf[uploads[k][Paths[n]]] \in sync[k].seen

SyncIInv == SyncTypes /\ (Calm => RowsAreFiles /\ WalkSound) /\ Sync!RowsFollowManifest

\* The next entry is the first of those left.
LEMMA FirstLeft ==
  ASSUME Sync!SyncAssumption, NEW k, Sync!Left(k) # {}
  PROVE  /\ Sync!At(k) \in Sync!Left(k)
         /\ \A m \in Sync!Left(k) : Sync!At(k) <= m
<1>1. Sync!Left(k) \subseteq Nat
  BY DEF Sync!Left, Sync!SyncAssumption
<1>2. PICK m \in Sync!Left(k) : \A n \in Sync!Left(k) : ~(<<n, m>> \in OpToRel(<, Nat))
  BY <1>1, NatLessThanWellFounded, WFMin
<1>3. \A n \in Sync!Left(k) : m <= n
  <2> SUFFICES ASSUME NEW n \in Sync!Left(k), ~(m <= n) PROVE FALSE
    OBVIOUS
  <2>1. n \in Nat /\ m \in Nat
    BY <1>1
  <2>2. n < m
    BY <2>1
  <2> QED BY <1>2, <2>1, <2>2 DEF OpToRel
<1> QED BY <1>3 DEF Sync!At

\* What a sync at work knows of its next entry.
LEMMA EntryIs ==
  ASSUME Sync!SyncAssumption, SyncTypes, NEW k \in Sync!Pushes, Sync!InEntries(k)
  PROVE  LET n == Sync!At(k)
             p == Sync!Entry(k)
         IN /\ k \in 1..Newest /\ sync[k].st = "entries"
            /\ n \in DOMAIN Paths /\ sync[k].at <= n /\ n + 1 \in 1..(Len(Paths) + 1)
            /\ p = Paths[n] /\ p \in Sync!PathSet
            /\ uploads[k] \in [Sync!PathSet -> Contents \cup {Absent}]
            /\ uploads[k][p] \in Contents
            /\ \A m \in DOMAIN Paths : sync[k].at <= m /\ m < n => uploads[k][Paths[m]] = Absent
<1> DEFINE n == Sync!At(k)
<1>1. sync[k].st = "entries" /\ Sync!Left(k) # {}
  BY DEF Sync!InEntries
<1>2. n \in Sync!Left(k) /\ \A m \in Sync!Left(k) : n <= m
  BY <1>1, FirstLeft
<1>3. k \in 1..Newest
  <2>1. k \in Nat /\ 1 <= k /\ Newest \in Nat
    BY DEF Sync!Pushes, Sync!SyncAssumption, SyncTypes, Newest
  <2>2. ~(k > Newest)
    BY <1>1 DEF SyncTypes, Sync!NoSync
  <2> QED BY <2>1, <2>2
<1>4. uploads[k] \in [Sync!PathSet -> Contents \cup {Absent}]
  BY <1>3 DEF SyncTypes, Sync!SyncAssumption, Newest
<1>5. n \in DOMAIN Paths /\ sync[k].at <= n /\ uploads[k][Paths[n]] # Absent
  BY <1>2 DEF Sync!Left
<1>6. Paths \in Seq(Sync!PathSet) /\ DOMAIN Paths = 1..Len(Paths) /\ Len(Paths) \in Nat
  BY DEF Sync!SyncAssumption
<1>7. Paths[n] \in Sync!PathSet
  BY <1>5, <1>6
<1>8. n + 1 \in 1..(Len(Paths) + 1)
  BY <1>5, <1>6
<1>9. sync[k].at \in Nat
  BY <1>6 DEF SyncTypes, SyncStates
<1>10. \A m \in DOMAIN Paths : sync[k].at <= m /\ m < n => uploads[k][Paths[m]] = Absent
  <2> SUFFICES ASSUME NEW m \in DOMAIN Paths, sync[k].at <= m, m < n,
                      uploads[k][Paths[m]] # Absent
               PROVE  FALSE
    OBVIOUS
  <2>1. m \in Sync!Left(k)
    BY DEF Sync!Left
  <2>2. n <= m /\ m \in Nat /\ n \in Nat
    BY <1>2, <1>5, <1>6, <2>1
  <2> HIDE DEF n
  <2> QED BY <2>2
<1> QED BY <1>1, <1>3, <1>4, <1>5, <1>7, <1>8, <1>10 DEF Sync!Entry

\* A sync that is replaced by another.
LEMMA SyncMoves ==
  ASSUME SyncTypes, NEW k \in Sync!Pushes, k <= Newest, NEW q \in SyncStates,
         q.st # "none", \A x \in q.loaded : IdOf[x[2].raw] = x[1],
         sync' = [sync EXCEPT ![k] = q], uploads' = uploads, syncFaults' = syncFaults,
         rows' \in [Sync!Ids -> Sync!RowStates \cup {Absent}],
         \A i \in Sync!Ids : rows'[i] # Absent => IdOf[rows'[i].raw] = i
  PROVE  SyncTypes'
<1>1. sync \in [Sync!Pushes -> SyncStates] /\ Newest' = Newest
  BY DEF SyncTypes, Newest
<1>2. sync' \in [Sync!Pushes -> SyncStates] /\ sync'[k] = q
      /\ \A j \in Sync!Pushes : j # k => sync'[j] = sync[j]
  BY <1>1
<1>3. \A j \in Sync!Pushes : /\ j > Newest => sync'[j].st = "none"
                             /\ sync'[j].st = "none" => sync'[j] = Sync!NoSync
                             /\ \A x \in sync'[j].loaded : IdOf[x[2].raw] = x[1]
  <2> SUFFICES ASSUME NEW j \in Sync!Pushes
               PROVE  /\ j > Newest => sync'[j].st = "none"
                      /\ sync'[j].st = "none" => sync'[j] = Sync!NoSync
                      /\ \A x \in sync'[j].loaded : IdOf[x[2].raw] = x[1]
    OBVIOUS
  <2>1. CASE j = k
    BY <1>2, <2>1 DEF SyncTypes, Newest, Sync!Pushes
  <2>2. CASE j # k
    BY <1>2, <2>2 DEF SyncTypes
  <2> QED BY <2>1, <2>2
<1> QED BY <1>1, <1>2, <1>3 DEF SyncTypes

LEMMA NoSyncType ==
  ASSUME Sync!SyncAssumption
  PROVE  Sync!NoSync \in SyncStates /\ Sync!NoSync.loaded = {} /\ Sync!NoSync.st = "none"
BY DEF Sync!NoSync, SyncStates, Sync!SyncAssumption

LEMMA SyncInit == Sync!SyncAssumption /\ Sync!Init => SyncIInv
<1> SUFFICES ASSUME Sync!SyncAssumption, Sync!Init PROVE SyncIInv
  OBVIOUS
<1>1. uploads = <<>> /\ Newest = 0 /\ MaxPushes \in Nat
  BY DEF Sync!Init, Newest, Sync!SyncAssumption
<1>2. SyncTypes
  BY <1>1, NoSyncType DEF Sync!Init, SyncTypes
<1>3. RowsAreFiles /\ WalkSound /\ Sync!RowsFollowManifest
  BY <1>1 DEF Sync!Init, RowsAreFiles, WalkSound, Sync!RowsFollowManifest, Newest, Sync!Pushes
<1> QED BY <1>2, <1>3 DEF SyncIInv

\* Every step keeps the types.
LEMMA SyncTypesKept ==
  ASSUME Sync!SyncAssumption, SyncTypes, [Sync!Next]_(Sync!vars)
  PROVE  SyncTypes'
<1>0. /\ sync \in [Sync!Pushes -> SyncStates] /\ Newest \in Nat /\ Newest <= MaxPushes
      /\ rows \in [Sync!Ids -> Sync!RowStates \cup {Absent}]
      /\ uploads \in Seq(Repos) /\ MaxPushes \in Nat
  BY DEF SyncTypes, Newest, Sync!SyncAssumption
<1>1. ASSUME NEW repo \in Repos, Sync!Push(repo) PROVE SyncTypes'
  <2>1. /\ uploads' = Append(uploads, repo) /\ Newest + 1 \in Sync!Pushes
        /\ UNCHANGED <<syncFaults, rows, sync>>
    BY <1>1 DEF Sync!Push, Newest
  <2>2. uploads' \in Seq(Repos) /\ Newest' = Newest + 1
    BY <1>0, <2>1 DEF Newest
  <2>3. Newest' <= MaxPushes
    BY <1>0, <2>1, <2>2 DEF Sync!Pushes
  <2>4. \A k \in Sync!Pushes : k > Newest' => k > Newest
    BY <1>0, <2>2 DEF Sync!Pushes
  <2> QED BY <2>1, <2>2, <2>3, <2>4 DEF SyncTypes
<1>2. ASSUME NEW k \in Sync!Pushes, Sync!Load(k) PROVE SyncTypes'
  <2> DEFINE l == {<<i, rows[i]>> : i \in {j \in Sync!Ids : rows[j] # Absent}}
             q == [sync[k] EXCEPT !.st = "entries", !.loaded = l]
  <2>1. sync' = [sync EXCEPT ![k] = q] /\ k <= Newest /\ UNCHANGED <<syncFaults, uploads, rows>>
    BY <1>0, <1>2 DEF Sync!Load, Newest
  <2>2. l \in SUBSET (Sync!Ids \X Sync!RowStates) /\ \A x \in l : IdOf[x[2].raw] = x[1]
    BY <1>0 DEF SyncTypes
  <2>3. sync[k] \in SyncStates
    BY <1>0
  <2> HIDE DEF l
  <2>4. q \in SyncStates /\ q.loaded = l /\ q.st # "none"
    BY <2>2, <2>3 DEF SyncStates
  <2> HIDE DEF q
  <2> QED BY <1>0, <2>1, <2>2, <2>4, SyncMoves DEF SyncTypes
<1>3. ASSUME NEW k \in Sync!Pushes, Sync!Skip(k) PROVE SyncTypes'
  <2> DEFINE n == Sync!At(k) + 1
  <2>1. /\ Sync!InEntries(k) /\ UNCHANGED <<syncFaults, uploads, rows>>
        /\ \E x \in Sync!Unchanged(k, Sync!Entry(k)) :
             sync' = [sync EXCEPT ![k].at = n, ![k].seen = @ \cup {x[1]}]
    BY <1>3 DEF Sync!Skip
  <2>2. n \in 1..(Len(Paths) + 1) /\ k <= Newest
    BY <2>1, EntryIs
  <2> HIDE DEF n
  <2>3. PICK x \in sync[k].loaded : sync' = [sync EXCEPT ![k].at = n, ![k].seen = @ \cup {x[1]}]
    BY <2>1 DEF Sync!Unchanged
  <2> DEFINE z == sync[k].seen \cup {x[1]}
             q == [sync[k] EXCEPT !.at = n, !.seen = z]
  <2>4. sync' = [sync EXCEPT ![k] = q] /\ sync[k] \in SyncStates /\ sync[k].st = "entries"
    BY <1>0, <2>1, <2>3 DEF Sync!InEntries
  <2>5. z \in SUBSET Sync!Ids
    BY <2>4 DEF SyncStates
  <2> HIDE DEF z
  <2>6. q \in SyncStates /\ q.loaded = sync[k].loaded /\ q.st # "none"
    BY <2>2, <2>4, <2>5 DEF SyncStates
  <2> HIDE DEF q
  <2> QED BY <1>0, <2>1, <2>2, <2>4, <2>6, SyncMoves DEF SyncTypes
<1>4. ASSUME NEW k \in Sync!Pushes, Sync!FetchError(k) PROVE SyncTypes'
  <2> DEFINE n == Sync!At(k) + 1
             e == sync[k].errors + 1
             q == [sync[k] EXCEPT !.at = n, !.errors = e]
  <2>1. /\ Sync!InEntries(k) /\ UNCHANGED <<syncFaults, uploads, rows>>
        /\ sync' = [sync EXCEPT ![k] = q] /\ sync[k] \in SyncStates /\ sync[k].st = "entries"
    BY <1>0, <1>4 DEF Sync!InEntries, Sync!FetchError, Sync!MustFetch
  <2>2. n \in 1..(Len(Paths) + 1) /\ k <= Newest
    BY <2>1, EntryIs
  <2>3. e \in Nat
    BY <2>1 DEF SyncStates
  <2> HIDE DEF n, e
  <2>4. q \in SyncStates /\ q.loaded = sync[k].loaded /\ q.st # "none"
    BY <2>1, <2>2, <2>3 DEF SyncStates
  <2> HIDE DEF q
  <2> QED BY <1>0, <2>1, <2>2, <2>4, SyncMoves DEF SyncTypes
<1>5. ASSUME NEW k \in Sync!Pushes, Sync!Process(k) PROVE SyncTypes'
  <2> DEFINE n == Sync!At(k) + 1
             p == Sync!Entry(k)
  <2>1. PICK c \in Sync!Readable(p) \cap Valid :
          /\ Sync!Upsert(k, c)
          /\ sync' = [sync EXCEPT ![k].at = n, ![k].seen = @ \cup {IdOf[c]}]
    BY <1>5 DEF Sync!Process
  <2>2. Sync!InEntries(k) /\ UNCHANGED <<syncFaults, uploads>>
    BY <1>5 DEF Sync!Process, Sync!MustFetch
  <2>3. n \in 1..(Len(Paths) + 1) /\ k <= Newest /\ p \in Sync!PathSet /\ uploads[k][p] \in Contents
    BY <2>2, EntryIs
  <2>4. c \in Contents /\ IdOf[c] \in Sync!Ids
    BY DEF Sync!SyncAssumption, Sync!Ids
  <2> DEFINE new == [path |-> p, hash |-> uploads[k][p], raw |-> c, archived |-> FALSE]
             z == sync[k].seen \cup {IdOf[c]}
             q == [sync[k] EXCEPT !.at = n, !.seen = z]
  <2>5. rows' = [rows EXCEPT ![IdOf[c]] = new]
    BY <2>1 DEF Sync!Upsert
  <2> HIDE DEF n, p
  <2>6. new \in Sync!RowStates /\ new.raw = c
    BY <2>3 DEF Sync!RowStates
  <2>7. sync' = [sync EXCEPT ![k] = q] /\ sync[k] \in SyncStates /\ sync[k].st = "entries"
    BY <1>0, <2>1, <2>2 DEF Sync!InEntries
  <2>8. z \in SUBSET Sync!Ids
    BY <2>4, <2>7 DEF SyncStates
  <2> HIDE DEF z, new
  <2>9. q \in SyncStates /\ q.loaded = sync[k].loaded /\ q.st # "none"
    BY <2>3, <2>7, <2>8 DEF SyncStates
  <2> HIDE DEF q
  <2>10. rows' \in [Sync!Ids -> Sync!RowStates \cup {Absent}]
    BY <1>0, <2>4, <2>5, <2>6
  <2>11. \A i \in Sync!Ids : rows'[i] # Absent => IdOf[rows'[i].raw] = i
    BY <1>0, <2>4, <2>5, <2>6 DEF SyncTypes
  <2> QED BY <2>2, <2>3, <2>7, <2>9, <2>10, <2>11, SyncMoves DEF SyncTypes
<1>6. ASSUME NEW k \in Sync!Pushes, Sync!Archive(k) PROVE SyncTypes'
  <2> DEFINE e == sync[k].errors
             q == [Sync!NoSync EXCEPT !.st = "done", !.errors = e]
  <2>1. /\ sync[k].st = "entries" /\ sync' = [sync EXCEPT ![k] = q]
        /\ UNCHANGED <<syncFaults, uploads>> /\ sync[k] \in SyncStates
    BY <1>0, <1>6 DEF Sync!Archive
  <2>2. rows' = [i \in Sync!Ids |-> IF i \in Sync!ArchivedIds(k) THEN [rows[i] EXCEPT !.archived = TRUE]
                                    ELSE rows[i]]
    BY <1>6 DEF Sync!Archive
  <2>3. \A i \in Sync!Ids :
          /\ i \in Sync!ArchivedIds(k) =>
               rows[i] # Absent /\ [rows[i] EXCEPT !.archived = TRUE] \in Sync!RowStates
               /\ [rows[i] EXCEPT !.archived = TRUE].raw = rows[i].raw
    BY <1>0 DEF Sync!ArchivedIds, Sync!RowStates
  <2>4. rows' \in [Sync!Ids -> Sync!RowStates \cup {Absent}]
    BY <1>0, <2>2, <2>3
  <2>5. \A i \in Sync!Ids : rows'[i] # Absent => IdOf[rows'[i].raw] = i
    BY <2>2, <2>3 DEF SyncTypes
  <2>6. e \in Nat
    BY <2>1 DEF SyncStates
  <2> HIDE DEF e
  <2>7. q \in SyncStates /\ q.loaded = {} /\ q.st # "none"
    BY <2>6, NoSyncType DEF SyncStates, Sync!NoSync
  <2>8. k <= Newest
    BY <1>0, <2>1 DEF SyncTypes, Sync!NoSync, Sync!Pushes
  <2> HIDE DEF q
  <2> QED BY <2>1, <2>4, <2>5, <2>7, <2>8, SyncMoves
<1>7. ASSUME NEW k \in Sync!Pushes, Sync!Fail(k) PROVE SyncTypes'
  <2> DEFINE q == [Sync!NoSync EXCEPT !.st = "failed"]
  <2>1. /\ sync[k].st = "entries" /\ sync' = [sync EXCEPT ![k] = q]
        /\ UNCHANGED <<syncFaults, uploads, rows>>
    BY <1>7 DEF Sync!Fail
  <2>2. q \in SyncStates /\ q.loaded = {} /\ q.st # "none"
    BY NoSyncType DEF SyncStates, Sync!NoSync
  <2>3. k <= Newest
    BY <1>0, <2>1 DEF SyncTypes, Sync!NoSync, Sync!Pushes
  <2> HIDE DEF q
  <2> QED BY <1>0, <2>1, <2>2, <2>3, SyncMoves DEF SyncTypes
<1>8. CASE UNCHANGED Sync!vars
  BY <1>8 DEF Sync!vars, SyncTypes, Newest
<1> QED BY <1>1, <1>2, <1>3, <1>4, <1>5, <1>6, <1>7, <1>8 DEF Sync!Next

\* If pushes do not overlap, only the newest has a sync that can step.
LEMMA OnlyNewest ==
  ASSUME SyncTypes, RowsAreFiles, NEW k \in Sync!Pushes, k <= Newest,
         sync[k].st \in {"none", "entries"}
  PROVE  k = Newest /\ Newest > 0
<1>1. k \in Nat /\ k > 0 /\ Newest \in Nat
  BY DEF Sync!Pushes, SyncTypes, Newest
<1>2. ~(k < Newest)
  BY DEF RowsAreFiles
<1> QED BY <1>1, <1>2

\* What the newest sync has walked when it has walked one entry more.
LEMMA WalkedNext ==
  ASSUME Sync!SyncAssumption, SyncTypes, NEW k \in Sync!Pushes, Sync!InEntries(k),
         sync'[k].at = Sync!At(k) + 1, uploads' = uploads
  PROVE  Walked(k)' = Walked(k) \cup {Sync!At(k)} /\ Sync!At(k) \notin Walked(k)
<1> DEFINE n == Sync!At(k)
<1>1. /\ n \in DOMAIN Paths /\ sync[k].at <= n /\ uploads[k][Paths[n]] # Absent
      /\ \A m \in DOMAIN Paths : sync[k].at <= m /\ m < n => uploads[k][Paths[m]] = Absent
  BY EntryIs DEF Sync!SyncAssumption
<1>2. DOMAIN Paths \subseteq Nat /\ sync[k].at \in Nat
  BY DEF Sync!SyncAssumption, SyncTypes, SyncStates
<1> HIDE DEF n
<1>3. \A m \in DOMAIN Paths : m < n + 1 /\ uploads[k][Paths[m]] # Absent
        <=> (m < sync[k].at /\ uploads[k][Paths[m]] # Absent) \/ m = n
  BY <1>1, <1>2
<1>4. n \notin Walked(k)
  BY <1>1, <1>2 DEF Walked
<1> QED BY <1>1, <1>3, <1>4 DEF Walked, n

\* The properties of the files of a push depend on its upload alone.
LEMMA SameFiles ==
  ASSUME NEW k, uploads'[k] = uploads[k]
  PROVE  /\ \A p, i : Sync!Declares(k, p, i)' = Sync!Declares(k, p, i)
         /\ Sync!UniqueIds(k)' = Sync!UniqueIds(k)
         /\ \A n : Written(k, n)' = Written(k, n)
BY DEF Sync!Declares, Sync!UniqueIds, Written

\* A sync that starts has walked nothing.
LEMMA LoadCalm ==
  ASSUME Sync!SyncAssumption, SyncTypes, RowsAreFiles, NEW k \in Sync!Pushes, Sync!Load(k)
  PROVE  RowsAreFiles' /\ WalkSound' /\ sync'[Newest].st = "entries"
<1> DEFINE l == {<<i, rows[i]>> : i \in {j \in Sync!Ids : rows[j] # Absent}}
           q == [sync[k] EXCEPT !.st = "entries", !.loaded = l]
<1>1. /\ sync \in [Sync!Pushes -> SyncStates] /\ sync[k] = Sync!NoSync
      /\ k <= Newest /\ sync[k].st = "none"
      /\ UNCHANGED <<syncFaults, uploads, rows>> /\ sync' = [sync EXCEPT ![k] = q]
  BY DEF SyncTypes, Sync!Load, Newest
<1>2. k = Newest /\ Newest' = Newest
  BY <1>1, OnlyNewest DEF Newest
<1>3. /\ q.loaded = l /\ q.seen = {} /\ q.at = 1 /\ q.errors = 0 /\ q.st = "entries"
  BY <1>1 DEF Sync!NoSync
<1>4. /\ sync'[k] = q /\ \A j \in Sync!Pushes : j # k => sync'[j] = sync[j]
  BY <1>1
<1>5. \A x \in l : rows[x[1]] = x[2] /\ x[2].raw = x[2].hash
  BY DEF RowsAreFiles
<1> HIDE DEF l, q
<1>6. Walked(k)' = {}
  BY <1>3, <1>4 DEF Walked, Sync!SyncAssumption
<1>7. RowsAreFiles'
  <2>1. \A j \in Sync!Pushes : j < Newest => j # k
    BY <1>2 DEF SyncTypes, Newest, Sync!Pushes
  <2> QED BY <1>1, <1>2, <1>4, <2>1 DEF RowsAreFiles
<1>8. WalkSound'
  BY <1>1, <1>2, <1>3, <1>4, <1>5, <1>6 DEF WalkSound
<1> QED BY <1>2, <1>3, <1>4, <1>7, <1>8

\* A sync that has walked one entry more, and has seen its id.
LEMMA WalkCalm ==
  ASSUME Sync!SyncAssumption, SyncTypes, RowsAreFiles, WalkSound, NEW k \in Sync!Pushes,
         Sync!InEntries(k), NEW q \in SyncStates, sync' = [sync EXCEPT ![k] = q],
         q.st = "entries", q.loaded = sync[k].loaded, q.at = Sync!At(k) + 1,
         uploads' = uploads,
         NEW i \in Sync!Ids, i = IdOf[uploads[k][Sync!Entry(k)]],
         q.seen = sync[k].seen \cup {i}, q.errors = sync[k].errors,
         \A j \in Sync!Ids : j # i => rows'[j] = rows[j],
         rows'[i] = rows[i] \/ rows'[i] = Written(k, Sync!At(k)),
         Written(k, Sync!At(k)) \in Sync!RowStates,
         Sync!UniqueIds(k) => rows'[i] = Written(k, Sync!At(k))
  PROVE  RowsAreFiles' /\ WalkSound'
<1> DEFINE n == Sync!At(k)
<1>1. k = Newest /\ Newest' = Newest /\ Newest > 0 /\ sync[k].st = "entries"
  BY EntryIs, OnlyNewest DEF Newest, Sync!InEntries
<1>2. sync'[k] = q /\ \A j \in Sync!Pushes : j # k => sync'[j] = sync[j]
  BY DEF SyncTypes
<1>3. Walked(k)' = Walked(k) \cup {n}
  BY <1>2, WalkedNext
<1>4. Sync!Declares(k, Paths[n], i)
  <2> DEFINE text == uploads[k][Sync!Entry(k)]
  <2>1. Sync!Entry(k) = Paths[n] /\ text \in Contents
    BY EntryIs
  <2>2. text # Absent /\ i = IdOf[text]
    BY <2>1 DEF Sync!SyncAssumption
  <2> HIDE DEF n
  <2> QED BY <2>1, <2>2 DEF Sync!Declares
<1>5. /\ \A p, j : Sync!Declares(k, p, j)' = Sync!Declares(k, p, j)
      /\ Sync!UniqueIds(k)' = Sync!UniqueIds(k)
      /\ \A m : Written(k, m)' = Written(k, m)
  BY SameFiles
<1>6. i = IdOf[uploads[k][Paths[n]]]
  BY DEF Sync!Entry
<1> DEFINE loaded == sync[k].loaded
           seen == sync[k].seen
<1>7. /\ \A x \in loaded : /\ x[2].raw = x[2].hash
                           /\ \/ rows[x[1]] = x[2]
                              \/ \E m \in Walked(k) : Sync!Declares(k, Paths[m], x[1])
      /\ \A j \in seen : \E m \in Walked(k) :
           /\ Sync!Declares(k, Paths[m], j) /\ Written(k, m) \in Sync!RowStates
           /\ Sync!UniqueIds(k) => rows[j] = Written(k, m)
      /\ sync[k].errors = 0 => \A m \in Walked(k) : IdOf[uploads[k][Paths[m]]] \in seen
  BY <1>1 DEF WalkSound
<1>8. seen \subseteq Sync!Ids /\ loaded \subseteq Sync!Ids \X Sync!RowStates
  BY DEF SyncTypes, SyncStates
<1> HIDE DEF n, loaded, seen
<1>9. RowsAreFiles'
  <2>1. \A j \in Sync!Pushes : j < Newest => j # k
    BY <1>1 DEF SyncTypes, Newest, Sync!Pushes
  <2>2. Written(k, n).raw = Written(k, n).hash
    BY DEF Written
  <2>3. \A j \in Sync!Ids : rows'[j] # Absent => rows'[j].raw = rows'[j].hash
    BY <2>2 DEF RowsAreFiles, n
  <2> QED BY <1>1, <1>2, <2>1, <2>3 DEF RowsAreFiles
<1>10. \A x \in loaded : /\ x[2].raw = x[2].hash
                         /\ \/ rows'[x[1]] = x[2]
                            \/ \E m \in Walked(k) \cup {n} : Sync!Declares(k, Paths[m], x[1])
  <2> SUFFICES ASSUME NEW x \in loaded, x[1] = i \/ x[1] # i
               PROVE  \/ rows'[x[1]] = x[2]
                      \/ \E m \in Walked(k) \cup {n} : Sync!Declares(k, Paths[m], x[1])
    BY <1>7
  <2>1. x[1] \in Sync!Ids
    BY <1>8
  <2> QED BY <1>4, <1>7, <2>1
<1>11. \A j \in seen \cup {i} : \E m \in Walked(k) \cup {n} :
           /\ Sync!Declares(k, Paths[m], j) /\ Written(k, m) \in Sync!RowStates
           /\ Sync!UniqueIds(k) => rows'[j] = Written(k, m)
  <2> SUFFICES ASSUME NEW j \in seen \cup {i}
               PROVE  \E m \in Walked(k) \cup {n} :
                        /\ Sync!Declares(k, Paths[m], j) /\ Written(k, m) \in Sync!RowStates
                        /\ Sync!UniqueIds(k) => rows'[j] = Written(k, m)
    OBVIOUS
  <2>1. CASE j = i
    BY <1>4, <2>1 DEF n
  <2>2. CASE j # i
    <3>1. j \in seen /\ rows'[j] = rows[j]
      BY <1>8, <2>2
    <3> QED BY <1>7, <3>1
  <2> QED BY <2>1, <2>2
<1>12. sync[k].errors = 0 => \A m \in Walked(k) \cup {n} : IdOf[uploads[k][Paths[m]]] \in seen \cup {i}
  BY <1>6, <1>7
<1>13. WalkSound'
  BY <1>1, <1>2, <1>3, <1>5, <1>10, <1>11, <1>12 DEF WalkSound, loaded, seen
<1> QED BY <1>9, <1>13

\* An entry whose row is as the entry says: it is seen as it is.
LEMMA SkipCalm ==
  ASSUME Sync!SyncAssumption, SyncTypes, RowsAreFiles, WalkSound, NEW k \in Sync!Pushes,
         Sync!Skip(k)
  PROVE  RowsAreFiles' /\ WalkSound' /\ sync'[Newest].st = "entries"
<1> DEFINE n == Sync!At(k)
           m == n + 1
           p == Sync!Entry(k)
<1>1. /\ Sync!InEntries(k) /\ UNCHANGED <<syncFaults, uploads, rows>>
      /\ \E x \in Sync!Unchanged(k, p) :
           sync' = [sync EXCEPT ![k].at = m, ![k].seen = @ \cup {x[1]}]
  BY DEF Sync!Skip
<1>2. PICK x \in Sync!Unchanged(k, p) :
         sync' = [sync EXCEPT ![k].at = m, ![k].seen = @ \cup {x[1]}]
  BY <1>1
<1>3. /\ k = Newest /\ Newest > 0 /\ sync[k].st = "entries" /\ sync \in [Sync!Pushes -> SyncStates]
      /\ sync[k] \in SyncStates
  BY <1>1, EntryIs, OnlyNewest DEF Newest, Sync!InEntries, SyncTypes
<1>4. n \in DOMAIN Paths /\ p = Paths[n] /\ m \in 1..(Len(Paths) + 1)
      /\ uploads[k][p] \in Contents /\ p \in Sync!PathSet
  BY <1>1, EntryIs
<1>5. n \notin Walked(k)
  <2> DEFINE q == [sync[k] EXCEPT !.at = m, !.seen = @ \cup {x[1]}]
  <2>1. sync' = [sync EXCEPT ![k] = q]
    BY <1>2, <1>3
  <2>2. sync'[k].at = m
    BY <1>3, <2>1 DEF SyncStates
  <2> QED BY <1>1, <2>2, WalkedNext
<1>6. /\ x \in sync[k].loaded /\ x[2].path = p /\ x[2].hash = uploads[k][p] /\ ~x[2].archived
  BY <1>2 DEF Sync!Unchanged
<1>7. x[1] \in Sync!Ids /\ x[2] \in Sync!RowStates /\ IdOf[x[2].raw] = x[1]
  BY <1>3, <1>6 DEF SyncTypes, SyncStates
<1>8. /\ x[2].raw = x[2].hash
      /\ \/ rows[x[1]] = x[2]
         \/ \E w \in Walked(k) : Sync!Declares(k, Paths[w], x[1])
  BY <1>3, <1>6 DEF WalkSound
<1>9. x[1] = IdOf[uploads[k][p]] /\ Sync!Declares(k, p, x[1])
  BY <1>4, <1>6, <1>7, <1>8 DEF Sync!Declares, Sync!SyncAssumption
<1>10. x[2] = Written(k, n) /\ Written(k, n) \in Sync!RowStates
  BY <1>4, <1>6, <1>7, <1>8 DEF Written, Sync!RowStates
<1>11. Sync!UniqueIds(k) => rows[x[1]] = Written(k, n)
  <2> SUFFICES ASSUME Sync!UniqueIds(k), NEW w \in Walked(k), Sync!Declares(k, Paths[w], x[1])
               PROVE  FALSE
    BY <1>8, <1>10
  <2>1. w \in DOMAIN Paths /\ Paths[w] \in Sync!PathSet
    BY DEF Walked, Sync!SyncAssumption
  <2>2. Paths[w] = p
    BY <1>4, <1>7, <1>9, <2>1 DEF Sync!UniqueIds
  <2>3. w = n
    BY <1>4, <2>1, <2>2 DEF Sync!SyncAssumption
  <2> QED BY <1>5, <2>3
<1> DEFINE i == x[1]
           z == sync[k].seen \cup {i}
           q == [sync[k] EXCEPT !.at = m, !.seen = z]
<1>12. sync' = [sync EXCEPT ![k] = q]
  BY <1>2, <1>3
<1> HIDE DEF m
<1>13. z \in SUBSET Sync!Ids
  BY <1>3, <1>7 DEF SyncStates
<1> HIDE DEF z
<1>14. /\ q \in SyncStates /\ q.st = "entries" /\ q.loaded = sync[k].loaded /\ q.at = m
       /\ q.seen = z /\ q.errors = sync[k].errors
  BY <1>3, <1>4, <1>13 DEF SyncStates
<1> HIDE DEF q
<1>15. sync'[k] = q /\ Newest' = Newest
  BY <1>1, <1>3, <1>12 DEF Newest
<1>16. RowsAreFiles' /\ WalkSound'
  BY <1>1, <1>7, <1>9, <1>10, <1>11, <1>12, <1>14, WalkCalm DEF z, m
<1> QED BY <1>3, <1>14, <1>15, <1>16

\* An entry whose file is read: its row is written anew.
LEMMA ProcessCalm ==
  ASSUME Sync!SyncAssumption, SyncTypes, Calm, RowsAreFiles, WalkSound, NEW k \in Sync!Pushes,
         Sync!Process(k)
  PROVE  RowsAreFiles' /\ WalkSound' /\ sync'[Newest].st = "entries"
<1> DEFINE n == Sync!At(k)
           m == n + 1
           p == Sync!Entry(k)
<1>1. /\ Sync!InEntries(k) /\ UNCHANGED <<syncFaults, uploads>>
      /\ \E c \in Sync!Readable(p) \cap Valid :
           /\ Sync!Upsert(k, c)
           /\ sync' = [sync EXCEPT ![k].at = m, ![k].seen = @ \cup {IdOf[c]}]
  BY DEF Sync!Process, Sync!MustFetch
<1>2. PICK c \in Sync!Readable(p) \cap Valid :
           /\ Sync!Upsert(k, c)
           /\ sync' = [sync EXCEPT ![k].at = m, ![k].seen = @ \cup {IdOf[c]}]
  BY <1>1
<1>3. /\ k = Newest /\ Newest > 0 /\ sync[k].st = "entries" /\ sync \in [Sync!Pushes -> SyncStates]
      /\ sync[k] \in SyncStates
  BY <1>1, EntryIs, OnlyNewest DEF Newest, Sync!InEntries, SyncTypes
<1>4. n \in DOMAIN Paths /\ p = Paths[n] /\ m \in 1..(Len(Paths) + 1)
      /\ uploads[k][p] \in Contents /\ p \in Sync!PathSet
  BY <1>1, EntryIs
<1>5. c = uploads[k][p]
  BY <1>2, <1>3 DEF Sync!Readable, Calm, Newest
<1>6. c \in Contents /\ IdOf[c] \in Sync!Ids
  BY DEF Sync!SyncAssumption, Sync!Ids
<1> DEFINE i == IdOf[c]
           z == sync[k].seen \cup {i}
           q == [sync[k] EXCEPT !.at = m, !.seen = z]
<1>7. sync' = [sync EXCEPT ![k] = q]
  BY <1>2, <1>3
<1>8. rows' = [rows EXCEPT ![i] = Written(k, n)]
  BY <1>2, <1>4, <1>5 DEF Sync!Upsert, Written
<1>9. rows'[i] = Written(k, n) /\ \A j \in Sync!Ids : j # i => rows'[j] = rows[j]
  BY <1>6, <1>8 DEF SyncTypes
<1>14. Written(k, n) \in Sync!RowStates
  BY <1>4, <1>5 DEF Written, Sync!RowStates
<1> HIDE DEF m
<1>10. z \in SUBSET Sync!Ids
  BY <1>3, <1>6 DEF SyncStates
<1> HIDE DEF z
<1>11. /\ q \in SyncStates /\ q.st = "entries" /\ q.loaded = sync[k].loaded /\ q.at = m
       /\ q.seen = z /\ q.errors = sync[k].errors
  BY <1>3, <1>4, <1>10 DEF SyncStates
<1> HIDE DEF q
<1>12. sync'[k] = q /\ Newest' = Newest
  BY <1>1, <1>3, <1>7 DEF Newest
<1>13. RowsAreFiles' /\ WalkSound'
  BY <1>1, <1>5, <1>6, <1>7, <1>9, <1>11, <1>14, WalkCalm DEF z, m
<1> QED BY <1>3, <1>11, <1>12, <1>13

\* An entry that cannot be read: the sync has an error, and what it has seen is
\* not all there is.
LEMMA FetchErrorCalm ==
  ASSUME Sync!SyncAssumption, SyncTypes, RowsAreFiles, WalkSound, NEW k \in Sync!Pushes,
         Sync!FetchError(k)
  PROVE  RowsAreFiles' /\ WalkSound' /\ sync'[Newest].st = "entries"
<1> DEFINE n == Sync!At(k)
           m == n + 1
           e == sync[k].errors + 1
           q == [sync[k] EXCEPT !.at = m, !.errors = e]
<1>1. Sync!InEntries(k) /\ UNCHANGED <<syncFaults, uploads, rows>>
  BY DEF Sync!FetchError, Sync!MustFetch
<1>2. /\ k = Newest /\ Newest > 0 /\ sync[k].st = "entries" /\ sync \in [Sync!Pushes -> SyncStates]
      /\ sync[k] \in SyncStates /\ Newest' = Newest
  BY <1>1, EntryIs, OnlyNewest DEF Newest, Sync!InEntries, SyncTypes
<1>3. sync' = [sync EXCEPT ![k] = q]
  BY <1>2 DEF Sync!FetchError
<1>4. m \in 1..(Len(Paths) + 1) /\ e \in Nat /\ e # 0
  BY <1>1, <1>2, EntryIs DEF SyncStates
<1> HIDE DEF m, e
<1>5. /\ q \in SyncStates /\ q.st = "entries" /\ q.loaded = sync[k].loaded /\ q.at = m
      /\ q.seen = sync[k].seen /\ q.errors = e
  BY <1>2, <1>4 DEF SyncStates
<1> HIDE DEF q
<1>6. sync'[k] = q /\ \A j \in Sync!Pushes : j # k => sync'[j] = sync[j]
  BY <1>2, <1>3
<1>7. Walked(k)' = Walked(k) \cup {n}
  BY <1>1, <1>5, <1>6, WalkedNext DEF m
<1>8. /\ \A r, i : Sync!Declares(k, r, i)' = Sync!Declares(k, r, i)
      /\ Sync!UniqueIds(k)' = Sync!UniqueIds(k)
      /\ \A w : Written(k, w)' = Written(k, w)
  BY <1>1, SameFiles
<1>9. RowsAreFiles'
  <2>1. \A j \in Sync!Pushes : j < Newest => j # k
    BY <1>2 DEF SyncTypes, Newest, Sync!Pushes
  <2> QED BY <1>1, <1>2, <1>6, <2>1 DEF RowsAreFiles
<1> HIDE DEF n
<1>10. WalkSound'
  BY <1>1, <1>2, <1>4, <1>5, <1>6, <1>7, <1>8 DEF WalkSound
<1> QED BY <1>2, <1>5, <1>6, <1>9, <1>10

\* A sync that fails, or a push, leaves nothing at work.
LEMMA FailCalm ==
  ASSUME Sync!SyncAssumption, SyncTypes, RowsAreFiles, NEW k \in Sync!Pushes, Sync!Fail(k)
  PROVE  RowsAreFiles' /\ WalkSound' /\ sync'[Newest].st = "failed" /\ Newest' = Newest
<1> DEFINE q == [Sync!NoSync EXCEPT !.st = "failed"]
<1>1. /\ sync[k].st = "entries" /\ sync' = [sync EXCEPT ![k] = q]
      /\ UNCHANGED <<syncFaults, uploads, rows>>
  BY DEF Sync!Fail
<1>2. k <= Newest /\ Newest \in Nat
  BY <1>1 DEF SyncTypes, Sync!Pushes, Newest
<1>3. k = Newest /\ Newest' = Newest
  BY <1>1, <1>2, OnlyNewest DEF Newest
<1>4. q.st = "failed"
  BY DEF Sync!NoSync
<1> HIDE DEF q
<1>5. sync'[k] = q /\ \A j \in Sync!Pushes : j # k => sync'[j] = sync[j]
  BY <1>1 DEF SyncTypes
<1>6. RowsAreFiles'
  <2>1. \A j \in Sync!Pushes : j < Newest => j # k
    BY <1>3 DEF SyncTypes, Newest, Sync!Pushes
  <2> QED BY <1>1, <1>3, <1>5, <2>1 DEF RowsAreFiles
<1>7. WalkSound'
  BY <1>3, <1>4, <1>5 DEF WalkSound
<1> QED BY <1>3, <1>4, <1>5, <1>6, <1>7

LEMMA PushCalm ==
  ASSUME Sync!SyncAssumption, SyncTypes, Calm, RowsAreFiles, NEW repo \in Repos, Sync!Push(repo)
  PROVE  RowsAreFiles' /\ WalkSound' /\ sync'[Newest'].st = "none"
<1>1. /\ uploads' = Append(uploads, repo) /\ Newest + 1 \in Sync!Pushes
      /\ UNCHANGED <<syncFaults, rows, sync>>
      /\ \A j \in 1..((Newest + 1) - 1) : sync[j].st \in {"done", "failed"}
  BY DEF Sync!Push, Calm, Newest
<1>2. Newest' = Newest + 1 /\ Newest \in Nat
  BY <1>1 DEF SyncTypes, Newest
<1>3. sync'[Newest'].st = "none"
  BY <1>1, <1>2 DEF SyncTypes
<1>4. RowsAreFiles'
  <2>1. \A j \in Sync!Pushes : j < Newest' => j \in 1..((Newest + 1) - 1)
    BY <1>2 DEF Sync!Pushes
  <2> QED BY <1>1, <2>1 DEF RowsAreFiles
<1>5. WalkSound'
  BY <1>3 DEF WalkSound
<1> QED BY <1>3, <1>4, <1>5

\* A sync that has walked its manifest without errors leaves what the manifest
\* says: the rest is archived.
LEMMA ArchiveCalm ==
  ASSUME Sync!SyncAssumption, SyncTypes, Calm, RowsAreFiles, WalkSound, NEW k \in Sync!Pushes,
         Sync!Archive(k)
  PROVE  RowsAreFiles' /\ WalkSound' /\ Sync!RowsFollowManifest'
<1> DEFINE e == sync[k].errors
           q == [Sync!NoSync EXCEPT !.st = "done", !.errors = e]
<1>1. /\ sync[k].st = "entries" /\ Sync!Left(k) = {} /\ sync' = [sync EXCEPT ![k] = q]
      /\ UNCHANGED <<syncFaults, uploads>>
      /\ rows' = [i \in Sync!Ids |-> IF i \in Sync!ArchivedIds(k)
                                       THEN [rows[i] EXCEPT !.archived = TRUE] ELSE rows[i]]
  BY DEF Sync!Archive
<1>2. k <= Newest /\ Newest \in Nat
  BY <1>1 DEF SyncTypes, Sync!Pushes, Newest
<1>3. k = Newest /\ Newest' = Newest /\ Newest > 0
  BY <1>1, <1>2, OnlyNewest DEF Newest
<1> HIDE DEF e
<1>4. q.st = "done" /\ q.errors = e
  BY DEF Sync!NoSync
<1> HIDE DEF q
<1>5. sync'[k] = q /\ \A j \in Sync!Pushes : j # k => sync'[j] = sync[j]
  BY <1>1 DEF SyncTypes
<1>6. \A i \in Sync!Ids :
        /\ i \in Sync!ArchivedIds(k) => rows[i] # Absent /\ rows[i] \in Sync!RowStates
             /\ rows'[i] = [rows[i] EXCEPT !.archived = TRUE]
        /\ i \notin Sync!ArchivedIds(k) => rows'[i] = rows[i]
  BY <1>1 DEF SyncTypes, Sync!ArchivedIds
<1>7. RowsAreFiles'
  <2>1. \A j \in Sync!Pushes : j < Newest => j # k
    BY <1>3 DEF SyncTypes, Newest, Sync!Pushes
  <2>2. ASSUME NEW i \in Sync!Ids, rows'[i] # Absent PROVE rows'[i].raw = rows'[i].hash
    <3>1. CASE i \in Sync!ArchivedIds(k)
      <4>1. rows[i].raw = rows[i].hash
        BY <1>6, <3>1 DEF RowsAreFiles
      <4> QED BY <1>6, <3>1, <4>1 DEF Sync!RowStates
    <3>2. CASE i \notin Sync!ArchivedIds(k)
      BY <1>6, <2>2, <3>2 DEF RowsAreFiles
    <3> QED BY <3>1, <3>2
  <2> QED BY <1>3, <1>5, <2>1, <2>2 DEF RowsAreFiles
<1>8. WalkSound'
  BY <1>3, <1>4, <1>5 DEF WalkSound
<1>9. Sync!RowsFollowManifest'
  <2> DEFINE active(i) == rows'[i] # Absent /\ ~rows'[i].archived
  <2> SUFFICES ASSUME e = 0, Sync!UniqueIds(k), NEW i \in Sync!Ids
               PROVE  /\ active(i) <=> \E p \in Sync!PathSet : Sync!Declares(k, p, i)
                      /\ active(i) => /\ Sync!Declares(k, rows'[i].path, i)
                                      /\ rows'[i].raw = uploads[k][rows'[i].path]
                                      /\ rows'[i].hash = rows'[i].raw
    BY <1>1, <1>3, <1>4, <1>5
    DEF Sync!RowsFollowManifest, Sync!UniqueIds, Sync!Declares, Sync!Active, Newest
  <2>2. /\ \A j \in sync[k].seen : \E n \in Walked(k) :
             /\ Sync!Declares(k, Paths[n], j)
             /\ rows[j] = Written(k, n) /\ rows[j] \in Sync!RowStates
        /\ \A n \in Walked(k) : IdOf[uploads[k][Paths[n]]] \in sync[k].seen
    BY <1>1, <1>3 DEF WalkSound, e
  <2>3. \A n \in DOMAIN Paths : uploads[k][Paths[n]] # Absent => n \in Walked(k)
    <3>1. DOMAIN Paths \subseteq Nat /\ sync[k].at \in Nat
      BY DEF Sync!SyncAssumption, SyncTypes, SyncStates
    <3>2. \A n \in DOMAIN Paths : uploads[k][Paths[n]] # Absent => n < sync[k].at
      BY <1>1, <3>1 DEF Sync!Left
    <3> QED BY <3>2 DEF Walked
  <2>4. \A n \in DOMAIN Paths : Paths[n] \in Sync!PathSet
    BY DEF Sync!SyncAssumption
  <2>5. ASSUME i \in sync[k].seen
        PROVE  \E n \in Walked(k) : /\ Sync!Declares(k, Paths[n], i)
                                     /\ rows'[i] = Written(k, n) /\ rows'[i] \in Sync!RowStates
    <3>1. i \notin Sync!ArchivedIds(k)
      BY <2>5 DEF Sync!ArchivedIds
    <3> QED BY <1>6, <2>2, <2>5, <3>1
  <2>6. ASSUME active(i) PROVE i \in sync[k].seen
    <3>1. rows'[i] # Absent /\ ~rows'[i].archived
      BY <2>6
    <3>2. i \notin Sync!ArchivedIds(k)
      <4> SUFFICES ASSUME i \in Sync!ArchivedIds(k) PROVE FALSE
        OBVIOUS
      <4>1. rows'[i].archived
        BY <1>6 DEF Sync!RowStates
      <4> QED BY <3>1, <4>1
    <3>3. rows[i] # Absent
      BY <1>6, <3>1, <3>2
    <3> QED BY <3>2, <3>3 DEF Sync!ArchivedIds
  <2>7. ASSUME i \in sync[k].seen
        PROVE  /\ active(i) /\ \E p \in Sync!PathSet : Sync!Declares(k, p, i)
               /\ Sync!Declares(k, rows'[i].path, i)
               /\ rows'[i].raw = uploads[k][rows'[i].path] /\ rows'[i].hash = rows'[i].raw
    <3>1. PICK n \in Walked(k) : /\ Sync!Declares(k, Paths[n], i)
                                 /\ rows'[i] = Written(k, n) /\ rows'[i] \in Sync!RowStates
      BY <2>5, <2>7
    <3>2. n \in DOMAIN Paths /\ Paths[n] \in Sync!PathSet
      BY <2>4 DEF Walked
    <3>3. Written(k, n).archived = FALSE /\ Written(k, n).path = Paths[n]
          /\ Written(k, n).raw = uploads[k][Paths[n]] /\ Written(k, n).hash = uploads[k][Paths[n]]
      BY DEF Written
    <3>4. rows'[i] # Absent
      BY <3>1 DEF Sync!SyncAssumption
    <3> QED BY <3>1, <3>2, <3>3, <3>4
  <2>8. ASSUME NEW p \in Sync!PathSet, Sync!Declares(k, p, i) PROVE i \in sync[k].seen
    <3>1. PICK n \in DOMAIN Paths : p = Paths[n]
      BY DEF Sync!PathSet, Sync!Range
    <3> QED BY <2>2, <2>3, <2>8, <3>1 DEF Sync!Declares
  <2> QED BY <2>6, <2>7, <2>8
<1> QED BY <1>7, <1>8, <1>9

LEMMA SyncNext == Sync!SyncAssumption /\ SyncIInv /\ [Sync!Next]_(Sync!vars) => SyncIInv'
<1> SUFFICES ASSUME Sync!SyncAssumption, SyncIInv, [Sync!Next]_(Sync!vars) PROVE SyncIInv'
  OBVIOUS
<1>0. SyncTypes /\ SyncTypes' /\ (Calm => RowsAreFiles /\ WalkSound) /\ Sync!RowsFollowManifest
  BY SyncTypesKept DEF SyncIInv
<1>1. syncFaults' = syncFaults
  BY DEF Sync!Next, Sync!Push, Sync!Load, Sync!Skip, Sync!FetchError, Sync!Process,
         Sync!Archive, Sync!Fail, Sync!vars
<1>2. ~Calm => SyncIInv'
  BY <1>0, <1>1 DEF Calm, SyncIInv, Sync!RowsFollowManifest
<1> SUFFICES ASSUME Calm PROVE RowsAreFiles' /\ WalkSound' /\ Sync!RowsFollowManifest'
  BY <1>0, <1>2 DEF SyncIInv
<1>3. sync'[Newest'].st # "done" => Sync!RowsFollowManifest'
  BY DEF Newest, Sync!RowsFollowManifest
<1>4. ASSUME NEW repo \in Repos, Sync!Push(repo)
      PROVE  RowsAreFiles' /\ WalkSound' /\ Sync!RowsFollowManifest'
  BY <1>0, <1>3, <1>4, PushCalm
<1>5. ASSUME NEW k \in Sync!Pushes, Sync!Load(k)
      PROVE  RowsAreFiles' /\ WalkSound' /\ Sync!RowsFollowManifest'
  <2>1. Newest' = Newest
    BY <1>5 DEF Sync!Load, Newest
  <2> QED BY <1>0, <1>3, <1>5, <2>1, LoadCalm
<1>6. ASSUME NEW k \in Sync!Pushes, Sync!Skip(k) \/ Sync!FetchError(k) \/ Sync!Process(k)
      PROVE  RowsAreFiles' /\ WalkSound' /\ Sync!RowsFollowManifest'
  <2>1. Newest' = Newest
    BY <1>6 DEF Sync!Skip, Sync!FetchError, Sync!Process, Newest
  <2> QED BY <1>0, <1>3, <1>6, <2>1, SkipCalm, FetchErrorCalm, ProcessCalm
<1>7. ASSUME NEW k \in Sync!Pushes, Sync!Archive(k)
      PROVE  RowsAreFiles' /\ WalkSound' /\ Sync!RowsFollowManifest'
  BY <1>0, <1>7, ArchiveCalm
<1>8. ASSUME NEW k \in Sync!Pushes, Sync!Fail(k)
      PROVE  RowsAreFiles' /\ WalkSound' /\ Sync!RowsFollowManifest'
  BY <1>0, <1>3, <1>8, FailCalm
<1>9. CASE UNCHANGED Sync!vars
  <2>1. UNCHANGED <<syncFaults, uploads, rows, sync>>
    BY <1>9 DEF Sync!vars
  <2>2. RowsAreFiles' /\ WalkSound'
    BY <1>0, <2>1 DEF RowsAreFiles, WalkSound, Newest, Walked, Written, Sync!Declares, Sync!UniqueIds
  <2>3. Sync!RowsFollowManifest'
    BY <1>0, <2>1 DEF Sync!RowsFollowManifest, Sync!UniqueIds, Sync!Declares, Sync!Active
  <2> QED BY <2>2, <2>3
<1> QED BY <1>4, <1>5, <1>6, <1>7, <1>8, <1>9 DEF Sync!Next

\* Once the sync of the newest push is done without errors, the active rows of
\* the branch are the DAGs of its manifest, whatever the pushes renamed, moved,
\* removed or brought back and whatever earlier syncs left half done, if pushes
\* do not overlap and Blob returns what was written last (dag-reconciler.ts:54).
THEOREM BranchFollowsManifest == Sync!Spec => []SyncInv
<1>1. Sync!Init => SyncIInv
  BY SyncAssumed, SyncInit
<1>2. SyncIInv /\ [Sync!Next]_(Sync!vars) => SyncIInv'
  BY SyncAssumed, SyncNext
<1>3. SyncIInv => SyncInv
  <2>1. SyncTypes => Sync!TypeOK
    BY DEF SyncTypes, SyncStates, Sync!TypeOK, Newest
  <2> QED BY <2>1 DEF SyncIInv, SyncInv, Sync!SyncInv
<1> QED BY <1>1, <1>2, <1>3, PTL DEF Sync!Spec

-----------------------------------------------------------------------------
(***************************************************************************)
(* From a form to a pull request.                                          *)
(***************************************************************************)
BranchStates == [name : BOOLEAN \X {Safe[n] : n \in Names},
                 base : [Names -> Flow!FileContents \cup {Absent}],
                 changes : SUBSET [name : Names, content : Flow!FileContents \cup {Absent}],
                 shared : BOOLEAN]

PrStates == [branch : Nat, merged : BOOLEAN, asked : Flow!Shows]

\* The tools of a run, each from where it starts again, and what a run has to
\* know to be there.
RunStates == [pc : {"check", "find", "update", "insert", "generate", "resolve", "branch",
                    "commit", "open", "mark"},
              start : {"check", "find", "generate", "resolve", "branch"},
              snap : Flow!Shows, asked : Flow!Shows, name : Names, branch : Nat, pr : Nat]

FlowTypes ==
  /\ main \in [Names -> Flow!FileContents \cup {Absent}]
  /\ row \in [Names -> Flow!RowStates \cup {Null}]
  /\ canvas \in [Chats -> Flow!Shows]
  /\ job \in [Chats -> RunStates \cup {Flow!Idle}]
  /\ branches \in Seq(BranchStates)
  /\ prs \in Seq(PrStates)

\* A run that has made a branch, or found one.
OnBranch(j) == j.pc \in {"commit", "open", "mark"}

\* What a run was asked for, and where it may be.
Asks(j) ==
  /\ j.asked = j.snap
  /\ j.start = "check" => j.pc = "check"
  /\ j.start = "find" => j.pc \in {"find", "update", "insert"}
  /\ j.start = "generate" => j.pc = "generate"
  /\ j.start = "branch" => j.pc = "branch" \/ OnBranch(j)
  /\ j.start = "resolve" => j.pc \in {"resolve", "branch"} \/ OnBranch(j)
  /\ j.start \in {"check", "find", "generate"} => j.snap \in Flow!Forms
  /\ j.start \in {"find", "generate"} => j.snap.spec \in Checked
  /\ j.start = "branch" => /\ j.snap.file \in Flow!FileContents
                           /\ j.snap = Flow!Editor(j.name, j.snap.file)

Changes(bs, b, n) == \E x \in bs[b].changes : x.name = n

\* What a run that is on a branch knows of the branches bs and the pull requests ps.
KnowsBranch(j, bs, ps) ==
  OnBranch(j) =>
    /\ j.branch \in DOMAIN bs
    /\ bs[j.branch].name = <<j.start = "resolve", Safe[j.name]>>
    /\ j.pc # "commit" => Changes(bs, j.branch, j.name)
    /\ j.pc = "mark" => j.pr \in DOMAIN ps /\ ps[j.pr].branch = j.branch

\* A branch nobody else has come upon holds what its run was asked for.
OwnsBranch(j, bs, ps) ==
  OnBranch(j) /\ ~bs[j.branch].shared =>
    /\ j.pc = "commit" => bs[j.branch].changes = {} /\ \A p \in DOMAIN ps : ps[p].branch # j.branch
    /\ j.pc # "commit" => \A x \in bs[j.branch].changes :
         x.content # Absent => Flow!Editor(x.name, x.content) = j.asked

JobsSound ==
  \A c \in Chats : job[c] # Flow!Idle =>
    /\ Asks(job[c])
    /\ job[c].pc = "update" => row[job[c].snap.name] # Null
    /\ KnowsBranch(job[c], branches, prs)
    /\ OwnsBranch(job[c], branches, prs)

\* Two runs on one branch share it.
Apart ==
  \A c, d \in Chats : c # d /\ job[c] # Flow!Idle /\ job[d] # Flow!Idle
      /\ OnBranch(job[c]) /\ OnBranch(job[d]) /\ job[c].branch = job[d].branch =>
    branches[job[c].branch].shared

\* A branch of a deletion only deletes, and every other only sets.
BranchesSound ==
  /\ \A b \in DOMAIN branches : \A x \in branches[b].changes :
       x.content = Absent <=> branches[b].name[1]
  /\ \A p \in DOMAIN prs : prs[p].branch \in DOMAIN branches

\* A pending row has its pull request, on a branch of its kind.
RowsSound ==
  \A n \in Names : row[n] # Null /\ row[n].status \in {"pending_review", "pending_deletion"} =>
    /\ row[n].pr \in DOMAIN prs
    /\ Changes(branches, prs[row[n].pr].branch, n)
    /\ branches[prs[row[n].pr].branch].name[1] = (row[n].status = "pending_deletion")

\* What a pull request nobody shares sets was asked for.
PrsSound ==
  \A p \in DOMAIN prs : ~branches[prs[p].branch].shared =>
    \A x \in branches[prs[p].branch].changes :
      x.content # Absent => Flow!Editor(x.name, x.content) = prs[p].asked

\* What is on the canvases and in the rows was checked.
CheckedIsShown ==
  /\ \A c \in Chats : canvas[c].kind = "yaml" /\ canvas[c].file # Typed =>
       canvas[c].file.yaml \in Checked
  /\ \A n \in Names : row[n] # Null => row[n].spec \in Checked

FlowIInv ==
  /\ FlowTypes /\ JobsSound /\ Apart /\ BranchesSound
  /\ RowsSound /\ PrsSound /\ CheckedIsShown

-----------------------------------------------------------------------------
LEMMA FlowInit == Flow!FlowAssumption /\ Flow!Init => FlowIInv
<1> SUFFICES ASSUME Flow!FlowAssumption, Flow!Init PROVE FlowIInv
  OBVIOUS
<1>1. main \in [Names -> [yaml : Checked] \cup {Absent}] /\ main \in [Names -> Flow!FileContents \cup {Absent}]
  BY DEF Flow!Init, Flow!FlowAssumption, Flow!FileContents
<1>2. \A n \in Names : main[n] # Absent => main[n].yaml \in Checked /\ main[n].yaml \in Specs
  BY <1>1 DEF Flow!FlowAssumption
<1>3. row \in [Names -> Flow!RowStates \cup {Null}]
      /\ \A n \in Names : row[n] # Null => row[n].spec \in Checked /\ row[n].status = "merged"
  BY <1>2 DEF Flow!Init, Flow!RowStates
<1>4. /\ canvas \in [Chats -> Flow!Shows]
      /\ \A c \in Chats : canvas[c].kind = "yaml" => canvas[c].file.yaml \in Checked
  <2>1. canvas \in [Chats -> Flow!Forms \cup [kind : {"yaml"}, name : Names, file : [yaml : Checked]]]
    BY DEF Flow!Init, Flow!FlowAssumption
  <2>2. \A x \in [kind : {"yaml"}, name : Names, file : [yaml : Checked]] :
           x \in Flow!Editors /\ x.file.yaml \in Checked
    BY DEF Flow!Editors, Flow!FileContents, Flow!FlowAssumption
  <2>3. \A x \in Flow!Forms : x.kind # "yaml"
    BY DEF Flow!Forms
  <2> QED BY <2>1, <2>2, <2>3 DEF Flow!Shows
<1>5. branches = <<>> /\ prs = <<>> /\ job = [c \in Chats |-> Flow!Idle]
  BY DEF Flow!Init
<1>6. FlowTypes
  BY <1>1, <1>3, <1>4, <1>5 DEF FlowTypes
<1>7. JobsSound /\ Apart /\ BranchesSound
  BY <1>5 DEF JobsSound, Apart, BranchesSound
<1>8. RowsSound /\ PrsSound /\ CheckedIsShown
  BY <1>3, <1>4, <1>5 DEF RowsSound, PrsSound, CheckedIsShown
<1> QED BY <1>6, <1>7, <1>8 DEF FlowIInv

\* The invariant has the properties.
LEMMA FlowHolds == FlowIInv => Flow!PendingHasPR /\ Flow!ShownIsSubmitted
<1> SUFFICES ASSUME FlowIInv PROVE Flow!PendingHasPR /\ Flow!ShownIsSubmitted
  OBVIOUS
<1>1. RowsSound /\ PrsSound /\ CheckedIsShown /\ BranchesSound
  BY DEF FlowIInv
<1>2. Flow!ShownIsSubmitted
  BY <1>1 DEF PrsSound, CheckedIsShown, Flow!ShownIsSubmitted
<1>3. Flow!PendingHasPR
  <2> SUFFICES ASSUME NEW n \in Names, row[n] # Null,
                      row[n].status \in {"pending_review", "pending_deletion"}
               PROVE  /\ row[n].pr \in DOMAIN prs
                      /\ \E x \in branches[prs[row[n].pr].branch].changes :
                           x.name = n /\ (x.content = Absent <=> row[n].status = "pending_deletion")
    BY DEF Flow!PendingHasPR
  <2> DEFINE b == prs[row[n].pr].branch
  <2>1. /\ row[n].pr \in DOMAIN prs /\ Changes(branches, b, n)
        /\ branches[b].name[1] = (row[n].status = "pending_deletion")
    BY <1>1 DEF RowsSound
  <2>2. b \in DOMAIN branches /\ \A x \in branches[b].changes : x.content = Absent <=> branches[b].name[1]
    BY <1>1, <2>1 DEF BranchesSound
  <2> QED BY <2>1, <2>2 DEF Changes
<1> QED BY <1>2, <1>3

-----------------------------------------------------------------------------
BranchesGrow(bs, more) ==
  /\ DOMAIN bs \subseteq DOMAIN more
  /\ \A b \in DOMAIN bs : /\ more[b].name = bs[b].name
                          /\ bs[b].shared => more[b].shared
                          /\ \A n : Changes(bs, b, n) => Changes(more, b, n)

PrsGrow(ps, more) ==
  /\ DOMAIN ps \subseteq DOMAIN more
  /\ \A p \in DOMAIN ps : more[p].branch = ps[p].branch /\ more[p].asked = ps[p].asked

\* A branch a step leaves to the run that is alone on it.
Untouched(b, bs, ps, bs2, ps2) ==
  \/ bs2[b].shared
  \/ /\ bs2[b].changes = bs[b].changes /\ bs2[b].shared = bs[b].shared
     /\ \A p \in DOMAIN ps2 : ps2[p].branch = b => p \in DOMAIN ps /\ ps[p].branch = b

\* What a run knows stays true.
LEMMA KnowsKept ==
  ASSUME NEW j, NEW bs, NEW ps, NEW bs2, NEW ps2, BranchesGrow(bs, bs2), PrsGrow(ps, ps2),
         KnowsBranch(j, bs, ps), OwnsBranch(j, bs, ps),
         OnBranch(j) => Untouched(j.branch, bs, ps, bs2, ps2)
  PROVE  KnowsBranch(j, bs2, ps2) /\ OwnsBranch(j, bs2, ps2)
<1>1. KnowsBranch(j, bs2, ps2)
  BY DEF KnowsBranch, BranchesGrow, PrsGrow
<1>2. OwnsBranch(j, bs2, ps2)
  BY DEF OwnsBranch, Untouched
<1> QED BY <1>1, <1>2

\* A run that moves, while every other stays as it is.
LEMMA JobStep ==
  ASSUME FlowIInv, NEW c \in Chats, NEW q, job' = [job EXCEPT ![c] = q],
         \A n \in Names : row[n] # Null => row'[n] # Null,
         BranchesGrow(branches, branches'), PrsGrow(prs, prs'),
         \A d \in Chats : d # c /\ job[d] # Flow!Idle /\ OnBranch(job[d]) =>
           Untouched(job[d].branch, branches, prs, branches', prs'),
         q # Flow!Idle => /\ Asks(q) /\ (q.pc = "update" => row'[q.snap.name] # Null)
                          /\ KnowsBranch(q, branches', prs') /\ OwnsBranch(q, branches', prs'),
         q # Flow!Idle /\ OnBranch(q) =>
           \A d \in Chats : d # c /\ job[d] # Flow!Idle /\ OnBranch(job[d]) /\ job[d].branch = q.branch =>
             branches'[q.branch].shared
  PROVE  JobsSound' /\ Apart'
<1>1. JobsSound /\ Apart /\ job \in [Chats -> RunStates \cup {Flow!Idle}]
  BY DEF FlowIInv, FlowTypes
<1>2. job'[c] = q /\ \A d \in Chats : d # c => job'[d] = job[d]
  BY <1>1
<1>3. \A d \in Chats : d # c /\ job[d] # Flow!Idle =>
        /\ Asks(job[d]) /\ (job[d].pc = "update" => row'[job[d].snap.name] # Null)
        /\ KnowsBranch(job[d], branches', prs') /\ OwnsBranch(job[d], branches', prs')
  <2> SUFFICES ASSUME NEW d \in Chats, d # c, job[d] # Flow!Idle
               PROVE  /\ Asks(job[d]) /\ (job[d].pc = "update" => row'[job[d].snap.name] # Null)
                      /\ KnowsBranch(job[d], branches', prs') /\ OwnsBranch(job[d], branches', prs')
    OBVIOUS
  <2>1. /\ Asks(job[d]) /\ (job[d].pc = "update" => row[job[d].snap.name] # Null)
        /\ KnowsBranch(job[d], branches, prs) /\ OwnsBranch(job[d], branches, prs)
    BY <1>1 DEF JobsSound
  <2>2. job[d].pc = "update" => job[d].snap.name \in Names
    BY <1>1, <2>1 DEF Asks, OnBranch, Flow!Forms, RunStates
  <2>3. KnowsBranch(job[d], branches', prs') /\ OwnsBranch(job[d], branches', prs')
    BY <2>1, KnowsKept
  <2> QED BY <2>1, <2>2, <2>3
<1>4. JobsSound'
  <2> SUFFICES ASSUME NEW d \in Chats, job'[d] # Flow!Idle
               PROVE  /\ Asks(job'[d]) /\ (job'[d].pc = "update" => row'[job'[d].snap.name] # Null)
                      /\ KnowsBranch(job'[d], branches', prs') /\ OwnsBranch(job'[d], branches', prs')
    BY DEF JobsSound
  <2> QED BY <1>2, <1>3
<1>5. Apart'
  <2> SUFFICES ASSUME NEW d \in Chats, NEW e \in Chats, d # e,
                      job'[d] # Flow!Idle, job'[e] # Flow!Idle,
                      OnBranch(job'[d]), OnBranch(job'[e]), job'[d].branch = job'[e].branch
               PROVE  branches'[job'[d].branch].shared
    BY DEF Apart
  <2>1. CASE d = c \/ e = c
    BY <1>2, <2>1
  <2>2. CASE d # c /\ e # c
    <3>1. branches[job[d].branch].shared
      BY <1>1, <1>2, <2>2 DEF Apart
    <3>2. job[d].branch \in DOMAIN branches
      BY <1>1, <1>2, <2>2 DEF JobsSound, KnowsBranch
    <3> QED BY <1>2, <2>2, <3>1, <3>2 DEF BranchesGrow
  <2> QED BY <2>1, <2>2
<1> QED BY <1>4, <1>5

\* Nothing of the repository changes.
LEMMA SameGrow ==
  ASSUME branches' = branches, prs' = prs
  PROVE  /\ BranchesGrow(branches, branches') /\ PrsGrow(prs, prs')
         /\ \A b : Untouched(b, branches, prs, branches', prs')
BY DEF BranchesGrow, PrsGrow, Untouched

LEMMA QuietStep ==
  ASSUME FlowIInv, NEW c \in Chats, NEW q, job' = [job EXCEPT ![c] = q],
         \A n \in Names : row[n] # Null => row'[n] # Null,
         branches' = branches, prs' = prs,
         q # Flow!Idle => ~OnBranch(q) /\ Asks(q) /\ (q.pc = "update" => row'[q.snap.name] # Null)
  PROVE  JobsSound' /\ Apart' /\ BranchesSound' /\ PrsSound'
<1>1. q # Flow!Idle => KnowsBranch(q, branches', prs') /\ OwnsBranch(q, branches', prs')
  BY DEF KnowsBranch, OwnsBranch
<1>2. JobsSound' /\ Apart'
  BY <1>1, SameGrow, JobStep
<1>3. BranchesSound' /\ PrsSound'
  BY DEF FlowIInv, BranchesSound, PrsSound
<1> QED BY <1>2, <1>3

\* The rows follow the repository as long as none is marked.
LEMMA RowsKept ==
  ASSUME FlowIInv, BranchesGrow(branches, branches'), PrsGrow(prs, prs'),
         \A n \in Names : row'[n] # Null
             /\ row'[n].status \in {"pending_review", "pending_deletion"} =>
           row[n] # Null /\ row'[n].status = row[n].status /\ row'[n].pr = row[n].pr
  PROVE  RowsSound'
<1> SUFFICES ASSUME NEW n \in Names, row'[n] # Null,
                    row'[n].status \in {"pending_review", "pending_deletion"}
             PROVE  /\ row'[n].pr \in DOMAIN prs'
                    /\ Changes(branches', prs'[row'[n].pr].branch, n)
                    /\ branches'[prs'[row'[n].pr].branch].name[1] = (row'[n].status = "pending_deletion")
  BY DEF RowsSound
<1> DEFINE p == row[n].pr
<1>1. row[n] # Null /\ row'[n].status = row[n].status /\ row'[n].pr = p
  OBVIOUS
<1>2. /\ p \in DOMAIN prs /\ Changes(branches, prs[p].branch, n)
      /\ branches[prs[p].branch].name[1] = (row[n].status = "pending_deletion")
  BY <1>1 DEF FlowIInv, RowsSound
<1>3. prs[p].branch \in DOMAIN branches
  BY <1>2 DEF FlowIInv, BranchesSound
<1> HIDE DEF p
<1> QED BY <1>1, <1>2, <1>3 DEF BranchesGrow, PrsGrow

\* A step that leaves the repository, the rows and the canvases.
LEMMA OnlyJob ==
  ASSUME FlowIInv, NEW c \in Chats, NEW q \in RunStates \cup {Flow!Idle},
         job' = [job EXCEPT ![c] = q],
         UNCHANGED <<main, row, canvas, branches, prs>>,
         q # Flow!Idle => ~OnBranch(q) /\ Asks(q) /\ (q.pc = "update" => row[q.snap.name] # Null)
  PROVE  FlowIInv'
<1>1. FlowTypes'
  BY DEF FlowIInv, FlowTypes
<1>2. JobsSound' /\ Apart' /\ BranchesSound' /\ PrsSound'
  BY QuietStep
<1>3. RowsSound'
  BY SameGrow, RowsKept
<1>4. CheckedIsShown'
  BY DEF FlowIInv, CheckedIsShown
<1> QED BY <1>1, <1>2, <1>3, <1>4 DEF FlowIInv

\* The tool of a run: what its run state is, and where it goes.
LEMMA RunIs ==
  ASSUME FlowIInv, NEW c \in Chats, job[c].pc # "idle"
  PROVE  /\ job[c] # Flow!Idle /\ job[c] \in RunStates /\ Asks(job[c])
         /\ job[c].pc = "update" => row[job[c].snap.name] # Null
         /\ KnowsBranch(job[c], branches, prs) /\ OwnsBranch(job[c], branches, prs)
         /\ job \in [Chats -> RunStates \cup {Flow!Idle}]
<1>1. job[c] # Flow!Idle
  BY DEF Flow!Idle
<1> QED BY <1>1 DEF FlowIInv, FlowTypes, JobsSound

LEMMA MovedRun ==
  ASSUME NEW j \in RunStates, NEW pc \in {"check", "find", "update", "insert", "generate",
                                          "resolve", "branch", "commit", "open", "mark"}
  PROVE  LET q == [j EXCEPT !.pc = pc]
         IN /\ q \in RunStates /\ q.pc = pc /\ q.start = j.start /\ q.snap = j.snap
            /\ q.asked = j.asked /\ q.name = j.name /\ q.branch = j.branch /\ q.pr = j.pr
BY DEF RunStates

LEMMA NextTool ==
  ASSUME NEW j \in RunStates, NEW pc \in {"check", "find", "generate", "resolve", "branch"}
  PROVE  LET q == [j EXCEPT !.pc = pc, !.start = pc]
         IN /\ q \in RunStates /\ q.pc = pc /\ q.start = pc /\ q.snap = j.snap
            /\ q.asked = j.asked /\ q.name = j.name /\ q.branch = j.branch /\ q.pr = j.pr
BY DEF RunStates

LEMMA GotoIs ==
  ASSUME FlowIInv, NEW c \in Chats, NEW pc
  PROVE  /\ Flow!Goto(c, pc) => job' = [job EXCEPT ![c] = [job[c] EXCEPT !.pc = pc]]
         /\ Flow!Tool(c, pc) => job' = [job EXCEPT ![c] = [job[c] EXCEPT !.pc = pc, !.start = pc]]
         /\ Flow!Done(c) => job' = [job EXCEPT ![c] = Flow!Idle]
BY DEF Flow!Goto, Flow!Tool, Flow!Done, FlowIInv, FlowTypes

\* The user edits a canvas.
LEMMA EditKeeps ==
  ASSUME FlowIInv, NEW c \in Chats, NEW shown \in Flow!Shows, Flow!Edit(c, shown),
         shown.kind = "yaml" /\ shown.file # Typed => shown.file.yaml \in Checked
  PROVE  FlowIInv'
<1>1. canvas' = [canvas EXCEPT ![c] = shown] /\ UNCHANGED <<main, row, job, branches, prs>>
  BY DEF Flow!Edit
<1>2. FlowTypes'
  BY <1>1 DEF FlowIInv, FlowTypes
<1>3. JobsSound' /\ Apart' /\ BranchesSound' /\ RowsSound' /\ PrsSound'
  BY <1>1 DEF FlowIInv, JobsSound, Apart, BranchesSound, RowsSound, PrsSound
<1>4. CheckedIsShown'
  BY <1>1 DEF FlowIInv, FlowTypes, CheckedIsShown
<1> QED BY <1>2, <1>3, <1>4 DEF FlowIInv

\* A turn of the user.
LEMMA AskKeeps ==
  ASSUME FlowIInv, NEW c \in Chats, NEW n \in Names, NEW pc \in {"check", "branch", "resolve"},
         Flow!Ask(c, pc, n), pc = "check" => canvas[c] \in Flow!Forms,
         pc = "branch" => canvas[c] \in Flow!Editors /\ canvas[c].name = n
  PROVE  FlowIInv'
<1> DEFINE s == canvas[c]
           q == [pc |-> pc, start |-> pc, snap |-> s, asked |-> s, name |-> n, branch |-> 0, pr |-> 0]
<1>1. job' = [job EXCEPT ![c] = q] /\ UNCHANGED <<main, row, canvas, branches, prs>>
  BY DEF Flow!Ask
<1>2. s \in Flow!Shows
  BY DEF FlowIInv, FlowTypes
<1>3. pc = "branch" => s.file \in Flow!FileContents /\ s = Flow!Editor(n, s.file)
  BY DEF Flow!Editors, Flow!Editor
<1> HIDE DEF s
<1>4. q \in RunStates
  BY <1>2 DEF RunStates
<1>5. ~OnBranch(q) /\ Asks(q) /\ q.pc # "update"
  BY <1>3 DEF OnBranch, Asks, s
<1> HIDE DEF q
<1> QED BY <1>1, <1>4, <1>5, OnlyJob

LEMMA ShowIs ==
  ASSUME NEW x \in Flow!Shows
  PROVE  /\ x.kind = "form" => x \in Flow!Forms
         /\ x.kind = "yaml" => x \in Flow!Editors
         /\ x.name \in Names
BY DEF Flow!Shows, Flow!Forms, Flow!Editors, Flow!Cards

LEMMA UserKeeps ==
  ASSUME FlowIInv, NEW c \in Chats,
         \/ \E s \in Specs : Flow!EditForm(c, s)
         \/ Flow!EditYaml(c) \/ Flow!AskSubmit(c) \/ Flow!AskPR(c)
         \/ \E n \in Names : Flow!AskDelete(c, n)
  PROVE  FlowIInv'
<1>1. /\ canvas[c].kind = "form" => canvas[c] \in Flow!Forms
      /\ canvas[c].kind = "yaml" => canvas[c] \in Flow!Editors
      /\ canvas[c].name \in Names
  BY ShowIs DEF FlowIInv, FlowTypes
<1>2. ASSUME NEW s \in Specs, Flow!EditForm(c, s) PROVE FlowIInv'
  <2> DEFINE x == [canvas[c] EXCEPT !.spec = s]
  <2>1. x \in Flow!Forms /\ x \in Flow!Shows /\ x.kind # "yaml"
    BY <1>1, <1>2 DEF Flow!EditForm, Flow!Forms, Flow!Shows
  <2>2. Flow!Edit(c, x)
    BY <1>2 DEF Flow!EditForm
  <2> HIDE DEF x
  <2> QED BY <2>1, <2>2, EditKeeps
<1>3. ASSUME Flow!EditYaml(c) PROVE FlowIInv'
  <2> DEFINE x == [canvas[c] EXCEPT !.file = Typed]
  <2>1. x \in Flow!Editors /\ x \in Flow!Shows /\ x.file = Typed
    BY <1>1, <1>3 DEF Flow!EditYaml, Flow!Editors, Flow!Shows, Flow!FileContents
  <2>2. Flow!Edit(c, x)
    BY <1>3 DEF Flow!EditYaml
  <2> HIDE DEF x
  <2> QED BY <2>1, <2>2, EditKeeps
<1>4. ASSUME Flow!AskSubmit(c) PROVE FlowIInv'
  BY <1>1, <1>4, AskKeeps DEF Flow!AskSubmit
<1>5. ASSUME Flow!AskPR(c) PROVE FlowIInv'
  BY <1>1, <1>5, AskKeeps DEF Flow!AskPR
<1>6. ASSUME NEW n \in Names, Flow!AskDelete(c, n) PROVE FlowIInv'
  BY <1>6, AskKeeps DEF Flow!AskDelete
<1> QED BY <1>2, <1>3, <1>4, <1>5, <1>6

LEMMA StaticCheckKeeps ==
  ASSUME FlowIInv, NEW c \in Chats, Flow!StaticCheck(c)
  PROVE  FlowIInv'
<1> DEFINE q == [job[c] EXCEPT !.pc = "find", !.start = "find"]
<1>1. job[c].pc = "check" /\ UNCHANGED <<main, row, canvas, branches, prs>>
  BY DEF Flow!StaticCheck, Flow!At, Flow!Calls
<1>2. job[c] \in RunStates /\ Asks(job[c])
  BY <1>1, RunIs
<1>3. CASE job[c].snap.spec \in Checked
  <2>1. job' = [job EXCEPT ![c] = q]
    BY <1>3, GotoIs DEF Flow!StaticCheck, Flow!CanvasState
  <2>2. /\ q \in RunStates /\ q.pc = "find" /\ q.start = "find" /\ q.snap = job[c].snap
        /\ q.asked = job[c].asked
    BY <1>2, NextTool
  <2> HIDE DEF q
  <2>3. job[c].start = "check"
    BY <1>1, <1>2 DEF Asks, OnBranch, RunStates
  <2>4. ~OnBranch(q) /\ Asks(q) /\ q.pc # "update"
    BY <1>2, <1>3, <2>2, <2>3 DEF Asks, OnBranch
  <2> QED BY <1>1, <2>1, <2>2, <2>4, OnlyJob
<1>4. CASE job[c].snap.spec \notin Checked
  <2>1. job' = [job EXCEPT ![c] = Flow!Idle]
    BY <1>4, GotoIs DEF Flow!StaticCheck, Flow!CanvasState
  <2> QED BY <1>1, <2>1, OnlyJob
<1> QED BY <1>3, <1>4

LEMMA FindKeeps ==
  ASSUME FlowIInv, NEW c \in Chats, Flow!Find(c)
  PROVE  FlowIInv'
<1> DEFINE pc == IF row[job[c].snap.name] # Null THEN "update" ELSE "insert"
           q == [job[c] EXCEPT !.pc = pc]
<1>1. job[c].pc = "find" /\ UNCHANGED <<main, row, canvas, branches, prs>> /\ Flow!Goto(c, pc)
  BY DEF Flow!Find, Flow!At, Flow!Calls, Flow!CanvasState
<1>2. job[c] \in RunStates /\ Asks(job[c])
  BY <1>1, RunIs
<1>3. job' = [job EXCEPT ![c] = q] /\ pc \in {"update", "insert"}
      /\ (pc = "update" => row[job[c].snap.name] # Null)
  BY <1>1, GotoIs
<1> HIDE DEF pc
<1>4. /\ q \in RunStates /\ q.pc = pc /\ q.start = job[c].start /\ q.snap = job[c].snap
      /\ q.asked = job[c].asked
  BY <1>2, <1>3 DEF RunStates
<1> HIDE DEF q
<1>5. job[c].start = "find"
  BY <1>1, <1>2 DEF Asks, OnBranch, RunStates
<1>6. ~OnBranch(q) /\ Asks(q) /\ (q.pc = "update" => row[q.snap.name] # Null)
  BY <1>2, <1>3, <1>4, <1>5 DEF Asks, OnBranch
<1> QED BY <1>1, <1>3, <1>4, <1>6, OnlyJob

LEMMA ResolveKeeps ==
  ASSUME FlowIInv, NEW c \in Chats, Flow!Resolve(c)
  PROVE  FlowIInv'
<1> DEFINE q == [job[c] EXCEPT !.pc = "branch"]
<1>1. job[c].pc = "resolve" /\ UNCHANGED <<main, row, canvas, branches, prs>>
  BY DEF Flow!Resolve, Flow!At, Flow!Calls
<1>2. job[c] \in RunStates /\ Asks(job[c])
  BY <1>1, RunIs
<1>3. job[c].start = "resolve"
  BY <1>1, <1>2 DEF Asks, OnBranch, RunStates
<1>4. job' = [job EXCEPT ![c] = q] \/ job' = [job EXCEPT ![c] = Flow!Idle]
  BY GotoIs DEF Flow!Resolve
<1>5. /\ q \in RunStates /\ q.pc = "branch" /\ q.start = "resolve" /\ q.snap = job[c].snap
      /\ q.asked = job[c].asked
  BY <1>2, <1>3, MovedRun
<1> HIDE DEF q
<1>6. ~OnBranch(q) /\ Asks(q) /\ q.pc # "update"
  BY <1>2, <1>5 DEF Asks, OnBranch
<1> QED BY <1>1, <1>4, <1>5, <1>6, OnlyJob

LEMMA ErrorKeeps ==
  ASSUME FlowIInv, NEW c \in Chats, Flow!Error(c)
  PROVE  FlowIInv'
BY GotoIs, OnlyJob DEF Flow!Error

\* A tool that starts again forgets its branch.
LEMMA CrashKeeps ==
  ASSUME FlowIInv, NEW c \in Chats, Flow!Crash(c)
  PROVE  FlowIInv'
<1> DEFINE st == job[c].start
           q == [job[c] EXCEPT !.pc = st]
<1>1. job[c] # Flow!Idle /\ UNCHANGED <<main, row, canvas, branches, prs>>
  BY DEF Flow!Crash
<1>2. job[c] \in RunStates /\ Asks(job[c])
  BY <1>1 DEF FlowIInv, FlowTypes, JobsSound
<1>3. job' = [job EXCEPT ![c] = q]
  BY GotoIs DEF Flow!Crash
<1>4. st = job[c].start /\ st \in {"check", "find", "generate", "resolve", "branch"}
  BY <1>2 DEF RunStates
<1> HIDE DEF st
<1>5. /\ q \in RunStates /\ q.pc = st /\ q.start = st /\ q.snap = job[c].snap
      /\ q.asked = job[c].asked /\ q.name = job[c].name
  BY <1>2, <1>4 DEF RunStates
<1> HIDE DEF q
<1>6. ~OnBranch(q) /\ Asks(q) /\ q.pc # "update"
  BY <1>2, <1>4, <1>5 DEF Asks, OnBranch
<1> QED BY <1>1, <1>3, <1>5, <1>6, OnlyJob

\* A tool that has saved the spec of its form.
LEMMA SavedKeeps ==
  ASSUME FlowIInv, Null \notin Flow!RowStates, NEW c \in Chats,
         job[c].pc \in {"update", "insert"},
         job' = [job EXCEPT ![c] = [job[c] EXCEPT !.pc = "generate", !.start = "generate"]],
         NEW r \in Flow!RowStates, row' = [row EXCEPT ![job[c].snap.name] = r],
         r.spec = job[c].snap.spec,
         r.status \in {"pending_review", "pending_deletion"} =>
           /\ row[job[c].snap.name] # Null
           /\ r.status = row[job[c].snap.name].status /\ r.pr = row[job[c].snap.name].pr,
         UNCHANGED <<main, canvas, branches, prs>>
  PROVE  FlowIInv'
<1> DEFINE q == [job[c] EXCEPT !.pc = "generate", !.start = "generate"]
           m == job[c].snap.name
<1>1. job[c] \in RunStates /\ Asks(job[c])
  BY RunIs
<1>2. job[c].start = "find"
  BY <1>1 DEF Asks, OnBranch, RunStates
<1>3. m \in Names /\ job[c].snap.spec \in Checked /\ job[c].snap \in Flow!Forms
  BY <1>1, <1>2 DEF Asks, Flow!Forms
<1>4. /\ q \in RunStates /\ q.pc = "generate" /\ q.start = "generate" /\ q.snap = job[c].snap
      /\ q.asked = job[c].asked
  BY <1>1, NextTool
<1>5. job' = [job EXCEPT ![c] = q] /\ row' = [row EXCEPT ![m] = r] /\ r.spec \in Checked
  BY <1>3
<1> HIDE DEF q
<1>6. ~OnBranch(q) /\ Asks(q) /\ q.pc # "update"
  BY <1>1, <1>2, <1>3, <1>4 DEF Asks, OnBranch
<1>7. row \in [Names -> Flow!RowStates \cup {Null}]
  BY DEF FlowIInv, FlowTypes
<1>8. row' \in [Names -> Flow!RowStates \cup {Null}] /\ row'[m] = r
      /\ \A n \in Names : n # m => row'[n] = row[n]
  BY <1>3, <1>5, <1>7
<1>9. FlowTypes'
  BY <1>4, <1>5, <1>8 DEF FlowIInv, FlowTypes
<1>10. \A n \in Names : row[n] # Null => row'[n] # Null
  BY <1>8
<1>11. JobsSound' /\ Apart' /\ BranchesSound' /\ PrsSound'
  BY <1>5, <1>6, <1>10, QuietStep
<1>12. \A n \in Names : row'[n] # Null
           /\ row'[n].status \in {"pending_review", "pending_deletion"} =>
         row[n] # Null /\ row'[n].status = row[n].status /\ row'[n].pr = row[n].pr
  BY <1>8
<1>13. RowsSound'
  BY <1>12, SameGrow, RowsKept
<1>14. CheckedIsShown'
  BY <1>5, <1>8 DEF FlowIInv, CheckedIsShown
<1> QED BY <1>9, <1>11, <1>13, <1>14 DEF FlowIInv

LEMMA UpdateKeeps ==
  ASSUME FlowIInv, Null \notin Flow!RowStates, NEW c \in Chats, Flow!Update(c)
  PROVE  FlowIInv'
<1> DEFINE m == job[c].snap.name
           r == [row[m] EXCEPT !.spec = job[c].snap.spec]
<1>1. /\ job[c].pc = "update" /\ UNCHANGED <<main, canvas, branches, prs>>
      /\ row' = [row EXCEPT ![m] = r]
  BY DEF Flow!Update, Flow!At, Flow!Calls, Flow!CanvasState
<1>2. job[c] \in RunStates /\ Asks(job[c]) /\ row[m] # Null
  BY <1>1, RunIs
<1>3. job' = [job EXCEPT ![c] = [job[c] EXCEPT !.pc = "generate", !.start = "generate"]]
  BY GotoIs DEF Flow!Update
<1>4. m \in Names /\ job[c].snap.spec \in Specs
  BY <1>1, <1>2 DEF Asks, OnBranch, RunStates, Flow!Forms
<1>5. row[m] \in Flow!RowStates
  BY <1>2, <1>4 DEF FlowIInv, FlowTypes
<1>6. r \in Flow!RowStates /\ r.spec = job[c].snap.spec /\ r.status = row[m].status /\ r.pr = row[m].pr
  BY <1>4, <1>5 DEF Flow!RowStates
<1> HIDE DEF r
<1> QED BY <1>1, <1>2, <1>3, <1>6, SavedKeeps

LEMMA InsertKeeps ==
  ASSUME FlowIInv, Null \notin Flow!RowStates, NEW c \in Chats, Flow!Insert(c)
  PROVE  FlowIInv'
<1> DEFINE m == job[c].snap.name
           q == [job[c] EXCEPT !.pc = "update"]
           r == [spec |-> job[c].snap.spec, status |-> "draft", pr |-> 0]
<1>1. job[c].pc = "insert" /\ UNCHANGED <<main, canvas, branches, prs>>
  BY DEF Flow!Insert, Flow!At, Flow!Calls
<1>2. job[c] \in RunStates /\ Asks(job[c])
  BY <1>1, RunIs
<1>3. CASE row[m] # Null
  <2>1. job' = [job EXCEPT ![c] = q] /\ row' = row
    BY <1>3, GotoIs DEF Flow!Insert, Flow!CanvasState
  <2>2. /\ q \in RunStates /\ q.pc = "update" /\ q.start = job[c].start /\ q.snap = job[c].snap
        /\ q.asked = job[c].asked
    BY <1>2, MovedRun
  <2> HIDE DEF q
  <2>3. job[c].start = "find"
    BY <1>1, <1>2 DEF Asks, OnBranch, RunStates
  <2>4. ~OnBranch(q) /\ Asks(q) /\ row[q.snap.name] # Null
    BY <1>2, <1>3, <2>2, <2>3 DEF Asks, OnBranch
  <2> QED BY <1>1, <2>1, <2>2, <2>4, OnlyJob
<1>4. CASE row[m] = Null
  <2>1. /\ row' = [row EXCEPT ![m] = r]
        /\ job' = [job EXCEPT ![c] = [job[c] EXCEPT !.pc = "generate", !.start = "generate"]]
    BY <1>4, GotoIs DEF Flow!Insert, Flow!CanvasState
  <2>2. job[c].snap.spec \in Specs
    BY <1>1, <1>2 DEF Asks, OnBranch, RunStates, Flow!Forms
  <2>3. r \in Flow!RowStates /\ r.spec = job[c].snap.spec /\ r.status = "draft"
    BY <2>2 DEF Flow!RowStates
  <2> HIDE DEF r
  <2> QED BY <1>1, <2>1, <2>3, SavedKeeps
<1> QED BY <1>3, <1>4

LEMMA GenerateKeeps ==
  ASSUME FlowIInv, NEW c \in Chats, Flow!GenerateYaml(c)
  PROVE  FlowIInv'
<1> DEFINE m == job[c].snap.name
           x == Flow!Editor(m, Flow!Yaml(job[c].snap.spec))
<1>1. /\ job[c].pc = "generate" /\ UNCHANGED <<main, row, branches, prs>>
      /\ canvas' = [canvas EXCEPT ![c] = x]
  BY DEF Flow!GenerateYaml, Flow!At, Flow!CanvasState
<1>2. job[c] \in RunStates /\ Asks(job[c])
  BY <1>1, RunIs
<1>3. job' = [job EXCEPT ![c] = Flow!Idle]
  BY GotoIs DEF Flow!GenerateYaml
<1>4. job[c].snap \in Flow!Forms /\ job[c].snap.spec \in Checked
  BY <1>1, <1>2 DEF Asks, OnBranch, RunStates
<1>5. x \in Flow!Shows /\ x.file.yaml \in Checked
  BY <1>4 DEF Flow!Forms, Flow!Shows, Flow!Editors, Flow!FileContents, Flow!Editor, Flow!Yaml
<1> HIDE DEF x
<1>6. FlowTypes'
  BY <1>1, <1>3, <1>5 DEF FlowIInv, FlowTypes
<1>7. JobsSound' /\ Apart' /\ BranchesSound' /\ PrsSound'
  BY <1>1, <1>3, QuietStep
<1>8. RowsSound'
  BY <1>1, SameGrow, RowsKept
<1>9. CheckedIsShown'
  BY <1>1, <1>5 DEF FlowIInv, FlowTypes, CheckedIsShown
<1> QED BY <1>6, <1>7, <1>8, <1>9 DEF FlowIInv

\* The pull request of a definition marks its row.
LEMMA MarkKeeps ==
  ASSUME FlowIInv, Null \notin Flow!RowStates, NEW c \in Chats, Flow!Mark(c)
  PROVE  FlowIInv'
<1> DEFINE n == job[c].name
           del == job[c].start = "resolve"
           r == [row[n] EXCEPT !.status = IF del THEN "pending_deletion" ELSE "pending_review",
                               !.pr = job[c].pr]
<1>1. /\ job[c].pc = "mark" /\ UNCHANGED <<main, branches, prs>>
      /\ row' = IF row[n] = Null THEN row ELSE [row EXCEPT ![n] = r]
      /\ canvas' = canvas \/ canvas' = [canvas EXCEPT ![c] = Flow!Card(n)]
  BY DEF Flow!Mark, Flow!At, Flow!Deleting
<1>2. job[c] \in RunStates /\ KnowsBranch(job[c], branches, prs)
  BY <1>1, RunIs
<1>3. job' = [job EXCEPT ![c] = Flow!Idle]
  BY GotoIs DEF Flow!Mark
<1>4. n \in Names /\ job[c].pr \in Nat
  BY <1>2 DEF RunStates
<1>5. /\ job[c].pr \in DOMAIN prs /\ Changes(branches, prs[job[c].pr].branch, n)
      /\ branches[prs[job[c].pr].branch].name[1] = del
  BY <1>1, <1>2 DEF KnowsBranch, OnBranch
<1>6. row \in [Names -> Flow!RowStates \cup {Null}] /\ canvas \in [Chats -> Flow!Shows]
  BY DEF FlowIInv, FlowTypes
<1>7. row[n] # Null => /\ r \in Flow!RowStates /\ r.spec = row[n].spec /\ r.pr = job[c].pr
                       /\ r.status = IF del THEN "pending_deletion" ELSE "pending_review"
  BY <1>4, <1>6 DEF Flow!RowStates
<1> HIDE DEF r
<1>8. row' \in [Names -> Flow!RowStates \cup {Null}] /\ (row[n] # Null => row'[n] = r)
      /\ \A o \in Names : o # n \/ row[n] = Null => row'[o] = row[o]
  BY <1>1, <1>4, <1>6, <1>7
<1>9. canvas' \in [Chats -> Flow!Shows]
      /\ \A d \in Chats : canvas'[d] = canvas[d] \/ canvas'[d].kind = "card"
  BY <1>1, <1>4, <1>6 DEF Flow!Card, Flow!Cards, Flow!Shows
<1>10. FlowTypes'
  BY <1>1, <1>3, <1>8, <1>9 DEF FlowIInv, FlowTypes
<1>11. JobsSound' /\ Apart' /\ BranchesSound' /\ PrsSound'
  BY <1>1, <1>3, <1>7, <1>8, QuietStep
<1>12. RowsSound'
  <2> SUFFICES ASSUME NEW o \in Names, row'[o] # Null,
                      row'[o].status \in {"pending_review", "pending_deletion"}
               PROVE  /\ row'[o].pr \in DOMAIN prs
                      /\ Changes(branches, prs[row'[o].pr].branch, o)
                      /\ branches[prs[row'[o].pr].branch].name[1] = (row'[o].status = "pending_deletion")
    BY <1>1 DEF RowsSound
  <2>1. CASE o = n /\ row[n] # Null
    BY <1>5, <1>7, <1>8, <2>1
  <2>2. CASE o # n \/ row[n] = Null
    BY <1>8, <2>2 DEF FlowIInv, RowsSound
  <2> QED BY <2>1, <2>2
<1>13. CheckedIsShown'
  <2>1. \A o \in Names : row'[o] # Null => row[o] # Null /\ row'[o].spec = row[o].spec
    BY <1>7, <1>8
  <2> QED BY <1>9, <2>1 DEF FlowIInv, CheckedIsShown
<1> QED BY <1>10, <1>11, <1>12, <1>13 DEF FlowIInv

-----------------------------------------------------------------------------
\* The steps of the repository.
LEMMA Branches ==
  ASSUME FlowIInv
  PROVE  /\ branches \in Seq(BranchStates) /\ Len(branches) \in Nat
         /\ DOMAIN branches = 1..Len(branches)
         /\ \A b \in DOMAIN branches : branches[b] \in BranchStates
         /\ prs \in Seq(PrStates) /\ Len(prs) \in Nat /\ DOMAIN prs = 1..Len(prs)
         /\ \A p \in DOMAIN prs : prs[p] \in PrStates
         /\ \A p \in DOMAIN prs : prs[p].branch \in DOMAIN branches
BY DEF FlowIInv, FlowTypes, BranchesSound

\* A branch that is added, or shared: what there was stays.
LEMMA NewBranchKeeps ==
  ASSUME FlowIInv, NEW c \in Chats, NEW q \in RunStates, job' = [job EXCEPT ![c] = q],
         UNCHANGED <<main, row, canvas, prs>>,
         Asks(q), q.pc = "commit",
         branches' \in Seq(BranchStates), DOMAIN branches \subseteq DOMAIN branches',
         \A b \in DOMAIN branches : /\ branches'[b].name = branches[b].name
                                    /\ branches'[b].changes = branches[b].changes
                                    /\ branches'[b].shared = branches[b].shared \/ branches'[b].shared,
         \A b \in DOMAIN branches' \ DOMAIN branches : branches'[b].changes = {},
         q.branch \in DOMAIN branches', branches'[q.branch].name = <<q.start = "resolve", Safe[q.name]>>,
         q.branch \in DOMAIN branches => branches'[q.branch].shared
  PROVE  FlowIInv'
<1>1. BranchesGrow(branches, branches') /\ PrsGrow(prs, prs')
  BY DEF BranchesGrow, PrsGrow, Changes
<1>2. \A b \in DOMAIN branches : Untouched(b, branches, prs, branches', prs')
  BY DEF Untouched
<1>3. \A d \in Chats : job[d] # Flow!Idle /\ OnBranch(job[d]) => job[d].branch \in DOMAIN branches
  BY DEF FlowIInv, JobsSound, KnowsBranch
<1>4. KnowsBranch(q, branches', prs')
  BY DEF KnowsBranch, OnBranch
<1>5. OwnsBranch(q, branches', prs')
  BY Branches DEF OwnsBranch, OnBranch
<1>6. JobsSound' /\ Apart'
  BY <1>1, <1>2, <1>3, <1>4, <1>5, JobStep
<1>7. FlowTypes' /\ CheckedIsShown'
  BY DEF FlowIInv, FlowTypes, CheckedIsShown
<1>8. BranchesSound'
  <2>1. \A b \in DOMAIN branches' : \A x \in branches'[b].changes :
          x.content = Absent <=> branches'[b].name[1]
    BY DEF FlowIInv, BranchesSound
  <2>2. \A p \in DOMAIN prs : prs[p].branch \in DOMAIN branches'
    BY DEF FlowIInv, BranchesSound
  <2> QED BY <2>1, <2>2 DEF BranchesSound
<1>9. PrsSound'
  <2> SUFFICES ASSUME NEW p \in DOMAIN prs, ~branches'[prs[p].branch].shared
               PROVE  \A x \in branches'[prs[p].branch].changes :
                        x.content # Absent => Flow!Editor(x.name, x.content) = prs[p].asked
    BY DEF PrsSound
  <2>1. prs[p].branch \in DOMAIN branches
    BY Branches
  <2>2. ~branches[prs[p].branch].shared
        /\ branches'[prs[p].branch].changes = branches[prs[p].branch].changes
    BY <2>1
  <2> QED BY <2>2 DEF FlowIInv, PrsSound
<1>10. RowsSound'
  BY <1>1, RowsKept
<1> QED BY <1>6, <1>7, <1>8, <1>9, <1>10 DEF FlowIInv

LEMMA CreateBranchKeeps ==
  ASSUME FlowIInv, NEW c \in Chats, NEW same \in BOOLEAN, Flow!CreateBranch(c, same)
  PROVE  FlowIInv'
<1> DEFINE L == Len(branches')
           q == [job[c] EXCEPT !.pc = "commit", !.branch = L]
           name == <<job[c].start = "resolve", Safe[job[c].name]>>
           new == [name |-> name, base |-> main, changes |-> {}, shared |-> FALSE]
<1>1. job[c].pc = "branch" /\ UNCHANGED <<main, row, canvas, prs>>
  BY DEF Flow!CreateBranch, Flow!At, Flow!Calls
<1>2. job[c] \in RunStates /\ Asks(job[c]) /\ job \in [Chats -> RunStates \cup {Flow!Idle}]
  BY <1>1, RunIs
<1>3. job' = [job EXCEPT ![c] = q]
  BY <1>2 DEF Flow!CreateBranch
<1>4. /\ branches' \in Seq(BranchStates) /\ DOMAIN branches \subseteq DOMAIN branches'
      /\ L \in DOMAIN branches' /\ branches'[L].name = name
      /\ L \in DOMAIN branches => branches'[L].shared
      /\ \A b \in DOMAIN branches : /\ branches'[b].name = branches[b].name
                                    /\ branches'[b].changes = branches[b].changes
                                    /\ branches'[b].shared = branches[b].shared \/ branches'[b].shared
      /\ \A b \in DOMAIN branches' \ DOMAIN branches : branches'[b].changes = {}
  <2>1. CASE same
    <3>1. /\ branches # <<>> /\ branches[Len(branches)].name = name
          /\ branches' = [branches EXCEPT ![Len(branches)].shared = TRUE]
      BY <2>1 DEF Flow!CreateBranch, Flow!Deleting
    <3>2. Len(branches) \in DOMAIN branches
      BY <3>1, Branches
    <3>3. [branches[Len(branches)] EXCEPT !.shared = TRUE] \in BranchStates
      BY <3>2, Branches DEF BranchStates
    <3>4. branches' \in Seq(BranchStates) /\ DOMAIN branches' = DOMAIN branches /\ L = Len(branches)
      BY <3>1, <3>2, <3>3, Branches
    <3> QED BY <3>1, <3>2, <3>4, Branches DEF BranchStates
  <2>2. CASE ~same
    <3>1. branches' = Append(branches, new)
      BY <2>2 DEF Flow!CreateBranch, Flow!Deleting
    <3>2. new \in BranchStates
      BY <1>2 DEF BranchStates, RunStates, FlowIInv, FlowTypes
    <3> HIDE DEF new
    <3>3. /\ branches' \in Seq(BranchStates) /\ L = Len(branches) + 1 /\ DOMAIN branches' = 1..L
          /\ branches'[L] = new /\ \A b \in DOMAIN branches : branches'[b] = branches[b]
      BY <3>1, <3>2, Branches
    <3>4. new.changes = {} /\ new.name = name
      BY DEF new
    <3> HIDE DEF name, L
    <3> QED BY <3>3, <3>4, Branches
  <2> QED BY <2>1, <2>2
<1>5. L \in Nat
  BY <1>4
<1> HIDE DEF L
<1>6. /\ q \in RunStates /\ q.pc = "commit" /\ q.start = job[c].start /\ q.snap = job[c].snap
      /\ q.asked = job[c].asked /\ q.name = job[c].name /\ q.branch = L
  BY <1>2, <1>5 DEF RunStates
<1> HIDE DEF q
<1>7. Asks(q)
  BY <1>1, <1>2, <1>6 DEF Asks, OnBranch
<1> QED BY <1>1, <1>3, <1>4, <1>6, <1>7, NewBranchKeeps

\* The change of a file.
LEMMA CommitKeeps ==
  ASSUME FlowIInv, Absent \notin Flow!FileContents, NEW c \in Chats, Flow!Commit(c)
  PROVE  FlowIInv'
<1> DEFINE n == job[c].name
           b == job[c].branch
           del == job[c].start = "resolve"
           content == IF del THEN Absent ELSE job[c].snap.file
           x0 == [name |-> n, content |-> content]
           new == {x \in branches[b].changes : x.name # n} \cup {x0}
           q == [job[c] EXCEPT !.pc = "open"]
<1>1. job[c].pc = "commit" /\ UNCHANGED <<main, row, canvas, prs>>
  BY DEF Flow!Commit, Flow!At, Flow!Calls
<1>2. /\ job[c] \in RunStates /\ Asks(job[c]) /\ job[c] # Flow!Idle
      /\ KnowsBranch(job[c], branches, prs) /\ OwnsBranch(job[c], branches, prs)
  BY <1>1, RunIs
<1>3. CASE Flow!Done(c) /\ UNCHANGED branches
  BY <1>1, <1>3, GotoIs, OnlyJob
<1>4. CASE Flow!Goto(c, "open") /\ branches' = [branches EXCEPT ![b].changes = new]
  <2>1. b \in DOMAIN branches /\ branches[b].name = <<del, Safe[n]>> /\ n \in Names
    BY <1>1, <1>2 DEF KnowsBranch, OnBranch, RunStates
  <2>2. job[c].start \in {"branch", "resolve"}
    BY <1>1, <1>2 DEF Asks, RunStates, OnBranch
  <2>3. /\ ~del => content = job[c].snap.file /\ content \in Flow!FileContents
                   /\ job[c].asked = Flow!Editor(n, content)
        /\ del => content = Absent
        /\ content \in Flow!FileContents \cup {Absent}
    BY <1>2, <2>2 DEF Asks
  <2>4. x0.name = n /\ x0.content = content /\ x0 \in [name : Names, content : Flow!FileContents \cup {Absent}]
    BY <2>1, <2>3
  <2>5. branches[b] \in BranchStates
    BY <2>1, Branches
  <2>6. x0 \in new /\ \A x \in new : x = x0 \/ (x \in branches[b].changes /\ x.name # n)
    OBVIOUS
  <2>6a. \A x \in branches[b].changes : x.name # n => x \in new
    OBVIOUS
  <2> HIDE DEF x0, content
  <2>7. new \in SUBSET [name : Names, content : Flow!FileContents \cup {Absent}]
    BY <2>4, <2>5 DEF BranchStates
  <2> HIDE DEF new
  <2>8. [branches[b] EXCEPT !.changes = new] \in BranchStates
    BY <2>5, <2>7 DEF BranchStates
  <2>9. /\ branches' \in Seq(BranchStates) /\ DOMAIN branches' = DOMAIN branches
        /\ \A e \in DOMAIN branches : e # b => branches'[e] = branches[e]
        /\ branches'[b].changes = new /\ branches'[b].name = branches[b].name
        /\ branches'[b].shared = branches[b].shared
    BY <1>4, <2>1, <2>5, <2>8, Branches DEF BranchStates
  <2>10. job' = [job EXCEPT ![c] = q]
    BY <1>4, GotoIs
  <2>11. /\ q \in RunStates /\ q.pc = "open" /\ q.start = job[c].start /\ q.snap = job[c].snap
         /\ q.asked = job[c].asked /\ q.name = n /\ q.branch = b
    BY <1>2, MovedRun
  <2> HIDE DEF q
  <2>12. Asks(q)
    BY <1>1, <1>2, <2>11 DEF Asks, OnBranch
  <2>13. BranchesGrow(branches, branches') /\ PrsGrow(prs, prs')
    <3>1. \A m : Changes(branches, b, m) => Changes(branches', b, m)
      BY <2>4, <2>6, <2>6a, <2>9 DEF Changes
    <3>2. \A e \in DOMAIN branches : e # b =>
            \A m : Changes(branches, e, m) => Changes(branches', e, m)
      BY <2>9 DEF Changes
    <3> QED BY <1>1, <2>9, <3>1, <3>2 DEF BranchesGrow, PrsGrow
  <2>14. KnowsBranch(q, branches', prs')
    BY <2>1, <2>4, <2>6, <2>9, <2>11 DEF KnowsBranch, OnBranch, Changes
  <2>15. ~branches[b].shared => branches[b].changes = {} /\ \A p \in DOMAIN prs : prs[p].branch # b
    BY <1>1, <1>2 DEF OwnsBranch, OnBranch
  <2>16. OwnsBranch(q, branches', prs')
    BY <2>3, <2>4, <2>6, <2>9, <2>11, <2>15 DEF OwnsBranch, OnBranch
  <2>17. ASSUME NEW d \in Chats, d # c, job[d] # Flow!Idle, OnBranch(job[d])
         PROVE  /\ Untouched(job[d].branch, branches, prs, branches', prs')
                /\ job[d].branch = q.branch => branches'[q.branch].shared
    <3>1. job[d].branch = b => branches[b].shared
      BY <1>1, <1>2, <2>17 DEF FlowIInv, Apart, OnBranch
    <3>2. job[d].branch \in DOMAIN branches
      BY <2>17 DEF FlowIInv, JobsSound, KnowsBranch
    <3> QED BY <1>1, <2>9, <2>11, <3>1, <3>2 DEF Untouched
  <2>18. JobsSound' /\ Apart'
    BY <1>1, <2>10, <2>11, <2>12, <2>13, <2>14, <2>16, <2>17, JobStep
  <2>19. FlowTypes' /\ CheckedIsShown'
    BY <1>1, <2>9, <2>10, <2>11 DEF FlowIInv, FlowTypes, CheckedIsShown
  <2>20. BranchesSound'
    <3>1. ASSUME NEW e \in DOMAIN branches', NEW x \in branches'[e].changes
          PROVE  x.content = Absent <=> branches'[e].name[1]
      <4>1. CASE e # b
        BY <2>9, <3>1, <4>1 DEF FlowIInv, BranchesSound
      <4>2. CASE e = b /\ x \in branches[b].changes
        BY <2>9, <2>1, <4>2 DEF FlowIInv, BranchesSound
      <4>3. CASE e = b /\ x = x0
        <5>1. content = Absent <=> del
          BY <2>3
        <5>2. branches'[b].name[1] <=> del
          <6>1. branches'[b].name = <<del, Safe[n]>> /\ del \in BOOLEAN
            BY <2>1, <2>9
          <6> HIDE DEF del
          <6> QED BY <6>1
        <5>3. x.content = content
          BY <2>4, <4>3
        <5> HIDE DEF del
        <5> QED BY <4>3, <5>1, <5>2, <5>3
      <4> QED BY <2>6, <2>9, <3>1, <4>1, <4>2, <4>3
    <3> QED BY <1>1, <2>9, <3>1 DEF FlowIInv, BranchesSound
  <2>21. PrsSound'
    <3> SUFFICES ASSUME NEW p \in DOMAIN prs, ~branches'[prs[p].branch].shared
                 PROVE  \A x \in branches'[prs[p].branch].changes :
                          x.content # Absent => Flow!Editor(x.name, x.content) = prs[p].asked
      BY <1>1 DEF PrsSound
    <3>1. prs[p].branch # b /\ prs[p].branch \in DOMAIN branches
      BY <2>9, <2>15, Branches
    <3> QED BY <2>9, <3>1 DEF FlowIInv, PrsSound
  <2>22. RowsSound'
    BY <1>1, <2>13, RowsKept
  <2> QED BY <2>18, <2>19, <2>20, <2>21, <2>22 DEF FlowIInv
<1> QED
  <2>1. \/ Flow!Done(c) /\ UNCHANGED branches
        \/ Flow!Goto(c, "open") /\ branches' = [branches EXCEPT ![b].changes = new]
    BY DEF Flow!Commit, Flow!Change, Flow!Deleting, Flow!CanvasState
  <2> QED BY <1>3, <1>4, <2>1

LEMMA OpenPRKeeps ==
  ASSUME FlowIInv, NEW c \in Chats, Flow!OpenPR(c)
  PROVE  FlowIInv'
<1> DEFINE b == job[c].branch
           new == [branch |-> b, merged |-> FALSE, asked |-> job[c].asked]
           L == Len(prs) + 1
           q == [job[c] EXCEPT !.pc = "mark", !.pr = L]
<1>1. job[c].pc = "open" /\ UNCHANGED <<main, row, canvas, branches>>
  BY DEF Flow!OpenPR, Flow!At, Flow!Calls
<1>2. /\ job[c] \in RunStates /\ Asks(job[c]) /\ job[c] # Flow!Idle
      /\ KnowsBranch(job[c], branches, prs) /\ OwnsBranch(job[c], branches, prs)
      /\ job \in [Chats -> RunStates \cup {Flow!Idle}]
  BY <1>1, RunIs
<1>3. CASE Flow!Done(c) /\ UNCHANGED prs
  BY <1>1, <1>3, GotoIs, OnlyJob
<1>4. CASE prs' = Append(prs, new) /\ job' = [job EXCEPT ![c].pc = "mark", ![c].pr = Len(prs')]
  <2>1. new \in PrStates /\ new.branch = b /\ new.asked = job[c].asked
    BY <1>2 DEF RunStates, PrStates
  <2> HIDE DEF new
  <2>2. /\ prs' \in Seq(PrStates) /\ Len(prs') = L /\ DOMAIN prs' = 1..L /\ prs'[L] = new
        /\ \A p \in DOMAIN prs : prs'[p] = prs[p]
    BY <1>4, <2>1, Branches
  <2>3. L \in Nat /\ L \notin DOMAIN prs /\ \A p \in DOMAIN prs' : p = L \/ p \in DOMAIN prs
    BY <2>2, Branches
  <2>4. L \in DOMAIN prs' /\ DOMAIN prs \subseteq DOMAIN prs'
    BY <2>2, Branches
  <2>5. job' = [job EXCEPT ![c] = q]
    BY <1>2, <1>4, <2>2
  <2> HIDE DEF L
  <2>6. /\ q \in RunStates /\ q.pc = "mark" /\ q.start = job[c].start /\ q.snap = job[c].snap
        /\ q.asked = job[c].asked /\ q.name = job[c].name /\ q.branch = b /\ q.pr = L
    BY <1>2, <2>3 DEF RunStates
  <2> HIDE DEF q
  <2>7. Asks(q)
    BY <1>1, <1>2, <2>6 DEF Asks, OnBranch
  <2>8. BranchesGrow(branches, branches') /\ PrsGrow(prs, prs')
    BY <1>1, <2>2, <2>4 DEF BranchesGrow, PrsGrow
  <2>9. KnowsBranch(q, branches', prs')
    BY <1>1, <1>2, <2>1, <2>2, <2>4, <2>6 DEF KnowsBranch, OnBranch
  <2>10. OwnsBranch(q, branches', prs')
    BY <1>1, <1>2, <2>6 DEF OwnsBranch, OnBranch
  <2>11. ASSUME NEW d \in Chats, d # c, job[d] # Flow!Idle, OnBranch(job[d])
         PROVE  /\ Untouched(job[d].branch, branches, prs, branches', prs')
                /\ job[d].branch = q.branch => branches'[q.branch].shared
    <3>1. job[d].branch = b => branches[b].shared
      BY <1>1, <1>2, <2>11 DEF FlowIInv, Apart, OnBranch
    <3> QED BY <1>1, <2>1, <2>2, <2>3, <2>6, <3>1 DEF Untouched
  <2>12. JobsSound' /\ Apart'
    BY <1>1, <2>5, <2>6, <2>7, <2>8, <2>9, <2>10, <2>11, JobStep
  <2>13. FlowTypes' /\ CheckedIsShown'
    BY <1>1, <2>2, <2>5, <2>6 DEF FlowIInv, FlowTypes, CheckedIsShown
  <2>14. b \in DOMAIN branches
    BY <1>1, <1>2 DEF KnowsBranch, OnBranch
  <2>15. BranchesSound'
    <3>1. \A p \in DOMAIN prs' : prs'[p].branch \in DOMAIN branches
      BY <2>1, <2>2, <2>3, <2>14, Branches
    <3> QED BY <1>1, <3>1 DEF FlowIInv, BranchesSound
  <2>16. PrsSound'
    <3>1. ~branches[b].shared => \A x \in branches[b].changes :
            x.content # Absent => Flow!Editor(x.name, x.content) = new.asked
      BY <1>1, <1>2, <2>1 DEF OwnsBranch, OnBranch
    <3> QED BY <1>1, <2>1, <2>2, <2>3, <3>1 DEF FlowIInv, PrsSound
  <2>17. RowsSound'
    BY <1>1, <2>8, RowsKept
  <2> QED BY <2>12, <2>13, <2>15, <2>16, <2>17 DEF FlowIInv
<1> QED
  <2>1. \/ Flow!Done(c) /\ UNCHANGED prs
        \/ prs' = Append(prs, new) /\ job' = [job EXCEPT ![c].pc = "mark", ![c].pr = Len(prs')]
    BY DEF Flow!OpenPR
  <2> QED BY <1>3, <1>4, <2>1

LEMMA FileIs ==
  ASSUME FlowIInv, NEW b \in DOMAIN branches, NEW n \in Names
  PROVE  Flow!FileOf(b, n) \in Flow!FileContents \cup {Absent}
<1> DEFINE of == {x \in branches[b].changes : x.name = n}
<1>1. branches[b] \in BranchStates
  BY Branches
<1>2. /\ branches[b].base[n] \in Flow!FileContents \cup {Absent}
      /\ \A x \in of : x.content \in Flow!FileContents \cup {Absent}
  BY <1>1 DEF BranchStates
<1>3. of # {} => (CHOOSE x \in of : TRUE) \in of
  OBVIOUS
<1>4. Flow!FileOf(b, n) = IF of = {} THEN branches[b].base[n] ELSE (CHOOSE x \in of : TRUE).content
  BY DEF Flow!FileOf
<1> QED BY <1>2, <1>3, <1>4

\* The main branch takes the files; the runs, the rows and the branches stay.
LEMMA MergeKeeps ==
  ASSUME FlowIInv, NEW p \in 1..MaxPRs, Flow!Merge(p)
  PROVE  FlowIInv'
<1>1. /\ p \in DOMAIN prs /\ UNCHANGED <<row, canvas, job, branches>>
      /\ prs' = [prs EXCEPT ![p].merged = TRUE]
      /\ main' = [n \in Names |-> IF \E x \in branches[prs[p].branch].changes : x.name = n
                                    THEN Flow!FileOf(prs[p].branch, n) ELSE main[n]]
  BY DEF Flow!Merge
<1>2. prs[p] \in PrStates /\ prs[p].branch \in DOMAIN branches
  BY <1>1, Branches
<1>3. main' \in [Names -> Flow!FileContents \cup {Absent}]
  BY <1>1, <1>2, FileIs DEF FlowIInv, FlowTypes
<1>4. [prs[p] EXCEPT !.merged = TRUE] \in PrStates
  BY <1>2 DEF PrStates
<1>5. /\ prs' \in Seq(PrStates) /\ DOMAIN prs' = DOMAIN prs
      /\ \A o \in DOMAIN prs : prs'[o].branch = prs[o].branch /\ prs'[o].asked = prs[o].asked
  BY <1>1, <1>2, <1>4, Branches DEF PrStates
<1>6. FlowTypes' /\ CheckedIsShown' /\ BranchesSound'
  BY <1>1, <1>3, <1>5 DEF FlowIInv, FlowTypes, CheckedIsShown, BranchesSound
<1>7. BranchesGrow(branches, branches') /\ PrsGrow(prs, prs')
      /\ \A b : Untouched(b, branches, prs, branches', prs')
  BY <1>1, <1>5 DEF BranchesGrow, PrsGrow, Untouched
<1>8. \A c \in Chats : job[c] # Flow!Idle =>
        KnowsBranch(job[c], branches', prs') /\ OwnsBranch(job[c], branches', prs')
  BY <1>7, KnowsKept DEF FlowIInv, JobsSound
<1>9. JobsSound'
  BY <1>1, <1>8 DEF FlowIInv, JobsSound
<1>10. Apart'
  BY <1>1 DEF FlowIInv, Apart
<1>11. PrsSound'
  BY <1>1, <1>5 DEF FlowIInv, PrsSound
<1>12. RowsSound'
  BY <1>1, <1>7, RowsKept
<1> QED BY <1>6, <1>9, <1>10, <1>11, <1>12 DEF FlowIInv

LEMMA FlowNext ==
  Flow!FlowAssumption /\ FlowIInv /\ [Flow!Next]_(Flow!vars) => FlowIInv'
<1> SUFFICES ASSUME Flow!FlowAssumption, FlowIInv, [Flow!Next]_(Flow!vars)
             PROVE  FlowIInv'
  OBVIOUS
<1>1. Absent \notin Flow!FileContents /\ Null \notin Flow!RowStates
  BY DEF Flow!FlowAssumption
<1>2. CASE UNCHANGED Flow!vars
  <2>1. UNCHANGED <<main, row, canvas, job, branches, prs>>
    BY <1>2 DEF Flow!vars
  <2> QED BY <2>1 DEF FlowIInv, FlowTypes, JobsSound, Apart, BranchesSound, RowsSound, PrsSound,
                      CheckedIsShown
<1>3. ASSUME NEW c \in Chats,
             \/ \E s \in Specs : Flow!EditForm(c, s)
             \/ Flow!EditYaml(c) \/ Flow!AskSubmit(c) \/ Flow!AskPR(c)
             \/ \E n \in Names : Flow!AskDelete(c, n)
      PROVE  FlowIInv'
  BY <1>3, UserKeeps
<1>4. ASSUME NEW c \in Chats,
             \/ Flow!StaticCheck(c) \/ Flow!Find(c) \/ Flow!Update(c) \/ Flow!Insert(c)
             \/ Flow!GenerateYaml(c) \/ Flow!Resolve(c) \/ Flow!Commit(c) \/ Flow!OpenPR(c)
             \/ Flow!Mark(c) \/ Flow!Error(c) \/ Flow!Crash(c)
             \/ \E same \in BOOLEAN : Flow!CreateBranch(c, same)
      PROVE  FlowIInv'
  <2>1. CASE Flow!StaticCheck(c) \/ Flow!Find(c) \/ Flow!Resolve(c) \/ Flow!Error(c) \/ Flow!Crash(c)
    BY <2>1, StaticCheckKeeps, FindKeeps, ResolveKeeps, ErrorKeeps, CrashKeeps
  <2>2. CASE Flow!Update(c) \/ Flow!Insert(c) \/ Flow!GenerateYaml(c) \/ Flow!Mark(c)
    BY <1>1, <2>2, UpdateKeeps, InsertKeeps, GenerateKeeps, MarkKeeps
  <2>3. CASE Flow!Commit(c) \/ Flow!OpenPR(c) \/ \E same \in BOOLEAN : Flow!CreateBranch(c, same)
    BY <1>1, <2>3, CommitKeeps, OpenPRKeeps, CreateBranchKeeps
  <2> QED BY <1>4, <2>1, <2>2, <2>3
<1>5. ASSUME NEW p \in 1..MaxPRs, Flow!Merge(p) PROVE FlowIInv'
  BY <1>5, MergeKeeps
<1> QED BY <1>2, <1>3, <1>4, <1>5 DEF Flow!Next

\* For any number of conversations, names and pull requests, and whatever
\* fails: a row is pending only with its pull request, and a pull request
\* holds what the user was shown when asking for it (submit-pr.ts:84).
THEOREM PendingHasPullRequest == Flow!Spec => []FlowInv
<1>1. Flow!Init => FlowIInv
  BY FlowAssumed, FlowInit
<1>2. FlowIInv /\ [Flow!Next]_(Flow!vars) => FlowIInv'
  BY FlowAssumed, FlowNext
<1>3. FlowIInv => FlowInv
  BY FlowHolds DEF FlowInv
<1> QED BY <1>1, <1>2, <1>3, PTL DEF Flow!Spec

-----------------------------------------------------------------------------
(***************************************************************************)
(* The runs of the post-merge skill.                                       *)
(***************************************************************************)
MergeStates == [table : Loggers, columns : Columns]
InputStates == {i \in [skill : STRING, definitions : Seq(MergeStates)] : Skill!OneEach(i)}

ExecStates == [input : InputStates, at : {"none", "agent", "apply", "wait", "ended"},
               next : Nat \ {0}, turns : 0..MaxAgentTurns, failed : BOOLEAN,
               counted : 0..MaxPartitions, verdict : {"none", "done", "failed"},
               result : {"none", "ok", "error"}]

SkillTypes ==
  /\ exec \in [Skill!Runs -> ExecStates]
  /\ topics \in [Loggers -> 0..MaxPartitions]
  /\ protos \in [{ProtoName[t] : t \in Loggers} -> MergeStates \cup {NoThing}]
  /\ subjects \in [Loggers -> Seq(Columns)]
  /\ \A t \in Loggers : Skill!IsInjective(subjects[t])
  /\ iceberg \in [Loggers -> Columns \cup {NoThing}]
  /\ writers \in [{SafeName[t] : t \in Loggers} -> [table : Loggers, replicas : Nat] \cup {NoThing}]
  /\ bumped \subseteq Loggers /\ cuts \in 0..MaxCuts /\ runFaults \in RunFaultSets

\* The runbook of a run x: its places, those that are left and those it has passed.
PlacesOf(x) == Len(x.input.definitions) * 5
MergeOf(x, p) == x.input.definitions[((p - 1) \div 5) + 1]
Has(x, p) == Skill!ToolAt(p) \in Skill!Tools(x.input.skill)
LeftOf(x) == {p \in x.next..PlacesOf(x) : Has(x, p)}
PlaceOf(x) == CHOOSE p \in LeftOf(x) : \A q \in LeftOf(x) : p <= q
Passed(x) == {p \in 1..PlacesOf(x) : p < x.next /\ Has(x, p)}
TableOf(x) == MergeOf(x, PlaceOf(x)).table

HasWriter(t, wr) == wr[SafeName[t]] # NoThing /\ wr[SafeName[t]].table = t

\* What a tool leaves of a merged table d.
Holds(tool, d, tp, sb, ic, wr) ==
  /\ tool = "create_kafka_topic" => tp[d.table] > 0
  /\ tool = "register_protobuf_schema" => Skill!Contains(sb[d.table], d.columns)
  /\ tool = "create_iceberg_table" => ic[d.table] # NoThing
  /\ tool = "start_logger_writer" => HasWriter(d.table, wr)

\* A run that is starting a writer has counted partitions that are there.
AtWork(x, tp, wr) ==
  x.at \in {"apply", "wait"} =>
    /\ x.verdict = "none" /\ x.turns < MaxAgentTurns
    /\ LeftOf(x) # {} /\ Skill!ToolAt(PlaceOf(x)) = "start_logger_writer"
    /\ x.counted \in 1..tp[TableOf(x)]
    /\ x.at = "wait" => HasWriter(TableOf(x), wr)

\* A run that no call of failed has made what it has passed, but for places the
\* agent left out.
HasMade(x, fs, tp, sb, ic, wr) ==
  "stray" \notin fs /\ ~x.failed =>
    \A p \in Passed(x) : Holds(Skill!ToolAt(p), MergeOf(x, p), tp, sb, ic, wr)

Verdict(x) ==
  /\ x.verdict = "done" => ~x.failed /\ LeftOf(x) = {}
  /\ x.at = "none" => x.next = 1 /\ x.verdict = "none"

RunsSound ==
  \A r \in Skill!Runs : /\ Verdict(exec[r]) /\ AtWork(exec[r], topics, writers)
                        /\ HasMade(exec[r], runFaults, topics, subjects, iceberg, writers)

Fit(tp, wr) ==
  \A n \in DOMAIN wr : wr[n] # NoThing =>
    SafeName[wr[n].table] = n /\ wr[n].replicas \in 1..tp[wr[n].table]

-----------------------------------------------------------------------------
(* One run after the other, by agents that follow the runbook.             *)
InOrder == runFaults \cap {"overlap", "stray"} = {}

Sequential(es) == \A q, r \in Skill!Runs : q < r /\ es[r].at # "none" => es[q].at = "ended"

MergedBy(x) == {x.input.definitions[n] : n \in DOMAIN x.input.definitions}

\* No later run has touched the table.
LastOf(es, r, t) ==
  \A q \in Skill!Runs : q > r /\ es[q].at # "none" => \A d \in MergedBy(es[q]) : d.table # t

OwnProto(t) == \A u \in Loggers : ProtoName[u] = ProtoName[t] => u = t

\* What the last run that touches a table shows of it.
Shows(tool, d, tp, pr, wr, bu) ==
  /\ tool = "emit_logger_proto" /\ OwnProto(d.table) =>
       pr[ProtoName[d.table]] = Skill!Message(d.table, d.columns)
  /\ tool = "start_logger_writer" =>
       wr[SafeName[d.table]].replicas = tp[d.table] \/ d.table \in bu

\* The record x of run r, among the runs es.
RunShows(es, r, x, tp, pr, wr, bu) ==
  /\ ~x.failed => \A p \in Passed(x) : LastOf(es, r, MergeOf(x, p).table) =>
       Shows(Skill!ToolAt(p), MergeOf(x, p), tp, pr, wr, bu)
  /\ x.at = "apply" => x.counted = tp[TableOf(x)] \/ TableOf(x) \in bu
  /\ x.at = "wait" => wr[SafeName[TableOf(x)]].replicas = tp[TableOf(x)] \/ TableOf(x) \in bu

\* The schemas of a table are those of its merges, ...
SubjectsFrom(es, sb) ==
  \A t \in Loggers : \A i \in DOMAIN sb[t] :
    \E q \in Skill!Runs : /\ es[q].at # "none"
                          /\ \E e \in MergedBy(es[q]) : e.table = t /\ e.columns = sb[t][i]

Earlier(es, r, d) ==
  \E q \in Skill!Runs : q < r /\ \E e \in MergedBy(es[q]) : e.table = d.table /\ e.columns = d.columns

\* ... and a new one of the last run that touches it comes last.
Ordered(es, sb) ==
  \A r \in Skill!Runs : \A d \in MergedBy(es[r]) :
    /\ es[r].at # "none" /\ LastOf(es, r, d.table) /\ ~Earlier(es, r, d)
    /\ Skill!Contains(sb[d.table], d.columns)
    => Skill!Last(sb[d.table]) = d.columns

OrderSound ==
  InOrder => /\ Sequential(exec)
             /\ \A r \in Skill!Runs : RunShows(exec, r, exec[r], topics, protos, writers, bumped)
             /\ SubjectsFrom(exec, subjects) /\ Ordered(exec, subjects)

SkillIInv == SkillTypes /\ RunsSound /\ Fit(topics, writers) /\ OrderSound

-----------------------------------------------------------------------------
(* The places of the runbook.                                              *)
LEMMA BookIs ==
  /\ \A p : Skill!ToolAt(p) = Skill!Book[((p - 1) % 5) + 1]
  /\ Skill!Book[1] = "create_kafka_topic" /\ Skill!Book[2] = "emit_logger_proto"
  /\ Skill!Book[3] = "register_protobuf_schema" /\ Skill!Book[4] = "create_iceberg_table"
  /\ Skill!Book[5] = "start_logger_writer"
<1>1. Len(Skill!Book) = 5
  BY DEF Skill!Book
<1> QED BY <1>1 DEF Skill!ToolAt, Skill!Book

\* The places of a run are those of its record.
LEMMA PlacesAre ==
  ASSUME NEW r
  PROVE  /\ Skill!Left(r) = LeftOf(exec[r]) /\ Skill!Place(r) = PlaceOf(exec[r])
         /\ Skill!Call(r) = MergeOf(exec[r], PlaceOf(exec[r]))
         /\ Skill!Places(r) = PlacesOf(exec[r])
<1>1. Len(Skill!Book) = 5
  BY DEF Skill!Book
<1>2. Skill!Places(r) = PlacesOf(exec[r])
  BY <1>1 DEF Skill!Places, PlacesOf, Skill!Merges
<1>3. Skill!Left(r) = LeftOf(exec[r])
  BY <1>2 DEF Skill!Left, LeftOf, Has
<1>4. Skill!Place(r) = PlaceOf(exec[r])
  BY <1>3 DEF Skill!Place, PlaceOf
<1> QED BY <1>1, <1>2, <1>3, <1>4 DEF Skill!Call, Skill!MergeAt, Skill!Merges, MergeOf

LEMMA MergesAre ==
  ASSUME NEW x \in ExecStates
  PROVE  /\ Len(x.input.definitions) \in Nat
         /\ DOMAIN x.input.definitions = 1..Len(x.input.definitions)
         /\ \A n \in 1..Len(x.input.definitions) : x.input.definitions[n] \in MergeStates
         /\ PlacesOf(x) = Len(x.input.definitions) * 5 /\ PlacesOf(x) \in Nat
         /\ Skill!OneEach(x.input) /\ x.next \in Nat /\ x.next >= 1
<1>1. x.input \in InputStates /\ x.next \in Nat \ {0}
  BY DEF ExecStates
<1>2. x.input.definitions \in Seq(MergeStates) /\ Skill!OneEach(x.input)
  BY <1>1 DEF InputStates
<1> QED BY <1>1, <1>2 DEF PlacesOf

LEMMA MergeIs ==
  ASSUME NEW x \in ExecStates, NEW p \in 1..PlacesOf(x)
  PROVE  /\ MergeOf(x, p) \in MergedBy(x) /\ MergeOf(x, p) \in MergeStates
         /\ MergeOf(x, p).table \in Loggers /\ MergeOf(x, p).columns \in Columns
<1> DEFINE s == x.input.definitions
           n == ((p - 1) \div 5) + 1
<1>1. Len(s) \in Nat /\ DOMAIN s = 1..Len(s) /\ PlacesOf(x) = Len(s) * 5
      /\ \A m \in 1..Len(s) : s[m] \in MergeStates
  BY MergesAre
<1>2. p \in 1..(Len(s) * 5)
  BY <1>1
<1>3. n \in 1..Len(s)
  <2> HIDE DEF s
  <2> QED BY <1>1, <1>2
<1>4. MergeOf(x, p) = s[n]
  BY DEF MergeOf
<1>5. s[n] \in MergeStates /\ s[n] \in MergedBy(x)
  BY <1>1, <1>3 DEF MergedBy
<1> QED BY <1>4, <1>5 DEF MergeStates

\* The place of the next call is the first of those left.
LEMMA PlaceIs ==
  ASSUME NEW x \in ExecStates, LeftOf(x) # {}
  PROVE  /\ PlaceOf(x) \in LeftOf(x) /\ \A q \in LeftOf(x) : PlaceOf(x) <= q
         /\ PlaceOf(x) \in 1..PlacesOf(x) /\ x.next <= PlaceOf(x) /\ Has(x, PlaceOf(x))
<1>1. x.next \in Nat /\ x.next >= 1 /\ PlacesOf(x) \in Nat
  BY MergesAre
<1>2. LeftOf(x) \subseteq Nat
  BY <1>1 DEF LeftOf
<1>3. PICK p \in LeftOf(x) : \A q \in LeftOf(x) : ~(<<q, p>> \in OpToRel(<, Nat))
  BY <1>2, NatLessThanWellFounded, WFMin
<1>4. \A q \in LeftOf(x) : p <= q
  <2> SUFFICES ASSUME NEW q \in LeftOf(x), ~(p <= q) PROVE FALSE
    OBVIOUS
  <2>1. q \in Nat /\ p \in Nat
    BY <1>2
  <2>2. q < p
    BY <2>1
  <2> QED BY <1>3, <2>1, <2>2 DEF OpToRel
<1>5. PlaceOf(x) \in LeftOf(x) /\ \A q \in LeftOf(x) : PlaceOf(x) <= q
  BY <1>4 DEF PlaceOf
<1>6. PlaceOf(x) \in x.next..PlacesOf(x) /\ Has(x, PlaceOf(x))
  BY <1>5 DEF LeftOf
<1> QED BY <1>1, <1>5, <1>6

\* The place of a merged table and a tool that is passed, or still left.
LEMMA Covers ==
  ASSUME NEW x \in ExecStates, NEW d \in MergedBy(x), NEW k \in 1..5,
         LeftOf(x) = {}, Skill!Tools(x.input.skill) = Skill!Registry
  PROVE  \E p \in Passed(x) : Skill!ToolAt(p) = Skill!Book[k] /\ MergeOf(x, p) = d
<1> DEFINE s == x.input.definitions
<1>1. Len(s) \in Nat /\ DOMAIN s = 1..Len(s) /\ PlacesOf(x) = Len(s) * 5 /\ x.next \in Nat
  BY MergesAre
<1>2. PICK n \in 1..Len(s) : d = s[n]
  BY <1>1 DEF MergedBy
<1> HIDE DEF s
<1> DEFINE p == (n - 1) * 5 + k
<1>3. p \in Nat /\ p \in 1..PlacesOf(x) /\ (p - 1) % 5 = k - 1 /\ (p - 1) \div 5 = n - 1
  BY <1>1, <1>2
<1> HIDE DEF p
<1>4. Skill!ToolAt(p) = Skill!Book[k] /\ MergeOf(x, p) = d
  <2>1. ((p - 1) % 5) + 1 = k /\ ((p - 1) \div 5) + 1 = n
    BY <1>1, <1>2, <1>3
  <2> QED BY <2>1, <1>2, BookIs DEF MergeOf, s
<1>5. Has(x, p)
  <2>1. Skill!Book[k] \in Skill!Registry
    BY BookIs DEF Skill!Registry
  <2> QED BY <2>1, <1>4 DEF Has
<1>6. ~(p >= x.next)
  <2> SUFFICES ASSUME p >= x.next PROVE FALSE
    OBVIOUS
  <2>1. p \in x.next..PlacesOf(x)
    BY <1>1, <1>3, MergesAre
  <2> QED BY <2>1, <1>5 DEF LeftOf
<1>7. p \in Passed(x)
  BY <1>1, <1>3, <1>5, <1>6 DEF Passed
<1> QED BY <1>4, <1>7

\* A tool has one place for a table.
LEMMA OnePlace ==
  ASSUME NEW x \in ExecStates, NEW p \in 1..PlacesOf(x), NEW q \in 1..PlacesOf(x),
         Skill!ToolAt(p) = Skill!ToolAt(q), MergeOf(x, p).table = MergeOf(x, q).table
  PROVE  p = q
<1> DEFINE s == x.input.definitions
           m == ((p - 1) \div 5) + 1
           n == ((q - 1) \div 5) + 1
           i == ((p - 1) % 5) + 1
           j == ((q - 1) % 5) + 1
<1>1. Len(s) \in Nat /\ DOMAIN s = 1..Len(s) /\ PlacesOf(x) = Len(s) * 5 /\ Skill!OneEach(x.input)
  BY MergesAre
<1>2. p \in 1..(Len(s) * 5) /\ q \in 1..(Len(s) * 5)
  BY <1>1
<1> HIDE DEF s
<1>3. m \in 1..Len(s) /\ n \in 1..Len(s) /\ i \in 1..5 /\ j \in 1..5
  BY <1>1, <1>2
<1>4. Skill!Book[i] = Skill!Book[j]
  BY BookIs
<1>5. i = j
  <2> HIDE DEF i, j
  <2>1. (i = 1 \/ i = 2 \/ i = 3 \/ i = 4 \/ i = 5) /\ (j = 1 \/ j = 2 \/ j = 3 \/ j = 4 \/ j = 5)
    BY <1>3
  <2> QED BY <2>1, <1>4, BookIs
<1>6. s[m].table = s[n].table
  BY DEF MergeOf, s
<1>7. m = n
  <2> HIDE DEF m, n
  <2> QED BY <1>1, <1>3, <1>6 DEF Skill!OneEach, s
<1> QED BY <1>1, <1>2, <1>5, <1>7

LEMMA OneMerge ==
  ASSUME NEW x \in ExecStates, NEW d \in MergedBy(x), NEW e \in MergedBy(x), d.table = e.table
  PROVE  d = e
<1>1. Skill!OneEach(x.input)
  BY MergesAre
<1> QED BY <1>1 DEF Skill!OneEach, MergedBy

-----------------------------------------------------------------------------
(* What a step changes of the record x of its run: y.                      *)
SamePlaces(x, y) ==
  /\ PlacesOf(y) = PlacesOf(x) /\ MergedBy(y) = MergedBy(x)
  /\ \A p : MergeOf(y, p) = MergeOf(x, p) /\ (Has(y, p) <=> Has(x, p))

LEMMA InputKeeps ==
  ASSUME NEW x, NEW y, y.input = x.input
  PROVE  SamePlaces(x, y)
BY DEF SamePlaces, PlacesOf, MergedBy, MergeOf, Has

LEMMA PlaceKeeps ==
  ASSUME NEW x, NEW y, y.input = x.input, y.next = x.next
  PROVE  LeftOf(y) = LeftOf(x) /\ PlaceOf(y) = PlaceOf(x) /\ Passed(y) = Passed(x) /\ TableOf(y) = TableOf(x)
<1>1. SamePlaces(x, y)
  BY InputKeeps
<1>2. LeftOf(y) = LeftOf(x)
  BY <1>1 DEF LeftOf, SamePlaces
<1>3. PlaceOf(y) = PlaceOf(x)
  BY <1>2 DEF PlaceOf
<1>4. Passed(y) = Passed(x)
  BY <1>1 DEF Passed, SamePlaces
<1> QED BY <1>1, <1>2, <1>3, <1>4 DEF TableOf, SamePlaces

LEMMA NothingPassed ==
  ASSUME NEW x, x.next = 1
  PROVE  Passed(x) = {}
BY DEF Passed

\* A call that returns moves the run past its place.
Moved(x, ok) == [x EXCEPT !.at = "agent", !.next = PlaceOf(x) + 1, !.turns = @ + 1,
                          !.failed = @ \/ ~ok]

LEMMA MovedIs ==
  ASSUME Skill!SkillAssumption, NEW x \in ExecStates, NEW ok \in BOOLEAN, NEW y, y = Moved(x, ok),
         LeftOf(x) # {}, x.turns < MaxAgentTurns
  PROVE  /\ y \in ExecStates /\ y.input = x.input /\ y.at = "agent" /\ y.verdict = x.verdict
         /\ (y.failed <=> (x.failed \/ ~ok)) /\ y.next = PlaceOf(x) + 1
         /\ Passed(y) = Passed(x) \cup {PlaceOf(x)} /\ PlaceOf(x) \notin Passed(x)
         /\ SamePlaces(x, y)
<1> DEFINE p == PlaceOf(x)
<1>1. /\ p \in LeftOf(x) /\ \A q \in LeftOf(x) : p <= q
      /\ p \in 1..PlacesOf(x) /\ x.next <= p /\ Has(x, p)
  BY PlaceIs
<1>2. x.next \in Nat /\ PlacesOf(x) \in Nat
  BY MergesAre
<1> HIDE DEF p
<1>3. y = [x EXCEPT !.at = "agent", !.next = p + 1, !.turns = x.turns + 1, !.failed = x.failed \/ ~ok]
  BY DEF Moved, p
<1>4. p + 1 \in Nat \ {0}
  BY <1>1, <1>2
<1>5. x.turns + 1 \in 0..MaxAgentTurns
  BY DEF ExecStates, Skill!SkillAssumption
<1>6. (x.failed \/ ~ok) \in BOOLEAN
  OBVIOUS
<1>7. y \in ExecStates
  BY <1>3, <1>4, <1>5, <1>6 DEF ExecStates
<1>8. /\ y.input = x.input /\ y.at = "agent" /\ y.verdict = x.verdict
      /\ (y.failed <=> (x.failed \/ ~ok)) /\ y.next = p + 1
  BY <1>3 DEF ExecStates
<1>9. SamePlaces(x, y)
  BY <1>8, InputKeeps
<1>10. Passed(y) = {q \in 1..PlacesOf(x) : q < p + 1 /\ Has(x, q)}
  BY <1>8, <1>9 DEF Passed, SamePlaces
<1>11. \A q \in 1..PlacesOf(x) : (q < p + 1 /\ Has(x, q)) <=> ((q < x.next /\ Has(x, q)) \/ q = p)
  <2> SUFFICES ASSUME NEW q \in 1..PlacesOf(x)
               PROVE  (q < p + 1 /\ Has(x, q)) <=> ((q < x.next /\ Has(x, q)) \/ q = p)
    OBVIOUS
  <2>1. q \in Nat /\ q >= 1 /\ q <= PlacesOf(x)
    BY <1>2
  <2>2. q >= x.next /\ Has(x, q) => q \in LeftOf(x)
    BY <2>1, <1>2 DEF LeftOf
  <2> QED BY <1>1, <1>2, <2>1, <2>2
<1>12. Passed(y) = Passed(x) \cup {p} /\ p \notin Passed(x)
  BY <1>1, <1>2, <1>10, <1>11 DEF Passed
<1> QED BY <1>7, <1>8, <1>9, <1>12 DEF p

-----------------------------------------------------------------------------
(* What the services keep.                                                 *)
Grows(tp, sb, ic, wr, tp2, sb2, ic2, wr2) ==
  \A t \in Loggers :
    /\ tp[t] \in Nat /\ tp2[t] \in Nat /\ tp[t] <= tp2[t]
    /\ \A c \in Columns : Skill!Contains(sb[t], c) => Skill!Contains(sb2[t], c)
    /\ ic[t] # NoThing => ic2[t] # NoThing
    /\ HasWriter(t, wr) => HasWriter(t, wr2)

LEMMA HoldsKept ==
  ASSUME NEW tp, NEW sb, NEW ic, NEW wr, NEW tp2, NEW sb2, NEW ic2, NEW wr2,
         Grows(tp, sb, ic, wr, tp2, sb2, ic2, wr2), NEW d \in MergeStates, NEW tool,
         Holds(tool, d, tp, sb, ic, wr)
  PROVE  Holds(tool, d, tp2, sb2, ic2, wr2)
<1>1. d.table \in Loggers /\ d.columns \in Columns
  BY DEF MergeStates
<1>2. /\ tp[d.table] \in Nat /\ tp2[d.table] \in Nat /\ tp[d.table] <= tp2[d.table]
      /\ Skill!Contains(sb[d.table], d.columns) => Skill!Contains(sb2[d.table], d.columns)
      /\ ic[d.table] # NoThing => ic2[d.table] # NoThing
      /\ HasWriter(d.table, wr) => HasWriter(d.table, wr2)
  BY <1>1 DEF Grows
<1>3. tp[d.table] > 0 => tp2[d.table] > 0
  BY <1>2
<1> QED BY <1>2, <1>3 DEF Holds

LEMMA PassedAre ==
  ASSUME NEW x \in ExecStates, NEW p \in Passed(x)
  PROVE  p \in 1..PlacesOf(x) /\ MergeOf(x, p) \in MergeStates /\ MergeOf(x, p) \in MergedBy(x)
<1>1. p \in 1..PlacesOf(x)
  BY DEF Passed
<1> QED BY <1>1, MergeIs

\* A run x that takes no step stays sound.
LEMMA RunKept ==
  ASSUME Skill!SkillAssumption, NEW x \in ExecStates, NEW fs,
         NEW tp, NEW sb, NEW ic, NEW wr, NEW tp2, NEW sb2, NEW ic2, NEW wr2,
         Grows(tp, sb, ic, wr, tp2, sb2, ic2, wr2)
  PROVE  /\ AtWork(x, tp, wr) => AtWork(x, tp2, wr2)
         /\ HasMade(x, fs, tp, sb, ic, wr) => HasMade(x, fs, tp2, sb2, ic2, wr2)
<1>1. ASSUME AtWork(x, tp, wr), x.at \in {"apply", "wait"} PROVE AtWork(x, tp2, wr2)
  <2>1. /\ x.verdict = "none" /\ x.turns < MaxAgentTurns
        /\ LeftOf(x) # {} /\ Skill!ToolAt(PlaceOf(x)) = "start_logger_writer"
        /\ x.counted \in 1..tp[TableOf(x)]
        /\ x.at = "wait" => HasWriter(TableOf(x), wr)
    BY <1>1 DEF AtWork
  <2>2. TableOf(x) \in Loggers
    BY <2>1, PlaceIs, MergeIs DEF TableOf
  <2> DEFINE t == TableOf(x)
  <2>3. tp[t] \in Nat /\ tp2[t] \in Nat /\ tp[t] <= tp2[t] /\ (HasWriter(t, wr) => HasWriter(t, wr2))
    BY <2>2 DEF Grows
  <2>4. x.counted \in 1..tp2[t]
    <3> HIDE DEF t
    <3>1. x.counted \in 1..tp[t]
      BY <2>1 DEF t
    <3> QED BY <2>3, <3>1
  <2> QED BY <2>1, <2>3, <2>4 DEF AtWork
<1>2. ASSUME HasMade(x, fs, tp, sb, ic, wr), "stray" \notin fs, ~x.failed, NEW p \in Passed(x)
      PROVE  Holds(Skill!ToolAt(p), MergeOf(x, p), tp2, sb2, ic2, wr2)
  <2>1. Holds(Skill!ToolAt(p), MergeOf(x, p), tp, sb, ic, wr)
    BY <1>2 DEF HasMade
  <2> QED BY <2>1, <1>2, PassedAre, HoldsKept
<1> QED BY <1>1, <1>2 DEF AtWork, HasMade

\* A run stays sound when a call of it returns; it is ok if it left what it is for.
LEMMA RunMoved ==
  ASSUME Skill!SkillAssumption, NEW x \in ExecStates, NEW ok \in BOOLEAN, NEW y, y = Moved(x, ok), NEW fs,
         NEW tp, NEW sb, NEW ic, NEW wr, NEW tp2, NEW sb2, NEW ic2, NEW wr2,
         Grows(tp, sb, ic, wr, tp2, sb2, ic2, wr2), HasMade(x, fs, tp, sb, ic, wr),
         LeftOf(x) # {}, x.turns < MaxAgentTurns, x.verdict = "none",
         ok => Holds(Skill!ToolAt(PlaceOf(x)), MergeOf(x, PlaceOf(x)), tp2, sb2, ic2, wr2)
  PROVE  /\ y \in ExecStates /\ Verdict(y)
         /\ AtWork(y, tp2, wr2) /\ HasMade(y, fs, tp2, sb2, ic2, wr2)
<1>1. /\ y \in ExecStates /\ y.at = "agent" /\ y.verdict = x.verdict
      /\ (y.failed <=> (x.failed \/ ~ok))
      /\ Passed(y) = Passed(x) \cup {PlaceOf(x)} /\ SamePlaces(x, y)
  BY MovedIs
<1>2. HasMade(x, fs, tp2, sb2, ic2, wr2)
  BY RunKept
<1>3. ASSUME "stray" \notin fs, ~y.failed, NEW p \in Passed(y)
      PROVE  Holds(Skill!ToolAt(p), MergeOf(y, p), tp2, sb2, ic2, wr2)
  <2>1. ok /\ ~x.failed
    BY <1>1, <1>3
  <2>2. MergeOf(y, p) = MergeOf(x, p)
    BY <1>1 DEF SamePlaces
  <2>3. CASE p = PlaceOf(x)
    BY <2>1, <2>2, <2>3
  <2>4. CASE p \in Passed(x)
    BY <2>1, <2>2, <2>4, <1>2, <1>3 DEF HasMade
  <2> QED BY <1>1, <1>3, <2>3, <2>4
<1>4. Verdict(y) /\ AtWork(y, tp2, wr2)
  BY <1>1 DEF Verdict, AtWork
<1>5. HasMade(y, fs, tp2, sb2, ic2, wr2)
  BY <1>3 DEF HasMade
<1> QED BY <1>1, <1>4, <1>5

-----------------------------------------------------------------------------
(* One step of one run r, whose record becomes y.                          *)
Active == {"agent", "apply", "wait"}

LEMMA StepSound ==
  ASSUME Skill!SkillAssumption, SkillTypes, RunsSound, NEW r \in Skill!Runs, NEW y \in ExecStates,
         exec' = [exec EXCEPT ![r] = y], runFaults' = runFaults,
         Grows(topics, subjects, iceberg, writers, topics', subjects', iceberg', writers'),
         Verdict(y), AtWork(y, topics', writers'),
         HasMade(y, runFaults, topics', subjects', iceberg', writers')
  PROVE  exec' \in [Skill!Runs -> ExecStates] /\ RunsSound'
<1>1. exec \in [Skill!Runs -> ExecStates]
  BY DEF SkillTypes
<1>2. exec' \in [Skill!Runs -> ExecStates] /\ exec'[r] = y
      /\ \A q \in Skill!Runs : q # r => exec'[q] = exec[q]
  BY <1>1
<1>3. \A q \in Skill!Runs :
        /\ Verdict(exec'[q]) /\ AtWork(exec'[q], topics', writers')
        /\ HasMade(exec'[q], runFaults', topics', subjects', iceberg', writers')
  <2> SUFFICES ASSUME NEW q \in Skill!Runs
               PROVE  /\ Verdict(exec'[q]) /\ AtWork(exec'[q], topics', writers')
                      /\ HasMade(exec'[q], runFaults, topics', subjects', iceberg', writers')
    OBVIOUS
  <2>1. CASE q = r
    BY <2>1, <1>2
  <2>2. CASE q # r
    <3>1. exec'[q] = exec[q] /\ exec[q] \in ExecStates
      BY <2>2, <1>1, <1>2
    <3>2. /\ Verdict(exec[q]) /\ AtWork(exec[q], topics, writers)
          /\ HasMade(exec[q], runFaults, topics, subjects, iceberg, writers)
      BY DEF RunsSound
    <3>3. AtWork(exec[q], topics', writers')
      BY <3>1, <3>2, RunKept
    <3>4. HasMade(exec[q], runFaults, topics', subjects', iceberg', writers')
      BY <3>1, <3>2, RunKept
    <3> QED BY <3>1, <3>2, <3>3, <3>4
  <2> QED BY <2>1, <2>2
<1> QED BY <1>2, <1>3 DEF RunsSound

\* The runs that have started, and what they merge, are the same.
SameRuns(es, fs) ==
  \A q \in Skill!Runs : fs[q].input = es[q].input /\ (fs[q].at = "none" <=> es[q].at = "none")

LEMMA OrderSame ==
  ASSUME NEW es, NEW fs, SameRuns(es, fs)
  PROVE  /\ \A q, t : LastOf(fs, q, t) <=> LastOf(es, q, t)
         /\ \A sb : SubjectsFrom(es, sb) => SubjectsFrom(fs, sb)
         /\ \A sb : Ordered(es, sb) => Ordered(fs, sb)
<1>1. \A q \in Skill!Runs : MergedBy(fs[q]) = MergedBy(es[q])
  BY DEF SameRuns, MergedBy
<1>2. \A q, t : LastOf(fs, q, t) <=> LastOf(es, q, t)
  BY <1>1 DEF LastOf, SameRuns
<1>3. \A sb : SubjectsFrom(es, sb) => SubjectsFrom(fs, sb)
  BY <1>1 DEF SubjectsFrom, SameRuns
<1>4. \A r, d : Earlier(fs, r, d) <=> Earlier(es, r, d)
  BY <1>1 DEF Earlier
<1>5. \A sb : Ordered(es, sb) => Ordered(fs, sb)
  BY <1>1, <1>2, <1>4 DEF Ordered, SameRuns
<1> QED BY <1>2, <1>3, <1>5

\* What a run x with number q shows of the tables it touched last is left.
Keeps(es, q, x, tp, pr, wr, bu, tp2, pr2, wr2, bu2) ==
  ~x.failed =>
    \A p \in Passed(x) : LET d == MergeOf(x, p) IN
      LastOf(es, q, d.table) /\ Shows(Skill!ToolAt(p), d, tp, pr, wr, bu)
      => Shows(Skill!ToolAt(p), d, tp2, pr2, wr2, bu2)

\* While a run is at work the others are over or have not started.
LEMMA Alone ==
  ASSUME Sequential(exec), Skill!SkillAssumption, NEW r \in Skill!Runs, exec[r].at \in Active,
         NEW q \in Skill!Runs, q # r
  PROVE  (q < r /\ exec[q].at = "ended") \/ (r < q /\ exec[q].at = "none")
<1>1. q \in Nat /\ r \in Nat
  BY DEF Skill!Runs, Skill!SkillAssumption
<1>2. exec[r].at # "none" /\ exec[r].at # "ended"
  BY DEF Active
<1> QED BY <1>1, <1>2 DEF Sequential

LEMMA StepInOrder ==
  ASSUME Skill!SkillAssumption, SkillTypes, RunsSound, OrderSound, InOrder,
         NEW r \in Skill!Runs, NEW y \in ExecStates,
         exec' = [exec EXCEPT ![r] = y], runFaults' = runFaults,
         exec[r].at \in Active, y.input = exec[r].input, y.at # "none",
         \A q \in Skill!Runs : q < r =>
           Keeps(exec, q, exec[q], topics, protos, writers, bumped, topics', protos', writers', bumped'),
         RunShows(exec, r, y, topics', protos', writers', bumped'),
         SubjectsFrom(exec, subjects'), Ordered(exec, subjects')
  PROVE  OrderSound'
<1>1. exec \in [Skill!Runs -> ExecStates]
  BY DEF SkillTypes
<1>2. exec' \in [Skill!Runs -> ExecStates] /\ exec'[r] = y
      /\ \A q \in Skill!Runs : q # r => exec'[q] = exec[q]
  BY <1>1
<1>3. /\ Sequential(exec) /\ \A q \in Skill!Runs : RunShows(exec, q, exec[q], topics, protos, writers, bumped)
  BY DEF OrderSound
<1>4. SameRuns(exec, exec')
  <2> SUFFICES ASSUME NEW q \in Skill!Runs
               PROVE  exec'[q].input = exec[q].input /\ (exec'[q].at = "none" <=> exec[q].at = "none")
    BY DEF SameRuns
  <2>1. exec[r].at # "none"
    BY DEF Active
  <2> QED BY <1>2, <2>1
<1>5. Sequential(exec')
  <2> SUFFICES ASSUME NEW q \in Skill!Runs, NEW s \in Skill!Runs, q < s, exec'[s].at # "none"
               PROVE  exec'[q].at = "ended"
    BY DEF Sequential
  <2>1. q \in Nat /\ s \in Nat
    BY DEF Skill!Runs, Skill!SkillAssumption
  <2>2. exec[s].at # "none"
    BY <1>4 DEF SameRuns
  <2>3. exec[q].at = "ended"
    BY <1>3, <2>2 DEF Sequential
  <2>4. q # r
    BY <2>3 DEF Active
  <2> QED BY <1>2, <2>3, <2>4
<1>6. ASSUME NEW q \in Skill!Runs
      PROVE  RunShows(exec', q, exec'[q], topics', protos', writers', bumped')
  <2>1. CASE q = r
    BY <2>1, <1>2, <1>4, OrderSame DEF RunShows
  <2>2. CASE q # r
    <3>1. exec'[q] = exec[q] /\ exec[q] \in ExecStates
      BY <2>2, <1>1, <1>2
    <3>2. CASE q < r /\ exec[q].at = "ended"
      <4>1. Keeps(exec, q, exec[q], topics, protos, writers, bumped, topics', protos', writers', bumped')
        BY <3>2
      <4>2. RunShows(exec, q, exec[q], topics, protos, writers, bumped)
        BY <1>3
      <4>3. \A t : LastOf(exec', q, t) <=> LastOf(exec, q, t)
        BY <1>4, OrderSame
      <4> QED BY <3>1, <3>2, <4>1, <4>2, <4>3 DEF RunShows, Keeps
    <3>3. CASE exec[q].at = "none"
      <4>1. Passed(exec[q]) = {}
        <5>1. exec[q].next = 1
          BY <3>3 DEF RunsSound, Verdict
        <5> QED BY <5>1, NothingPassed
      <4> QED BY <3>1, <3>3, <4>1 DEF RunShows
    <3> QED BY <2>2, <3>2, <3>3, <1>3, Alone
  <2> QED BY <2>1, <2>2
<1>7. SubjectsFrom(exec', subjects') /\ Ordered(exec', subjects')
  BY <1>4, OrderSame
<1> QED BY <1>5, <1>6, <1>7 DEF OrderSound

\* A call that returns, ok if it left what it is for.
LEMMA ReturnStep ==
  ASSUME Skill!SkillAssumption, SkillTypes, RunsSound, OrderSound, NEW r \in Skill!Runs, NEW ok \in BOOLEAN,
         NEW x, x = exec[r], exec' = [exec EXCEPT ![r] = Moved(x, ok)], runFaults' = runFaults,
         LeftOf(x) # {}, x.turns < MaxAgentTurns, x.verdict = "none", x.at \in Active,
         Grows(topics, subjects, iceberg, writers, topics', subjects', iceberg', writers'),
         ok => Holds(Skill!ToolAt(PlaceOf(x)), MergeOf(x, PlaceOf(x)), topics', subjects', iceberg', writers'),
         InOrder =>
           /\ \A q \in Skill!Runs : q <= r =>
                Keeps(exec, q, exec[q], topics, protos, writers, bumped, topics', protos', writers', bumped')
           /\ ok => Shows(Skill!ToolAt(PlaceOf(x)), MergeOf(x, PlaceOf(x)), topics', protos', writers', bumped')
           /\ SubjectsFrom(exec, subjects') /\ Ordered(exec, subjects')
  PROVE  exec' \in [Skill!Runs -> ExecStates] /\ RunsSound' /\ OrderSound'
<1> DEFINE y == Moved(x, ok)
<1>1. x \in ExecStates
  BY DEF SkillTypes
<1>2. HasMade(x, runFaults, topics, subjects, iceberg, writers)
  BY DEF RunsSound
<1>3. y = Moved(x, ok)
  OBVIOUS
<1> HIDE DEF y
<1>4. /\ y \in ExecStates /\ Verdict(y)
      /\ AtWork(y, topics', writers') /\ HasMade(y, runFaults, topics', subjects', iceberg', writers')
  BY <1>1, <1>2, <1>3, RunMoved
<1>5. /\ y.input = x.input /\ y.at = "agent"
      /\ (y.failed <=> (x.failed \/ ~ok))
      /\ Passed(y) = Passed(x) \cup {PlaceOf(x)} /\ SamePlaces(x, y)
  BY <1>1, <1>3, MovedIs
<1>6. exec' \in [Skill!Runs -> ExecStates] /\ RunsSound'
  BY <1>3, <1>4, StepSound
<1>7. ASSUME InOrder PROVE OrderSound'
  <2>1. RunShows(exec, r, y, topics', protos', writers', bumped')
    <3>1. RunShows(exec, r, x, topics, protos, writers, bumped)
      BY <1>7 DEF OrderSound
    <3>2. Keeps(exec, r, x, topics, protos, writers, bumped, topics', protos', writers', bumped')
      <4>1. r \in Nat
        BY DEF Skill!Runs, Skill!SkillAssumption
      <4>2. r <= r
        BY <4>1
      <4> QED BY <4>2, <1>7
    <3>3. ASSUME ~y.failed, NEW p \in Passed(y), LastOf(exec, r, MergeOf(y, p).table)
          PROVE  Shows(Skill!ToolAt(p), MergeOf(y, p), topics', protos', writers', bumped')
      <4>1. ok /\ ~x.failed /\ MergeOf(y, p) = MergeOf(x, p)
        BY <1>5, <3>3 DEF SamePlaces
      <4>2. CASE p = PlaceOf(x)
        BY <4>1, <4>2, <1>7
      <4>3. CASE p \in Passed(x)
        BY <4>1, <4>3, <3>1, <3>2, <3>3 DEF RunShows, Keeps
      <4> QED BY <1>5, <3>3, <4>2, <4>3
    <3> QED BY <1>5, <3>3 DEF RunShows
  <2>2. \A q \in Skill!Runs : q < r =>
          Keeps(exec, q, exec[q], topics, protos, writers, bumped, topics', protos', writers', bumped')
    <3> SUFFICES ASSUME NEW q \in Skill!Runs, q < r
                 PROVE  Keeps(exec, q, exec[q], topics, protos, writers, bumped, topics', protos', writers', bumped')
      OBVIOUS
    <3>1. q \in Nat /\ r \in Nat
      BY DEF Skill!Runs, Skill!SkillAssumption
    <3>2. q <= r
      BY <3>1
    <3> QED BY <3>2, <1>7
  <2>3. y.at # "none" /\ y.input = exec[r].input /\ exec[r].at \in Active
    BY <1>5
  <2>4. SubjectsFrom(exec, subjects') /\ Ordered(exec, subjects')
    BY <1>7
  <2>5. exec' = [exec EXCEPT ![r] = y]
    BY <1>3
  <2> HIDE DEF Active
  <2> QED BY <1>4, <1>7, <2>1, <2>2, <2>3, <2>4, <2>5, StepInOrder
<1>8. OrderSound'
  <2>1. InOrder' <=> InOrder
    BY DEF InOrder
  <2> QED BY <1>7, <2>1 DEF OrderSound
<1> QED BY <1>6, <1>8

-----------------------------------------------------------------------------
(* The tools.                                                              *)
LEMMA CallsIs ==
  ASSUME SkillTypes, NEW r \in Skill!Runs, NEW tool, Skill!Calls(r, tool)
  PROVE  LET x == exec[r]
             c == MergeOf(x, PlaceOf(x))
         IN /\ x \in ExecStates /\ x.at = "agent" /\ x.at \in Active
            /\ LeftOf(x) # {} /\ x.turns < MaxAgentTurns /\ x.verdict = "none"
            /\ Skill!ToolAt(PlaceOf(x)) = tool /\ PlaceOf(x) \in 1..PlacesOf(x) /\ x.next <= PlaceOf(x)
            /\ Skill!Call(r) = c /\ c \in MergeStates /\ c \in MergedBy(x)
            /\ c.table \in Loggers /\ c.columns \in Columns /\ TableOf(x) = c.table
<1> DEFINE x == exec[r]
<1>1. x \in ExecStates
  BY DEF SkillTypes
<1>2. x.at = "agent" /\ LeftOf(x) # {} /\ x.turns < MaxAgentTurns /\ x.verdict = "none"
      /\ Skill!ToolAt(PlaceOf(x)) = tool
  BY PlacesAre DEF Skill!Calls
<1>3. PlaceOf(x) \in 1..PlacesOf(x) /\ x.next <= PlaceOf(x)
  BY <1>1, <1>2, PlaceIs
<1>4. MergeOf(x, PlaceOf(x)) \in MergedBy(x) /\ MergeOf(x, PlaceOf(x)) \in MergeStates
      /\ MergeOf(x, PlaceOf(x)).table \in Loggers /\ MergeOf(x, PlaceOf(x)).columns \in Columns
  BY <1>1, <1>3, MergeIs
<1> QED BY <1>1, <1>2, <1>3, <1>4, PlacesAre DEF Active, TableOf

LEMMA ReturnsIs ==
  ASSUME SkillTypes, NEW r \in Skill!Runs, NEW ok \in BOOLEAN, Skill!Returns(r, ok)
  PROVE  exec' = [exec EXCEPT ![r] = Moved(exec[r], ok)]
<1>1. exec \in [Skill!Runs -> ExecStates]
  BY DEF SkillTypes
<1>2. Skill!Place(r) = PlaceOf(exec[r])
  BY PlacesAre
<1> QED BY <1>1, <1>2 DEF Skill!Returns, Moved

\* What is left alone has not shrunk.
LEMMA GrowsNot ==
  ASSUME Skill!SkillAssumption, SkillTypes
  PROVE  \A t \in Loggers : topics[t] \in Nat /\ topics[t] <= topics[t]
BY DEF SkillTypes, Skill!SkillAssumption

\* A run that made a writer for a table has it.
LEMMA HasItsWriter ==
  ASSUME SkillTypes, RunsSound, InOrder, NEW q \in Skill!Runs, ~exec[q].failed, NEW p \in Passed(exec[q]),
         Skill!ToolAt(p) = "start_logger_writer"
  PROVE  HasWriter(MergeOf(exec[q], p).table, writers)
<1>1. "stray" \notin runFaults
  BY DEF InOrder
<1>2. HasMade(exec[q], runFaults, topics, subjects, iceberg, writers)
  BY DEF RunsSound
<1>3. Holds(Skill!ToolAt(p), MergeOf(exec[q], p), topics, subjects, iceberg, writers)
  BY <1>1, <1>2 DEF HasMade
<1> QED BY <1>3 DEF Holds

LEMMA WriterFits ==
  ASSUME SkillTypes, Skill!SkillAssumption, Fit(topics, writers), NEW t \in Loggers, HasWriter(t, writers)
  PROVE  /\ writers[SafeName[t]].replicas \in 1..topics[t] /\ topics[t] > 0
<1>1. SafeName[t] \in DOMAIN writers
  BY DEF SkillTypes
<1>2. writers[SafeName[t]].replicas \in 1..topics[t] /\ topics[t] \in Nat
  BY <1>1 DEF HasWriter, Fit, SkillTypes, Skill!SkillAssumption
<1> QED BY <1>2

LEMMA TopicStep ==
  ASSUME Skill!SkillAssumption, SkillIInv, NEW r \in Skill!Runs, Skill!CreateKafkaTopic(r)
  PROVE  SkillIInv'
<1> DEFINE x == exec[r]
           c == MergeOf(x, PlaceOf(x))
           t == c.table
           new == [topics EXCEPT ![t] = IF topics[t] = 0 THEN 1 ELSE topics[t]]
<1>1. SkillTypes /\ RunsSound /\ OrderSound /\ Fit(topics, writers)
  BY DEF SkillIInv
<1>2. /\ x \in ExecStates /\ x.at \in Active
      /\ LeftOf(x) # {} /\ x.turns < MaxAgentTurns /\ x.verdict = "none"
      /\ Skill!ToolAt(PlaceOf(x)) = "create_kafka_topic"
      /\ Skill!Call(r) = c /\ t \in Loggers
  BY <1>1, CallsIs DEF Skill!CreateKafkaTopic
<1>3. PICK ok \in BOOLEAN : /\ exec' = [exec EXCEPT ![r] = Moved(x, ok)]
                            /\ topics' = new \/ topics' = topics
                            /\ ok => topics' = new
  <2> DEFINE T == topics' = [topics EXCEPT ![t] = IF @ = 0 THEN 1 ELSE @]
             U == UNCHANGED topics
  <2>1. Skill!Asked(r, T, U)
    BY <1>2 DEF Skill!CreateKafkaTopic
  <2>2. (T /\ Skill!Returns(r, TRUE)) \/ ((T \/ U) /\ Skill!Returns(r, FALSE))
    BY <2>1 DEF Skill!Asked
  <2>3. CASE T /\ Skill!Returns(r, TRUE)
    <3>1. exec' = [exec EXCEPT ![r] = Moved(x, TRUE)]
      BY <1>1, <2>3, ReturnsIs
    <3> QED BY <2>3, <3>1
  <2>4. CASE (T \/ U) /\ Skill!Returns(r, FALSE)
    <3>1. exec' = [exec EXCEPT ![r] = Moved(x, FALSE)]
      BY <1>1, <2>4, ReturnsIs
    <3> QED BY <2>4, <3>1
  <2> QED BY <2>2, <2>3, <2>4
<1>4. UNCHANGED <<protos, subjects, iceberg, writers, bumped, cuts, runFaults>>
  BY DEF Skill!CreateKafkaTopic
<1>5. topics \in [Loggers -> 0..MaxPartitions] /\ MaxPartitions \in Nat \ {0}
  BY <1>1 DEF SkillTypes, Skill!SkillAssumption
<1> HIDE DEF c
<1>6. /\ topics' \in [Loggers -> 0..MaxPartitions]
      /\ \A u \in Loggers : topics'[u] \in Nat /\ topics[u] <= topics'[u] /\ (topics[u] # 0 => topics'[u] = topics[u])
      /\ ok => topics'[t] > 0
  <2>1. 1 \in 0..MaxPartitions
    BY <1>5
  <2>2. topics' \in [Loggers -> 0..MaxPartitions]
    BY <1>2, <1>3, <1>5, <2>1
  <2>3. \A u \in Loggers : topics[u] \in Nat /\ (topics'[u] = topics[u] \/ (topics[u] = 0 /\ topics'[u] = 1))
    BY <1>2, <1>3, <1>5
  <2>4. ok => topics'[t] > 0
    <3>1. ok => topics'[t] = IF topics[t] = 0 THEN 1 ELSE topics[t]
      BY <1>2, <1>3, <1>5
    <3>2. topics[t] \in Nat
      BY <1>2, <1>5
    <3> QED BY <3>1, <3>2
  <2>5. \A u \in Loggers : topics'[u] \in Nat /\ topics[u] <= topics'[u] /\ (topics[u] # 0 => topics'[u] = topics[u])
    BY <2>3
  <2> QED BY <2>2, <2>4, <2>5
<1>7. Grows(topics, subjects, iceberg, writers, topics', subjects', iceberg', writers')
  BY <1>4, <1>5, <1>6 DEF Grows
<1>8. ok => Holds(Skill!ToolAt(PlaceOf(x)), MergeOf(x, PlaceOf(x)), topics', subjects', iceberg', writers')
  BY <1>2, <1>6 DEF Holds, c
<1>9. ASSUME InOrder
      PROVE  /\ \A q \in Skill!Runs : Keeps(exec, q, exec[q], topics, protos, writers, bumped, topics', protos', writers', bumped')
             /\ Shows(Skill!ToolAt(PlaceOf(x)), MergeOf(x, PlaceOf(x)), topics', protos', writers', bumped')
             /\ SubjectsFrom(exec, subjects') /\ Ordered(exec, subjects')
  <2>1. ASSUME NEW q \in Skill!Runs, ~exec[q].failed, NEW p \in Passed(exec[q]), NEW d, d = MergeOf(exec[q], p),
               Shows(Skill!ToolAt(p), d, topics, protos, writers, bumped)
        PROVE  Shows(Skill!ToolAt(p), d, topics', protos', writers', bumped')
    <3>1. CASE Skill!ToolAt(p) = "start_logger_writer"
      <4>1. d.table \in Loggers /\ HasWriter(d.table, writers)
        BY <1>1, <1>9, <2>1, <3>1, HasItsWriter, PassedAre DEF MergeStates, SkillTypes
      <4>2. topics[d.table] > 0
        BY <1>1, <4>1, WriterFits
      <4>3. topics'[d.table] = topics[d.table]
        BY <4>1, <4>2, <1>5, <1>6
      <4> QED BY <2>1, <4>3, <1>4, <3>1 DEF Shows
    <3>2. CASE Skill!ToolAt(p) # "start_logger_writer"
      BY <2>1, <3>2, <1>4 DEF Shows
    <3> QED BY <3>1, <3>2
  <2>2. SubjectsFrom(exec, subjects') /\ Ordered(exec, subjects')
    BY <1>1, <1>4, <1>9 DEF OrderSound
  <2>3. Shows(Skill!ToolAt(PlaceOf(x)), MergeOf(x, PlaceOf(x)), topics', protos', writers', bumped')
    BY <1>2 DEF Shows
  <2> QED BY <2>1, <2>2, <2>3 DEF Keeps
<1>10. exec' \in [Skill!Runs -> ExecStates] /\ RunsSound' /\ OrderSound'
  BY <1>1, <1>2, <1>3, <1>4, <1>7, <1>8, <1>9, ReturnStep
<1>11. SkillTypes'
  BY <1>1, <1>4, <1>6, <1>10 DEF SkillTypes
<1>12. Fit(topics', writers')
  <2> SUFFICES ASSUME NEW n \in DOMAIN writers, writers[n] # NoThing
               PROVE  SafeName[writers[n].table] = n /\ writers[n].replicas \in 1..topics'[writers[n].table]
    BY <1>4 DEF Fit
  <2>1. SafeName[writers[n].table] = n /\ writers[n].replicas \in 1..topics[writers[n].table]
    BY <1>1 DEF Fit
  <2>2. writers[n].table \in Loggers /\ writers[n].replicas \in Nat
    BY <1>1 DEF SkillTypes
  <2>3. topics[writers[n].table] \in Nat /\ topics'[writers[n].table] \in Nat
        /\ topics[writers[n].table] <= topics'[writers[n].table]
    BY <2>2, <1>5, <1>6
  <2> QED BY <2>1, <2>2, <2>3
<1> QED BY <1>10, <1>11, <1>12 DEF SkillIInv

\* The steps that leave topics and writers leave what fits.
LEMMA FitSame ==
  ASSUME SkillIInv, UNCHANGED <<topics, writers>>
  PROVE  Fit(topics', writers')
BY DEF SkillIInv

LEMMA ProtoStep ==
  ASSUME Skill!SkillAssumption, SkillIInv, NEW r \in Skill!Runs, Skill!EmitLoggerProto(r)
  PROVE  SkillIInv'
<1> DEFINE x == exec[r]
           c == MergeOf(x, PlaceOf(x))
           f == ProtoName[c.table]
           new == [protos EXCEPT ![f] = Skill!Message(c.table, c.columns)]
<1>1. SkillTypes /\ RunsSound /\ OrderSound /\ Fit(topics, writers)
  BY DEF SkillIInv
<1>2. /\ x \in ExecStates /\ x.at \in Active
      /\ LeftOf(x) # {} /\ x.turns < MaxAgentTurns /\ x.verdict = "none"
      /\ Skill!ToolAt(PlaceOf(x)) = "emit_logger_proto" /\ PlaceOf(x) \in 1..PlacesOf(x) /\ x.next <= PlaceOf(x)
      /\ Skill!Call(r) = c /\ c \in MergeStates /\ c \in MergedBy(x) /\ c.table \in Loggers /\ c.columns \in Columns
  BY <1>1, CallsIs DEF Skill!EmitLoggerProto
<1>3. PICK ok \in BOOLEAN : /\ exec' = [exec EXCEPT ![r] = Moved(x, ok)]
                            /\ protos' = new \/ protos' = protos
                            /\ ok => protos' = new
  <2> DEFINE T == protos' = new
             U == UNCHANGED protos
  <2>1. Skill!Asked(r, T, U)
    BY <1>2 DEF Skill!EmitLoggerProto
  <2>2. (T /\ Skill!Returns(r, TRUE)) \/ ((T \/ U) /\ Skill!Returns(r, FALSE))
    BY <2>1 DEF Skill!Asked
  <2>3. CASE T /\ Skill!Returns(r, TRUE)
    <3>1. exec' = [exec EXCEPT ![r] = Moved(x, TRUE)]
      BY <1>1, <2>3, ReturnsIs
    <3> QED BY <2>3, <3>1
  <2>4. CASE (T \/ U) /\ Skill!Returns(r, FALSE)
    <3>1. exec' = [exec EXCEPT ![r] = Moved(x, FALSE)]
      BY <1>1, <2>4, ReturnsIs
    <3> QED BY <2>4, <3>1
  <2> QED BY <2>2, <2>3, <2>4
<1>4. UNCHANGED <<topics, subjects, iceberg, writers, bumped, cuts, runFaults>>
  BY DEF Skill!EmitLoggerProto
<1>5. protos \in [{ProtoName[t] : t \in Loggers} -> MergeStates \cup {NoThing}]
  BY <1>1 DEF SkillTypes
<1>6. Skill!Message(c.table, c.columns) = c
  BY <1>2 DEF Skill!Message, MergeStates
<1> HIDE DEF c
<1>7. /\ protos' \in [{ProtoName[t] : t \in Loggers} -> MergeStates \cup {NoThing}]
      /\ \A g \in {ProtoName[t] : t \in Loggers} : g # f => protos'[g] = protos[g]
      /\ ok => protos'[f] = c
  BY <1>2, <1>3, <1>5, <1>6
<1>8. Grows(topics, subjects, iceberg, writers, topics', subjects', iceberg', writers')
  BY <1>1, <1>4, GrowsNot DEF Grows
<1>9. ok => Holds(Skill!ToolAt(PlaceOf(x)), MergeOf(x, PlaceOf(x)), topics', subjects', iceberg', writers')
  BY <1>2 DEF Holds
<1>10. ASSUME InOrder
       PROVE  /\ \A q \in Skill!Runs : q <= r =>
                   Keeps(exec, q, exec[q], topics, protos, writers, bumped, topics', protos', writers', bumped')
              /\ ok => Shows(Skill!ToolAt(PlaceOf(x)), MergeOf(x, PlaceOf(x)), topics', protos', writers', bumped')
              /\ SubjectsFrom(exec, subjects') /\ Ordered(exec, subjects')
  <2>1. ASSUME NEW q \in Skill!Runs, q <= r, ~exec[q].failed, NEW p \in Passed(exec[q]), NEW d, d = MergeOf(exec[q], p),
               LastOf(exec, q, d.table), Shows(Skill!ToolAt(p), d, topics, protos, writers, bumped)
        PROVE  Shows(Skill!ToolAt(p), d, topics', protos', writers', bumped')
    <3>1. CASE Skill!ToolAt(p) = "emit_logger_proto" /\ OwnProto(d.table)
      <4>1. exec[q] \in ExecStates
        BY <1>1 DEF SkillTypes
      <4>2. d \in MergeStates /\ d.table \in Loggers /\ p \in 1..PlacesOf(exec[q])
        BY <2>1, <4>1, PassedAre DEF MergeStates
      <4>3. ASSUME ProtoName[d.table] = f PROVE FALSE
        <5>1. c.table = d.table
          BY <1>2, <3>1, <4>3 DEF OwnProto
        <5>2. CASE q = r
          <6>1. p = PlaceOf(x)
            BY <1>2, <2>1, <3>1, <4>2, <5>1, <5>2, OnePlace DEF c
          <6>2. p < x.next
            BY <2>1, <5>2 DEF Passed
          <6>3. p \in Nat /\ x.next \in Nat
            BY <1>2, <4>2, <5>2, MergesAre
          <6> QED BY <1>2, <6>1, <6>2, <6>3
        <5>3. CASE q # r
          <6>1. q \in Nat /\ r \in Nat
            BY DEF Skill!Runs, Skill!SkillAssumption
          <6>2. r > q
            BY <2>1, <5>3, <6>1
          <6>3. exec[r].at # "none"
            BY <1>2 DEF Active
          <6> QED BY <1>2, <2>1, <5>1, <6>2, <6>3 DEF LastOf
        <5> QED BY <5>2, <5>3
      <4>4. protos'[ProtoName[d.table]] = protos[ProtoName[d.table]]
        BY <1>7, <4>2, <4>3
      <4> QED BY <2>1, <3>1, <4>4, <1>4 DEF Shows
    <3>2. CASE ~(Skill!ToolAt(p) = "emit_logger_proto" /\ OwnProto(d.table))
      BY <2>1, <3>2, <1>4 DEF Shows
    <3> QED BY <3>1, <3>2
  <2>2. SubjectsFrom(exec, subjects') /\ Ordered(exec, subjects')
    BY <1>1, <1>4, <1>10 DEF OrderSound
  <2>3. ok => Shows(Skill!ToolAt(PlaceOf(x)), MergeOf(x, PlaceOf(x)), topics', protos', writers', bumped')
    BY <1>2, <1>6, <1>7 DEF Shows, c
  <2> QED BY <2>1, <2>2, <2>3 DEF Keeps
<1>11. exec' \in [Skill!Runs -> ExecStates] /\ RunsSound' /\ OrderSound'
  BY <1>1, <1>2, <1>3, <1>4, <1>8, <1>9, <1>10, ReturnStep
<1>12. SkillTypes'
  BY <1>1, <1>4, <1>7, <1>11 DEF SkillTypes
<1> QED BY <1>4, <1>11, <1>12, FitSame DEF SkillIInv

LEMMA TableStep ==
  ASSUME Skill!SkillAssumption, SkillIInv, NEW r \in Skill!Runs, Skill!CreateIcebergTable(r)
  PROVE  SkillIInv'
<1> DEFINE x == exec[r]
           c == MergeOf(x, PlaceOf(x))
           t == c.table
           new == [iceberg EXCEPT ![t] = IF @ = NoThing THEN c.columns ELSE @]
<1>1. SkillTypes /\ RunsSound /\ OrderSound /\ Fit(topics, writers)
  BY DEF SkillIInv
<1>2. /\ x \in ExecStates /\ x.at \in Active
      /\ LeftOf(x) # {} /\ x.turns < MaxAgentTurns /\ x.verdict = "none"
      /\ Skill!ToolAt(PlaceOf(x)) = "create_iceberg_table"
      /\ Skill!Call(r) = c /\ t \in Loggers /\ c.columns \in Columns
  BY <1>1, CallsIs DEF Skill!CreateIcebergTable
<1>3. PICK ok \in BOOLEAN : /\ exec' = [exec EXCEPT ![r] = Moved(x, ok)]
                            /\ iceberg' = new \/ iceberg' = iceberg
                            /\ ok => iceberg' = new
  <2> DEFINE T == iceberg' = new
             U == UNCHANGED iceberg
  <2>1. Skill!Asked(r, T, U) \/ (Skill!Returns(r, FALSE) /\ U)
    BY <1>2 DEF Skill!CreateIcebergTable
  <2>2. (T /\ Skill!Returns(r, TRUE)) \/ ((T \/ U) /\ Skill!Returns(r, FALSE))
    BY <2>1 DEF Skill!Asked
  <2>3. CASE T /\ Skill!Returns(r, TRUE)
    <3>1. exec' = [exec EXCEPT ![r] = Moved(x, TRUE)]
      BY <1>1, <2>3, ReturnsIs
    <3> QED BY <2>3, <3>1
  <2>4. CASE (T \/ U) /\ Skill!Returns(r, FALSE)
    <3>1. exec' = [exec EXCEPT ![r] = Moved(x, FALSE)]
      BY <1>1, <2>4, ReturnsIs
    <3> QED BY <2>4, <3>1
  <2> QED BY <2>2, <2>3, <2>4
<1>4. UNCHANGED <<topics, protos, subjects, writers, bumped, cuts, runFaults>>
  BY DEF Skill!CreateIcebergTable
<1>5. iceberg \in [Loggers -> Columns \cup {NoThing}] /\ NoThing \notin Columns
  BY <1>1 DEF SkillTypes, Skill!SkillAssumption
<1> HIDE DEF c
<1>6. /\ iceberg' \in [Loggers -> Columns \cup {NoThing}]
      /\ \A u \in Loggers : iceberg[u] # NoThing => iceberg'[u] # NoThing
      /\ ok => iceberg'[t] # NoThing
  BY <1>2, <1>3, <1>5
<1>7. Grows(topics, subjects, iceberg, writers, topics', subjects', iceberg', writers')
  BY <1>1, <1>4, <1>6, GrowsNot DEF Grows
<1>8. ok => Holds(Skill!ToolAt(PlaceOf(x)), MergeOf(x, PlaceOf(x)), topics', subjects', iceberg', writers')
  BY <1>2, <1>6 DEF Holds, c
<1>9. Shows(Skill!ToolAt(PlaceOf(x)), MergeOf(x, PlaceOf(x)), topics', protos', writers', bumped')
  BY <1>2 DEF Shows
<1>10. \A q \in Skill!Runs :
         Keeps(exec, q, exec[q], topics, protos, writers, bumped, topics', protos', writers', bumped')
  BY <1>4 DEF Keeps
<1>11. InOrder => SubjectsFrom(exec, subjects') /\ Ordered(exec, subjects')
  BY <1>1, <1>4 DEF OrderSound
<1>12. exec' \in [Skill!Runs -> ExecStates] /\ RunsSound' /\ OrderSound'
  BY <1>1, <1>2, <1>3, <1>4, <1>7, <1>8, <1>9, <1>10, <1>11, ReturnStep
<1>13. SkillTypes'
  BY <1>1, <1>4, <1>6, <1>12 DEF SkillTypes
<1> QED BY <1>4, <1>12, <1>13, FitSame DEF SkillIInv

\* A schema that is new to a subject becomes its last.
Registered(s, e, s2) ==
  /\ s2 \in Seq(Columns) /\ Skill!IsInjective(s2) /\ Skill!Contains(s2, e)
  /\ \A k \in Columns : Skill!Contains(s, k) => Skill!Contains(s2, k)
  /\ s2 = s \/ Skill!Last(s2) = e
  /\ \A i \in DOMAIN s2 : s2[i] = e \/ (i \in DOMAIN s /\ s2[i] = s[i])

LEMMA Registers ==
  ASSUME NEW s \in Seq(Columns), Skill!IsInjective(s), NEW e \in Columns, NEW s2,
         s2 = IF Skill!Contains(s, e) THEN s ELSE Append(s, e)
  PROVE  Registered(s, e, s2)
<1>1. CASE Skill!Contains(s, e)
  BY <1>1 DEF Registered
<1>2. CASE ~Skill!Contains(s, e)
  <2>1. s2 = Append(s, e) /\ Len(s) \in Nat /\ DOMAIN s = 1..Len(s)
    BY <1>2
  <2>2. s2 \in Seq(Columns) /\ Len(s2) = Len(s) + 1 /\ DOMAIN s2 = 1..(Len(s) + 1)
        /\ s2[Len(s) + 1] = e /\ \A i \in 1..Len(s) : s2[i] = s[i]
    BY <2>1
  <2>3. \A i \in DOMAIN s2 : (i = Len(s) + 1 /\ s2[i] = e) \/ (i \in DOMAIN s /\ s2[i] = s[i])
    BY <2>1, <2>2
  <2>4. \A i \in DOMAIN s : s[i] # e
    BY <1>2, <2>1 DEF Skill!Contains
  <2>5. Skill!IsInjective(s2)
    BY <2>3, <2>4 DEF Skill!IsInjective
  <2>6. Skill!Contains(s2, e) /\ Skill!Last(s2) = e
    BY <2>1, <2>2 DEF Skill!Contains, Skill!Last
  <2>7. ASSUME NEW k \in Columns, Skill!Contains(s, k) PROVE Skill!Contains(s2, k)
    <3>1. PICK i \in 1..Len(s) : s[i] = k
      BY <2>7 DEF Skill!Contains
    <3>2. i \in 1..Len(s2) /\ s2[i] = k
      BY <2>1, <2>2, <3>1
    <3> QED BY <3>2 DEF Skill!Contains
  <2> QED BY <2>2, <2>3, <2>5, <2>6, <2>7 DEF Registered
<1> QED BY <1>1, <1>2

LEMMA SchemaStep ==
  ASSUME Skill!SkillAssumption, SkillIInv, NEW r \in Skill!Runs, Skill!RegisterProtobufSchema(r)
  PROVE  SkillIInv'
<1> DEFINE x == exec[r]
           c == MergeOf(x, PlaceOf(x))
           t == c.table
           e == c.columns
           s2 == IF Skill!Contains(subjects[t], e) THEN subjects[t] ELSE Append(subjects[t], e)
           new == [subjects EXCEPT ![t] = s2]
<1>1. SkillTypes /\ RunsSound /\ OrderSound /\ Fit(topics, writers)
  BY DEF SkillIInv
<1>2. /\ x \in ExecStates /\ x.at \in Active
      /\ LeftOf(x) # {} /\ x.turns < MaxAgentTurns /\ x.verdict = "none"
      /\ Skill!ToolAt(PlaceOf(x)) = "register_protobuf_schema"
      /\ Skill!Call(r) = c /\ c \in MergedBy(x) /\ t \in Loggers /\ e \in Columns
  BY <1>1, CallsIs DEF Skill!RegisterProtobufSchema
<1>3. PICK ok \in BOOLEAN : /\ exec' = [exec EXCEPT ![r] = Moved(x, ok)]
                            /\ subjects' = new \/ subjects' = subjects
                            /\ ok => subjects' = new
  <2> DEFINE T == subjects' = [subjects EXCEPT ![t] = IF Skill!Contains(@, e) THEN @ ELSE Append(@, e)]
             U == UNCHANGED subjects
  <2>1. Skill!Asked(r, T, U)
    BY <1>2 DEF Skill!RegisterProtobufSchema
  <2>2. (T /\ Skill!Returns(r, TRUE)) \/ ((T \/ U) /\ Skill!Returns(r, FALSE))
    BY <2>1 DEF Skill!Asked
  <2>3. CASE T /\ Skill!Returns(r, TRUE)
    <3>1. exec' = [exec EXCEPT ![r] = Moved(x, TRUE)]
      BY <1>1, <2>3, ReturnsIs
    <3> QED BY <2>3, <3>1
  <2>4. CASE (T \/ U) /\ Skill!Returns(r, FALSE)
    <3>1. exec' = [exec EXCEPT ![r] = Moved(x, FALSE)]
      BY <1>1, <2>4, ReturnsIs
    <3> QED BY <2>4, <3>1
  <2> QED BY <2>2, <2>3, <2>4
<1>4. UNCHANGED <<topics, protos, iceberg, writers, bumped, cuts, runFaults>>
  BY DEF Skill!RegisterProtobufSchema
<1>5. subjects \in [Loggers -> Seq(Columns)] /\ \A u \in Loggers : Skill!IsInjective(subjects[u])
  BY <1>1 DEF SkillTypes
<1>6. Registered(subjects[t], e, s2)
  <2>1. subjects[t] \in Seq(Columns) /\ Skill!IsInjective(subjects[t]) /\ e \in Columns
    BY <1>2, <1>5
  <2> HIDE DEF c
  <2>2. s2 = IF Skill!Contains(subjects[t], e) THEN subjects[t] ELSE Append(subjects[t], e)
    OBVIOUS
  <2> HIDE DEF t, e, s2
  <2> QED BY <2>1, <2>2, Registers
<1> HIDE DEF c, s2
<1>7. /\ subjects' \in [Loggers -> Seq(Columns)]
      /\ \A u \in Loggers : \/ subjects'[u] = subjects[u]
                            \/ u = t /\ subjects'[u] = s2
      /\ ok => subjects'[t] = s2
  BY <1>2, <1>3, <1>5, <1>6 DEF Registered
<1>8. \A u \in Loggers : /\ Skill!IsInjective(subjects'[u])
                         /\ \A k \in Columns : Skill!Contains(subjects[u], k) => Skill!Contains(subjects'[u], k)
  BY <1>5, <1>6, <1>7 DEF Registered
<1>9. Grows(topics, subjects, iceberg, writers, topics', subjects', iceberg', writers')
  BY <1>1, <1>4, <1>8, GrowsNot DEF Grows
<1>10. ok => Holds(Skill!ToolAt(PlaceOf(x)), MergeOf(x, PlaceOf(x)), topics', subjects', iceberg', writers')
  BY <1>2, <1>6, <1>7 DEF Holds, Registered, c
<1>11. Shows(Skill!ToolAt(PlaceOf(x)), MergeOf(x, PlaceOf(x)), topics', protos', writers', bumped')
  BY <1>2 DEF Shows
<1>12. \A q \in Skill!Runs :
         Keeps(exec, q, exec[q], topics, protos, writers, bumped, topics', protos', writers', bumped')
  BY <1>4 DEF Keeps
<1>13. ASSUME InOrder PROVE SubjectsFrom(exec, subjects') /\ Ordered(exec, subjects')
  <2>1. Sequential(exec) /\ SubjectsFrom(exec, subjects) /\ Ordered(exec, subjects)
    BY <1>1, <1>13 DEF OrderSound
  <2>2. exec[r].at # "none"
    BY <1>2 DEF Active
  <2>3. SubjectsFrom(exec, subjects')
    <3> SUFFICES ASSUME NEW u \in Loggers, NEW i \in DOMAIN subjects'[u]
                 PROVE  \E q \in Skill!Runs :
                          /\ exec[q].at # "none"
                          /\ \E m \in MergedBy(exec[q]) : m.table = u /\ m.columns = subjects'[u][i]
      BY DEF SubjectsFrom
    <3>1. CASE subjects'[u] = subjects[u]
      BY <2>1, <3>1 DEF SubjectsFrom
    <3>2. CASE u = t /\ subjects'[u] = s2
      <4>1. CASE s2[i] = e
        BY <1>2, <2>2, <3>2, <4>1
      <4>2. CASE i \in DOMAIN subjects[t] /\ s2[i] = subjects[t][i]
        BY <2>1, <3>2, <4>2 DEF SubjectsFrom
      <4> QED BY <1>6, <3>2, <4>1, <4>2 DEF Registered
    <3> QED BY <1>7, <3>1, <3>2
  <2>4. Ordered(exec, subjects')
    <3> SUFFICES ASSUME NEW q \in Skill!Runs, NEW d \in MergedBy(exec[q]),
                        exec[q].at # "none", LastOf(exec, q, d.table), ~Earlier(exec, q, d),
                        Skill!Contains(subjects'[d.table], d.columns)
                 PROVE  Skill!Last(subjects'[d.table]) = d.columns
      BY DEF Ordered
    <3>1. exec[q] \in ExecStates
      BY <1>1 DEF SkillTypes
    <3>2. d \in MergeStates /\ d.table \in Loggers
      <4>1. d \in MergeStates
        BY <3>1, MergesAre DEF MergedBy
      <4> QED BY <4>1 DEF MergeStates
    <3>3. CASE subjects'[d.table] = subjects[d.table]
      BY <2>1, <3>3 DEF Ordered
    <3>4. CASE d.table = t /\ subjects'[d.table] = s2 /\ s2 # subjects[t]
      <4>1. q = r
        <5> SUFFICES ASSUME q # r PROVE FALSE
          OBVIOUS
        <5>1. r > q \/ exec[q].at = "none"
          BY <1>2, <2>1, Alone
        <5> QED BY <1>2, <2>2, <3>4, <5>1 DEF LastOf
      <4>2. d = c
        BY <1>2, <3>4, <4>1, OneMerge DEF c
      <4> QED BY <1>6, <3>4, <4>2 DEF Registered
    <3> QED BY <1>7, <3>2, <3>3, <3>4
  <2> QED BY <2>3, <2>4
<1>14. exec' \in [Skill!Runs -> ExecStates] /\ RunsSound' /\ OrderSound'
  BY <1>1, <1>2, <1>3, <1>4, <1>9, <1>10, <1>11, <1>12, <1>13, ReturnStep
<1>15. SkillTypes'
  BY <1>1, <1>4, <1>7, <1>8, <1>14 DEF SkillTypes
<1> QED BY <1>4, <1>14, <1>15, FitSame DEF SkillIInv

-----------------------------------------------------------------------------
(* The writer of a table.                                                  *)
LEMMA CountStep ==
  ASSUME Skill!SkillAssumption, SkillIInv, NEW r \in Skill!Runs, Skill!CountPartitions(r)
  PROVE  SkillIInv'
<1> DEFINE x == exec[r]
           c == MergeOf(x, PlaceOf(x))
           t == c.table
           y == [x EXCEPT !.at = "apply", !.counted = topics[t]]
<1>1. SkillTypes /\ RunsSound /\ OrderSound /\ Fit(topics, writers)
  BY DEF SkillIInv
<1>2. /\ x \in ExecStates /\ x.at \in Active /\ x.at = "agent"
      /\ LeftOf(x) # {} /\ x.turns < MaxAgentTurns /\ x.verdict = "none"
      /\ Skill!ToolAt(PlaceOf(x)) = "start_logger_writer" /\ PlaceOf(x) \in 1..PlacesOf(x) /\ x.next <= PlaceOf(x)
      /\ Skill!Call(r) = c /\ c \in MergedBy(x) /\ t \in Loggers /\ TableOf(x) = t
  BY <1>1, CallsIs DEF Skill!CountPartitions
<1>3. UNCHANGED <<topics, protos, subjects, iceberg, writers, cuts, runFaults>>
  BY DEF Skill!CountPartitions, Skill!services
<1>4. Grows(topics, subjects, iceberg, writers, topics', subjects', iceberg', writers')
  BY <1>1, <1>3, GrowsNot DEF Grows
<1>5. CASE Skill!Returns(r, FALSE) /\ bumped' = bumped
  <2>1. exec' = [exec EXCEPT ![r] = Moved(x, FALSE)]
    BY <1>1, <1>5, ReturnsIs
  <2>2. \A q \in Skill!Runs :
          Keeps(exec, q, exec[q], topics, protos, writers, bumped, topics', protos', writers', bumped')
    BY <1>3, <1>5 DEF Keeps
  <2>3. InOrder => SubjectsFrom(exec, subjects') /\ Ordered(exec, subjects')
    BY <1>1, <1>3 DEF OrderSound
  <2>4. exec' \in [Skill!Runs -> ExecStates] /\ RunsSound' /\ OrderSound'
    <3> DEFINE ok == FALSE
    <3>1. ok \in BOOLEAN /\ ~ok
      OBVIOUS
    <3>2. exec' = [exec EXCEPT ![r] = Moved(x, ok)]
      BY <2>1
    <3> HIDE DEF ok
    <3> QED BY <1>1, <1>2, <1>3, <1>4, <2>2, <2>3, <3>1, <3>2, ReturnStep
  <2>5. SkillTypes'
    BY <1>1, <1>3, <1>5, <2>4 DEF SkillTypes
  <2> QED BY <1>3, <2>4, <2>5, FitSame DEF SkillIInv
<1>6. CASE topics[t] # 0 /\ exec' = [exec EXCEPT ![r].at = "apply", ![r].counted = topics[t]] /\ bumped' = bumped \ {t}
  <2>1. exec \in [Skill!Runs -> ExecStates] /\ topics \in [Loggers -> 0..MaxPartitions] /\ MaxPartitions \in Nat
    BY <1>1 DEF SkillTypes, Skill!SkillAssumption
  <2> HIDE DEF c
  <2>2. exec' = [exec EXCEPT ![r] = y]
    BY <1>6, <2>1
  <2>3. topics[t] \in 0..MaxPartitions /\ topics[t] \in 1..topics[t]
    BY <1>2, <1>6, <2>1
  <2>4. y \in ExecStates /\ y.input = x.input /\ y.at = "apply" /\ y.counted = topics[t] /\ y.next = x.next
        /\ y.verdict = x.verdict /\ y.turns = x.turns /\ y.failed = x.failed
    BY <1>2, <2>3 DEF ExecStates
  <2> HIDE DEF y
  <2>5. LeftOf(y) = LeftOf(x) /\ PlaceOf(y) = PlaceOf(x) /\ Passed(y) = Passed(x) /\ TableOf(y) = TableOf(x)
        /\ SamePlaces(x, y)
    BY <2>4, PlaceKeeps, InputKeeps
  <2>6. Verdict(y) /\ AtWork(y, topics', writers')
    BY <1>2, <1>3, <2>3, <2>4, <2>5 DEF Verdict, AtWork
  <2>7. HasMade(y, runFaults, topics', subjects', iceberg', writers')
    <3>1. HasMade(x, runFaults, topics, subjects, iceberg, writers)
      BY <1>1 DEF RunsSound
    <3> QED BY <1>3, <2>4, <2>5, <3>1 DEF HasMade, SamePlaces
  <2>8. exec' \in [Skill!Runs -> ExecStates] /\ RunsSound'
    BY <1>1, <1>3, <1>4, <2>2, <2>4, <2>6, <2>7, StepSound
  <2>9. ASSUME InOrder, NEW q \in Skill!Runs, q <= r
        PROVE  Keeps(exec, q, exec[q], topics, protos, writers, bumped, topics', protos', writers', bumped')
    <3> SUFFICES ASSUME ~exec[q].failed, NEW p \in Passed(exec[q]), NEW d, d = MergeOf(exec[q], p),
                        LastOf(exec, q, d.table), Shows(Skill!ToolAt(p), d, topics, protos, writers, bumped)
                 PROVE  Shows(Skill!ToolAt(p), d, topics', protos', writers', bumped')
      BY DEF Keeps
    <3>1. CASE Skill!ToolAt(p) = "start_logger_writer" /\ d.table = t
      <4>1. exec[q] \in ExecStates
        BY <2>1
      <4>2. p \in 1..PlacesOf(exec[q])
        BY <4>1, PassedAre
      <4>3. CASE q = r
        <5>1. p = PlaceOf(x)
          BY <1>2, <3>1, <4>2, <4>3, OnePlace DEF c
        <5>2. p < x.next
          BY <4>3 DEF Passed
        <5>3. p \in Nat /\ x.next \in Nat
          BY <1>2, <4>2, <4>3, MergesAre
        <5> QED BY <1>2, <5>1, <5>2, <5>3
      <4>4. CASE q # r
        <5>1. q \in Nat /\ r \in Nat
          BY DEF Skill!Runs, Skill!SkillAssumption
        <5>2. r > q
          BY <2>9, <4>4, <5>1
        <5>3. exec[r].at # "none"
          BY <1>2
        <5> QED BY <1>2, <3>1, <5>2, <5>3 DEF LastOf
      <4> QED BY <4>3, <4>4
    <3>2. CASE ~(Skill!ToolAt(p) = "start_logger_writer" /\ d.table = t)
      BY <1>3, <1>6, <3>2 DEF Shows
    <3> QED BY <3>1, <3>2
  <2>10. ASSUME InOrder PROVE OrderSound'
    <3>1. RunShows(exec, r, x, topics, protos, writers, bumped) /\ SubjectsFrom(exec, subjects') /\ Ordered(exec, subjects')
      BY <1>1, <1>3, <2>10 DEF OrderSound
    <3>2. Keeps(exec, r, x, topics, protos, writers, bumped, topics', protos', writers', bumped')
      <4>1. r \in Nat
        BY DEF Skill!Runs, Skill!SkillAssumption
      <4>2. r <= r
        BY <4>1
      <4> QED BY <4>2, <2>9, <2>10
    <3>3. RunShows(exec, r, y, topics', protos', writers', bumped')
      BY <1>2, <1>3, <2>4, <2>5, <3>1, <3>2 DEF RunShows, Keeps, SamePlaces
    <3>4. \A q \in Skill!Runs : q < r =>
            Keeps(exec, q, exec[q], topics, protos, writers, bumped, topics', protos', writers', bumped')
      <4> SUFFICES ASSUME NEW q \in Skill!Runs, q < r PROVE q <= r
        BY <2>9, <2>10
      <4> QED BY DEF Skill!Runs, Skill!SkillAssumption
    <3>5. y.at # "none"
      BY <2>4
    <3> HIDE DEF Active
    <3> QED BY <1>1, <1>2, <1>3, <2>2, <2>4, <2>10, <3>1, <3>3, <3>4, <3>5, StepInOrder
  <2>11. OrderSound'
    <3>1. InOrder' <=> InOrder
      BY <1>3 DEF InOrder
    <3> QED BY <2>10, <3>1 DEF OrderSound
  <2>12. SkillTypes'
    BY <1>1, <1>3, <1>6, <2>8 DEF SkillTypes
  <2> QED BY <1>3, <2>8, <2>11, <2>12, FitSame DEF SkillIInv
<1> QED BY <1>2, <1>5, <1>6 DEF Skill!CountPartitions, Skill!Partitions

\* A Deployment that is applied keeps its table.
LEMMA WriterGrows ==
  ASSUME Skill!SkillAssumption, SkillTypes, NEW t \in Loggers, NEW k \in Nat,
         writers[SafeName[t]] = NoThing \/ writers[SafeName[t]].table = t,
         NEW wr, wr = writers \/ wr = [writers EXCEPT ![SafeName[t]] = [table |-> t, replicas |-> k]]
  PROVE  /\ wr \in [{SafeName[u] : u \in Loggers} -> [table : Loggers, replicas : Nat] \cup {NoThing}]
         /\ \A u \in Loggers : HasWriter(u, writers) =>
              /\ HasWriter(u, wr)
              /\ wr[SafeName[u]].replicas = writers[SafeName[u]].replicas
                 \/ (u = t /\ wr[SafeName[u]].replicas = k)
         /\ wr # writers => HasWriter(t, wr) /\ wr[SafeName[t]].replicas = k
<1> DEFINE w == [table |-> t, replicas |-> k]
           n == SafeName[t]
<1>1. writers \in [{SafeName[u] : u \in Loggers} -> [table : Loggers, replicas : Nat] \cup {NoThing}]
  BY DEF SkillTypes
<1>2. w \in [table : Loggers, replicas : Nat] /\ w # NoThing /\ w.table = t /\ w.replicas = k
  BY DEF Skill!SkillAssumption
<1>3. CASE wr = writers
  BY <1>1, <1>3
<1>4. CASE wr = [writers EXCEPT ![n] = w]
  <2> HIDE DEF w
  <2>1. /\ wr \in [{SafeName[u] : u \in Loggers} -> [table : Loggers, replicas : Nat] \cup {NoThing}]
        /\ wr[n] = w /\ \A m \in {SafeName[u] : u \in Loggers} : m # n => wr[m] = writers[m]
    BY <1>1, <1>2, <1>4
  <2>2. HasWriter(t, wr) /\ wr[n].replicas = k
    BY <1>2, <2>1 DEF HasWriter
  <2>3. ASSUME NEW u \in Loggers, HasWriter(u, writers)
        PROVE  /\ HasWriter(u, wr)
               /\ wr[SafeName[u]].replicas = writers[SafeName[u]].replicas
                  \/ (u = t /\ wr[SafeName[u]].replicas = k)
    <3>1. CASE SafeName[u] = n
      <4>1. u = t
        BY <2>3, <3>1 DEF HasWriter
      <4> QED BY <2>2, <4>1
    <3>2. CASE SafeName[u] # n
      BY <2>1, <2>3, <3>2 DEF HasWriter
    <3> QED BY <3>1, <3>2
  <2> QED BY <2>1, <2>2, <2>3
<1> QED BY <1>3, <1>4

LEMMA ApplyStep ==
  ASSUME Skill!SkillAssumption, SkillIInv, NEW r \in Skill!Runs, Skill!ApplyManifest(r)
  PROVE  SkillIInv'
<1> DEFINE x == exec[r]
           c == MergeOf(x, PlaceOf(x))
           t == c.table
           n == SafeName[t]
           k == x.counted
           y == [x EXCEPT !.at = "wait"]
<1>1. SkillTypes /\ RunsSound /\ OrderSound /\ Fit(topics, writers)
  BY DEF SkillIInv
<1>2. x \in ExecStates /\ x.at = "apply" /\ x.at \in Active
  BY <1>1 DEF SkillTypes, Skill!ApplyManifest, Active
<1>3. /\ x.verdict = "none" /\ x.turns < MaxAgentTurns
      /\ LeftOf(x) # {} /\ Skill!ToolAt(PlaceOf(x)) = "start_logger_writer"
      /\ k \in 1..topics[TableOf(x)]
  BY <1>1, <1>2 DEF RunsSound, AtWork
<1>4. Skill!Call(r) = c /\ t \in Loggers /\ TableOf(x) = t
  BY <1>2, <1>3, PlaceIs, MergeIs, PlacesAre DEF TableOf
<1>5. UNCHANGED <<topics, protos, subjects, iceberg, bumped, cuts, runFaults>>
  BY DEF Skill!ApplyManifest
<1>6. topics[t] \in Nat /\ k \in 1..topics[t] /\ k \in Nat
  BY <1>1, <1>3, <1>4 DEF SkillTypes, Skill!SkillAssumption
<1> DEFINE new == [writers EXCEPT ![n] = [table |-> t, replicas |-> k]]
<1>7. \/ Skill!Returns(r, FALSE) /\ writers' = writers
      \/ /\ writers[n] = NoThing \/ writers[n].table = t
         /\ \/ writers' = new /\ exec' = [exec EXCEPT ![r].at = "wait"]
            \/ Skill!Returns(r, FALSE) /\ writers' \in {writers, new}
  BY <1>4 DEF Skill!ApplyManifest
<1> HIDE DEF c
<1>8. /\ writers' \in [{SafeName[u] : u \in Loggers} -> [table : Loggers, replicas : Nat] \cup {NoThing}]
      /\ \A u \in Loggers : HasWriter(u, writers) =>
           /\ HasWriter(u, writers')
           /\ writers'[SafeName[u]].replicas = writers[SafeName[u]].replicas
              \/ (u = t /\ writers'[SafeName[u]].replicas = k)
      /\ writers' # writers => HasWriter(t, writers') /\ writers'[n].replicas = k
  <2>1. CASE writers' = writers
    BY <1>1, <2>1 DEF SkillTypes
  <2>2. CASE (writers[n] = NoThing \/ writers[n].table = t) /\ writers' \in {writers, new}
    <3> HIDE DEF k, t
    <3> QED BY <1>1, <1>4, <1>6, <2>2, WriterGrows
  <2> QED BY <1>7, <2>1, <2>2
<1>9. \A m \in DOMAIN writers' : writers'[m] = writers[m] \/ writers'[m] = [table |-> t, replicas |-> k]
  <2>1. writers' = writers \/ writers' = new
    BY <1>7
  <2>2. writers \in [{SafeName[u] : u \in Loggers} -> [table : Loggers, replicas : Nat] \cup {NoThing}]
    BY <1>1 DEF SkillTypes
  <2> QED BY <2>1, <2>2
<1>10. \A m \in DOMAIN writers' : m # n => writers'[m] = writers[m]
  <2>1. writers' = writers \/ writers' = new
    BY <1>7
  <2>2. writers \in [{SafeName[u] : u \in Loggers} -> [table : Loggers, replicas : Nat] \cup {NoThing}]
    BY <1>1 DEF SkillTypes
  <2> QED BY <2>1, <2>2
<1>11. Fit(topics', writers')
  <2> SUFFICES ASSUME NEW m \in DOMAIN writers', writers'[m] # NoThing
               PROVE  SafeName[writers'[m].table] = m /\ writers'[m].replicas \in 1..topics[writers'[m].table]
    BY <1>5 DEF Fit
  <2>1. CASE writers'[m] = writers[m]
    <3>1. m \in DOMAIN writers
      BY <1>1, <1>8 DEF SkillTypes
    <3> QED BY <1>1, <2>1, <3>1 DEF Fit
  <2>2. CASE writers'[m] # writers[m]
    BY <1>6, <1>9, <1>10, <2>2
  <2> QED BY <2>1, <2>2
<1>12. Grows(topics, subjects, iceberg, writers, topics', subjects', iceberg', writers')
  BY <1>1, <1>5, <1>8, GrowsNot DEF Grows
<1>13. ASSUME InOrder
       PROVE  /\ \A q \in Skill!Runs :
                   Keeps(exec, q, exec[q], topics, protos, writers, bumped, topics', protos', writers', bumped')
              /\ RunShows(exec, r, x, topics, protos, writers, bumped)
              /\ SubjectsFrom(exec, subjects') /\ Ordered(exec, subjects')
              /\ k = topics[t] \/ t \in bumped
  <2>1. RunShows(exec, r, x, topics, protos, writers, bumped) /\ SubjectsFrom(exec, subjects') /\ Ordered(exec, subjects')
    BY <1>1, <1>5, <1>13 DEF OrderSound
  <2>2. k = topics[t] \/ t \in bumped
    BY <1>2, <1>4, <2>1 DEF RunShows
  <2>3. ASSUME NEW q \in Skill!Runs, ~exec[q].failed, NEW p \in Passed(exec[q]), NEW d, d = MergeOf(exec[q], p),
               Shows(Skill!ToolAt(p), d, topics, protos, writers, bumped)
        PROVE  Shows(Skill!ToolAt(p), d, topics', protos', writers', bumped')
    <3>1. CASE Skill!ToolAt(p) = "start_logger_writer"
      <4>1. d.table \in Loggers /\ HasWriter(d.table, writers)
        BY <1>1, <1>13, <2>3, <3>1, HasItsWriter, PassedAre DEF MergeStates, SkillTypes
      <4>2. writers'[SafeName[d.table]].replicas = writers[SafeName[d.table]].replicas
            \/ (d.table = t /\ writers'[SafeName[d.table]].replicas = k)
        BY <1>8, <4>1
      <4> QED BY <1>5, <2>2, <2>3, <3>1, <4>2 DEF Shows
    <3>2. CASE Skill!ToolAt(p) # "start_logger_writer"
      BY <2>3, <3>2, <1>5 DEF Shows
    <3> QED BY <3>1, <3>2
  <2> QED BY <2>1, <2>2, <2>3 DEF Keeps
<1>14. CASE Skill!Returns(r, FALSE)
  <2> DEFINE ok == FALSE
  <2>1. ok \in BOOLEAN /\ ~ok
    OBVIOUS
  <2>2. exec' = [exec EXCEPT ![r] = Moved(x, ok)]
    BY <1>1, <1>14, ReturnsIs
  <2> HIDE DEF ok
  <2>3. exec' \in [Skill!Runs -> ExecStates] /\ RunsSound' /\ OrderSound'
    BY <1>1, <1>2, <1>3, <1>5, <1>12, <1>13, <2>1, <2>2, ReturnStep
  <2>4. SkillTypes'
    BY <1>1, <1>5, <1>8, <2>3 DEF SkillTypes
  <2> QED BY <1>11, <2>3, <2>4 DEF SkillIInv
<1>15. CASE (writers[n] = NoThing \/ writers[n].table = t) /\ writers' = new /\ exec' = [exec EXCEPT ![r].at = "wait"]
  <2>1. exec' = [exec EXCEPT ![r] = y]
    BY <1>1, <1>15 DEF SkillTypes
  <2>2. y \in ExecStates /\ y.input = x.input /\ y.at = "wait" /\ y.counted = k /\ y.next = x.next
        /\ y.verdict = x.verdict /\ y.turns = x.turns /\ y.failed = x.failed
    BY <1>2 DEF ExecStates
  <2>3. HasWriter(t, writers') /\ writers'[n].replicas = k
    <3>1. CASE writers' = writers
      <4>1. n \in DOMAIN writers
        BY <1>1, <1>4 DEF SkillTypes
      <4>2. writers[n] = [table |-> t, replicas |-> k]
        BY <1>15, <3>1, <4>1
      <4>3. [table |-> t, replicas |-> k] # NoThing
        BY <1>4, <1>6 DEF Skill!SkillAssumption
      <4> QED BY <3>1, <4>2, <4>3 DEF HasWriter
    <3>2. CASE writers' # writers
      BY <1>8, <3>2
    <3> QED BY <3>1, <3>2
  <2> HIDE DEF y
  <2>4. LeftOf(y) = LeftOf(x) /\ PlaceOf(y) = PlaceOf(x) /\ Passed(y) = Passed(x) /\ TableOf(y) = TableOf(x)
        /\ SamePlaces(x, y)
    BY <2>2, PlaceKeeps, InputKeeps
  <2>5. Verdict(y) /\ AtWork(y, topics', writers')
    BY <1>3, <1>4, <1>5, <1>6, <2>2, <2>3, <2>4 DEF Verdict, AtWork
  <2>6. HasMade(y, runFaults, topics', subjects', iceberg', writers')
    <3>1. HasMade(x, runFaults, topics, subjects, iceberg, writers)
      BY <1>1 DEF RunsSound
    <3>2. HasMade(x, runFaults, topics', subjects', iceberg', writers')
      BY <1>2, <1>12, <3>1, RunKept
    <3> QED BY <2>2, <2>4, <3>2 DEF HasMade, SamePlaces
  <2>7. exec' \in [Skill!Runs -> ExecStates] /\ RunsSound'
    BY <1>1, <1>5, <1>12, <2>1, <2>2, <2>5, <2>6, StepSound
  <2>8. ASSUME InOrder PROVE OrderSound'
    <3>1. RunShows(exec, r, y, topics', protos', writers', bumped')
      <4>1. RunShows(exec, r, x, topics, protos, writers, bumped)
            /\ Keeps(exec, r, x, topics, protos, writers, bumped, topics', protos', writers', bumped')
            /\ (k = topics[t] \/ t \in bumped)
        BY <1>13, <2>8
      <4>2. ASSUME ~y.failed, NEW p \in Passed(y), LastOf(exec, r, MergeOf(y, p).table)
            PROVE  Shows(Skill!ToolAt(p), MergeOf(y, p), topics', protos', writers', bumped')
        BY <2>2, <2>4, <4>1, <4>2 DEF RunShows, Keeps, SamePlaces
      <4> QED BY <1>4, <1>5, <2>2, <2>3, <2>4, <4>1, <4>2 DEF RunShows
    <3>2. y.at # "none"
      BY <2>2
    <3> HIDE DEF Active
    <3> QED BY <1>1, <1>2, <1>5, <1>13, <2>1, <2>2, <2>8, <3>1, <3>2, StepInOrder
  <2>9. OrderSound'
    <3>1. InOrder' <=> InOrder
      BY <1>5 DEF InOrder
    <3> QED BY <2>8, <3>1 DEF OrderSound
  <2>10. SkillTypes'
    BY <1>1, <1>5, <1>8, <2>7 DEF SkillTypes
  <2> QED BY <1>11, <2>7, <2>9, <2>10 DEF SkillIInv
<1> QED BY <1>7, <1>14, <1>15

LEMMA WaitStep ==
  ASSUME Skill!SkillAssumption, SkillIInv, NEW r \in Skill!Runs, Skill!WaitForDeployment(r)
  PROVE  SkillIInv'
<1> DEFINE x == exec[r]
           c == MergeOf(x, PlaceOf(x))
<1>1. SkillTypes /\ RunsSound /\ OrderSound /\ Fit(topics, writers)
  BY DEF SkillIInv
<1>2. x \in ExecStates /\ x.at = "wait" /\ x.at \in Active
  BY <1>1 DEF SkillTypes, Skill!WaitForDeployment, Active
<1>3. /\ x.verdict = "none" /\ x.turns < MaxAgentTurns
      /\ LeftOf(x) # {} /\ Skill!ToolAt(PlaceOf(x)) = "start_logger_writer"
      /\ HasWriter(TableOf(x), writers) /\ TableOf(x) = c.table
  BY <1>1, <1>2 DEF RunsSound, AtWork, TableOf
<1>4. UNCHANGED <<topics, protos, subjects, iceberg, writers, bumped, cuts, runFaults>>
  BY DEF Skill!WaitForDeployment, Skill!services
<1>5. PICK ok \in BOOLEAN : Skill!Returns(r, ok)
  BY DEF Skill!WaitForDeployment
<1>6. exec' = [exec EXCEPT ![r] = Moved(x, ok)]
  BY <1>1, <1>5, ReturnsIs
<1>7. Grows(topics, subjects, iceberg, writers, topics', subjects', iceberg', writers')
  BY <1>1, <1>4, GrowsNot DEF Grows
<1>8. Holds(Skill!ToolAt(PlaceOf(x)), c, topics', subjects', iceberg', writers')
  BY <1>3, <1>4 DEF Holds
<1>9. \A q \in Skill!Runs :
        Keeps(exec, q, exec[q], topics, protos, writers, bumped, topics', protos', writers', bumped')
  BY <1>4 DEF Keeps
<1>10. ASSUME InOrder
       PROVE  /\ Shows(Skill!ToolAt(PlaceOf(x)), c, topics', protos', writers', bumped')
              /\ SubjectsFrom(exec, subjects') /\ Ordered(exec, subjects')
  <2>1. RunShows(exec, r, x, topics, protos, writers, bumped) /\ SubjectsFrom(exec, subjects) /\ Ordered(exec, subjects)
    BY <1>1, <1>10 DEF OrderSound
  <2> QED BY <1>2, <1>3, <1>4, <2>1 DEF RunShows, Shows
<1>11. exec' \in [Skill!Runs -> ExecStates] /\ RunsSound' /\ OrderSound'
  BY <1>1, <1>2, <1>3, <1>4, <1>6, <1>7, <1>8, <1>9, <1>10, ReturnStep
<1>12. SkillTypes'
  BY <1>1, <1>4, <1>11 DEF SkillTypes
<1> QED BY <1>4, <1>11, <1>12, FitSame DEF SkillIInv

-----------------------------------------------------------------------------
(* The agent and its step.                                                 *)
Agents(r, y) ==
  /\ exec' = [exec EXCEPT ![r] = y]
  /\ UNCHANGED <<topics, protos, subjects, iceberg, writers, bumped, runFaults>>

\* A step of the agent that calls no tool.
LEMMA AgentStep ==
  ASSUME Skill!SkillAssumption, SkillIInv, NEW r \in Skill!Runs, NEW y \in ExecStates, Agents(r, y),
         cuts' \in 0..MaxCuts, exec[r].at \in Active, y.input = exec[r].input, y.at \in {"agent", "ended"},
         Verdict(y),
         "stray" \notin runFaults =>
           Passed(y) = {} \/ (Passed(y) = Passed(exec[r]) /\ y.failed = exec[r].failed)
  PROVE  SkillIInv'
<1> DEFINE x == exec[r]
<1>1. SkillTypes /\ RunsSound /\ OrderSound /\ Fit(topics, writers)
  BY DEF SkillIInv
<1>2. /\ exec' = [exec EXCEPT ![r] = y]
      /\ UNCHANGED <<topics, protos, subjects, iceberg, writers, bumped, runFaults>>
  BY DEF Agents
<1>3. SamePlaces(x, y)
  BY InputKeeps
<1>4. Grows(topics, subjects, iceberg, writers, topics', subjects', iceberg', writers')
  BY <1>1, <1>2, GrowsNot DEF Grows
<1>5. AtWork(y, topics', writers')
  BY DEF AtWork
<1>6. HasMade(y, runFaults, topics', subjects', iceberg', writers')
  <2>1. HasMade(x, runFaults, topics, subjects, iceberg, writers)
    BY <1>1 DEF RunsSound
  <2> QED BY <1>2, <1>3, <2>1 DEF HasMade, SamePlaces
<1>7. exec' \in [Skill!Runs -> ExecStates] /\ RunsSound'
  BY <1>1, <1>2, <1>4, <1>5, <1>6, StepSound
<1>8. ASSUME InOrder PROVE OrderSound'
  <2>1. RunShows(exec, r, x, topics, protos, writers, bumped) /\ SubjectsFrom(exec, subjects) /\ Ordered(exec, subjects)
    BY <1>1, <1>8 DEF OrderSound
  <2>2. "stray" \notin runFaults
    BY <1>8 DEF InOrder
  <2>3. RunShows(exec, r, y, topics', protos', writers', bumped')
    BY <1>2, <1>3, <2>1, <2>2 DEF RunShows, SamePlaces
  <2>4. \A q \in Skill!Runs :
          Keeps(exec, q, exec[q], topics, protos, writers, bumped, topics', protos', writers', bumped')
    BY <1>2 DEF Keeps
  <2>5. y.at # "none"
    OBVIOUS
  <2>6. SubjectsFrom(exec, subjects') /\ Ordered(exec, subjects')
    BY <1>2, <2>1
  <2> HIDE DEF Active
  <2> QED BY <1>1, <1>2, <1>8, <2>3, <2>4, <2>5, <2>6, StepInOrder
<1>9. OrderSound'
  <2>1. InOrder' <=> InOrder
    BY <1>2 DEF InOrder
  <2> QED BY <1>8, <2>1 DEF OrderSound
<1>10. SkillTypes'
  BY <1>1, <1>2, <1>7 DEF SkillTypes
<1> QED BY <1>2, <1>7, <1>9, <1>10, FitSame DEF SkillIInv

LEMMA StrayStep ==
  ASSUME Skill!SkillAssumption, SkillIInv, NEW r \in Skill!Runs, Skill!Stray(r)
  PROVE  SkillIInv'
<1> DEFINE x == exec[r]
<1>1. exec \in [Skill!Runs -> ExecStates] /\ x \in ExecStates /\ cuts \in 0..MaxCuts /\ Verdict(x)
  BY DEF SkillIInv, SkillTypes, RunsSound
<1>2. /\ "stray" \in runFaults /\ x.at = "agent" /\ cuts < MaxCuts /\ LeftOf(x) # {} /\ cuts' = cuts + 1
      /\ UNCHANGED <<topics, protos, subjects, iceberg, writers, bumped, runFaults>>
  BY PlacesAre DEF Skill!Stray, Skill!services
<1>3. PICK n \in {PlaceOf(x) + 1, PlacesOf(x) + 1} : exec' = [exec EXCEPT ![r].next = n]
  BY PlacesAre DEF Skill!Stray
<1>4. n \in Nat \ {0}
  <2>1. PlacesOf(x) \in Nat /\ PlaceOf(x) \in 1..PlacesOf(x)
    BY <1>1, <1>2, PlaceIs, MergesAre
  <2> QED BY <2>1
<1> DEFINE y == [x EXCEPT !.next = n]
<1>5. y \in ExecStates /\ y.input = x.input /\ y.at = "agent" /\ y.verdict = x.verdict
  BY <1>1, <1>2, <1>4 DEF ExecStates
<1>6. exec' = [exec EXCEPT ![r] = y]
  BY <1>1, <1>3
<1>7. Agents(r, y)
  BY <1>2, <1>6 DEF Agents
<1> HIDE DEF y
<1>8. Verdict(y)
  BY <1>1, <1>2, <1>5 DEF Verdict
<1>9. cuts' \in 0..MaxCuts /\ x.at \in Active
  BY <1>1, <1>2 DEF Active, Skill!SkillAssumption
<1> QED BY <1>2, <1>5, <1>7, <1>8, <1>9, AgentStep

LEMMA FinishStep ==
  ASSUME Skill!SkillAssumption, SkillIInv, NEW r \in Skill!Runs, Skill!FinishSkill(r)
  PROVE  SkillIInv'
<1> DEFINE x == exec[r]
           v == IF x.failed \/ ~Skills[x.input.skill].checked THEN "failed" ELSE "done"
           y == [x EXCEPT !.turns = x.turns + 1, !.verdict = v]
<1>1. exec \in [Skill!Runs -> ExecStates] /\ x \in ExecStates /\ cuts \in 0..MaxCuts /\ Verdict(x)
  BY DEF SkillIInv, SkillTypes, RunsSound
<1>2. /\ x.at = "agent" /\ x.verdict = "none" /\ x.turns < MaxAgentTurns /\ LeftOf(x) = {}
      /\ exec' = [exec EXCEPT ![r].turns = @ + 1, ![r].verdict = v]
      /\ UNCHANGED <<topics, protos, subjects, iceberg, writers, bumped, cuts, runFaults>>
  BY PlacesAre DEF Skill!FinishSkill, Skill!services
<1>3. v \in {"done", "failed"} /\ (v = "done" => ~x.failed)
  OBVIOUS
<1> HIDE DEF v
<1>4. exec' = [exec EXCEPT ![r] = y]
  BY <1>1, <1>2
<1>5. x.turns + 1 \in 0..MaxAgentTurns
  BY <1>1, <1>2 DEF ExecStates, Skill!SkillAssumption
<1>6. y \in ExecStates /\ y.input = x.input /\ y.at = "agent" /\ y.verdict = v /\ y.next = x.next /\ y.failed = x.failed
  BY <1>1, <1>2, <1>3, <1>5 DEF ExecStates
<1>7. Agents(r, y)
  BY <1>2, <1>4 DEF Agents
<1> HIDE DEF y
<1>8. LeftOf(y) = LeftOf(x) /\ Passed(y) = Passed(x)
  BY <1>6, PlaceKeeps
<1>9. Verdict(y) /\ x.at \in Active /\ cuts' \in 0..MaxCuts
  BY <1>1, <1>2, <1>3, <1>6, <1>8 DEF Verdict, Active
<1> QED BY <1>6, <1>7, <1>8, <1>9, AgentStep

LEMMA GeneratedStep ==
  ASSUME Skill!SkillAssumption, SkillIInv, NEW r \in Skill!Runs, Skill!Generated(r)
  PROVE  SkillIInv'
<1> DEFINE x == exec[r]
<1>1. exec \in [Skill!Runs -> ExecStates] /\ x \in ExecStates /\ cuts \in 0..MaxCuts /\ Verdict(x)
  BY DEF SkillIInv, SkillTypes, RunsSound
<1>2. PICK res \in {"ok", "error"} : exec' = [exec EXCEPT ![r].at = "ended", ![r].result = res]
  BY DEF Skill!Generated
<1>3. /\ x.at = "agent"
      /\ UNCHANGED <<topics, protos, subjects, iceberg, writers, bumped, cuts, runFaults>>
  BY DEF Skill!Generated, Skill!services
<1> DEFINE y == [x EXCEPT !.at = "ended", !.result = res]
<1>4. exec' = [exec EXCEPT ![r] = y]
  BY <1>1, <1>2
<1>5. y \in ExecStates /\ y.input = x.input /\ y.at = "ended" /\ y.verdict = x.verdict /\ y.next = x.next /\ y.failed = x.failed
  BY <1>1 DEF ExecStates
<1>6. Agents(r, y)
  BY <1>3, <1>4 DEF Agents
<1> HIDE DEF y
<1>7. LeftOf(y) = LeftOf(x) /\ Passed(y) = Passed(x)
  BY <1>5, PlaceKeeps
<1>8. Verdict(y) /\ x.at \in Active /\ cuts' \in 0..MaxCuts
  BY <1>1, <1>3, <1>5, <1>7 DEF Verdict, Active
<1> QED BY <1>5, <1>6, <1>7, <1>8, AgentStep

LEMMA CutStep ==
  ASSUME Skill!SkillAssumption, SkillIInv, NEW r \in Skill!Runs, Skill!CutOff(r)
  PROVE  SkillIInv'
<1> DEFINE x == exec[r]
           i == x.input
           y == [Skill!Fresh(i) EXCEPT !.at = "agent"]
<1>1. exec \in [Skill!Runs -> ExecStates] /\ x \in ExecStates /\ cuts \in 0..MaxCuts
  BY DEF SkillIInv, SkillTypes, RunsSound
<1>2. /\ x.at \in Active /\ cuts < MaxCuts /\ cuts' = cuts + 1 /\ exec' = [exec EXCEPT ![r] = y]
      /\ UNCHANGED <<topics, protos, subjects, iceberg, writers, bumped, runFaults>>
  BY DEF Skill!CutOff, Skill!services, Active
<1>3. y \in ExecStates /\ y.input = x.input /\ y.at = "agent" /\ y.verdict = "none" /\ y.next = 1
  <2>1. i \in InputStates /\ 0 \in 0..MaxAgentTurns /\ 0 \in 0..MaxPartitions /\ 1 \in Nat \ {0}
    BY <1>1 DEF ExecStates, Skill!SkillAssumption
  <2>2. i = x.input
    OBVIOUS
  <2> HIDE DEF i
  <2> DEFINE z == Skill!Fresh(i)
  <2>3. z \in ExecStates /\ z.input = i /\ z.verdict = "none" /\ z.next = 1
    BY <2>1 DEF ExecStates, Skill!Fresh
  <2> HIDE DEF z
  <2>4. [z EXCEPT !.at = "agent"] \in ExecStates
    BY <2>3 DEF ExecStates
  <2>5. y = [z EXCEPT !.at = "agent"]
    BY DEF z
  <2> HIDE DEF y
  <2>6. y.input = i /\ y.at = "agent" /\ y.verdict = "none" /\ y.next = 1
    BY <2>3, <2>5 DEF ExecStates
  <2> QED BY <2>2, <2>4, <2>5, <2>6
<1>4. Agents(r, y)
  BY <1>2 DEF Agents
<1> HIDE DEF y
<1>5. Passed(y) = {}
  BY <1>3, NothingPassed
<1>6. Verdict(y) /\ cuts' \in 0..MaxCuts
  BY <1>1, <1>2, <1>3 DEF Verdict, Skill!SkillAssumption
<1> QED BY <1>2, <1>3, <1>4, <1>5, <1>6, AgentStep

\* A run starts when those before it are over, unless they may overlap.
LEMMA StartStep ==
  ASSUME Skill!SkillAssumption, SkillIInv, NEW r \in Skill!Runs, Skill!Start(r)
  PROVE  SkillIInv'
<1> DEFINE x == exec[r]
           on == Skill!Loadable(x.input.skill)
           a == IF on THEN "agent" ELSE "ended"
           b == IF on THEN "none" ELSE "error"
           y == [x EXCEPT !.at = a, !.result = b]
<1>1. SkillTypes /\ RunsSound /\ OrderSound /\ Fit(topics, writers)
  BY DEF SkillIInv
<1>2. exec \in [Skill!Runs -> ExecStates] /\ x \in ExecStates /\ Verdict(x)
  BY <1>1 DEF SkillTypes, RunsSound
<1>3. /\ x.at = "none" /\ exec' = [exec EXCEPT ![r].at = a, ![r].result = b]
      /\ \A q \in Skill!Runs : q < r => exec[q].at = "ended" \/ "overlap" \in runFaults
      /\ UNCHANGED <<topics, protos, subjects, iceberg, writers, bumped, cuts, runFaults>>
  BY DEF Skill!Start, Skill!services
<1>4. a \in {"agent", "ended"} /\ b \in {"none", "error"}
  OBVIOUS
<1> HIDE DEF a, b
<1>5. exec' = [exec EXCEPT ![r] = y]
  BY <1>2, <1>3
<1>6. y \in ExecStates /\ y.input = x.input /\ y.at = a /\ y.verdict = "none" /\ y.next = 1
  BY <1>2, <1>3, <1>4 DEF ExecStates, Verdict
<1> HIDE DEF y
<1>7. Passed(y) = {}
  BY <1>6, NothingPassed
<1>8. Grows(topics, subjects, iceberg, writers, topics', subjects', iceberg', writers')
  BY <1>1, <1>3, GrowsNot DEF Grows
<1>9. Verdict(y) /\ AtWork(y, topics', writers') /\ HasMade(y, runFaults, topics', subjects', iceberg', writers')
  BY <1>4, <1>6, <1>7 DEF Verdict, AtWork, HasMade
<1>10. exec' \in [Skill!Runs -> ExecStates] /\ RunsSound'
  BY <1>1, <1>3, <1>5, <1>6, <1>8, <1>9, StepSound
<1>11. exec'[r] = y /\ \A q \in Skill!Runs : q # r => exec'[q] = exec[q]
  BY <1>2, <1>5
<1>12. \A q \in Skill!Runs : /\ MergedBy(exec'[q]) = MergedBy(exec[q])
                             /\ exec[q].at # "none" => exec'[q].at # "none"
  <2> SUFFICES ASSUME NEW q \in Skill!Runs
               PROVE  /\ MergedBy(exec'[q]) = MergedBy(exec[q])
                      /\ exec[q].at # "none" => exec'[q].at # "none"
    OBVIOUS
  <2>1. CASE q = r
    BY <1>3, <1>6, <1>11, <2>1 DEF MergedBy
  <2>2. CASE q # r
    BY <1>11, <2>2
  <2> QED BY <2>1, <2>2
<1>13. \A q, t : LastOf(exec', q, t) => LastOf(exec, q, t)
  BY <1>12 DEF LastOf
<1>14. ASSUME InOrder PROVE OrderSound'
  <2>1. /\ Sequential(exec) /\ SubjectsFrom(exec, subjects) /\ Ordered(exec, subjects)
        /\ \A q \in Skill!Runs : RunShows(exec, q, exec[q], topics, protos, writers, bumped)
    BY <1>1, <1>14 DEF OrderSound
  <2>2. \A q \in Skill!Runs : q < r => exec[q].at = "ended"
    BY <1>3, <1>14 DEF InOrder
  <2>3. \A q \in Skill!Runs : q > r => exec[q].at = "none"
    BY <1>3, <2>1 DEF Sequential, Skill!Runs
  <2>4. Sequential(exec')
    <3> SUFFICES ASSUME NEW q \in Skill!Runs, NEW s \in Skill!Runs, q < s, exec'[s].at # "none"
                 PROVE  exec'[q].at = "ended"
      BY DEF Sequential
    <3>1. q \in Nat /\ s \in Nat /\ r \in Nat
      BY DEF Skill!Runs, Skill!SkillAssumption
    <3>2. CASE s = r
      BY <1>11, <2>2, <3>1, <3>2
    <3>3. CASE s # r
      <4>1. exec[q].at = "ended"
        BY <1>11, <2>1, <3>3 DEF Sequential
      <4> QED BY <1>3, <1>11, <4>1
    <3> QED BY <3>2, <3>3
  <2>5. ASSUME NEW q \in Skill!Runs
        PROVE  RunShows(exec', q, exec'[q], topics', protos', writers', bumped')
    <3>1. CASE q = r
      <4>1. exec'[q] = y /\ y.at # "apply" /\ y.at # "wait"
        BY <1>4, <1>6, <1>11, <3>1
      <4> QED BY <1>7, <4>1 DEF RunShows
    <3>2. CASE q # r
      <4>1. exec'[q] = exec[q] /\ RunShows(exec, q, exec[q], topics, protos, writers, bumped)
        BY <1>11, <2>1, <3>2
      <4>2. RunShows(exec', q, exec[q], topics, protos, writers, bumped)
        BY <1>13, <4>1 DEF RunShows
      <4> QED BY <1>3, <4>1, <4>2
    <3> QED BY <3>1, <3>2
  <2>6. SubjectsFrom(exec', subjects)
    <3> SUFFICES ASSUME NEW t \in Loggers, NEW i \in DOMAIN subjects[t]
                 PROVE  \E q \in Skill!Runs :
                          /\ exec'[q].at # "none"
                          /\ \E e \in MergedBy(exec'[q]) : e.table = t /\ e.columns = subjects[t][i]
      BY DEF SubjectsFrom
    <3>1. PICK q \in Skill!Runs :
            /\ exec[q].at # "none"
            /\ \E e \in MergedBy(exec[q]) : e.table = t /\ e.columns = subjects[t][i]
      BY <2>1 DEF SubjectsFrom
    <3> QED BY <1>12, <3>1
  <2>7. Ordered(exec', subjects)
    <3> SUFFICES ASSUME NEW q \in Skill!Runs, NEW d \in MergedBy(exec'[q]),
                        exec'[q].at # "none", LastOf(exec', q, d.table), ~Earlier(exec', q, d),
                        Skill!Contains(subjects[d.table], d.columns)
                 PROVE  Skill!Last(subjects[d.table]) = d.columns
      BY DEF Ordered
    <3>1. ~Earlier(exec, q, d) /\ LastOf(exec, q, d.table) /\ d \in MergedBy(exec[q])
      BY <1>12, <1>13 DEF Earlier
    <3>2. CASE q # r
      BY <1>11, <2>1, <3>1, <3>2 DEF Ordered
    <3>3. CASE q = r
      <4>1. d \in MergeStates /\ d.table \in Loggers
        <5>1. d \in MergeStates
          BY <1>2, <3>1, <3>3, MergesAre DEF MergedBy
        <5> QED BY <5>1 DEF MergeStates
      <4>2. PICK i \in 1..Len(subjects[d.table]) : subjects[d.table][i] = d.columns
        BY DEF Skill!Contains
      <4>3. subjects[d.table] \in Seq(Columns)
        BY <1>1, <4>1 DEF SkillTypes
      <4>4. i \in DOMAIN subjects[d.table]
        BY <4>2, <4>3
      <4>5. PICK s \in Skill!Runs :
              /\ exec[s].at # "none"
              /\ \E e \in MergedBy(exec[s]) : e.table = d.table /\ e.columns = d.columns
        BY <2>1, <4>1, <4>2, <4>4 DEF SubjectsFrom
      <4>6. s \in Nat /\ r \in Nat
        BY DEF Skill!Runs, Skill!SkillAssumption
      <4>7. ~(s < r)
        BY <3>1, <3>3, <4>5 DEF Earlier
      <4>8. s # r /\ ~(s > r)
        BY <1>3, <2>3, <4>5
      <4> QED BY <4>6, <4>7, <4>8
    <3> QED BY <3>2, <3>3
  <2> QED BY <1>3, <2>4, <2>5, <2>6, <2>7 DEF OrderSound
<1>15. OrderSound'
  <2>1. InOrder' <=> InOrder
    BY <1>3 DEF InOrder
  <2> QED BY <1>14, <2>1 DEF OrderSound
<1>16. SkillTypes'
  BY <1>1, <1>3, <1>10 DEF SkillTypes
<1> QED BY <1>3, <1>10, <1>15, <1>16, FitSame DEF SkillIInv

\* Someone raises the partitions of a topic: it is marked until they are counted.
LEMMA PartitionStep ==
  ASSUME Skill!SkillAssumption, SkillIInv, NEW t \in Loggers, Skill!AddPartition(t)
  PROVE  SkillIInv'
<1>1. SkillTypes /\ RunsSound /\ OrderSound /\ Fit(topics, writers)
  BY DEF SkillIInv
<1>2. /\ topics[t] \in 1..(MaxPartitions - 1) /\ topics' = [topics EXCEPT ![t] = @ + 1]
      /\ bumped' = bumped \cup {t}
      /\ UNCHANGED <<exec, protos, subjects, iceberg, writers, cuts, runFaults>>
  BY DEF Skill!AddPartition
<1>3. topics \in [Loggers -> 0..MaxPartitions] /\ MaxPartitions \in Nat
      /\ exec \in [Skill!Runs -> ExecStates]
  BY <1>1 DEF SkillTypes, Skill!SkillAssumption
<1>4. /\ topics' \in [Loggers -> 0..MaxPartitions]
      /\ \A u \in Loggers : /\ topics[u] \in Nat /\ topics'[u] \in Nat /\ topics[u] <= topics'[u]
                            /\ topics'[u] = topics[u] \/ u \in bumped'
  <2>1. topics[t] + 1 \in 0..MaxPartitions /\ topics[t] \in Nat
    BY <1>2, <1>3
  <2>2. topics' \in [Loggers -> 0..MaxPartitions]
    BY <1>2, <1>3, <2>1
  <2>3. ASSUME NEW u \in Loggers
        PROVE  /\ topics[u] \in Nat /\ topics'[u] \in Nat /\ topics[u] <= topics'[u]
               /\ topics'[u] = topics[u] \/ u \in bumped'
    <3>1. CASE u = t
      BY <1>2, <1>3, <2>1, <3>1
    <3>2. CASE u # t
      BY <1>2, <1>3, <3>2
    <3> QED BY <3>1, <3>2
  <2> QED BY <2>2, <2>3
<1>5. Grows(topics, subjects, iceberg, writers, topics', subjects', iceberg', writers')
  BY <1>2, <1>4 DEF Grows
<1>6. RunsSound'
  <2>1. ASSUME NEW q \in Skill!Runs
        PROVE  /\ AtWork(exec[q], topics', writers')
               /\ HasMade(exec[q], runFaults, topics', subjects', iceberg', writers')
    <3>1. /\ exec[q] \in ExecStates /\ AtWork(exec[q], topics, writers)
          /\ HasMade(exec[q], runFaults, topics, subjects, iceberg, writers)
      BY <1>1, <1>3 DEF RunsSound
    <3> QED BY <1>5, <3>1, RunKept
  <2> QED BY <1>1, <1>2, <2>1 DEF RunsSound
<1>7. Fit(topics', writers')
  <2> SUFFICES ASSUME NEW n \in DOMAIN writers, writers[n] # NoThing
               PROVE  SafeName[writers[n].table] = n /\ writers[n].replicas \in 1..topics'[writers[n].table]
    BY <1>2 DEF Fit
  <2>1. SafeName[writers[n].table] = n /\ writers[n].replicas \in 1..topics[writers[n].table]
    BY <1>1 DEF Fit
  <2>2. writers[n].table \in Loggers /\ writers[n].replicas \in Nat
    BY <1>1 DEF SkillTypes
  <2>3. topics[writers[n].table] \in Nat /\ topics'[writers[n].table] \in Nat
        /\ topics[writers[n].table] <= topics'[writers[n].table]
    BY <1>4, <2>2
  <2> QED BY <2>1, <2>2, <2>3
<1>8. ASSUME InOrder, NEW q \in Skill!Runs
      PROVE  RunShows(exec, q, exec[q], topics', protos', writers', bumped')
  <2>1. RunShows(exec, q, exec[q], topics, protos, writers, bumped) /\ exec[q] \in ExecStates
    BY <1>1, <1>3, <1>8 DEF OrderSound
  <2>2. ASSUME NEW p \in Passed(exec[q]), NEW d, d = MergeOf(exec[q], p),
               Shows(Skill!ToolAt(p), d, topics, protos, writers, bumped)
        PROVE  Shows(Skill!ToolAt(p), d, topics', protos', writers', bumped')
    <3>1. d.table \in Loggers
      BY <2>1, <2>2, PassedAre DEF MergeStates
    <3>2. topics'[d.table] = topics[d.table] \/ d.table \in bumped'
      BY <1>4, <3>1
    <3>3. d.table \in bumped => d.table \in bumped'
      BY <1>2
    <3> QED BY <1>2, <2>2, <3>2, <3>3 DEF Shows
  <2>3. ASSUME exec[q].at \in {"apply", "wait"}
        PROVE  /\ topics'[TableOf(exec[q])] = topics[TableOf(exec[q])] \/ TableOf(exec[q]) \in bumped'
               /\ TableOf(exec[q]) \in bumped => TableOf(exec[q]) \in bumped'
    <3>1. LeftOf(exec[q]) # {}
      BY <1>1, <2>3 DEF RunsSound, AtWork
    <3>2. TableOf(exec[q]) \in Loggers
      BY <2>1, <3>1, PlaceIs, MergeIs DEF TableOf
    <3> QED BY <1>2, <1>4, <3>2
  <2> QED BY <1>2, <2>1, <2>2, <2>3 DEF RunShows
<1>9. OrderSound'
  <2>1. InOrder' <=> InOrder
    BY <1>2 DEF InOrder
  <2>2. InOrder => Sequential(exec) /\ SubjectsFrom(exec, subjects) /\ Ordered(exec, subjects)
    BY <1>1 DEF OrderSound
  <2> QED BY <1>2, <1>8, <2>1, <2>2 DEF OrderSound
<1>10. SkillTypes'
  BY <1>1, <1>2, <1>4 DEF SkillTypes
<1> QED BY <1>6, <1>7, <1>9, <1>10 DEF SkillIInv

-----------------------------------------------------------------------------
(* The invariant.                                                          *)
LEMMA SkillInit ==
  ASSUME Skill!SkillAssumption, Skill!Init
  PROVE  SkillIInv
<1>1. PICK inputs \in RunInputs : exec = [r \in Skill!Runs |-> Skill!Fresh(inputs[r])]
  BY DEF Skill!Init
<1>2. /\ topics = [t \in Loggers |-> 0] /\ protos = [f \in {ProtoName[t] : t \in Loggers} |-> NoThing]
      /\ subjects = [t \in Loggers |-> <<>>] /\ iceberg = [t \in Loggers |-> NoThing]
      /\ writers = [n \in {SafeName[t] : t \in Loggers} |-> NoThing]
      /\ bumped = {} /\ cuts = 0 /\ runFaults \in RunFaultSets
  BY DEF Skill!Init
<1>3. \A r \in Skill!Runs : inputs[r] \in InputStates
  BY DEF Skill!SkillAssumption, InputStates, MergeStates
<1>4. \A i \in InputStates : /\ Skill!Fresh(i) \in ExecStates
                             /\ Skill!Fresh(i).at = "none" /\ Skill!Fresh(i).next = 1 /\ Skill!Fresh(i).verdict = "none"
  <2>1. 0 \in 0..MaxAgentTurns /\ 0 \in 0..MaxPartitions /\ 1 \in Nat \ {0}
    BY DEF Skill!SkillAssumption
  <2> QED BY <2>1 DEF ExecStates, Skill!Fresh
<1>5. \A r \in Skill!Runs : /\ exec[r] \in ExecStates /\ exec[r].at = "none"
                            /\ exec[r].next = 1 /\ exec[r].verdict = "none" /\ Passed(exec[r]) = {}
  BY <1>1, <1>3, <1>4, NothingPassed
<1>6. SkillTypes
  <2>1. exec \in [Skill!Runs -> ExecStates]
    BY <1>1, <1>3, <1>4
  <2>2. 0 \in 0..MaxPartitions /\ 0 \in 0..MaxCuts
    BY DEF Skill!SkillAssumption
  <2>3. \A t \in Loggers : Skill!IsInjective(subjects[t])
    BY <1>2 DEF Skill!IsInjective
  <2> QED BY <1>2, <2>1, <2>2, <2>3 DEF SkillTypes
<1>7. RunsSound
  BY <1>5 DEF RunsSound, Verdict, AtWork, HasMade
<1>8. Fit(topics, writers)
  BY <1>2 DEF Fit
<1>9. OrderSound
  <2>1. Sequential(exec) /\ SubjectsFrom(exec, subjects) /\ Ordered(exec, subjects)
    BY <1>2, <1>5 DEF Sequential, SubjectsFrom, Ordered
  <2>2. \A r \in Skill!Runs : RunShows(exec, r, exec[r], topics, protos, writers, bumped)
    BY <1>5 DEF RunShows
  <2> QED BY <2>1, <2>2 DEF OrderSound
<1> QED BY <1>6, <1>7, <1>8, <1>9 DEF SkillIInv

LEMMA SkillNext ==
  ASSUME Skill!SkillAssumption, SkillIInv, [Skill!Next]_(Skill!vars)
  PROVE  SkillIInv'
<1>1. ASSUME NEW r \in Skill!Runs, Skill!Start(r) PROVE SkillIInv'
  BY <1>1, StartStep
<1>2. ASSUME NEW r \in Skill!Runs, Skill!CreateKafkaTopic(r) PROVE SkillIInv'
  BY <1>2, TopicStep
<1>3. ASSUME NEW r \in Skill!Runs, Skill!EmitLoggerProto(r) PROVE SkillIInv'
  BY <1>3, ProtoStep
<1>4. ASSUME NEW r \in Skill!Runs, Skill!RegisterProtobufSchema(r) PROVE SkillIInv'
  BY <1>4, SchemaStep
<1>5. ASSUME NEW r \in Skill!Runs, Skill!CreateIcebergTable(r) PROVE SkillIInv'
  BY <1>5, TableStep
<1>6. ASSUME NEW r \in Skill!Runs, Skill!CountPartitions(r) PROVE SkillIInv'
  BY <1>6, CountStep
<1>7. ASSUME NEW r \in Skill!Runs, Skill!ApplyManifest(r) PROVE SkillIInv'
  BY <1>7, ApplyStep
<1>8. ASSUME NEW r \in Skill!Runs, Skill!WaitForDeployment(r) PROVE SkillIInv'
  BY <1>8, WaitStep
<1>9. ASSUME NEW r \in Skill!Runs, Skill!Stray(r) PROVE SkillIInv'
  BY <1>9, StrayStep
<1>10. ASSUME NEW r \in Skill!Runs, Skill!FinishSkill(r) PROVE SkillIInv'
  BY <1>10, FinishStep
<1>11. ASSUME NEW r \in Skill!Runs, Skill!Generated(r) PROVE SkillIInv'
  BY <1>11, GeneratedStep
<1>12. ASSUME NEW r \in Skill!Runs, Skill!CutOff(r) PROVE SkillIInv'
  BY <1>12, CutStep
<1>13. ASSUME NEW t \in Loggers, Skill!AddPartition(t) PROVE SkillIInv'
  BY <1>13, PartitionStep
<1>14. CASE UNCHANGED Skill!vars
  <2>1. UNCHANGED <<exec, topics, protos, subjects, iceberg, writers, bumped, cuts, runFaults>>
    BY <1>14 DEF Skill!vars
  <2>2. SkillTypes' /\ RunsSound' /\ Fit(topics', writers')
    BY <2>1 DEF SkillIInv, SkillTypes, RunsSound
  <2>3. OrderSound'
    BY <2>1 DEF SkillIInv, OrderSound, InOrder
  <2> QED BY <2>2, <2>3 DEF SkillIInv
<1> QED BY <1>1, <1>2, <1>3, <1>4, <1>5, <1>6, <1>7, <1>8, <1>9, <1>10, <1>11, <1>12, <1>13, <1>14
        DEF Skill!Next

\* What a run that is done has made, from its places.
LEMMA DoneHas ==
  ASSUME Skill!SkillAssumption, SkillIInv, NEW r \in Skill!Runs, NEW d \in MergedBy(exec[r]),
         "stray" \notin runFaults, exec[r].verdict = "done",
         Skill!Tools(exec[r].input.skill) = Skill!Registry
  PROVE  /\ d.table \in Loggers /\ d.columns \in Columns /\ exec[r].at # "none"
         /\ topics[d.table] > 0 /\ Skill!Contains(subjects[d.table], d.columns)
         /\ iceberg[d.table] # NoThing /\ HasWriter(d.table, writers)
         /\ InOrder /\ LastOf(exec, r, d.table) =>
              \A tool \in Skill!Registry : Shows(tool, d, topics, protos, writers, bumped)
<1> DEFINE x == exec[r]
<1>1. SkillTypes /\ RunsSound /\ OrderSound /\ x \in ExecStates
  BY DEF SkillIInv, SkillTypes
<1>2. Verdict(x) /\ HasMade(x, runFaults, topics, subjects, iceberg, writers)
  BY <1>1 DEF RunsSound
<1>3. ~x.failed /\ LeftOf(x) = {} /\ x.at # "none"
  BY <1>2 DEF Verdict
<1>4. \A tool \in Skill!Registry : \E p \in Passed(x) : Skill!ToolAt(p) = tool /\ MergeOf(x, p) = d
  <2> SUFFICES ASSUME NEW tool \in Skill!Registry
               PROVE  \E p \in Passed(x) : Skill!ToolAt(p) = tool /\ MergeOf(x, p) = d
    OBVIOUS
  <2>1. \E k \in 1..5 : Skill!Book[k] = tool
    BY BookIs DEF Skill!Registry
  <2> QED BY <1>1, <1>3, <2>1, Covers
<1>5. \A tool \in Skill!Registry : Holds(tool, d, topics, subjects, iceberg, writers)
  BY <1>2, <1>3, <1>4 DEF HasMade
<1>6. d.table \in Loggers /\ d.columns \in Columns
  <2>1. d \in MergeStates
    BY <1>1, MergesAre DEF MergedBy
  <2> QED BY <2>1 DEF MergeStates
<1>7. topics[d.table] > 0 /\ Skill!Contains(subjects[d.table], d.columns)
      /\ iceberg[d.table] # NoThing /\ HasWriter(d.table, writers)
  BY <1>5 DEF Holds, Skill!Registry
<1>8. ASSUME InOrder, LastOf(exec, r, d.table), NEW tool \in Skill!Registry
      PROVE  Shows(tool, d, topics, protos, writers, bumped)
  <2>1. RunShows(exec, r, x, topics, protos, writers, bumped)
    BY <1>1, <1>8 DEF OrderSound
  <2>2. PICK p \in Passed(x) : Skill!ToolAt(p) = tool /\ MergeOf(x, p) = d
    BY <1>4, <1>8
  <2> QED BY <1>3, <1>8, <2>1, <2>2 DEF RunShows
<1> QED BY <1>3, <1>6, <1>7, <1>8

LEMMA SkillHolds ==
  ASSUME Skill!SkillAssumption, SkillIInv
  PROVE  SkillInv
<1>1. SkillTypes /\ RunsSound /\ OrderSound /\ Fit(topics, writers)
  BY DEF SkillIInv
<1>2. Skill!TypeOK
  <2>1. \A r \in Skill!Runs :
          /\ exec[r].at \in {"none", "agent", "apply", "wait", "ended"}
          /\ exec[r].verdict \in {"none", "done", "failed"} /\ exec[r].result \in {"none", "ok", "error"}
          /\ exec[r].turns \in 0..MaxAgentTurns /\ exec[r].counted \in 0..MaxPartitions
    BY <1>1 DEF SkillTypes, ExecStates
  <2>2. \A t \in Loggers : Skill!ToSet(subjects[t]) \subseteq Columns
    BY <1>1 DEF SkillTypes, Skill!ToSet
  <2> QED BY <1>1, <2>1, <2>2 DEF SkillTypes, Skill!TypeOK
<1>3. Skill!WritersFit
  BY <1>1 DEF Fit, Skill!WritersFit
<1>4. \A r \in Skill!Runs : Skill!Merged(r) = MergedBy(exec[r])
  <2> SUFFICES ASSUME NEW r \in Skill!Runs PROVE Skill!Merged(r) = MergedBy(exec[r])
    OBVIOUS
  <2> QED BY DEF Skill!Merged, Skill!Merges, Skill!ToSet, MergedBy
<1>5. Skill!DoneIsThere
  BY <1>4, DoneHas DEF Skill!DoneIsThere, HasWriter
<1>6. Skill!LastRunShows
  <2> SUFFICES ASSUME runFaults \cap {"overlap", "stray"} = {}, NEW r \in Skill!Runs, NEW t \in Loggers,
                      NEW d \in Skill!Merged(r), exec[r].verdict = "done",
                      Skill!Tools(exec[r].input.skill) = Skill!Registry,
                      d.table = t, Skill!IsLast(r, t)
               PROVE  /\ writers[SafeName[t]].replicas = topics[t] \/ t \in bumped
                      /\ (\A u \in Loggers : ProtoName[u] = ProtoName[t] => u = t)
                           => protos[ProtoName[t]] = Skill!Message(t, d.columns)
                      /\ (\A q \in 1..(r - 1) : \A e \in Skill!Merged(q) : e.table = t => e.columns # d.columns)
                           => Skill!Last(subjects[t]) = d.columns
    BY DEF Skill!LastRunShows
  <2>1. InOrder /\ "stray" \notin runFaults /\ d \in MergedBy(exec[r])
    BY <1>4 DEF InOrder
  <2>2. LastOf(exec, r, d.table)
    BY <1>4 DEF Skill!IsLast, LastOf
  <2>3. /\ exec[r].at # "none" /\ Skill!Contains(subjects[d.table], d.columns)
        /\ \A tool \in Skill!Registry : Shows(tool, d, topics, protos, writers, bumped)
    BY <2>1, <2>2, DoneHas
  <2>4. Shows("emit_logger_proto", d, topics, protos, writers, bumped)
        /\ Shows("start_logger_writer", d, topics, protos, writers, bumped)
    BY <2>3 DEF Skill!Registry
  <2>5. ASSUME \A q \in 1..(r - 1) : \A e \in Skill!Merged(q) : e.table = t => e.columns # d.columns
        PROVE  Skill!Last(subjects[t]) = d.columns
    <3>1. ~Earlier(exec, r, d)
      <4> SUFFICES ASSUME NEW q \in Skill!Runs, q < r, NEW e \in MergedBy(exec[q]),
                          e.table = d.table, e.columns = d.columns
                   PROVE  FALSE
        BY DEF Earlier
      <4>1. q \in 1..(r - 1)
        BY DEF Skill!Runs, Skill!SkillAssumption
      <4>2. e \in Skill!Merged(q)
        BY <1>4
      <4> QED BY <2>5, <4>1, <4>2
    <3>2. Ordered(exec, subjects)
      BY <1>1, <2>1 DEF OrderSound
    <3> QED BY <2>1, <2>2, <2>3, <3>1, <3>2 DEF Ordered
  <2>6. writers[SafeName[t]].replicas = topics[t] \/ t \in bumped
    BY <2>4 DEF Shows
  <2>7. OwnProto(t) => protos[ProtoName[t]] = Skill!Message(t, d.columns)
    BY <2>4 DEF Shows
  <2> QED BY <2>5, <2>6, <2>7 DEF OwnProto
<1> QED BY <1>2, <1>3, <1>5, <1>6 DEF SkillInv, Skill!SkillInv

\* The runs of the skill leave what they report: each writer fits its topic, a run
\* that is done has made everything for each of its tables, and when runs neither
\* overlap nor stray, file, writer and newest schema are those of the last one.
THEOREM SkillIsDone == Skill!Spec => []SkillInv
<1>1. Skill!Init => SkillIInv
  BY SkillAssumed, SkillInit
<1>2. SkillIInv /\ [Skill!Next]_(Skill!vars) => SkillIInv'
  BY SkillAssumed, SkillNext
<1>3. SkillIInv => SkillInv
  BY SkillAssumed, SkillHolds
<1> QED BY <1>1, <1>2, <1>3, PTL DEF Skill!Spec
-----------------------------------------------------------------------------
(***************************************************************************)
(* The canvas of the analyst.                                              *)
(***************************************************************************)
Texts == Queries \cup {Analyst!None, ""}

PanelNames == {"sql", "stats", "results", "error", "chart", "chart card", "result table", ""}

CanvasStates == [sql : Texts, columns : Seq(STRING), rows : Seq(Queries \X Nat),
                 status : {Analyst!None, "success", "error"}, truncated : BOOLEAN,
                 chart : SUBSET STRING, hidden : SUBSET PanelNames, of : Texts]

CanvasSpecs == [panels : SUBSET PanelNames, state : CanvasStates]

\* The rows a query has, and the first n of them.
ResultOf(q) == Analyst!AllRows(q)
FirstOf(q, n) == SubSeq(ResultOf(q), 1, n)

\* A state s that shows the result of a query, or none.
IsResult(s) ==
  s.status = "success" =>
    /\ s.of \in Queries /\ s.rows = Analyst!FirstRows(ResultOf(s.of))
    /\ s.truncated = (Sizes[s.of] > MaxRows)
    /\ s.columns = Heads[s.of] \/ s.rows = <<>>

StateSound(a, s) ==
  /\ s \in CanvasStates /\ IsResult(s)
  /\ s.status # "success" => s.rows = <<>> /\ s.columns = <<>>
  /\ a = "specs" => s.chart \subseteq Analyst!ToSet(s.columns)

SpecSound(a, spec) == spec = Analyst!Nothing \/ (spec \in CanvasSpecs /\ StateSound(a, spec.state))

\* A query that runs has read the first of its rows, and no more than are shown.
Reads(r) ==
  /\ r \in [phase : {"running"}, sql : Queries, columns : Seq(STRING), rows : Seq(Queries \X Nat),
            sent : Nat, truncated : BOOLEAN]
  /\ r.sent <= Sizes[r.sql] /\ r.sent <= MaxRows
  /\ r.rows = FirstOf(r.sql, r.sent)
  /\ r.columns = Heads[r.sql] \/ (r.columns = <<>> /\ r.rows = <<>>)

QuerySound == query # Analyst!Idle => held # Analyst!Off /\ Reads(query)

TabSound ==
  /\ tab \in [spec : CanvasSpecs \cup {Analyst!Nothing}, edited : BOOLEAN, page : Nat, cut : BOOLEAN]
  /\ SpecSound(agent, tab.spec)
  /\ tab.edited => "sql" \in tab.spec.panels
  /\ Analyst!PageHasRows

AnalystIInv ==
  /\ agent \in {"specs", "intents"}
  /\ SpecSound(agent, out) /\ (held = Analyst!Off \/ SpecSound(agent, held))
  /\ TabSound /\ QuerySound

-----------------------------------------------------------------------------
(* The rows of a query.                                                    *)
LEMMA MinIs ==
  ASSUME NEW a \in Int, NEW b \in Int
  PROVE  Analyst!Min({a, b}) = IF a <= b THEN a ELSE b
BY DEF Analyst!Min

LEMMA FirstsAre ==
  ASSUME NEW S, NEW s \in Seq(S), NEW k \in Nat, k <= Len(s)
  PROVE  /\ SubSeq(s, 1, k) \in Seq(S) /\ Len(SubSeq(s, 1, k)) = k
         /\ \A i \in 1..k : SubSeq(s, 1, k)[i] = s[i]
<1>1. \A i \in 1..k : s[i] \in S
  OBVIOUS
<1>2. 1 \in Int /\ k \in Int
  OBVIOUS
<1>3. /\ SubSeq(s, 1, k) \in Seq(S)
      /\ Len(SubSeq(s, 1, k)) = (IF 1 <= k THEN k - 1 + 1 ELSE 0)
      /\ \A i \in 1..(k - 1 + 1) : SubSeq(s, 1, k)[i] = s[1 + i - 1]
  BY <1>1, <1>2, SubSeqProperties
<1>4. k - 1 + 1 = k /\ \A i \in 1..k : 1 + i - 1 = i
  OBVIOUS
<1>5. \A i \in 1..k : SubSeq(s, 1, k)[i] = s[i]
  BY <1>3, <1>4
<1>6. Len(SubSeq(s, 1, k)) = k
  BY <1>3, <1>4
<1> QED BY <1>3, <1>5, <1>6

LEMMA FirstOfFirsts ==
  ASSUME NEW S, NEW s \in Seq(S), NEW j \in Nat, j <= Len(s), NEW k \in Nat, k <= j
  PROVE  SubSeq(SubSeq(s, 1, j), 1, k) = SubSeq(s, 1, k)
<1> DEFINE got == SubSeq(s, 1, j)
<1>1. got \in Seq(S) /\ Len(got) = j /\ \A i \in 1..j : got[i] = s[i]
  BY FirstsAre
<1> HIDE DEF got
<1>2. SubSeq(got, 1, k) \in Seq(S) /\ Len(SubSeq(got, 1, k)) = k /\ \A i \in 1..k : SubSeq(got, 1, k)[i] = got[i]
  BY <1>1, FirstsAre
<1>3. k <= Len(s)
  OBVIOUS
<1>4. SubSeq(s, 1, k) \in Seq(S) /\ Len(SubSeq(s, 1, k)) = k /\ \A i \in 1..k : SubSeq(s, 1, k)[i] = s[i]
  BY <1>3, FirstsAre
<1>5. \A i \in 1..k : SubSeq(got, 1, k)[i] = SubSeq(s, 1, k)[i]
  BY <1>1, <1>2, <1>4
<1>6. SubSeq(got, 1, k) = SubSeq(s, 1, k)
  BY <1>2, <1>4, <1>5, SeqEqual
<1> QED BY <1>6 DEF got

LEMMA FirstRowsIs ==
  ASSUME Analyst!AnalystAssumption, NEW S, NEW s \in Seq(S)
  PROVE  /\ Analyst!FirstRows(s) = SubSeq(s, 1, IF Len(s) <= MaxRows THEN Len(s) ELSE MaxRows)
         /\ Analyst!FirstRows(s) \in Seq(S)
<1>1. Len(s) \in Nat /\ MaxRows \in Nat
  BY DEF Analyst!AnalystAssumption
<1>2. Analyst!Min({Len(s), MaxRows}) = IF Len(s) <= MaxRows THEN Len(s) ELSE MaxRows
  BY <1>1, MinIs
<1> DEFINE k == IF Len(s) <= MaxRows THEN Len(s) ELSE MaxRows
<1>3. k \in Nat /\ k <= Len(s)
  BY <1>1
<1>4. Analyst!FirstRows(s) = SubSeq(s, 1, k)
  BY <1>2 DEF Analyst!FirstRows
<1> HIDE DEF k
<1>5. SubSeq(s, 1, k) \in Seq(S)
  BY <1>3, FirstsAre
<1> QED BY <1>4, <1>5 DEF k

LEMMA ResultIs ==
  ASSUME Analyst!AnalystAssumption, NEW q \in Queries
  PROVE  /\ ResultOf(q) \in Seq(Queries \X Nat) /\ Len(ResultOf(q)) = Sizes[q] /\ Sizes[q] \in Nat
<1>1. Sizes[q] \in Nat
  BY DEF Analyst!AnalystAssumption
<1>2. \A i \in 1..Sizes[q] : <<q, i>> \in Queries \X Nat
  BY <1>1
<1> QED BY <1>1, <1>2 DEF ResultOf, Analyst!AllRows

\* c is what is collected of q after its first m rows and a page of n more.
PageOf(c, q, m, n) ==
  /\ c.truncated = (m + n > MaxRows) /\ c.truncated \in BOOLEAN
  /\ c.rows \in Seq(Queries \X Nat)
  /\ m + n <= MaxRows => c.rows = FirstOf(q, m + n)
  /\ m + n = Sizes[q] \/ c.truncated =>
       c.rows = Analyst!FirstRows(ResultOf(q)) /\ c.truncated = (Sizes[q] > MaxRows)

\* Of the page those rows are kept that are among the first MaxRows.
LEMMA PageIs ==
  ASSUME Analyst!AnalystAssumption, NEW q \in Queries, NEW m \in Nat, NEW n \in Nat,
         m + n <= Sizes[q], m <= MaxRows,
         NEW c, c = Analyst!Collected(FirstOf(q, m), SubSeq(ResultOf(q), m + 1, m + n))
  PROVE  PageOf(c, q, m, n)
<1> DEFINE all == ResultOf(q)
           got == SubSeq(all, 1, m + n)
           k == IF m + n <= MaxRows THEN m + n ELSE MaxRows
<1>1. all \in Seq(Queries \X Nat) /\ Len(all) = Sizes[q] /\ Sizes[q] \in Nat /\ MaxRows \in Nat
  BY ResultIs DEF Analyst!AnalystAssumption
<1>2. FirstOf(q, m) \o SubSeq(all, m + 1, m + n) = got
  <2> HIDE DEF all
  <2>1. SubSeq(all, 1, m) \o SubSeq(all, m + 1, m + n) = SubSeq(all, 1, m + n)
    <3> DEFINE j == m + n
    <3>1. 1 \in 1..(Len(all) + 1) /\ m \in (1 - 1)..Len(all) /\ j \in m..Len(all)
      BY <1>1
    <3> HIDE DEF j
    <3>2. all \in Seq(Queries \X Nat)
      BY <1>1
    <3>3. SubSeq(all, 1, m) \o SubSeq(all, m + 1, j) = SubSeq(all, 1, j)
      BY ONLY <3>1, <3>2, ConcatAdjacentSubSeq
    <3> QED BY <3>3 DEF j
  <2> QED BY <2>1 DEF FirstOf, all
<1>3. c.truncated = (Len(got) > MaxRows) /\ c.rows = Analyst!FirstRows(got)
  BY <1>2 DEF Analyst!Collected
<1> HIDE DEF all
<1>4. got \in Seq(Queries \X Nat) /\ Len(got) = m + n
  BY <1>1, FirstsAre
<1> HIDE DEF got
<1>5. Analyst!FirstRows(got) = SubSeq(got, 1, k) /\ Analyst!FirstRows(got) \in Seq(Queries \X Nat)
  BY <1>4, FirstRowsIs
<1>6. k \in Nat /\ k <= m + n /\ k <= Len(all)
  BY <1>1
<1>7. SubSeq(got, 1, k) = SubSeq(all, 1, k)
  <2> HIDE DEF k
  <2> QED BY <1>1, <1>6, FirstOfFirsts DEF got
<1>8. c.truncated = (m + n > MaxRows)
  BY <1>3, <1>4
<1>9. m + n <= MaxRows => c.rows = FirstOf(q, m + n)
  BY <1>3, <1>5, <1>7 DEF FirstOf, all
<1>10. ASSUME m + n = Sizes[q] \/ c.truncated
       PROVE  c.rows = Analyst!FirstRows(all) /\ c.truncated = (Sizes[q] > MaxRows)
  <2>1. m + n = Sizes[q] \/ m + n > MaxRows
    BY <1>8, <1>10
  <2>2. k = IF Len(all) <= MaxRows THEN Len(all) ELSE MaxRows
    BY <1>1, <2>1
  <2>3. Analyst!FirstRows(all) = SubSeq(all, 1, k)
    <3> HIDE DEF k
    <3> QED BY <1>1, <2>2, FirstRowsIs
  <2>4. (m + n > MaxRows) = (Sizes[q] > MaxRows)
    BY <1>1, <2>1
  <2>5. c.rows = SubSeq(all, 1, k)
    BY <1>3, <1>5, <1>7
  <2> QED BY <1>8, <2>3, <2>4, <2>5
<1>11. c.rows \in Seq(Queries \X Nat)
  BY <1>3, <1>5
<1>12. c.truncated \in BOOLEAN
  <2>1. (m + n > MaxRows) \in BOOLEAN
    OBVIOUS
  <2> QED BY <1>8, <2>1, Zenon
<1>13. m + n = Sizes[q] \/ c.truncated =>
         c.rows = Analyst!FirstRows(ResultOf(q)) /\ c.truncated = (Sizes[q] > MaxRows)
  BY <1>10, Zenon DEF all
<1> QED BY <1>8, <1>9, <1>11, <1>12, <1>13, Zenon DEF PageOf

LEMMA AllIs ==
  ASSUME Analyst!AnalystAssumption, NEW q \in Queries, NEW c, c = Analyst!Collected(<<>>, ResultOf(q))
  PROVE  c.rows = Analyst!FirstRows(ResultOf(q)) /\ c.truncated = (Sizes[q] > MaxRows)
         /\ c.rows \in Seq(Queries \X Nat) /\ c.truncated \in BOOLEAN
         /\ (ResultOf(q) = <<>> => c.rows = <<>>)
<1> DEFINE all == ResultOf(q)
<1>1. all \in Seq(Queries \X Nat) /\ Len(all) = Sizes[q] /\ Sizes[q] \in Nat
  BY ResultIs
<1>2. <<>> \o all = all
  <2> HIDE DEF all
  <2> QED BY <1>1, ConcatEmptySeq
<1>3. c.rows = Analyst!FirstRows(all) /\ c.truncated = (Len(all) > MaxRows)
  BY <1>2 DEF Analyst!Collected
<1> HIDE DEF all
<1>4. Analyst!FirstRows(all) \in Seq(Queries \X Nat)
  BY <1>1, FirstRowsIs
<1>5. all = <<>> => Analyst!FirstRows(all) = <<>>
  <2>1. SUFFICES ASSUME all = <<>> PROVE Analyst!FirstRows(all) = <<>>
    OBVIOUS
  <2>2. Len(all) = 0 /\ MaxRows \in Nat
    BY <2>1 DEF Analyst!AnalystAssumption
  <2>3. Analyst!FirstRows(all) = SubSeq(all, 1, 0)
    <3>1. Analyst!FirstRows(all) = SubSeq(all, 1, IF Len(all) <= MaxRows THEN Len(all) ELSE MaxRows)
      BY <1>1, FirstRowsIs
    <3>2. (IF Len(all) <= MaxRows THEN Len(all) ELSE MaxRows) = 0
      BY <2>2
    <3> QED BY <3>1, <3>2, Zenon
  <2>4. SubSeq(all, 1, 0) = <<>>
    BY SubSeqEmpty
  <2> QED BY <2>3, <2>4
<1>6. c.truncated = (Sizes[q] > MaxRows) /\ c.truncated \in BOOLEAN
  <2>1. (Sizes[q] > MaxRows) \in BOOLEAN /\ Len(all) = Sizes[q]
    BY <1>1
  <2> QED BY <1>3, <2>1, Zenon
<1> QED BY <1>1, <1>3, <1>4, <1>5, <1>6 DEF all

-----------------------------------------------------------------------------
(* The states of the canvas, and the specs made of them.                   *)
LEMMA KindsDiffer ==
  /\ Analyst!Nothing # Analyst!Off /\ Analyst!Nothing \notin CanvasSpecs /\ Analyst!Off \notin CanvasSpecs
BY DEF Analyst!Nothing, Analyst!Off, CanvasSpecs

LEMMA NoColumns == Analyst!ToSet(<<>>) = {}
BY DEF Analyst!ToSet

LEMMA NoStateSound ==
  ASSUME NEW a
  PROVE  StateSound(a, Analyst!NoState)
<1>1. Analyst!NoState \in CanvasStates
  BY DEF Analyst!NoState, CanvasStates, Texts, Analyst!None
<1> QED BY <1>1 DEF StateSound, IsResult, Analyst!NoState, Analyst!None

\* New SQL in a state, as a tool or the user writes it.
LEMMA SqlKeepsSound ==
  ASSUME NEW a, NEW s, StateSound(a, s), NEW t \in Texts
  PROVE  StateSound(a, [s EXCEPT !.sql = t])
BY DEF StateSound, IsResult, CanvasStates

LEMMA ClearedSound ==
  ASSUME NEW a, NEW s, StateSound(a, s), NEW t \in Texts
  PROVE  StateSound(a, Analyst!Cleared(s, t)) /\ Analyst!Cleared(s, t).status = Analyst!None
<1>1. Analyst!NoState \in CanvasStates /\ Analyst!NoState.status = Analyst!None
  BY NoStateSound DEF StateSound, Analyst!NoState
<1>2. s.hidden \in SUBSET PanelNames
  BY DEF StateSound, CanvasStates
<1> DEFINE c == Analyst!Cleared(s, t)
<1>3. c = [Analyst!NoState EXCEPT !.sql = t, !.hidden = s.hidden]
  BY DEF Analyst!Cleared
<1> HIDE DEF c
<1>4. c \in CanvasStates /\ c.status = Analyst!None /\ c.rows = <<>> /\ c.columns = <<>> /\ c.chart = {}
  BY <1>1, <1>2, <1>3 DEF CanvasStates, Analyst!NoState
<1> QED BY <1>4 DEF StateSound, IsResult, Analyst!None, c

LEMMA ErrorSound ==
  ASSUME NEW a, NEW s, StateSound(a, s), NEW q \in Queries
  PROVE  StateSound(a, Analyst!WithError(s, q))
<1> DEFINE c == Analyst!Cleared(s, q)
           e == Analyst!WithError(s, q)
<1>1. q \in Texts
  BY DEF Texts
<1>2. StateSound(a, c) /\ c.status = Analyst!None
  BY <1>1, ClearedSound
<1>3. e = [c EXCEPT !.status = "error", !.of = q]
  BY DEF Analyst!WithError
<1> HIDE DEF c, e
<1>4. /\ e \in CanvasStates /\ e.status = "error"
      /\ e.rows = c.rows /\ e.columns = c.columns /\ e.chart = c.chart
  BY <1>1, <1>2, <1>3 DEF StateSound, CanvasStates
<1>5. StateSound(a, e)
  BY <1>2, <1>4 DEF StateSound, IsResult, Analyst!None
<1> QED BY <1>5 DEF e

LEMMA ResultsSound ==
  ASSUME NEW a, NEW s, StateSound(a, s), NEW q \in Queries, NEW columns \in Seq(STRING),
         NEW rs \in Seq(Queries \X Nat), rs = Analyst!FirstRows(ResultOf(q)),
         NEW truncated \in BOOLEAN, truncated = (Sizes[q] > MaxRows),
         columns = Heads[q] \/ rs = <<>>
  PROVE  StateSound(a, Analyst!WithResults(s, q, columns, rs, truncated))
<1> DEFINE r == Analyst!WithResults(s, q, columns, rs, truncated)
           chart == IF s.chart \subseteq Analyst!ToSet(columns) THEN s.chart ELSE {}
<1>1. q \in Texts
  BY DEF Texts
<1>2. s \in CanvasStates
  BY DEF StateSound
<1>3. r = [s EXCEPT !.sql = q, !.of = q, !.columns = columns, !.rows = rs, !.status = "success",
                    !.truncated = truncated, !.chart = chart]
  BY DEF Analyst!WithResults
<1>4. chart \in SUBSET STRING /\ chart \subseteq Analyst!ToSet(columns)
  BY <1>2 DEF CanvasStates
<1> HIDE DEF r, chart
<1>5. /\ r \in CanvasStates /\ r.status = "success" /\ r.of = q /\ r.rows = rs
      /\ r.columns = columns /\ r.truncated = truncated /\ r.chart = chart
  BY <1>1, <1>2, <1>3, <1>4 DEF CanvasStates
<1>6. IsResult(r)
  BY <1>5 DEF IsResult
<1>7. StateSound(a, r)
  BY <1>4, <1>5, <1>6 DEF StateSound
<1> QED BY <1>7 DEF r

LEMMA ChartKeepsSound ==
  ASSUME NEW a, NEW s, StateSound(a, s), NEW columns \in SUBSET STRING,
         a = "specs" => columns \subseteq Analyst!ToSet(s.columns)
  PROVE  StateSound(a, [s EXCEPT !.chart = columns])
BY DEF StateSound, IsResult, CanvasStates

LEMMA HiddenKeepsSound ==
  ASSUME NEW a, NEW s, StateSound(a, s), NEW h \in SUBSET PanelNames
  PROVE  StateSound(a, [s EXCEPT !.hidden = h])
BY DEF StateSound, IsResult, CanvasStates

LEMMA BuildSound ==
  ASSUME NEW a, NEW s, StateSound(a, s)
  PROVE  Analyst!Build(s) \in CanvasSpecs /\ SpecSound(a, Analyst!Build(s))
<1> DEFINE t == IF s.sql = Analyst!None THEN "" ELSE s.sql
           ps == IF s.sql = Analyst!None THEN Analyst!Panels(s) \ {"sql"} ELSE Analyst!Panels(s)
           st == [s EXCEPT !.sql = t]
<1>1. s \in CanvasStates
  BY DEF StateSound
<1>2. t \in Texts
  BY <1>1 DEF Texts, CanvasStates
<1>3. StateSound(a, st)
  <2> HIDE DEF t
  <2> QED BY <1>2, SqlKeepsSound
<1>4. ps \in SUBSET PanelNames
  <2>1. Analyst!Panels(s) \in SUBSET PanelNames
    BY DEF Analyst!Panels, PanelNames
  <2> QED BY <2>1
<1>5. Analyst!Build(s) = [panels |-> ps, state |-> st]
  BY <1>1 DEF Analyst!Build, CanvasStates
<1> HIDE DEF ps, st
<1>6. st \in CanvasStates
  BY <1>3 DEF StateSound
<1>7. Analyst!Build(s) \in CanvasSpecs /\ Analyst!Build(s).state = st
  BY <1>4, <1>5, <1>6 DEF CanvasSpecs
<1> QED BY <1>3, <1>7 DEF SpecSound

LEMMA SurfaceSound ==
  ASSUME NEW a, NEW s, StateSound(a, s), NEW panel \in PanelNames
  PROVE  Analyst!Surface(panel, s) \in CanvasSpecs /\ SpecSound(a, Analyst!Surface(panel, s))
<1>1. s \in CanvasStates
  BY DEF StateSound
<1>2. Analyst!Surface(panel, s) \in CanvasSpecs /\ Analyst!Surface(panel, s).state = s
  BY <1>1 DEF Analyst!Surface, CanvasSpecs
<1> QED BY <1>2 DEF SpecSound

\* What a tool goes on from.
LEMMA CurrentSound ==
  ASSUME AnalystIInv, held # Analyst!Off
  PROVE  StateSound(agent, Analyst!Current)
<1>1. SpecSound(agent, held)
  BY DEF AnalystIInv
<1>2. CASE held = Analyst!Nothing \/ agent # "specs"
  <2>1. Analyst!Current = Analyst!NoState
    BY <1>2 DEF Analyst!Current, Analyst!Extract
  <2> QED BY <2>1, NoStateSound
<1>3. CASE held # Analyst!Nothing /\ agent = "specs"
  <2>1. Analyst!Current = held.state
    BY <1>3 DEF Analyst!Current, Analyst!Extract
  <2> QED BY <1>1, <1>3, <2>1 DEF SpecSound
<1> QED BY <1>2, <1>3

\* The answer of a tool.
LEMMA ReturnSound ==
  ASSUME AnalystIInv, held # Analyst!Off, NEW s, StateSound(agent, s), NEW panel \in PanelNames,
         Analyst!Return(s, panel)
  PROVE  SpecSound(agent, out') /\ held' # Analyst!Off /\ SpecSound(agent, held')
<1>1. CASE agent = "specs"
  <2>1. held' = Analyst!Build(s) /\ out' = Analyst!Build(s)
    BY <1>1 DEF Analyst!Return
  <2> QED BY <2>1, BuildSound, KindsDiffer
<1>2. CASE agent # "specs"
  <2>1. held' = held /\ out' = Analyst!Surface(panel, s)
    BY <1>2 DEF Analyst!Return
  <2> QED BY <2>1, SurfaceSound DEF AnalystIInv
<1> QED BY <1>1, <1>2

-----------------------------------------------------------------------------
(* What the tools keep.                                                    *)
ToolKeeps ==
  /\ SpecSound(agent', out') /\ held' # Analyst!Off /\ SpecSound(agent', held')
  /\ agent' = agent /\ tab' = tab

LEMMA TabStays ==
  ASSUME TabSound, tab' = tab, agent' = agent
  PROVE  TabSound'
BY DEF TabSound, Analyst!PageHasRows, Analyst!TotalPages

LEMMA ToolKeepsInv ==
  ASSUME AnalystIInv, ToolKeeps, query' = Analyst!Idle \/ QuerySound'
  PROVE  AnalystIInv'
<1>1. TabSound'
  BY TabStays DEF ToolKeeps, AnalystIInv
<1>2. QuerySound'
  BY DEF QuerySound
<1> QED BY <1>1, <1>2 DEF AnalystIInv, ToolKeeps

LEMMA CallStarts ==
  ASSUME Analyst!Call
  PROVE  held # Analyst!Off /\ query = Analyst!Idle
BY DEF Analyst!Call

LEMMA AskKeepsCanvas ==
  ASSUME AnalystIInv, Analyst!Ask
  PROVE  AnalystIInv'
<1>1. /\ held = Analyst!Off /\ held' = tab.spec
      /\ agent' = agent /\ tab' = tab /\ query' = query /\ out' = out
  BY DEF Analyst!Ask
<1>2. query' = Analyst!Idle
  BY <1>1 DEF AnalystIInv, QuerySound
<1>3. TabSound'
  BY <1>1, TabStays DEF AnalystIInv
<1>4. SpecSound(agent', held')
  BY <1>1 DEF AnalystIInv, TabSound
<1>5. QuerySound'
  BY <1>2 DEF QuerySound
<1> QED BY <1>1, <1>3, <1>4, <1>5 DEF AnalystIInv

LEMMA AnswerKeepsCanvas ==
  ASSUME AnalystIInv, Analyst!Answer
  PROVE  AnalystIInv'
<1>1. /\ held' = Analyst!Off /\ query = Analyst!Idle
      /\ agent' = agent /\ tab' = tab /\ query' = query /\ out' = out
  BY DEF Analyst!Answer
<1>2. TabSound'
  BY <1>1, TabStays DEF AnalystIInv
<1>3. QuerySound'
  BY <1>1 DEF QuerySound
<1> QED BY <1>1, <1>2, <1>3 DEF AnalystIInv

LEMMA EditorKeepsCanvas ==
  ASSUME AnalystIInv, NEW q \in Queries, Analyst!RenderSqlEditor(q)
  PROVE  AnalystIInv'
<1>1. /\ Analyst!Call /\ Analyst!Return(Analyst!Cleared(Analyst!Current, q), "sql")
      /\ agent' = agent /\ tab' = tab /\ query' = query
  BY DEF Analyst!RenderSqlEditor
<1>2. held # Analyst!Off /\ query = Analyst!Idle
  BY <1>1, CallStarts
<1>3. StateSound(agent, Analyst!Cleared(Analyst!Current, q))
  BY <1>2, CurrentSound, ClearedSound DEF Texts
<1>4. ToolKeeps
  BY <1>1, <1>2, <1>3, ReturnSound DEF ToolKeeps, PanelNames
<1> QED BY <1>1, <1>2, <1>4, ToolKeepsInv

LEMMA ChartKeepsCanvas ==
  ASSUME Analyst!AnalystAssumption, AnalystIInv, NEW c \in ChartColumns, Analyst!RenderChart(c)
  PROVE  AnalystIInv'
<1>1. /\ Analyst!Call
      /\ IF agent = "specs" /\ ~(c \subseteq Analyst!ToSet(Analyst!Current.columns)) THEN UNCHANGED <<held, out>>
         ELSE Analyst!Return([Analyst!Current EXCEPT !.chart = c], "chart card")
      /\ agent' = agent /\ tab' = tab /\ query' = query
  BY DEF Analyst!RenderChart
<1>2. held # Analyst!Off /\ query = Analyst!Idle
  BY <1>1, CallStarts
<1>3. c \in SUBSET STRING
  BY DEF Analyst!AnalystAssumption
<1>4. ToolKeeps
  <2>1. CASE agent = "specs" /\ ~(c \subseteq Analyst!ToSet(Analyst!Current.columns))
    BY <1>1, <1>2, <2>1 DEF ToolKeeps, AnalystIInv
  <2>2. CASE agent = "specs" => c \subseteq Analyst!ToSet(Analyst!Current.columns)
    <3>1. StateSound(agent, [Analyst!Current EXCEPT !.chart = c])
      BY <1>2, <1>3, <2>2, CurrentSound, ChartKeepsSound
    <3>2. Analyst!Return([Analyst!Current EXCEPT !.chart = c], "chart card")
      BY <1>1, <2>2
    <3> QED BY <1>1, <1>2, <3>1, <3>2, ReturnSound DEF ToolKeeps, PanelNames
  <2> QED BY <2>1, <2>2
<1> QED BY <1>1, <1>2, <1>4, ToolKeepsInv

LEMMA LayoutKeepsCanvas ==
  ASSUME AnalystIInv, NEW h \in SUBSET PanelNames, Analyst!UpdateLayout(h)
  PROVE  AnalystIInv'
<1>1. /\ Analyst!Call /\ Analyst!Return([Analyst!Current EXCEPT !.hidden = h], "")
      /\ agent' = agent /\ tab' = tab /\ query' = query
  BY DEF Analyst!UpdateLayout
<1>2. held # Analyst!Off /\ query = Analyst!Idle
  BY <1>1, CallStarts
<1>3. StateSound(agent, [Analyst!Current EXCEPT !.hidden = h])
  BY <1>2, CurrentSound, HiddenKeepsSound
<1>4. ToolKeeps
  BY <1>1, <1>2, <1>3, ReturnSound DEF ToolKeeps, PanelNames
<1> QED BY <1>1, <1>2, <1>4, ToolKeepsInv

LEMMA RunQueryKeepsCanvas ==
  ASSUME Analyst!AnalystAssumption, AnalystIInv, NEW q \in Texts, Analyst!RunQuery(q)
  PROVE  AnalystIInv'
<1>1. /\ Analyst!Call /\ q # Analyst!None /\ q # ""
      /\ query' = [phase |-> "running", sql |-> q, columns |-> <<>>, rows |-> <<>>, sent |-> 0, truncated |-> FALSE]
      /\ agent' = agent /\ tab' = tab /\ held' = held /\ out' = out
  BY DEF Analyst!RunQuery
<1>2. held # Analyst!Off /\ query = Analyst!Idle
  BY <1>1, CallStarts
<1>3. q \in Queries
  BY <1>1 DEF Texts
<1>4. Sizes[q] \in Nat /\ MaxRows \in Nat
  BY <1>3 DEF Analyst!AnalystAssumption
<1>5. FirstOf(q, 0) = <<>>
  BY SubSeqEmpty DEF FirstOf
<1> DEFINE r == [phase |-> "running", sql |-> q, columns |-> <<>>, rows |-> <<>>, sent |-> 0, truncated |-> FALSE]
<1>6. r \in [phase : {"running"}, sql : Queries, columns : Seq(STRING), rows : Seq(Queries \X Nat),
             sent : Nat, truncated : BOOLEAN]
  <2>1. <<>> \in Seq(STRING) /\ <<>> \in Seq(Queries \X Nat) /\ 0 \in Nat
    OBVIOUS
  <2> QED BY <1>3, <2>1
<1>7. r.sql = q /\ r.sent = 0 /\ r.rows = <<>> /\ r.columns = <<>>
  OBVIOUS
<1> HIDE DEF r
<1>8. Reads(r)
  BY <1>4, <1>5, <1>6, <1>7 DEF Reads
<1>9. QuerySound'
  <2>1. query' = r /\ held' # Analyst!Off
    BY <1>1, <1>2 DEF r
  <2> QED BY <1>8, <2>1 DEF QuerySound
<1>10. ToolKeeps
  BY <1>1, <1>2 DEF ToolKeeps, AnalystIInv
<1> QED BY <1>9, <1>10, ToolKeepsInv

-----------------------------------------------------------------------------
(* What a query brings.                                                    *)
LEMMA QueryRuns ==
  ASSUME AnalystIInv, query.phase = "running"
  PROVE  held # Analyst!Off /\ Reads(query) /\ query.sql \in Queries
<1>1. query # Analyst!Idle
  BY DEF Analyst!Idle
<1>2. held # Analyst!Off /\ Reads(query)
  BY <1>1 DEF AnalystIInv, QuerySound
<1> QED BY <1>2 DEF Reads

LEMMA FailureKeepsCanvas ==
  ASSUME AnalystIInv, Analyst!QueryFails
  PROVE  AnalystIInv'
<1>1. query.phase = "running" /\ Analyst!Fails /\ agent' = agent /\ tab' = tab
  BY DEF Analyst!QueryFails
<1>2. held # Analyst!Off /\ query.sql \in Queries
  BY <1>1, QueryRuns
<1>3. query' = Analyst!Idle
  BY <1>1 DEF Analyst!Fails
<1>4. ToolKeeps
  <2>1. CASE agent = "specs"
    <3>1. Analyst!Return(Analyst!WithError(Analyst!Current, query.sql), "")
      BY <1>1, <2>1 DEF Analyst!Fails
    <3>2. StateSound(agent, Analyst!WithError(Analyst!Current, query.sql))
      BY <1>2, CurrentSound, ErrorSound
    <3> QED BY <1>1, <1>2, <3>1, <3>2, ReturnSound DEF ToolKeeps, PanelNames
  <2>2. CASE agent # "specs"
    <3>1. held' = held /\ out' = out
      BY <1>1, <2>2 DEF Analyst!Fails
    <3> QED BY <1>1, <1>2, <3>1 DEF ToolKeeps, AnalystIInv
  <2> QED BY <2>1, <2>2
<1> QED BY <1>3, <1>4, ToolKeepsInv

LEMMA SuccessKeepsCanvas ==
  ASSUME AnalystIInv, query.phase = "running", NEW columns \in Seq(STRING),
         NEW rs \in Seq(Queries \X Nat), rs = Analyst!FirstRows(ResultOf(query.sql)),
         NEW truncated \in BOOLEAN, truncated = (Sizes[query.sql] > MaxRows),
         columns = Heads[query.sql] \/ rs = <<>>,
         Analyst!Succeeds(columns, rs, truncated), agent' = agent, tab' = tab
  PROVE  AnalystIInv'
<1>1. held # Analyst!Off /\ query.sql \in Queries
  BY QueryRuns
<1>2. /\ Analyst!Return(Analyst!WithResults(Analyst!Current, query.sql, columns, rs, truncated), "result table")
      /\ query' = Analyst!Idle
  BY DEF Analyst!Succeeds
<1>3. StateSound(agent, Analyst!WithResults(Analyst!Current, query.sql, columns, rs, truncated))
  BY <1>1, CurrentSound, ResultsSound
<1>4. ToolKeeps
  BY <1>1, <1>2, <1>3, ReturnSound DEF ToolKeeps, PanelNames
<1> QED BY <1>2, <1>4, ToolKeepsInv

LEMMA HeadIs ==
  ASSUME Analyst!AnalystAssumption, NEW q \in Queries
  PROVE  Heads[q] \in Seq(STRING) /\ <<>> \in Seq(STRING)
BY DEF Analyst!AnalystAssumption

LEMMA DuckDbKeepsCanvas ==
  ASSUME Analyst!AnalystAssumption, AnalystIInv, Analyst!DuckDbRows
  PROVE  AnalystIInv'
<1> DEFINE q == query.sql
           c == Analyst!Collected(<<>>, ResultOf(q))
           columns == IF ResultOf(q) = <<>> THEN <<>> ELSE Heads[q]
<1>1. /\ query.phase = "running" /\ Analyst!Succeeds(columns, c.rows, c.truncated)
      /\ agent' = agent /\ tab' = tab
  BY DEF Analyst!DuckDbRows, ResultOf
<1>2. q \in Queries
  BY <1>1, QueryRuns
<1> HIDE DEF c
<1>3. /\ c.rows = Analyst!FirstRows(ResultOf(q)) /\ c.truncated = (Sizes[q] > MaxRows)
      /\ c.rows \in Seq(Queries \X Nat) /\ c.truncated \in BOOLEAN
      /\ (ResultOf(q) = <<>> => c.rows = <<>>)
  BY <1>2, AllIs DEF c
<1>4. columns \in Seq(STRING) /\ (columns = Heads[q] \/ c.rows = <<>>)
  BY <1>2, <1>3, HeadIs
<1> HIDE DEF columns
<1> QED BY <1>1, <1>3, <1>4, SuccessKeepsCanvas

LEMMA TrinoKeepsCanvas ==
  ASSUME Analyst!AnalystAssumption, AnalystIInv, NEW n \in Nat, NEW last \in BOOLEAN, Analyst!TrinoPage(n, last)
  PROVE  AnalystIInv'
<1> DEFINE q == query.sql
           m == query.sent
           named == n > 0 \/ last \/ query.columns # <<>>
           columns == IF named THEN Heads[q] ELSE <<>>
           c == Analyst!Collected(query.rows, SubSeq(ResultOf(q), m + 1, m + n))
           more == [query EXCEPT !.columns = columns, !.rows = c.rows, !.sent = m + n]
<1>1. /\ query.phase = "running" /\ m + n <= Sizes[q] /\ (last => m + n = Sizes[q])
      /\ IF last \/ c.truncated THEN Analyst!Succeeds(columns, c.rows, c.truncated)
         ELSE query' = more /\ held' = held /\ out' = out
      /\ agent' = agent /\ tab' = tab
  BY DEF Analyst!TrinoPage, ResultOf
<1>2. held # Analyst!Off /\ Reads(query) /\ q \in Queries
  BY <1>1, QueryRuns
<1>3. /\ m \in Nat /\ m <= MaxRows /\ query.rows = FirstOf(q, m)
      /\ query.columns = Heads[q] \/ (query.columns = <<>> /\ query.rows = <<>>)
  BY <1>2 DEF Reads
<1>4. MaxRows \in Nat
  BY DEF Analyst!AnalystAssumption
<1> HIDE DEF c, more
<1>5. c = Analyst!Collected(FirstOf(q, m), SubSeq(ResultOf(q), m + 1, m + n))
  BY <1>3 DEF c
<1> HIDE DEF q, m
<1>6. /\ c.truncated = (m + n > MaxRows) /\ c.truncated \in BOOLEAN
      /\ c.rows \in Seq(Queries \X Nat)
      /\ m + n <= MaxRows => c.rows = FirstOf(q, m + n)
      /\ m + n = Sizes[q] \/ c.truncated =>
           c.rows = Analyst!FirstRows(ResultOf(q)) /\ c.truncated = (Sizes[q] > MaxRows)
  <2>1. PageOf(c, q, m, n)
    <3>1. q \in Queries /\ m \in Nat /\ m <= MaxRows /\ m + n <= Sizes[q]
      BY <1>1, <1>2, <1>3
    <3> QED BY ONLY Analyst!AnalystAssumption, n \in Nat, <1>5, <3>1, PageIs
  <2> QED BY <2>1 DEF PageOf
<1>7. columns \in Seq(STRING)
  BY <1>2, HeadIs
<1>8. CASE last \/ c.truncated
  <2>1. Analyst!Succeeds(columns, c.rows, c.truncated)
    BY <1>1, <1>8
  <2>2. m + n = Sizes[q] \/ c.truncated
    BY <1>1, <1>8
  <2>3. c.rows = Analyst!FirstRows(ResultOf(q)) /\ c.truncated = (Sizes[q] > MaxRows)
    BY <1>6, <2>2
  <2>4. c.truncated => n > 0
    <3>1. c.truncated => m + n > MaxRows
      BY <1>6, Zenon
    <3> QED BY <1>3, <1>4, <3>1
  <2>5. columns = Heads[q]
    BY <1>8, <2>4
  <2> HIDE DEF columns
  <2> QED BY <1>1, <1>6, <1>7, <2>1, <2>3, <2>5, SuccessKeepsCanvas DEF q
<1>9. CASE ~last /\ ~c.truncated
  <2>1. query' = more /\ held' = held /\ out' = out
    BY <1>1, <1>9
  <2>2. m + n <= MaxRows
    <3>1. ~(m + n > MaxRows)
      BY <1>6, <1>9, Zenon
    <3> QED BY <1>3, <1>4, <3>1
  <2>3. c.rows = FirstOf(q, m + n) /\ m + n \in Nat
    BY <1>3, <1>6, <2>2
  <2>4. columns = Heads[q] \/ (columns = <<>> /\ c.rows = <<>>)
    <3>1. CASE named
      BY <3>1
    <3>2. CASE ~named
      <4>1. n = 0 /\ query.columns = <<>> /\ columns = <<>>
        BY <3>2
      <4>2. m + n = m
        BY <1>3, <4>1
      <4>3. c.rows = query.rows
        BY <1>3, <2>3, <4>2
      <4> QED BY <1>3, <4>1, <4>3
    <3> QED BY <3>1, <3>2
  <2> HIDE DEF columns
  <2>5. /\ query \in [phase : {"running"}, sql : Queries, columns : Seq(STRING), rows : Seq(Queries \X Nat),
                     sent : Nat, truncated : BOOLEAN]
        /\ query.sql = q
    BY <1>2 DEF Reads, q
  <2>6. /\ more \in [phase : {"running"}, sql : Queries, columns : Seq(STRING), rows : Seq(Queries \X Nat),
                     sent : Nat, truncated : BOOLEAN]
        /\ more.sql = q /\ more.columns = columns /\ more.rows = c.rows /\ more.sent = m + n
    BY <1>6, <1>7, <2>3, <2>5 DEF more
  <2>7. Reads(more)
    BY <1>1, <2>2, <2>3, <2>4, <2>6 DEF Reads
  <2>8. QuerySound'
    BY <1>2, <2>1, <2>7 DEF QuerySound
  <2>9. ToolKeeps
    BY <1>1, <1>2, <2>1 DEF ToolKeeps, AnalystIInv
  <2> QED BY <2>8, <2>9, ToolKeepsInv
<1> QED BY <1>6, <1>8, <1>9

-----------------------------------------------------------------------------
(* The tab.                                                                *)
LEMMA PagesGrow ==
  ASSUME NEW a \in Nat, NEW b \in Nat, a <= b, NEW p \in Nat \ {0}
  PROVE  /\ (a + p - 1) \div p \in Int /\ (b + p - 1) \div p \in Int
         /\ (a + p - 1) \div p <= (b + p - 1) \div p
OBVIOUS

TabKeeps == TabSound' /\ agent' = agent /\ held' = held /\ query' = query

LEMMA TabKeepsInv ==
  ASSUME AnalystIInv, TabKeeps, out' = out \/ out' = Analyst!Nothing
  PROVE  AnalystIInv'
<1>1. QuerySound'
  BY DEF QuerySound, AnalystIInv, TabKeeps
<1>2. SpecSound(agent', out')
  BY DEF SpecSound, AnalystIInv, TabKeeps
<1> QED BY <1>1, <1>2 DEF AnalystIInv, TabKeeps

LEMMA SpecHasState ==
  ASSUME NEW a, NEW spec, SpecSound(a, spec), NEW p, p \in spec.panels
  PROVE  spec \in CanvasSpecs /\ StateSound(a, spec.state)
<1>1. spec # Analyst!Nothing
  BY DEF Analyst!Nothing
<1> QED BY <1>1 DEF SpecSound

\* A spec whose SQL is another.
WithSql(spec, t) == [spec EXCEPT !.state.sql = t]

LEMMA SqlEditSound ==
  ASSUME NEW a, NEW spec \in CanvasSpecs, StateSound(a, spec.state), NEW t \in Texts,
         NEW e, e = WithSql(spec, t)
  PROVE  /\ e \in CanvasSpecs /\ StateSound(a, e.state)
         /\ e.panels = spec.panels /\ e.state.rows = spec.state.rows
<1> DEFINE s == spec.state
           st == [s EXCEPT !.sql = t]
<1>1. StateSound(a, st)
  <2> HIDE DEF s
  <2>1. StateSound(a, s)
    BY DEF s
  <2> QED BY <2>1, SqlKeepsSound
<1>2. s \in CanvasStates
  BY DEF StateSound
<1>3. st \in CanvasStates /\ st.rows = s.rows
  <2> HIDE DEF s
  <2>1. st.rows = s.rows
    BY <1>2 DEF CanvasStates
  <2> QED BY <1>1, <2>1 DEF StateSound
<1>4. e = [spec EXCEPT !.state = st]
  BY DEF WithSql
<1> HIDE DEF st
<1>5. e \in CanvasSpecs /\ e.state = st /\ e.panels = spec.panels
  BY <1>3, <1>4 DEF CanvasSpecs
<1> QED BY <1>1, <1>3, <1>5

LEMMA ShowKeepsCanvas ==
  ASSUME Analyst!AnalystAssumption, AnalystIInv, Analyst!Show
  PROVE  AnalystIInv'
<1> DEFINE same == tab.spec.panels = out.panels
           stays == "results" \in tab.spec.panels \cap out.panels
           fewer == IF stays THEN Len(out.state.rows) < Len(tab.spec.state.rows) ELSE FALSE
           spec == IF same /\ tab.edited THEN [out EXCEPT !.state.sql = tab.spec.state.sql] ELSE out
           page == IF stays THEN tab.page ELSE 0
           cut == stays /\ (tab.cut \/ fewer)
           t == [spec |-> spec, edited |-> same /\ tab.edited, page |-> page, cut |-> cut]
<1>1. /\ out # Analyst!Nothing /\ tab' = t /\ out' = Analyst!Nothing
      /\ agent' = agent /\ held' = held /\ query' = query
  BY DEF Analyst!Show
<1>2. out \in CanvasSpecs /\ StateSound(agent, out.state)
  BY <1>1 DEF AnalystIInv, SpecSound
<1>3. TabSound
  BY DEF AnalystIInv
<1>4. /\ tab.edited \in BOOLEAN /\ tab.page \in Nat /\ tab.cut \in BOOLEAN /\ SpecSound(agent, tab.spec)
      /\ (tab.edited => "sql" \in tab.spec.panels) /\ Analyst!PageHasRows
  BY <1>3 DEF TabSound
<1>5. /\ spec \in CanvasSpecs /\ StateSound(agent, spec.state)
      /\ spec.panels = out.panels /\ spec.state.rows = out.state.rows
  <2>1. CASE same /\ tab.edited
    <3>1. tab.spec \in CanvasSpecs
      BY <1>4, <2>1, SpecHasState
    <3>2. tab.spec.state.sql \in Texts
      BY <3>1 DEF CanvasSpecs, CanvasStates
    <3>3. spec = WithSql(out, tab.spec.state.sql)
      BY <2>1 DEF WithSql
    <3> HIDE DEF spec
    <3> QED BY <1>2, <3>2, <3>3, SqlEditSound
  <2>2. CASE ~(same /\ tab.edited)
    <3>1. spec = out
      BY <2>2
    <3> QED BY <1>2, <3>1
  <2> QED BY <2>1, <2>2
<1> HIDE DEF spec
<1>6. same /\ tab.edited => "sql" \in spec.panels
  BY <1>4, <1>5
<1>7. fewer \in BOOLEAN /\ cut \in BOOLEAN /\ page \in Nat /\ (same /\ tab.edited) \in BOOLEAN
  <2>1. (Len(out.state.rows) < Len(tab.spec.state.rows)) \in BOOLEAN
    OBVIOUS
  <2>2. fewer \in BOOLEAN
    BY <2>1, Zenon
  <2>3. page \in Nat
    BY <1>4
  <2> HIDE DEF fewer
  <2>4. cut \in BOOLEAN
    BY <1>4, <2>2, Zenon
  <2>5. (same /\ tab.edited) \in BOOLEAN
    BY <1>4, Zenon
  <2> QED BY <2>2, <2>3, <2>4, <2>5, Zenon
<1>8. ASSUME page > 0, ~cut, "results" \in spec.panels
      PROVE  page < (Len(spec.state.rows) + PageSize - 1) \div PageSize
  <2>1. stays /\ page = tab.page /\ ~tab.cut /\ ~fewer
    BY <1>4, <1>7, <1>8
  <2>2. tab.page < Analyst!TotalPages
    BY <1>4, <1>8, <2>1 DEF Analyst!PageHasRows
  <2>3. tab.spec \in CanvasSpecs
    BY <1>4, <2>1, SpecHasState
  <2>4. tab.spec.state.rows \in Seq(Queries \X Nat) /\ out.state.rows \in Seq(Queries \X Nat)
    BY <1>2, <2>3 DEF CanvasSpecs, CanvasStates
  <2>5. Len(tab.spec.state.rows) <= Len(spec.state.rows)
    BY <1>5, <2>1, <2>4
  <2>6. Len(tab.spec.state.rows) \in Nat /\ Len(spec.state.rows) \in Nat /\ PageSize \in Nat \ {0}
    BY <1>5, <2>4 DEF Analyst!AnalystAssumption
  <2> DEFINE before == (Len(tab.spec.state.rows) + PageSize - 1) \div PageSize
             after == (Len(spec.state.rows) + PageSize - 1) \div PageSize
  <2>7. before \in Int /\ after \in Int /\ before <= after
    BY <2>5, <2>6, PagesGrow
  <2>8. page < before
    BY <2>1, <2>2 DEF Analyst!TotalPages
  <2> HIDE DEF before, after, page
  <2>9. page < after
    BY <1>7, <2>7, <2>8
  <2> QED BY <2>9 DEF after
<1> HIDE DEF same, stays, fewer, page, cut
<1>9. /\ t \in [spec : CanvasSpecs \cup {Analyst!Nothing}, edited : BOOLEAN, page : Nat, cut : BOOLEAN]
      /\ t.spec = spec /\ t.edited = (same /\ tab.edited) /\ t.page = page /\ t.cut = cut
  BY <1>5, <1>7
<1>10. SpecSound(agent, spec)
  BY <1>5 DEF SpecSound
<1> HIDE DEF t
<1>11. TabSound'
  BY <1>1, <1>6, <1>8, <1>9, <1>10 DEF TabSound, Analyst!PageHasRows, Analyst!TotalPages
<1> QED BY <1>1, <1>11, TabKeepsInv DEF TabKeeps

LEMMA EditKeepsCanvas ==
  ASSUME AnalystIInv, NEW q \in Queries, Analyst!EditSql(q)
  PROVE  AnalystIInv'
<1> DEFINE spec == [tab.spec EXCEPT !.state.sql = q]
           t == [tab EXCEPT !.spec = spec, !.edited = TRUE]
<1>1. /\ "sql" \in tab.spec.panels /\ tab' = t
      /\ agent' = agent /\ held' = held /\ query' = query /\ out' = out
  BY DEF Analyst!EditSql
<1>2. /\ tab \in [spec : CanvasSpecs \cup {Analyst!Nothing}, edited : BOOLEAN, page : Nat, cut : BOOLEAN]
      /\ SpecSound(agent, tab.spec) /\ Analyst!PageHasRows
  BY DEF AnalystIInv, TabSound
<1>3. tab.spec \in CanvasSpecs /\ StateSound(agent, tab.spec.state)
  BY <1>1, <1>2, SpecHasState
<1>4. /\ spec \in CanvasSpecs /\ StateSound(agent, spec.state)
      /\ spec.panels = tab.spec.panels /\ spec.state.rows = tab.spec.state.rows
  <2>1. spec = WithSql(tab.spec, q) /\ q \in Texts
    BY DEF WithSql, Texts
  <2> HIDE DEF spec
  <2> QED BY <1>3, <2>1, SqlEditSound
<1> HIDE DEF spec
<1>5. /\ t \in [spec : CanvasSpecs \cup {Analyst!Nothing}, edited : BOOLEAN, page : Nat, cut : BOOLEAN]
      /\ t.spec = spec /\ t.edited = TRUE /\ t.page = tab.page /\ t.cut = tab.cut
  BY <1>2, <1>4
<1>6. SpecSound(agent, spec)
  BY <1>4 DEF SpecSound
<1> HIDE DEF t
<1>7. TabSound'
  BY <1>1, <1>2, <1>4, <1>5, <1>6 DEF TabSound, Analyst!PageHasRows, Analyst!TotalPages
<1> QED BY <1>1, <1>7, TabKeepsInv DEF TabKeeps

LEMMA TurnKeepsCanvas ==
  ASSUME Analyst!AnalystAssumption, AnalystIInv, NEW by \in {-1, 1}, Analyst!TurnPage(by)
  PROVE  AnalystIInv'
<1> DEFINE t == [tab EXCEPT !.page = tab.page + by]
           last == Analyst!TotalPages
<1>1. /\ "results" \in tab.spec.panels /\ tab' = t
      /\ IF by = 1 THEN tab.page < last - 1 ELSE tab.page # 0
      /\ agent' = agent /\ held' = held /\ query' = query /\ out' = out
  BY DEF Analyst!TurnPage
<1>2. /\ tab \in [spec : CanvasSpecs \cup {Analyst!Nothing}, edited : BOOLEAN, page : Nat, cut : BOOLEAN]
      /\ SpecSound(agent, tab.spec) /\ Analyst!PageHasRows /\ (tab.edited => "sql" \in tab.spec.panels)
  BY DEF AnalystIInv, TabSound
<1>3. tab.page \in Nat
  BY <1>2
<1>4. last \in Int
  <2>1. tab.spec \in CanvasSpecs
    BY <1>1, <1>2, SpecHasState
  <2>2. tab.spec.state.rows \in Seq(Queries \X Nat)
    BY <2>1 DEF CanvasSpecs, CanvasStates
  <2>3. Len(tab.spec.state.rows) \in Nat /\ PageSize \in Nat \ {0}
    BY <2>2 DEF Analyst!AnalystAssumption
  <2> QED BY <2>3, PagesGrow DEF Analyst!TotalPages
<1> HIDE DEF last
<1>5. tab.page + by \in Nat
  BY <1>1, <1>3
<1>6. tab.page + by > 0 /\ ~tab.cut => tab.page + by < last
  <2>1. "results" \in tab.spec.panels /\ tab.page > 0 /\ ~tab.cut => tab.page < last
    BY <1>2 DEF Analyst!PageHasRows, last
  <2>2. CASE by = 1
    BY <1>1, <1>3, <1>4, <2>2
  <2>3. CASE by = -1
    BY <1>1, <1>3, <1>4, <2>1, <2>3
  <2> QED BY <2>2, <2>3
<1>7. /\ t \in [spec : CanvasSpecs \cup {Analyst!Nothing}, edited : BOOLEAN, page : Nat, cut : BOOLEAN]
      /\ t.spec = tab.spec /\ t.edited = tab.edited /\ t.page = tab.page + by /\ t.cut = tab.cut
  BY <1>2, <1>5
<1> HIDE DEF t
<1>8. TabSound'
  BY <1>1, <1>2, <1>6, <1>7 DEF TabSound, Analyst!PageHasRows, Analyst!TotalPages, last
<1> QED BY <1>1, <1>8, TabKeepsInv DEF TabKeeps

-----------------------------------------------------------------------------
(* The canvas in every state.                                              *)
LEMMA CanvasStarts ==
  ASSUME Analyst!Init
  PROVE  AnalystIInv
<1>1. /\ agent \in {"specs", "intents"} /\ held = Analyst!Off /\ query = Analyst!Idle /\ out = Analyst!Nothing
      /\ tab = [spec |-> Analyst!Nothing, edited |-> FALSE, page |-> 0, cut |-> FALSE]
  BY DEF Analyst!Init
<1>2. SpecSound(agent, out)
  BY <1>1 DEF SpecSound
<1>3. /\ tab \in [spec : CanvasSpecs \cup {Analyst!Nothing}, edited : BOOLEAN, page : Nat, cut : BOOLEAN]
      /\ tab.spec = Analyst!Nothing /\ tab.edited = FALSE /\ tab.page = 0
  BY <1>1
<1>4. TabSound
  BY <1>3 DEF TabSound, SpecSound, Analyst!PageHasRows
<1> QED BY <1>1, <1>2, <1>4 DEF AnalystIInv, QuerySound

LEMMA StillCanvas ==
  ASSUME AnalystIInv, UNCHANGED Analyst!vars
  PROVE  AnalystIInv'
<1>1. agent' = agent /\ tab' = tab /\ held' = held /\ query' = query /\ out' = out
  BY DEF Analyst!vars
<1>2. TabKeeps
  BY <1>1, TabStays DEF TabKeeps, AnalystIInv
<1> QED BY <1>1, <1>2, TabKeepsInv

LEMMA HeldSqlIsText ==
  ASSUME AnalystIInv, held # Analyst!Off
  PROVE  Analyst!Current.sql \in Texts
BY CurrentSound DEF StateSound, CanvasStates

LEMMA CanvasSteps ==
  ASSUME Analyst!AnalystAssumption, AnalystIInv, [Analyst!Next]_(Analyst!vars)
  PROVE  AnalystIInv'
<1>1. CASE Analyst!Ask
  BY <1>1, AskKeepsCanvas
<1>2. CASE Analyst!Answer
  BY <1>2, AnswerKeepsCanvas
<1>3. CASE Analyst!Tools
  <2>1. ASSUME NEW q \in Queries, Analyst!RenderSqlEditor(q) PROVE AnalystIInv'
    BY <2>1, EditorKeepsCanvas
  <2>2. ASSUME NEW q \in Queries, Analyst!RunQuery(q) PROVE AnalystIInv'
    BY <2>2, RunQueryKeepsCanvas DEF Texts
  <2>3. ASSUME NEW c \in ChartColumns, Analyst!RenderChart(c) PROVE AnalystIInv'
    BY <2>3, ChartKeepsCanvas
  <2>4. ASSUME NEW h \in {{}, {"sql"}, {"results", "chart"}}, Analyst!UpdateLayout(h) PROVE AnalystIInv'
    <3>1. h \in SUBSET PanelNames
      BY DEF PanelNames
    <3> QED BY <2>4, <3>1, LayoutKeepsCanvas
  <2>5. CASE held # Analyst!Off /\ agent = "specs" /\ Analyst!RunQuery(Analyst!Current.sql)
    BY <2>5, HeldSqlIsText, RunQueryKeepsCanvas
  <2> QED BY <1>3, <2>1, <2>2, <2>3, <2>4, <2>5 DEF Analyst!Tools
<1>4. CASE Analyst!Show
  BY <1>4, ShowKeepsCanvas
<1>5. CASE Analyst!QueryFails
  BY <1>5, FailureKeepsCanvas
<1>6. CASE Analyst!DuckDbRows
  BY <1>6, DuckDbKeepsCanvas
<1>7. ASSUME NEW n \in 0..MaxRows + 1, NEW last \in BOOLEAN, Analyst!TrinoPage(n, last) PROVE AnalystIInv'
  <2>1. n \in Nat
    BY DEF Analyst!AnalystAssumption
  <2> QED BY <1>7, <2>1, TrinoKeepsCanvas
<1>8. ASSUME NEW q \in Queries, Analyst!EditSql(q) PROVE AnalystIInv'
  BY <1>8, EditKeepsCanvas
<1>9. ASSUME NEW by \in {-1, 1}, Analyst!TurnPage(by) PROVE AnalystIInv'
  BY <1>9, TurnKeepsCanvas
<1>10. CASE UNCHANGED Analyst!vars
  BY <1>10, StillCanvas
<1> QED BY <1>1, <1>2, <1>3, <1>4, <1>5, <1>6, <1>7, <1>8, <1>9, <1>10 DEF Analyst!Next

LEMMA CanvasShows ==
  ASSUME AnalystIInv
  PROVE  AnalystInv
<1>1. \A spec \in Analyst!Shown : spec \in CanvasSpecs /\ StateSound(agent, spec.state)
  BY DEF Analyst!Shown, AnalystIInv, TabSound, SpecSound
<1>2. Analyst!ResultsAreTheQuerys
  <2> SUFFICES ASSUME NEW spec \in Analyst!Shown
               PROVE  LET s == spec.state IN
                      /\ s.status = "success" =>
                           /\ s.rows = Analyst!FirstRows(Analyst!AllRows(s.of))
                           /\ s.truncated = (Sizes[s.of] > MaxRows)
                           /\ s.columns = Heads[s.of] \/ s.rows = <<>>
                      /\ s.status # "success" =>
                           s.rows = <<>> /\ s.columns = <<>> /\ (agent = "specs" => s.chart = {})
    BY DEF Analyst!ResultsAreTheQuerys
  <2>1. StateSound(agent, spec.state)
    BY <1>1
  <2> QED BY <2>1, NoColumns DEF StateSound, IsResult, ResultOf
<1>3. Analyst!ChartFits
  BY <1>1 DEF Analyst!ChartFits, StateSound
<1>4. Analyst!PageHasRows
  BY DEF AnalystIInv, TabSound
<1> QED BY <1>2, <1>3, <1>4 DEF AnalystInv, Analyst!AnalystInv

\* What the analyst's canvas shows, in each of its copies, is true of the queries:
\* the first rows of a result, whether there are more, charts of columns it has, no
\* older result under an error, and a page of the table that has rows.
THEOREM CanvasIsTrue == Analyst!Spec => []AnalystInv
<1>1. Analyst!Init => AnalystIInv
  BY CanvasStarts
<1>2. AnalystIInv /\ [Analyst!Next]_(Analyst!vars) => AnalystIInv'
  BY CanvasSteps, AnalystAssumed
<1>3. AnalystIInv => AnalystInv
  BY CanvasShows
<1> QED BY <1>1, <1>2, <1>3, PTL DEF Analyst!Spec
=============================================================================
