--------------------------- MODULE MCLattikCommit ---------------------------
(***************************************************************************)
(* Small instances of LattikCommit: the forward driver computes both       *)
(* column families, backfills compute one of them.                         *)
(***************************************************************************)
EXTENDS LattikCommit, TLC

CONSTANTS j1, j2, j3, a, b

\* A daily write and two hourly ones, all of the same ds.
Daily == [ds |-> 1, hour |-> 0]
Hour5 == [ds |-> 1, hour |-> 6]
Hour6 == [ds |-> 1, hour |-> 7]

MCPartitions == {Daily, Hour5, Hour6}

MCColumnsOf2 == j1 :> {a, b} @@ j2 :> {b}
MCPartitionOf2 == j1 :> Daily @@ j2 :> Daily
MCAttempts2 == j1 :> 2 @@ j2 :> 1

\* j1 and j2 write the same hour, j3 the next one.
MCColumnsOf3 == j1 :> {a, b} @@ j2 :> {b} @@ j3 :> {b}
MCPartitionOf3 == j1 :> Hour5 @@ j2 :> Hour5 @@ j3 :> Hour6
MCAttempts3 == [j \in Jobs |-> 3]
=============================================================================
