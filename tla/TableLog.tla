------------------------------ MODULE TableLog ------------------------------
(***************************************************************************)
(* What the commit API promises its readers: the table is an append-only   *)
(* log of manifests.  Each committed job appears once, and its manifest is *)
(* the previous manifest overridden by the columns the job produced.       *)
(***************************************************************************)
EXTENDS LattikTypes, Sequences

VARIABLE
  log   \* log[v]: manifest version v, as [job, columns]

Entry == [job : Jobs, columns : ColumnMap]

TypeOK == log \in Seq(Entry)

\* The column map of the latest manifest.
Current == IF log = << >> THEN NoColumns ELSE log[Len(log)].columns

Committed(j) == \E v \in 1..Len(log) : log[v].job = j

Init == log = << >>

Commit(j) ==
  /\ ~Committed(j)
  /\ log' = Append(log, [job |-> j, columns |-> Override(Current, j)])

Next == \E j \in Jobs : Commit(j)

Spec == Init /\ [][Next]_log
=============================================================================
