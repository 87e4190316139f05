----------------------------- MODULE LattikTypes -----------------------------
(***************************************************************************)
(* What every module about a Lattik Table shares: the write jobs, the      *)
(* columns they produce and the column map a manifest carries.             *)
(*                                                                         *)
(* A column stands for one column family (all the columns of a family are  *)
(* written into the same load).  A job is one call of commit_via_api: one  *)
(* run of the forward driver, or one ds of the backfill driver.  The loads *)
(* of a job carry fresh UUIDs, so the load of column c written by job j is *)
(* identified by the pair, and a column map only has to name the job.  The *)
(* job's primary load id (the first family's) is identified with the job.  *)
(***************************************************************************)
EXTENDS Naturals

CONSTANTS
  Jobs,       \* the write jobs
  Columns,    \* the column families of the table
  ColumnsOf,  \* ColumnsOf[j]: the column families job j computes
  NoLoad      \* a column no load has been committed for

ASSUME NoLoadAssumption == NoLoad \notin Jobs
ASSUME ColumnsOfAssumption == ColumnsOf \in [Jobs -> (SUBSET Columns) \ {{}}]

ColumnMap == [Columns -> Jobs \cup {NoLoad}]

NoColumns == [c \in Columns |-> NoLoad]

\* {...baseColumns, ...columns}: the base map, overridden by the job's loads.
Override(base, j) ==
  [c \in Columns |-> IF c \in ColumnsOf[j] THEN j ELSE base[c]]
=============================================================================
