--------------------------- MODULE MCDagScheduler ---------------------------
(***************************************************************************)
(* Small instances of DagScheduler.  Ticks are interchangeable.            *)
(***************************************************************************)
EXTENDS DagScheduler, TLC

CONSTANTS t1, t2

TickSymmetry == Permutations(Ticks)

OneAtATime == [catchup |-> TRUE, maxActiveRuns |-> 1]
WithoutCatchup == [catchup |-> FALSE, maxActiveRuns |-> 1]

MCDags1 == {OneAtATime}
MCDags2 == {OneAtATime, WithoutCatchup}

MCFaults == {{}, {"workflow", "tick", "api"}, {"start", "store"}, {"workflow", "late"}}
WorkflowFaults == {{}, {"workflow"}}

\* With faults, two boundaries and two workflows of a DAG with catchup.
SmallWithFaults ==
  faults # {} => dag.catchup /\ now <= 2 /\ \A w \in Workflows : w <= 2
=============================================================================
