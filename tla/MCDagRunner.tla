---------------------------- MODULE MCDagRunner ----------------------------
(***************************************************************************)
(* Small instances of DagRunner: two tasks of which one depends on the     *)
(* other, the other way round in the second version of the YAML.           *)
(***************************************************************************)
EXTENDS DagRunner, TLC

CONSTANTS a, b

MCTwo == <<a :> {} @@ b :> {a}, a :> {b} @@ b :> {}>>

MCFaults == {{"launch", "callback", "stop"}, {"db"}, {"step", "callback"},
             {"yaml"}, {"revert"}, {"respawn"}}
=============================================================================
