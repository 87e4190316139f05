------------------------- MODULE MCDefinitionMerge -------------------------
(* Instances of DefinitionMerge for TLC.                                   *)
EXTENDS DefinitionMerge

CONSTANTS t1, t2, s1, s2, c1, c2, int

\* s2 has one column more than s1.
MCSignature ==
  [s \in {s1, s2} |-> [c \in Columns |-> IF c = c1 \/ s = s2 THEN int ELSE Absent]]

Change(t, content) == [table |-> t, content |-> content]

\* The agent edits or removes one file; a person renames one, or breaks it.
MCProposals ==
  {[changes |-> <<Change(t1, c)>>, told |-> TRUE] : c \in {s1, s2, Absent}} \cup
  {[changes |-> <<Change(t1, Bad)>>, told |-> FALSE],
   [changes |-> <<Change(t1, Absent), Change(t2, s1)>>, told |-> FALSE]}

MCDrafts == {Change(t1, s1)}
MCFaultSets == {{"aws"}, {"close"}, {"draft", "early", "fetch"}, {"overlap"}}

\* Pull requests that overlap are explored without crashes.
CalmOverlap == "overlap" \in faults => crashes = 0
=============================================================================
