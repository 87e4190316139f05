---- MODULE MCChatSession ----
(* Instances of ChatSession for TLC. *)
EXTENDS ChatSession

CONSTANTS da, f1, f2

\* A conversation whose specialist was paused in an earlier session.
MCPaused ==
  [messages |-> <<Asked(0, "ask"),
                  [Answer(0) EXCEPT !.handoff = [tool |-> "pause", agent |-> da]]>>,
   ext |-> Null, stack |-> <<[ext |-> da, canvas |-> Null]>>, canvas |-> Null]

\* One whose specialist had completed a detour, the paused one still waiting.
MCDetoured ==
  [MCPaused EXCEPT !.messages[2].handoff.tool = "complete",
                   !.messages[2].render = [key |-> MaxRuns * MaxSteps + MaxSteps,
                                           spec |-> [form |-> f1, val |-> 0]],
                   !.canvas = [form |-> f1, val |-> 1]]

MCRows == {MCPaused, MCDetoured}
MCFaultSets == {{}, {"error"}, {"slow"}, {"reload"}}
====
