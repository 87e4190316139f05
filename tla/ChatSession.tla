----------------------------- MODULE ChatSession -----------------------------
(***************************************************************************)
(* One conversation of the chat: the tab that shows it (chat-panel.tsx,    *)
(* page.tsx, use-canvas.ts), its row in Postgres (conversations.ts) and    *)
(* the runs of the agent loop that answer its turns (agent-loop.ts).       *)
(*                                                                         *)
(* The row has two writers.  A run replaces the messages by those it read, *)
(* the new turn and the text of its answer; the tab saves what it shows,   *)
(* tool parts included, with the active agent, the paused tasks and the    *)
(* canvas.  The tab learns of a handoff from a tool part, and answers it   *)
(* by a turn of its own once the stream has ended.                         *)
(***************************************************************************)
EXTENDS Naturals, Sequences, SequencesExt, FiniteSets

CONSTANTS
  Specialists,   \* the agents besides the Assistant
  Assistant,     \* the agent a null extension id stands for
  Null,
  Forms,         \* the structures a render tool can produce
  Values,        \* the values of the one field of a form
  MaxSteps,      \* maxLoopSteps
  MaxRuns,       \* bound: turns of the conversation
  MaxEdits,      \* bound: edits of the user
  FaultSets,     \* the sets of faults of an instance: reload, error, slow
  SavedRows      \* rows of the conversation an earlier session left

VARIABLES
  row,      \* the conversation row, or Null
  tab,      \* the tab
  saves,    \* the saveConversation calls of the tab, in order
  run,      \* the runs of the loop, in the order of their POSTs
  faults

vars == <<row, tab, saves, run, faults>>

-----------------------------------------------------------------------------
(***************************************************************************)
(* Data.  A message of the user is the ask or the hidden marker; an answer *)
(* keeps the first part that hands off, the only one the panel looks at,    *)
(* and the last part that renders.  A handoff is accepted or refused.       *)
(***************************************************************************)

Agents == Specialists \cup {Assistant}
Extensions == Specialists \cup {Assistant, Null}
Specs == [form : Forms, val : Values]
Handoffs == [tool : {"handoff"}, agent : Agents] \cup
            [tool : {"refused"}, agent : Agents] \cup
            [tool : {"pause", "complete"}, agent : Specialists]
Renders == [key : Nat, spec : Specs]
Messages == [turn : 0..MaxRuns, role : {"user"}, text : {"ask", "continue"}] \cup
            [turn : 0..MaxRuns, role : {"assistant"},
             handoff : Handoffs \cup {Null}, render : Renders \cup {Null}]
Entries == [ext : Specialists, canvas : Specs \cup {Null}]
Rows == [messages : Seq(Messages), ext : Extensions, stack : Seq(Entries),
         canvas : Specs \cup {Null}]

ASSUME ChatAssumption ==
  /\ Assistant \notin Specialists /\ Null \notin Specialists \cup {Assistant}
  /\ MaxSteps \in Nat \ {0} /\ MaxRuns \in Nat
  /\ SavedRows \subseteq Rows /\ Null \notin Rows

Asked(n, text) == [turn |-> n, role |-> "user", text |-> text]
Answer(n) == [turn |-> n, role |-> "assistant", handoff |-> Null, render |-> Null]

IsHandoff(m) == m.role = "assistant" /\ m.handoff # Null
IsRender(m) == m.role = "assistant" /\ m.render # Null
Accepted(m) == IsHandoff(m) /\ m.handoff.tool # "refused"

\* The agent that answers for an extension id: the Assistant for none, and
\* for an id that no specialist has.
AgentOf(ext) == IF ext \in Specialists THEN ext ELSE Assistant

\* A tab that shows nothing.
EmptyTab ==
  [open |-> TRUE, messages |-> <<>>, status |-> "ready", ext |-> Null,
   stack |-> <<>>, canvas |-> Null, edited |-> FALSE, edits |-> 0,
   pending |-> FALSE, processed |-> {}, rendered |-> 0, wasLoading |-> FALSE,
   dirty |-> FALSE, mounting |-> FALSE, current |-> 0]

\* A tab that has loaded the row r.
RestoredTab(r, edits) ==
  [EmptyTab EXCEPT !.messages = r.messages, !.ext = r.ext, !.stack = r.stack,
                   !.canvas = r.canvas, !.edits = edits,
                   !.dirty = TRUE, !.mounting = TRUE]

NoRun ==
  [pc |-> "none", agent |-> Assistant, turn |-> Asked(0, "ask"),
   canvas |-> Null, stack |-> <<>>, history |-> <<>>, steps |-> 0]

Init ==
  /\ faults \in FaultSets
  /\ row \in SavedRows \cup {Null}
  /\ row # Null => "reload" \in faults
  /\ tab = IF row = Null THEN EmptyTab ELSE RestoredTab(row, 0)
  /\ saves = <<>>
  /\ run = [n \in 1..MaxRuns |-> NoRun]

Posted == {n \in 1..MaxRuns : run[n].pc # "none"}
NextRun == Cardinality(Posted) + 1
Active == {n \in Posted : run[n].pc \notin {"done", "failed"}}

-----------------------------------------------------------------------------
(***************************************************************************)
(* The canvas: applyStreamSpec and mergeStateChanges.                      *)
(***************************************************************************)

\* Mutant: the stream's values win over the user's.
ApplySpecClobbering(t, spec) == [t EXCEPT !.canvas = spec]

\* A spec with the structure on display keeps the fields the user edited;
\* any other replaces the canvas and forgets the edits.
ApplySpec(t, spec) ==
  IF spec = Null \/ t.canvas = Null \/ spec.form # t.canvas.form
    THEN [t EXCEPT !.canvas = spec, !.edited = FALSE]
    ELSE [t EXCEPT !.canvas = [spec EXCEPT !.val = IF t.edited THEN t.canvas.val ELSE @]]

UserEdits(v) ==
  /\ tab.open /\ tab.canvas # Null /\ v # tab.canvas.val /\ tab.edits < MaxEdits
  /\ ~tab.dirty
  /\ tab' = [tab EXCEPT !.canvas.val = v, !.edited = TRUE, !.edits = @ + 1]
  /\ UNCHANGED <<row, saves, run, faults>>

-----------------------------------------------------------------------------
(***************************************************************************)
(* Sending a turn: useChat and prepareSendMessagesRequest.                 *)
(***************************************************************************)

\* The tab after the new message, and the run of its POST.  The body carries
\* the agent, the canvas and the stack of this moment.
Submitted(t, text) ==
  [t EXCEPT !.messages = Append(@, Asked(NextRun, text)), !.status = "busy",
            !.current = NextRun, !.dirty = TRUE]

Post(t, text) ==
  [NoRun EXCEPT !.pc = "load", !.agent = AgentOf(t.ext), !.turn = Asked(NextRun, text),
                !.canvas = t.canvas, !.stack = t.stack]

Send ==
  /\ tab.open /\ ~tab.dirty /\ tab.status # "busy" /\ NextRun <= MaxRuns
  /\ tab' = Submitted(tab, "ask")
  /\ run' = [run EXCEPT ![NextRun] = Post(tab, "ask")]
  /\ UNCHANGED <<row, saves, faults>>

-----------------------------------------------------------------------------
(***************************************************************************)
(* What the panel does after a render: save, detect a handoff, continue,   *)
(* show the newest spec.                                                   *)
(***************************************************************************)

RowOf(t) == [messages |-> t.messages, ext |-> t.ext, stack |-> t.stack, canvas |-> t.canvas]

SavesNow(t) == t.wasLoading /\ t.status = "ready" /\ t.messages # <<>>

Pop(t) == [ApplySpec(t, Last(t.stack).canvas) EXCEPT !.stack = Front(t.stack)]

\* Mutant: nothing asks for the turn of the new agent.
ForwardUnmarked(t, target) == [t EXCEPT !.ext = target]

\* The three cases of a handoff part.
Forward(t, target) ==
  IF target = t.ext THEN t
  ELSE LET resume == t.stack # <<>> /\ Last(t.stack).ext = target
       IN [(IF resume THEN Pop(t) ELSE t) EXCEPT !.ext = target, !.pending = TRUE]

Pause(t, from) ==
  [t EXCEPT !.stack = Append(@, [ext |-> from, canvas |-> t.canvas]),
            !.ext = Null, !.pending = TRUE]

Complete(t) ==
  IF t.stack = <<>> THEN [t EXCEPT !.ext = Null, !.pending = TRUE]
  ELSE [Pop(t) EXCEPT !.ext = Last(t.stack).ext, !.pending = TRUE]

\* The newest handoff part that has not been looked at.
Detect(t) ==
  LET new == {i \in DOMAIN t.messages :
                IsHandoff(t.messages[i]) /\ t.messages[i].turn \notin t.processed}
  IN IF new = {} THEN t
     ELSE LET m == t.messages[CHOOSE i \in new : \A k \in new : k <= i]
              seen == [t EXCEPT !.processed = @ \cup {m.turn}]
          IN CASE m.handoff.tool = "refused" -> seen
               [] m.handoff.tool = "handoff" -> Forward(seen, m.handoff.agent)
               [] m.handoff.tool = "pause" -> Pause(seen, m.handoff.agent)
               [] m.handoff.tool = "complete" -> Complete(seen)

\* The newest render part, if it is not the one shown last.
ShowSpec(t) ==
  LET all == {i \in DOMAIN t.messages : IsRender(t.messages[i])}
  IN IF all = {} THEN t
     ELSE LET r == t.messages[CHOOSE i \in all : \A k \in all : k <= i].render
          IN IF r.key = t.rendered THEN t
             ELSE [ApplySpec(t, r.spec) EXCEPT !.rendered = r.key]

\* The effects of one render, in the order of the component.  A change of the
\* active agent makes the handoff effect run once more.
Effects ==
  /\ tab.open /\ tab.dirty
  /\ saves' = IF SavesNow(tab) THEN Append(saves, RowOf(tab)) ELSE saves
  /\ LET detected == [Detect(tab) EXCEPT !.wasLoading = tab.status = "busy",
                                         !.mounting = FALSE]
         clean == [detected EXCEPT !.dirty = detected.ext # tab.ext]
         continues == clean.status = "ready" /\ clean.pending
     IN IF continues /\ NextRun <= MaxRuns
          THEN /\ tab' = Submitted(ShowSpec([clean EXCEPT !.pending = FALSE]), "continue")
               /\ run' = [run EXCEPT ![NextRun] = Post(ShowSpec(clean), "continue")]
          ELSE /\ tab' = ShowSpec(clean)
               /\ UNCHANGED run
  /\ UNCHANGED <<row, faults>>

-----------------------------------------------------------------------------
(***************************************************************************)
(* A run of the agent loop.                                                *)
(***************************************************************************)

Step(n, from, to) == run[n].pc = from /\ run' = [run EXCEPT ![n].pc = to]

\* What the tab that still reads the stream of run n makes of an event.
Streamed(n, t) == IF tab.open /\ tab.current = n THEN [t EXCEPT !.dirty = TRUE] ELSE tab

\* The answer of run n in the tab, opened by its first event.
Opened(n, t) ==
  IF t.messages # <<>> /\ Last(t.messages).role = "user"
    THEN [t EXCEPT !.messages = Append(@, Answer(n))] ELSE t

WithPart(n, t, part(_)) ==
  LET o == Opened(n, t) IN [o EXCEPT !.messages[Len(o.messages)] = part(@)]

\* loadConversationStep.
Load(n) ==
  /\ run[n].pc = "load"
  /\ run' = [run EXCEPT ![n].pc = "model",
                        ![n].history = Append(IF row = Null THEN <<>> ELSE row.messages,
                                              run[n].turn)]
  /\ UNCHANGED <<row, tab, saves, faults>>

\* The model answers in text, and the loop ends.
ModelText(n) ==
  /\ ~tab.dirty /\ Step(n, "model", "commit")
  /\ tab' = Streamed(n, Opened(n, tab))
  /\ UNCHANGED <<row, saves, faults>>

\* What follows a tool call: the next iteration, or the end of the loop.
AfterTool(n) ==
  run' = [run EXCEPT ![n].steps = @ + 1,
                     ![n].pc = IF run[n].steps + 1 < MaxSteps THEN "model" ELSE "commit"]

\* At most one task is paused: only it can be handed to, and only by its
\* extension id, which the stack has, not by the id of its agent.
Refuses(stack, agent, spelling) ==
  stack # <<>> /\ ~(Last(stack).ext = agent /\ spelling = "extension")

\* The Assistant's only tool.
ToolHandoff(n, agent, spelling) ==
  /\ run[n].pc = "model" /\ run[n].agent = Assistant /\ ~tab.dirty
  /\ AfterTool(n)
  /\ LET h == [tool |-> IF Refuses(run[n].stack, agent, spelling) THEN "refused" ELSE "handoff",
               agent |-> agent]
         part(m) == IF m.handoff = Null THEN [m EXCEPT !.handoff = h] ELSE m
     IN tab' = Streamed(n, WithPart(n, tab, part))
  /\ UNCHANGED <<row, saves, faults>>

\* A specialist renders a form.
ToolRender(n, spec) ==
  /\ run[n].pc = "model" /\ run[n].agent # Assistant /\ ~tab.dirty
  /\ AfterTool(n)
  /\ LET part(m) == [m EXCEPT !.render = [key |-> n * MaxSteps + run[n].steps, spec |-> spec]]
     IN tab' = Streamed(n, WithPart(n, tab, part))
  /\ UNCHANGED <<row, saves, faults>>

\* Mutant: the answer is left to the tab's save.
CommittedUnanswered(n) == run[n].history

\* The history the run read, its turn, and an answer without tool parts.
Committed(n) == Append(run[n].history, Answer(n))

\* commitConversationStep.  A save is faster than a call of the model, unless
\* it is slow.
Commit(n) ==
  /\ "slow" \in faults \/ saves = <<>>
  /\ Step(n, "commit", "finish")
  /\ row' = IF row = Null
              THEN [messages |-> Committed(n), ext |-> Null, stack |-> <<>>, canvas |-> Null]
              ELSE [row EXCEPT !.messages = Committed(n)]
  /\ UNCHANGED <<tab, saves, faults>>

\* runLoopFinishStep closes the stream.
Finish(n) ==
  /\ ~tab.dirty /\ Step(n, "finish", "done")
  /\ tab' = Streamed(n, [tab EXCEPT !.status = "ready"])
  /\ UNCHANGED <<row, saves, faults>>

\* A step that keeps failing fails the run, and the stream with it.
Fail(n) ==
  /\ "error" \in faults /\ ~tab.dirty
  /\ run[n].pc \in {"load", "model", "commit"}
  /\ run' = [run EXCEPT ![n].pc = "failed"]
  /\ tab' = Streamed(n, [tab EXCEPT !.status = "error"])
  /\ UNCHANGED <<row, saves, faults>>

-----------------------------------------------------------------------------
(***************************************************************************)
(* The row.                                                                *)
(***************************************************************************)

\* Mutant: a save keeps the agent the row has.
SavedWithoutAgent(r) == IF row = Null THEN [r EXCEPT !.ext = Null] ELSE [r EXCEPT !.ext = row.ext]

\* saveConversation sets every column.
Saved(r) == r

SaveLands ==
  /\ saves # <<>>
  /\ row' = Saved(Head(saves)) /\ saves' = Tail(saves)
  /\ UNCHANGED <<tab, run, faults>>

\* The page is loaded again, and finds the conversation by the id it keeps in
\* localStorage.  Nothing reads the stream of a run in flight.
Reload ==
  /\ "reload" \in faults /\ tab.open /\ ~tab.dirty
  /\ tab' = IF row = Null THEN [EmptyTab EXCEPT !.edits = tab.edits]
                          ELSE RestoredTab(row, tab.edits)
  /\ UNCHANGED <<row, saves, run, faults>>

\* The user deletes the conversation; the tab turns to a new one.
Delete ==
  /\ tab.open /\ ~tab.dirty /\ tab.messages # <<>>
  /\ row' = Null
  /\ tab' = [EmptyTab EXCEPT !.open = FALSE]
  /\ UNCHANGED <<saves, run, faults>>

RunStep(n) ==
  \/ Load(n) \/ ModelText(n) \/ Commit(n) \/ Finish(n) \/ Fail(n)
  \/ \E agent \in Agents, spelling \in {"extension", "agent"} : ToolHandoff(n, agent, spelling)
  \/ \E spec \in Specs : ToolRender(n, spec)

Next ==
  \/ Send \/ Effects \/ SaveLands \/ Reload \/ Delete
  \/ \E v \in Values : UserEdits(v)
  \/ \E n \in 1..MaxRuns : RunStep(n)

Spec == Init /\ [][Next]_vars

\* The page runs its effects, the workflow engine its runs and the server its
\* actions; nothing obliges the user.
Fairness ==
  /\ WF_vars(Effects) /\ WF_vars(SaveLands)
  /\ \A n \in 1..MaxRuns : WF_vars(RunStep(n))

FairSpec == Spec /\ Fairness

-----------------------------------------------------------------------------
(***************************************************************************)
(* Properties.                                                             *)
(***************************************************************************)

\* Types.  A tab has at most one handoff to answer, and asks no more than the
\* runs there are.
TypeOK ==
  /\ row \in Rows \cup {Null}
  /\ tab.messages \in Seq(Messages) /\ tab.ext \in Extensions
  /\ tab.stack \in Seq(Entries) /\ tab.canvas \in Specs \cup {Null}
  /\ tab.status \in {"ready", "busy", "error"}
  /\ \A i \in DOMAIN saves : saves[i] \in Rows
  /\ \A n \in Posted : run[n].agent \in Agents /\ run[n].history \in Seq(Messages)

\* A run of a conversation that is neither reloaded nor saved late reads the
\* question and the answer of every earlier turn that has completed, although
\* its read races with the save of the turn before (agent-loop.ts:1011,
\* chat-panel.tsx:308).
HistoryKept ==
  faults \cap {"reload", "slow"} = {} /\ tab.open =>
    \A n \in Posted : run[n].pc \notin {"load", "failed"} =>
      LET read == {<<run[n].history[i].turn, run[n].history[i].role>> :
                     i \in DOMAIN run[n].history}
      IN \A k \in 1..n-1 : run[k].pc = "done" =>
           {<<k, "user">>, <<k, "assistant">>} \subseteq read

\* What a run reads, with the types of the state.
ChatInv == TypeOK /\ HistoryKept

\* Once the tab is idle and its saves have landed, the row is what the tab
\* shows: messages, active agent and paused tasks, whichever of the two
\* writers came last (conversations.ts:36, agent-loop.ts:919).
RowFollowsTab ==
  "reload" \notin faults /\ tab.open /\ ~tab.dirty /\ tab.status = "ready" /\ saves = <<>>
    /\ Active = {} /\ row # Null =>
      RowOf(tab) = [row EXCEPT !.canvas = tab.canvas]

\* The stream never overwrites a field the user has edited on the form that
\* stays on display (use-canvas.ts:90-104).
EditsSurvive ==
  [][(\A v \in Values : ~UserEdits(v)) /\ tab.edited /\ tab'.edited /\ tab'.open
       => tab'.canvas.val = tab.canvas.val]_vars

\* A handoff that was accepted is answered by its target, if no run fails, the
\* conversation stays open and it is not at its bound.
HandoffServed ==
  \A n \in 1..MaxRuns-1 : \A a \in Specialists :
    (/\ faults = {} /\ run[n].pc = "done" /\ tab.open
     /\ \E i \in DOMAIN tab.messages :
          /\ tab.messages[i].turn = n /\ Accepted(tab.messages[i])
          /\ tab.messages[i].handoff.agent = a)
    ~> (~tab.open \/ (run[n+1].pc = "done" /\ run[n+1].agent = a))

=============================================================================
