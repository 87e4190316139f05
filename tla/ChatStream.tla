------------------------------ MODULE ChatStream ------------------------------
(* The event stream of one chat run and the connections that read it:         *)
(* agent-service's workflows/agent-loop.ts (the durable steps and the         *)
(* LoopEvents they write), lib/loop-event-to-ui-chunk.ts (events into the      *)
(* chunks useChat reads), routes/__wf-chat.post.ts (starts a run and streams   *)
(* it) and routes/__wf-chat/[runId].get.ts (reattaches at a startIndex).       *)
(* web/src has the same files; what a run does to its conversation, and the    *)
(* tab to both, is ChatSession's subject.  External: the workflow runtime,     *)
(* which keeps the events, and runs a step that was cut off again from its     *)
(* beginning until its result is recorded.                                     *)
EXTENDS SequencesExt, Integers

CONSTANTS
  RunAgents,      \* the agents whose runs are explored
  Tried,          \* the tool names the model calls, those no agent has included
  MaxLoopSteps,   \* agent -> its maxLoopSteps: 5 to 10 in the code
  MaxDeltas,      \* bound: text deltas of a model step
  MaxCalls,       \* bound: tool calls of a model step
  MaxRetries,     \* bound: steps that are run again
  MaxReads,       \* bound: connections to the stream
  StreamFaultSets \* sets of "retry", "refinish", "fail", "lost" and "unowned"

VARIABLES
  run,     \* the workflow: the step it is at and what the step holds
  log,     \* the LoopEvents written so far
  row,     \* the turn as committed to the conversation: Unsaved before
  owned,   \* whether workflow_run names the owner of the run
  reader,  \* the connection that reads the stream, with its translator
  shown,   \* the chunks the client keeps from the connections before this one
  faults

vars == <<run, log, row, owned, reader, shown, faults>>

-----------------------------------------------------------------------------
\* The tools of each agent, those with a definition and those with a dispatcher.
ToolNames ==
  [Assistant |-> {"handoff"},
   PipelineManager |-> {"readCanvasState", "renderDagOverview", "renderDagRunDetail", "listDags",
                        "getDagDetail", "listDagRuns", "getTaskInstances", "getTaskLogs"},
   DataArchitect |-> {"readCanvasState", "renderEntityForm", "renderDimensionForm",
                      "renderLoggerTableForm", "renderLattikTableForm", "renderMetricForm",
                      "reviewDefinition", "staticCheck", "updateDefinition", "generateYaml",
                      "submitPR", "deleteDefinition", "listDefinitions", "getDefinition"},
   DataAnalyst |-> {"readCanvasState", "listTables", "describeTable", "runQuery", "renderSqlEditor"}]

DagTools == {"listDags", "getDagDetail", "listDagRuns", "getTaskInstances", "getTaskLogs",
             "renderDagOverview", "renderDagRunDetail"}
FormTools == {"renderEntityForm", "renderDimensionForm", "renderLoggerTableForm",
              "renderLattikTableForm", "renderMetricForm"}
FlowTools == {"staticCheck", "updateDefinition", "generateYaml", "submitPR", "reviewDefinition",
              "listDefinitions", "getDefinition", "deleteDefinition"}
DataTools == {"listTables", "describeTable", "runQuery", "renderSqlEditor"}

ToolDefinitions == DagTools \cup FormTools \cup FlowTools \cup DataTools \cup {"handoff", "readCanvasState"}

ToolDispatchers == DagTools \cup FormTools \cup FlowTools \cup DataTools \cup {"handoff", "readCanvasState"}

-----------------------------------------------------------------------------
\* What an event or a chunk is about is a tuple: <<>>, <<iteration>> of a text
\* part, <<attempt, n>> of the n-th delta or call of a model step.
Event(type, iteration, of) == [type |-> type, iteration |-> iteration, of |-> of]

Chunk(type, of) == [type |-> type, of |-> of]

Nothing == <<>>
NoIteration == -1
Unsaved == [answer |-> <<>>, saved |-> FALSE]

When(cond, seq) == IF cond THEN seq ELSE <<>>

\* The translator before the first event.
Fresh == [started |-> FALSE, iteration |-> NoIteration, text |-> Nothing]

\* The first event of an iteration closes the step before and opens its own.
Transition(tr, iteration) ==
  IF tr.iteration = iteration THEN [to |-> tr, chunks |-> <<>>]
  ELSE LET leaving == tr.iteration # NoIteration
       IN [to |-> [started |-> TRUE, iteration |-> iteration, text |-> Nothing],
           chunks |-> When(leaving /\ tr.text # Nothing, <<Chunk("text-end", tr.text)>>)
                      \o When(leaving, <<Chunk("finish-step", Nothing)>>)
                      \o When(~tr.started, <<Chunk("start", Nothing)>>)
                      \o <<Chunk("start-step", Nothing)>>]

EndText(tr) == When(tr.text # Nothing, <<Chunk("text-end", tr.text)>>)

\* One event of the stream: the translator after it and the chunks it enqueues.
Translate(tr, e) ==
  LET at == Transition(tr, e.iteration)
  IN CASE e.type = "text-delta" ->
            [to |-> [at.to EXCEPT !.text = <<e.iteration>>],
             chunks |-> at.chunks \o When(at.to.text = Nothing, <<Chunk("text-start", <<e.iteration>>)>>)
                        \o <<Chunk("text-delta", e.of)>>]
       [] e.type = "model-finish" ->
            [to |-> [at.to EXCEPT !.text = Nothing], chunks |-> at.chunks \o EndText(at.to)]
       [] e.type = "tool-call" ->
            [to |-> at.to, chunks |-> at.chunks \o <<Chunk("tool-input-start", e.of),
                                                     Chunk("tool-input-available", e.of)>>]
       [] e.type = "tool-result" -> [to |-> tr, chunks |-> <<Chunk("tool-output-available", e.of)>>]
       [] e.type = "loop-finish" ->
            [to |-> [tr EXCEPT !.text = Nothing, !.iteration = NoIteration],
             chunks |-> EndText(tr) \o When(tr.iteration # NoIteration, <<Chunk("finish-step", Nothing)>>)
                        \o <<Chunk("finish", Nothing)>>]

\* Mutant: the stream is opened at the cursor, by a translator that has seen
\* nothing.
ConnectionAtCursor(skip) ==
  [open |-> TRUE, skip |-> skip, pos |-> skip, tail |-> Len(log), tr |-> Fresh, out |-> <<>>]

\* A connection whose first skip events are translated but not sent.
Connection(skip) ==
  [open |-> TRUE, skip |-> skip, pos |-> 0, tail |-> Len(log), tr |-> Fresh, out |-> <<>>]
Closed == [open |-> FALSE, skip |-> 0, pos |-> 0, tail |-> 0, tr |-> Fresh, out |-> <<>>]

-----------------------------------------------------------------------------
\* shown.whole: the chunks reach back to the first event; shown.reads counts
\* the connections.
Init ==
  /\ run \in [agent : RunAgents, step : {"model"}, iteration : {0}, attempt : {1}, said : {<<>>},
              calls : {<<>>}, answer : {<<>>}, tools : {0}, retries : {0}, unserved : {{}}]
  /\ log = <<>> /\ row = Unsaved /\ owned = FALSE
  /\ reader = Closed /\ shown = [chunks |-> <<>>, whole |-> TRUE, reads |-> 0]
  /\ faults \in StreamFaultSets

Write(type, of) == log' = Append(log, Event(type, run.iteration, of))

RunsAlone == UNCHANGED <<row, owned, reader, shown, faults>>

\* runModelStep hands the model the tools of its agent; it throws if one of them
\* has no definition.
Equipped == ToolNames[run.agent] \subseteq ToolDefinitions

\* The model streams another piece of text.
Say ==
  /\ run.step = "model" /\ Equipped /\ Len(run.said) < MaxDeltas
  /\ LET delta == <<run.attempt, Len(run.said) + 1>>
     IN run' = [run EXCEPT !.said = Append(@, delta)] /\ Write("text-delta", delta)
  /\ RunsAlone

\* The model is done: its text and the calls it asks for, by id and tool.
Conclude ==
  /\ run.step = "model" /\ Equipped
  /\ \E tools \in SeqOf(Tried, MaxCalls) :
       run' = [run EXCEPT !.step = "modelled",
                          !.calls = [n \in DOMAIN tools |-> [id |-> <<run.attempt, n>>, tool |-> tools[n]]]]
  /\ Write("model-finish", Nothing)
  /\ RunsAlone

\* The result of the model step is recorded; without calls the loop ends.
ModelRecorded ==
  /\ run.step = "modelled"
  /\ run' = IF run.calls = <<>> THEN [run EXCEPT !.step = "commit", !.answer = run.said]
            ELSE [run EXCEPT !.step = "tool"]
  /\ UNCHANGED log /\ RunsAlone

CallTool ==
  /\ run.step = "tool"
  /\ run' = [run EXCEPT !.step = "dispatch"]
  /\ Write("tool-call", Head(run.calls).id)
  /\ RunsAlone

\* An unknown tool, and one that throws, give an error as their output.
ToolAnswers ==
  /\ run.step = "dispatch"
  /\ run' = [run EXCEPT !.step = "answered",
                        !.unserved = @ \cup ({Head(run.calls).tool} \ ToolDispatchers)]
  /\ Write("tool-result", Head(run.calls).id)
  /\ RunsAlone

\* The next call, the next model step, or the end of the loop, without an answer.
ToolRecorded ==
  /\ run.step = "answered"
  /\ LET over == Len(run.calls) = 1
         last == run.iteration + 1 >= MaxLoopSteps[run.agent]
     IN run' = [run EXCEPT
          !.calls = Tail(@), !.tools = @ + 1,
          !.iteration = IF over THEN @ + 1 ELSE @,
          !.attempt = IF over THEN @ + 1 ELSE @,
          !.said = IF over THEN <<>> ELSE @,
          !.step = IF ~over THEN "tool" ELSE IF last THEN "commit" ELSE "model"]
  /\ UNCHANGED log /\ RunsAlone

\* commitConversationStep: the turn with the answer, if the loop produced any.
\* Run again, it writes the same row.
CommitTurn ==
  /\ run.step = "commit"
  /\ row' = [answer |-> run.answer, saved |-> TRUE]
  /\ run' = [run EXCEPT !.step = "finish"]
  /\ UNCHANGED <<log, owned, reader, shown, faults>>

FinishLoop ==
  /\ run.step = "finish"
  /\ Write("loop-finish", Nothing)
  /\ run' = [run EXCEPT !.step = "closing"]
  /\ RunsAlone

CloseStream ==
  /\ run.step = "closing"
  /\ run' = [run EXCEPT !.step = "done"]
  /\ UNCHANGED log /\ RunsAlone

\* A step is cut off before its result is recorded and runs again: the model is
\* asked anew, a tool is called anew, and what was written stays in the stream.
Retry ==
  /\ run.retries < MaxRetries
  /\ LET again == [run EXCEPT !.retries = @ + 1]
     IN \/ /\ "retry" \in faults /\ run.step \in {"model", "modelled"}
           /\ run' = [again EXCEPT !.step = "model", !.attempt = @ + 1, !.said = <<>>, !.calls = <<>>]
        \/ "retry" \in faults /\ run.step \in {"dispatch", "answered"} /\ run' = [again EXCEPT !.step = "tool"]
        \/ "refinish" \in faults /\ run.step = "closing" /\ run' = [again EXCEPT !.step = "finish"]
  /\ UNCHANGED log /\ RunsAlone

\* A step is out of retries: the run ends, and the stream just stops.
GiveUp ==
  /\ "fail" \in faults /\ run.step \in {"model", "dispatch", "commit"}
  /\ run' = [run EXCEPT !.step = "failed"]
  /\ UNCHANGED log /\ RunsAlone

-----------------------------------------------------------------------------
\* The POST has started the run: it records the owner and streams from the
\* start.  Killed in between it leaves a run that nobody can reattach to.
Record ==
  /\ shown.reads = 0
  /\ shown' = [shown EXCEPT !.reads = 1]
  /\ \/ owned' = TRUE /\ reader' = Connection(0)
     \/ "unowned" \in faults /\ UNCHANGED <<owned, reader>>
  /\ UNCHANGED <<run, log, row, faults>>

Read ==
  /\ reader.open /\ reader.pos < Len(log)
  /\ LET t == Translate(reader.tr, log[reader.pos + 1])
     IN reader' = [reader EXCEPT !.pos = @ + 1, !.tr = t.to,
                                 !.out = @ \o When(reader.pos >= reader.skip, t.chunks)]
  /\ UNCHANGED <<run, log, row, owned, shown, faults>>

\* The connection is lost, with what it had sent read by the client.
Drop ==
  /\ "lost" \in faults /\ reader.open /\ reader' = [reader EXCEPT !.open = FALSE]
  /\ UNCHANGED <<run, log, row, owned, shown, faults>>

\* ?startIndex: absent, counted from the tail if negative, cut at the tail.
Resolve(wanted, absent) ==
  IF absent THEN 0
  ELSE IF wanted < 0 THEN Max({0, Len(log) + wanted}) ELSE Min({wanted, Len(log)})

\* The events the client has behind it.
Seen == Max({reader.skip, reader.pos})

\* A GET by the owner opens the stream at its first event and skips.  A client
\* that comes back where it was keeps its chunks; one that starts over, or asks
\* for the tail, has none.
Reattach(wanted, absent) ==
  LET skip == Resolve(wanted, absent)
  IN /\ owned /\ ~reader.open /\ shown.reads < MaxReads
     /\ reader' = Connection(skip)
     /\ shown' = [chunks |-> When(skip = Seen, shown.chunks \o reader.out),
                  whole |-> (skip = 0 \/ (shown.whole /\ skip = Seen)),
                  reads |-> shown.reads + 1]
     /\ UNCHANGED <<run, log, row, owned, faults>>

Attach == \E wanted \in {Seen, -1, Len(log) + 1}, absent \in BOOLEAN : Reattach(wanted, absent)

Next ==
  \/ Say \/ Conclude \/ ModelRecorded \/ CallTool \/ ToolAnswers \/ ToolRecorded
  \/ CommitTurn \/ FinishLoop \/ CloseStream \/ Retry \/ GiveUp
  \/ Record \/ Read \/ Drop \/ Attach

Spec == Init /\ [][Next]_vars

-----------------------------------------------------------------------------
StepNames == {"model", "modelled", "tool", "dispatch", "answered", "commit", "finish", "closing", "done", "failed"}

TypeOK ==
  /\ run.agent \in RunAgents /\ run.step \in StepNames
  /\ run.iteration \in 0..MaxLoopSteps[run.agent] /\ run.retries \in 0..MaxRetries
  /\ \A n \in DOMAIN log : log[n].iteration \in 0..run.iteration
  /\ row.saved \in BOOLEAN /\ owned \in BOOLEAN /\ reader.open \in BOOLEAN
  /\ reader.pos \in 0..Len(log) /\ reader.skip \in 0..Len(log)
  /\ shown.reads \in 0..MaxReads /\ faults \in StreamFaultSets

\* What the client has on screen, over all its connections.
Screen == shown.chunks \o reader.out

At(s, type) == {n \in DOMAIN s : s[n].type = type}

\* Before its n-th chunk, s has opened what it has not closed since.
Inside(s, opens, closes, n) ==
  \E k \in 1..n-1 : s[k].type = opens /\ \A j \in k+1..n-1 : s[j].type # closes

\* loop-event-to-ui-chunk.ts:9-12: the stream starts once, and finishes once and
\* last, where the step that says so is not run again; steps and texts open and
\* close in turn, texts and calls inside a step, an output after its input.
WellFormed(s) ==
  /\ At(s, "start") \subseteq {1} /\ (s # <<>> => s[1].type = "start")
  /\ At(s, "finish") # {} =>
       /\ ~Inside(s, "start-step", "finish-step", Len(s) + 1)
       /\ "refinish" \notin faults => At(s, "finish") = {Len(s)}
  /\ \A n \in DOMAIN s :
       CASE s[n].type \in {"start-step", "finish"} -> ~Inside(s, "start-step", "finish-step", n)
         [] s[n].type \in {"finish-step", "tool-input-start", "tool-input-available"} ->
              Inside(s, "start-step", "finish-step", n)
         [] s[n].type = "text-start" ->
              Inside(s, "start-step", "finish-step", n) /\ ~Inside(s, "text-start", "text-end", n)
         [] s[n].type \in {"text-delta", "text-end"} -> Inside(s, "text-start", "text-end", n)
         [] s[n].type = "tool-output-available" ->
              \E k \in At(s, "tool-input-available") : k < n /\ s[k].of = s[n].of
         [] OTHER -> TRUE
  /\ faults \cap {"retry", "refinish"} = {} =>
       \A type \in {"text-start", "tool-input-available", "tool-output-available"} :
         \A k, n \in At(s, type) : s[k].of = s[n].of => k = n

\* A client that comes back where its connection broke sees one well-formed
\* stream, as if it had not ([runId].get.ts:18-31).
OneStream == shown.whole => WellFormed(Screen)

Deltas(s) == SelectSeq([n \in DOMAIN s |-> IF s[n].type = "text-delta" THEN s[n].of ELSE Nothing],
                       LAMBDA d : d # Nothing)

\* Each connection sends the text written from its cursor on, which is never
\* past what was written when it was opened.
NothingSkipped ==
  /\ reader.skip <= reader.tail
  /\ Deltas(reader.out) = Deltas(SubSeq(log, reader.skip + 1, reader.pos))

\* A client that has seen the stream finish has seen the answer the row holds,
\* last, and reads the row with it.
FinishedIsSaved ==
  At(Screen, "finish") # {} =>
    row.saved /\ (shown.whole => IsSuffix(row.answer, Deltas(Screen)))

\* A tool an agent is given is served (agent-loop.ts:592).
CallsAreServed == run.unserved \cap ToolNames[run.agent] = {}

\* loop-event-to-ui-chunk.ts:19-25, [runId].get.ts:18-31: broken connections and
\* steps that run again leave the client with one stream that fits the row.
StreamInv == TypeOK /\ OneStream /\ NothingSkipped /\ FinishedIsSaved /\ CallsAreServed
=============================================================================
