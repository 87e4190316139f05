--------------------------- MODULE BrowserProofs ---------------------------
(***************************************************************************)
(* Proofs about what the browser keeps.  A conversation: for any           *)
(* specialists, forms, number of turns and sets of faults, a run reads the *)
(* turns before it, the row ends as what the tab shows, and a stream       *)
(* leaves the user's edits alone.  And the inputs of the forms, which tell *)
(* the truth in whatever order answers come.                               *)
(***************************************************************************)
EXTENDS ChatSession, BrowserInputs, FiniteSetTheorems, SequenceTheorems, WellFoundedInduction, TLAPS

-----------------------------------------------------------------------------
(***************************************************************************)
(* The inductive invariant: types.                                         *)
(***************************************************************************)

Canvases == Specs \cup {Null}
Over == {"done", "failed"}

Tabs == [open : BOOLEAN, messages : Seq(Messages), status : {"ready", "busy", "error"},
         ext : Extensions, stack : Seq(Entries), canvas : Canvases, edited : BOOLEAN,
         edits : Nat, pending : BOOLEAN, processed : SUBSET (0..MaxRuns), rendered : Nat,
         wasLoading : BOOLEAN, dirty : BOOLEAN, mounting : BOOLEAN, current : 0..MaxRuns]

RunStates == [pc : {"none", "load", "model", "commit", "finish"} \cup Over, agent : Agents,
              turn : Messages, canvas : Canvases, stack : Seq(Entries),
              history : Seq(Messages), steps : Nat]

Types ==
  /\ row \in Rows \cup {Null}
  /\ tab \in Tabs
  /\ saves \in Seq(Rows)
  /\ run \in [1..MaxRuns -> RunStates]

\* The runs are posted in order, and a tab that reads a run ends with a message
\* of its turn.
Counted == \E k \in 0..MaxRuns : Posted = 1..k

EndsInTurn(t) ==
  t.open /\ t.current # 0 => t.messages # <<>> /\ Last(t.messages).turn = t.current

IType == Types /\ Counted /\ EndsInTurn(tab)

-----------------------------------------------------------------------------
(***************************************************************************)
(* The inductive invariant: a tab that is not loaded again.                *)
(***************************************************************************)

Stays == "reload" \notin faults /\ tab.open

Has(messages, n, role) == \E i \in DOMAIN messages : messages[i].turn = n /\ messages[i].role = role
HasTurn(messages, n) == Has(messages, n, "user") /\ Has(messages, n, "assistant")

\* The tab reads the newest run, the only one that can be at work.
Sequential ==
  /\ Posted = 1..tab.current
  /\ \A n \in Posted : n # tab.current => run[n].pc \in Over
  /\ tab.current = 0 => tab.status = "ready" /\ tab.messages = <<>> /\ row = Null /\ saves = <<>>
  /\ tab.current # 0 =>
       /\ (tab.status = "ready") = (run[tab.current].pc = "done")
       /\ (tab.status = "busy") = (run[tab.current].pc \notin Over)

\* The tab shows every turn, and the answer of a run that has called its model.
TabHasTurns ==
  \A n \in Posted :
    /\ run[n].turn.turn = n /\ run[n].turn.role = "user"
    /\ Has(tab.messages, n, "user")
    /\ run[n].pc \in {"commit", "finish", "done"} => Has(tab.messages, n, "assistant")

\* What is saved, and what is read, has the turns that are over.
RowHasTurns ==
  "slow" \notin faults =>
    \A n \in Posted :
      /\ run[n].pc = "finish" => saves = <<>>
      /\ run[n].pc \in {"finish", "done"} => row # Null /\ HasTurn(row.messages, n)
      /\ run[n].pc = "done" => \A i \in DOMAIN saves : HasTurn(saves[i].messages, n)
      /\ run[n].pc \notin {"load", "failed"} =>
           /\ Has(run[n].history, n, "user")
           /\ \A k \in 1..n-1 : run[k].pc = "done" => HasTurn(run[n].history, k)

Unseen(t) == {i \in DOMAIN t.messages : IsHandoff(t.messages[i]) /\ t.messages[i].turn \notin t.processed}

\* Only the handoff of the answer that is streamed is new to the tab, and only
\* until the next render.
HandoffsSeen ==
  /\ ~tab.dirty \/ tab.status = "ready" => Unseen(tab) = {}
  /\ \A i \in Unseen(tab) : tab.messages[i].turn = tab.current

\* The tab knows that it was loading, until it has saved.
SaveIsDue ==
  /\ tab.status = "busy" /\ ~tab.dirty => tab.wasLoading
  /\ tab.status = "ready" /\ tab.wasLoading => tab.dirty

SameRow(r, t) == r.messages = t.messages /\ r.ext = t.ext /\ r.stack = t.stack

\* The last save, or the row once it has landed, is what the tab shows.
LastSaveFollows ==
  tab.status = "ready" /\ ~tab.wasLoading /\ tab.current # 0 =>
    IF saves = <<>> THEN row # Null /\ SameRow(row, tab) ELSE SameRow(Last(saves), tab)

IStays == Stays => /\ Sequential
                   /\ TabHasTurns
                   /\ RowHasTurns
                   /\ HandoffsSeen
                   /\ SaveIsDue
                   /\ LastSaveFollows

IInv == IType /\ IStays


-----------------------------------------------------------------------------
(***************************************************************************)
(* Messages and their keys.                                                *)
(***************************************************************************)

\* What a message appended at the end leaves to be found.
LEMMA AppendHas ==
  ASSUME NEW s \in Seq(Messages), NEW m \in Messages
  PROVE  /\ Append(s, m) \in Seq(Messages)
         /\ Append(s, m) # <<>> /\ Last(Append(s, m)) = m
         /\ Has(Append(s, m), m.turn, m.role)
         /\ \A n, role : Has(s, n, role) => Has(Append(s, m), n, role)
<1>1. /\ Append(s, m) \in Seq(Messages) /\ Len(Append(s, m)) = Len(s) + 1
      /\ Append(s, m)[Len(s) + 1] = m
      /\ \A i \in 1..Len(s) : Append(s, m)[i] = s[i]
      /\ DOMAIN s = 1..Len(s) /\ DOMAIN Append(s, m) = 1..(Len(s) + 1)
      /\ Len(s) \in Nat
  BY SMT
<1>2. Append(s, m) # <<>> /\ Last(Append(s, m)) = m
  BY <1>1 DEF Last
<1>3. Has(Append(s, m), m.turn, m.role)
  BY <1>1 DEF Has
<1>4. ASSUME NEW n, NEW role, Has(s, n, role) PROVE Has(Append(s, m), n, role)
  BY <1>1, <1>4 DEF Has
<1> QED BY <1>1, <1>2, <1>3, <1>4

\* The last message replaced by one of the same turn and role.
LEMMA ReplaceHas ==
  ASSUME NEW s \in Seq(Messages), s # <<>>, NEW m \in Messages,
         m.turn = Last(s).turn, m.role = Last(s).role
  PROVE  LET r == [s EXCEPT ![Len(s)] = m]
         IN /\ r \in Seq(Messages) /\ r # <<>> /\ Last(r) = m
            /\ \A n, role : Has(s, n, role) => Has(r, n, role)
            /\ Len(r) = Len(s) /\ \A i \in 1..Len(s) : i # Len(s) => r[i] = s[i]
<1> DEFINE r == [s EXCEPT ![Len(s)] = m]
<1>1. Len(s) \in Nat \ {0} /\ DOMAIN s = 1..Len(s)
  BY EmptySeq, SMT
<1>2. r \in Seq(Messages) /\ Len(r) = Len(s)
  BY <1>1, SMT
<1>3. r # <<>> /\ Last(r) = m /\ DOMAIN r = DOMAIN s
  BY <1>1, <1>2 DEF Last
<1>4. \A i \in 1..Len(s) : i # Len(s) => r[i] = s[i]
  BY <1>1
<1>5. ASSUME NEW n, NEW role, Has(s, n, role) PROVE Has(r, n, role)
  <2>1. PICK i \in DOMAIN s : s[i].turn = n /\ s[i].role = role
    BY <1>5 DEF Has
  <2>2. r[i].turn = n /\ r[i].role = role
    BY <2>1, <1>1, <1>3, <1>4 DEF Last
  <2> QED BY <2>2, <1>3 DEF Has
<1> QED BY <1>2, <1>3, <1>4, <1>5

\* A message of an assistant is one of the second kind.
LEMMA MessageKinds ==
  /\ \A n \in 0..MaxRuns : /\ \A text \in {"ask", "continue"} :
                              /\ Asked(n, text) \in Messages
                              /\ Asked(n, text).turn = n /\ Asked(n, text).role = "user"
                           /\ Answer(n) \in Messages /\ Answer(n).turn = n
                           /\ Answer(n).role = "assistant" /\ ~IsHandoff(Answer(n))
  /\ \A m \in Messages : /\ m.turn \in 0..MaxRuns /\ m.role \in {"user", "assistant"}
                         /\ m.role = "assistant" =>
                              m \in [turn : 0..MaxRuns, role : {"assistant"},
                                     handoff : Handoffs \cup {Null}, render : Renders \cup {Null}]
BY SMT DEF Messages, Asked, Answer, IsHandoff

-----------------------------------------------------------------------------
(***************************************************************************)
(* The effects.                                                            *)
(***************************************************************************)

\* The parts of a tab that neither a spec nor a handoff touches.
Framed(t, u) ==
  /\ u.open = t.open /\ u.messages = t.messages /\ u.status = t.status /\ u.edits = t.edits
  /\ u.wasLoading = t.wasLoading /\ u.dirty = t.dirty /\ u.mounting = t.mounting
  /\ u.current = t.current

\* A set of positions of a sequence that is not empty has a last one.
LEMMA LargestIndex ==
  ASSUME NEW S, NEW s \in Seq(S), NEW I \in SUBSET DOMAIN s, I # {}
  PROVE  \E i \in I : \A j \in I : j <= i
<1> DEFINE n == Len(s)
           T == {n - i : i \in I}
<1>1. n \in Nat /\ I \subseteq 1..n
  OBVIOUS
<1> HIDE DEF n
<1>2. T \subseteq Nat /\ T # {}
  <2>1. \A i \in I : n - i \in Nat
    BY <1>1
  <2> QED BY <2>1
<1>3. PICK m \in T : \A k \in T : ~(<<k, m>> \in OpToRel(<, Nat))
  BY <1>2, NatLessThanWellFounded, WFMin
<1>4. PICK i \in I : m = n - i
  BY <1>3
<1>5. \A j \in I : j <= i
  <2> SUFFICES ASSUME NEW j \in I, ~(j <= i) PROVE FALSE
    OBVIOUS
  <2>1. n - j \in T /\ n - j < m
    BY <1>1, <1>4
  <2> QED BY <1>2, <1>3, <2>1 DEF OpToRel
<1> QED BY <1>5

\* ApplySpec changes the canvas, and keeps the value of a form with an edit.
LEMMA ApplySpecType ==
  ASSUME NEW t \in Tabs, NEW spec \in Canvases
  PROVE  LET u == ApplySpec(t, spec)
         IN /\ u \in Tabs /\ Framed(t, u)
            /\ u.ext = t.ext /\ u.stack = t.stack /\ u.pending = t.pending
            /\ u.processed = t.processed /\ u.rendered = t.rendered
            /\ u.edited => t.edited /\ u.canvas.val = t.canvas.val
<1> DEFINE u == ApplySpec(t, spec)
<1>1. CASE spec = Null \/ t.canvas = Null \/ spec.form # t.canvas.form
  <2>1. u = [t EXCEPT !.canvas = spec, !.edited = FALSE]
    BY <1>1 DEF ApplySpec
  <2> QED BY <2>1 DEF Tabs, Framed
<1>2. CASE ~(spec = Null \/ t.canvas = Null \/ spec.form # t.canvas.form)
  <2> DEFINE c == [spec EXCEPT !.val = IF t.edited THEN t.canvas.val ELSE @]
  <2>1. u = [t EXCEPT !.canvas = c]
    BY <1>2 DEF ApplySpec
  <2>2. spec \in Specs /\ t.canvas \in Specs
    BY <1>2 DEF Tabs, Canvases
  <2>3. c \in Specs /\ (t.edited => c.val = t.canvas.val)
    BY <2>2 DEF Specs
  <2>4. c \in Canvases
    BY <2>3 DEF Canvases
  <2> HIDE DEF c
  <2> QED BY <2>1, <2>3, <2>4 DEF Tabs, Framed
<1> QED BY <1>1, <1>2

LEMMA ShowSpecType ==
  ASSUME NEW t \in Tabs
  PROVE  LET u == ShowSpec(t)
         IN /\ u \in Tabs /\ Framed(t, u)
            /\ u.ext = t.ext /\ u.stack = t.stack /\ u.pending = t.pending
            /\ u.processed = t.processed
            /\ u.edited => t.edited /\ u.canvas.val = t.canvas.val
<1> DEFINE all == {i \in DOMAIN t.messages : IsRender(t.messages[i])}
           k == CHOOSE i \in all : \A j \in all : j <= i
           r == t.messages[k].render
<1>1. CASE all = {} \/ r.key = t.rendered
  <2>1. ShowSpec(t) = t
    BY <1>1 DEF ShowSpec
  <2> QED BY <2>1 DEF Framed
<1>2. CASE all # {} /\ r.key # t.rendered
  <2>0. t.messages \in Seq(Messages)
    BY DEF Tabs
  <2>1. k \in all
    <3>1. all \in SUBSET Nat /\ IsFiniteSet(all)
      <4>1. DOMAIN t.messages = 1..Len(t.messages) /\ Len(t.messages) \in Nat
        BY <2>0
      <4>2. IsFiniteSet(1..Len(t.messages))
        BY <4>1, FS_Interval
      <4> QED BY <4>1, <4>2, FS_Subset
    <3>2. \E i \in all : \A j \in all : j <= i
      BY <1>2, <2>0, LargestIndex DEF IsRender
    <3> QED BY <3>2
  <2> HIDE DEF k
  <2>2. r \in Renders
    <3>1. t.messages[k] \in Messages /\ IsRender(t.messages[k])
      BY <2>0, <2>1
    <3> QED BY <3>1, MessageKinds DEF IsRender
  <2>3. r.spec \in Canvases /\ r.key \in Nat
    BY <2>2 DEF Renders, Canvases
  <2> DEFINE a == ApplySpec(t, r.spec)
  <2>4. ShowSpec(t) = [a EXCEPT !.rendered = r.key]
    BY <1>2 DEF ShowSpec, k
  <2>5. /\ a \in Tabs /\ Framed(t, a) /\ a.ext = t.ext /\ a.stack = t.stack
        /\ a.pending = t.pending /\ a.processed = t.processed
        /\ a.edited => t.edited /\ a.canvas.val = t.canvas.val
    BY <2>3, ApplySpecType
  <2> HIDE DEF a, r
  <2> QED BY SMTT(40), <2>3, <2>4, <2>5 DEF Tabs, Framed
<1> QED BY <1>1, <1>2

\* The three cases of a handoff keep all but the agent, the stack and the canvas.
LEMMA PopType ==
  ASSUME NEW t \in Tabs, t.stack # <<>>
  PROVE  LET u == Pop(t)
         IN /\ u \in Tabs /\ Framed(t, u)
            /\ u.processed = t.processed
            /\ u.edited => t.edited /\ u.canvas.val = t.canvas.val
            /\ Last(t.stack).ext \in Specialists
<1>1. /\ t.stack \in Seq(Entries) /\ Last(t.stack) \in Entries /\ Front(t.stack) \in Seq(Entries)
  <2>1. t.stack \in Seq(Entries)
    BY DEF Tabs
  <2>2. Len(t.stack) \in Nat \ {0}
    BY <2>1, EmptySeq
  <2> QED BY <2>1, <2>2 DEF Last, Front
<1>2. Last(t.stack).canvas \in Canvases /\ Last(t.stack).ext \in Specialists
  BY <1>1 DEF Entries, Canvases
<1> DEFINE a == ApplySpec(t, Last(t.stack).canvas)
<1>3. /\ a \in Tabs /\ Framed(t, a) /\ a.processed = t.processed
      /\ a.edited => t.edited /\ a.canvas.val = t.canvas.val
  BY <1>2, ApplySpecType
<1>4. Pop(t) = [a EXCEPT !.stack = Front(t.stack)]
  BY DEF Pop
<1> HIDE DEF a
<1> QED BY <1>1, <1>2, <1>3, <1>4 DEF Tabs, Framed

Detected(t, u) ==
  /\ u \in Tabs /\ Framed(t, u)
  /\ u.processed = t.processed
  /\ u.edited => t.edited /\ u.canvas.val = t.canvas.val

LEMMA ForwardType ==
  ASSUME NEW t \in Tabs, NEW target \in Agents
  PROVE  Detected(t, Forward(t, target))
<1>1. CASE target = t.ext
  BY <1>1 DEF Forward, Detected, Framed
<1>2. CASE target # t.ext
  <2> DEFINE resume == t.stack # <<>> /\ Last(t.stack).ext = target
             p == IF resume THEN Pop(t) ELSE t
  <2>1. p \in Tabs /\ Framed(t, p) /\ p.processed = t.processed
        /\ (p.edited => t.edited /\ p.canvas.val = t.canvas.val)
    BY PopType DEF Framed
  <2>2. Forward(t, target) = [p EXCEPT !.ext = target, !.pending = TRUE]
    BY <1>2 DEF Forward
  <2>3. target \in Extensions
    BY DEF Agents, Extensions
  <2> HIDE DEF p
  <2> QED BY ZenonT(40), <2>1, <2>2, <2>3 DEF Tabs, Framed, Detected
<1> QED BY <1>1, <1>2

LEMMA PauseType ==
  ASSUME NEW t \in Tabs, NEW from \in Specialists
  PROVE  Detected(t, Pause(t, from))
<1>1. Append(t.stack, [ext |-> from, canvas |-> t.canvas]) \in Seq(Entries)
  BY DEF Tabs, Entries, Canvases
<1>2. Null \in Extensions
  BY DEF Extensions
<1> QED BY <1>1, <1>2 DEF Pause, Tabs, Framed, Detected

LEMMA CompleteType ==
  ASSUME NEW t \in Tabs
  PROVE  Detected(t, Complete(t))
<1>1. CASE t.stack = <<>>
  <2>1. Complete(t) = [t EXCEPT !.ext = Null, !.pending = TRUE] /\ Null \in Extensions
    BY <1>1 DEF Complete, Extensions
  <2> QED BY <2>1 DEF Tabs, Framed, Detected
<1>2. CASE t.stack # <<>>
  <2> DEFINE p == Pop(t)
             x == Last(t.stack).ext
  <2>1. p \in Tabs /\ Framed(t, p) /\ p.processed = t.processed
        /\ (p.edited => t.edited /\ p.canvas.val = t.canvas.val) /\ x \in Specialists
    BY <1>2, PopType
  <2>2. Complete(t) = [p EXCEPT !.ext = x, !.pending = TRUE]
    BY <1>2 DEF Complete
  <2>3. x \in Extensions
    BY <2>1 DEF Extensions
  <2> HIDE DEF p, x
  <2> QED BY ZenonT(40), <2>1, <2>2, <2>3 DEF Tabs, Framed, Detected
<1> QED BY <1>1, <1>2

\* Detect looks at the newest handoff, marks its turn, and leaves a tab that has
\* none to look at as it is.
LEMMA DetectType ==
  ASSUME NEW t \in Tabs
  PROVE  LET u == Detect(t)
         IN /\ u \in Tabs /\ Framed(t, u)
            /\ u.edited => t.edited /\ u.canvas.val = t.canvas.val
            /\ Unseen(t) = {} => u = t
            /\ Unseen(t) # {} =>
                 \E i \in Unseen(t) : u.processed = t.processed \cup {t.messages[i].turn}
<1> DEFINE new == Unseen(t)
           i == CHOOSE i \in new : \A k \in new : k <= i
           m == t.messages[i]
           seen == [t EXCEPT !.processed = @ \cup {m.turn}]
<1>1. CASE new = {}
  <2>1. Detect(t) = t
    BY <1>1 DEF Detect, Unseen
  <2> QED BY <1>1, <2>1 DEF Framed
<1>2. CASE new # {}
  <2>0. t.messages \in Seq(Messages)
    BY DEF Tabs
  <2>1. i \in new
    <3>1. \E j \in new : \A k \in new : k <= j
      BY <1>2, <2>0, LargestIndex DEF Unseen
    <3> QED BY <3>1
  <2> HIDE DEF i
  <2>2. m \in Messages /\ IsHandoff(m) /\ m.turn \in 0..MaxRuns
    BY <2>0, <2>1, MessageKinds DEF Unseen
  <2>3. m.handoff \in Handoffs
    BY <2>2, MessageKinds DEF IsHandoff
  <2> HIDE DEF m
  <2>4. seen \in Tabs /\ Framed(t, seen) /\ seen.processed = t.processed \cup {m.turn}
        /\ seen.canvas = t.canvas /\ seen.edited = t.edited
    BY <2>2 DEF Tabs, Framed
  <2>5. Detect(t) = CASE m.handoff.tool = "refused" -> seen
                      [] m.handoff.tool = "handoff" -> Forward(seen, m.handoff.agent)
                      [] m.handoff.tool = "pause" -> Pause(seen, m.handoff.agent)
                      [] m.handoff.tool = "complete" -> Complete(seen)
    BY <1>2 DEF Detect, Unseen, m, i
  <2> HIDE DEF seen
  <2>6. Detected(seen, Detect(t))
    <3>1. CASE m.handoff.tool = "refused"
      BY <2>4, <2>5, <3>1 DEF Detected, Framed
    <3>2. CASE m.handoff.tool = "handoff"
      <4>1. m.handoff.agent \in Agents
        BY <2>3 DEF Handoffs, Agents
      <4> QED BY <2>4, <2>5, <3>2, <4>1, ForwardType
    <3>3. CASE m.handoff.tool = "pause"
      <4>1. m.handoff.agent \in Specialists
        BY <2>3, <3>3 DEF Handoffs
      <4> QED BY <2>4, <2>5, <3>3, <4>1, PauseType
    <3>4. CASE m.handoff.tool = "complete"
      BY <2>4, <2>5, <3>4, CompleteType
    <3> QED BY <2>3, <3>1, <3>2, <3>3, <3>4 DEF Handoffs
  <2>7. Detect(t) \in Tabs /\ Framed(t, Detect(t)) /\ Detect(t).processed = t.processed \cup {m.turn}
        /\ (Detect(t).edited => t.edited /\ Detect(t).canvas.val = t.canvas.val)
    BY <2>4, <2>6 DEF Detected, Framed
  <2> QED BY <1>2, <2>1, <2>7 DEF m
<1> QED BY <1>1, <1>2

\* The state the effects leave, before a turn that answers a handoff.
Shown(c) ==
  /\ c \in Tabs
  /\ c.open = tab.open /\ c.messages = tab.messages /\ c.status = tab.status
  /\ c.current = tab.current /\ c.wasLoading = (tab.status = "busy")
  /\ c.edited => tab.edited /\ c.canvas.val = tab.canvas.val
  /\ Unseen(tab) = {} => c.ext = tab.ext /\ c.stack = tab.stack
                        /\ c.processed = tab.processed /\ ~c.dirty
  /\ Unseen(tab) # {} =>
       \E i \in Unseen(tab) : c.processed = tab.processed \cup {tab.messages[i].turn}

LEMMA EffectsStep ==
  ASSUME Types, Effects
  PROVE  \E c : /\ Shown(c)
                /\ \/ tab' = c /\ run' = run
                   \/ /\ c.status = "ready" /\ NextRun <= MaxRuns
                      /\ tab' = Submitted(c, "continue")
                      /\ \E p \in Tabs : run' = [run EXCEPT ![NextRun] = Post(p, "continue")]
<1> DEFINE u == Detect(tab)
           d == [u EXCEPT !.wasLoading = tab.status = "busy", !.mounting = FALSE]
           clean == [d EXCEPT !.dirty = d.ext # tab.ext]
           asked == [clean EXCEPT !.pending = FALSE]
<1>0. tab \in Tabs
  BY DEF Types
<1>1. /\ u \in Tabs /\ Framed(tab, u)
      /\ u.edited => tab.edited /\ u.canvas.val = tab.canvas.val
      /\ Unseen(tab) = {} => u = tab
      /\ Unseen(tab) # {} =>
           \E i \in Unseen(tab) : u.processed = tab.processed \cup {tab.messages[i].turn}
  BY <1>0, DetectType
<1>2. \/ /\ clean.status = "ready" /\ NextRun <= MaxRuns
         /\ tab' = Submitted(ShowSpec(asked), "continue")
         /\ run' = [run EXCEPT ![NextRun] = Post(ShowSpec(clean), "continue")]
      \/ tab' = ShowSpec(clean) /\ run' = run
  BY DEF Effects
<1> HIDE DEF u
<1>3. \A x \in {clean, asked} :
        /\ x \in Tabs
        /\ x.open = u.open /\ x.messages = u.messages /\ x.status = u.status /\ x.current = u.current
        /\ x.wasLoading = (tab.status = "busy") /\ x.dirty = (u.ext # tab.ext)
        /\ x.ext = u.ext /\ x.stack = u.stack /\ x.processed = u.processed
        /\ x.edited = u.edited /\ x.canvas = u.canvas
  <2>1. (tab.status = "busy") \in BOOLEAN /\ (u.ext # tab.ext) \in BOOLEAN
    OBVIOUS
  <2>2. /\ d \in Tabs /\ d.open = u.open /\ d.messages = u.messages /\ d.status = u.status
        /\ d.current = u.current /\ d.wasLoading = (tab.status = "busy")
        /\ d.ext = u.ext /\ d.stack = u.stack /\ d.processed = u.processed
        /\ d.edited = u.edited /\ d.canvas = u.canvas
    BY <1>1, <2>1 DEF Tabs
  <2> HIDE DEF d
  <2>3. /\ clean \in Tabs /\ clean.open = d.open /\ clean.messages = d.messages
        /\ clean.status = d.status /\ clean.current = d.current /\ clean.wasLoading = d.wasLoading
        /\ clean.dirty = (d.ext # tab.ext)
        /\ clean.ext = d.ext /\ clean.stack = d.stack /\ clean.processed = d.processed
        /\ clean.edited = d.edited /\ clean.canvas = d.canvas
    BY <2>2 DEF Tabs
  <2> HIDE DEF clean
  <2>4. /\ asked \in Tabs /\ asked.open = clean.open /\ asked.messages = clean.messages
        /\ asked.status = clean.status /\ asked.current = clean.current
        /\ asked.wasLoading = clean.wasLoading /\ asked.dirty = clean.dirty
        /\ asked.ext = clean.ext /\ asked.stack = clean.stack /\ asked.processed = clean.processed
        /\ asked.edited = clean.edited /\ asked.canvas = clean.canvas
    BY <2>3 DEF Tabs
  <2> HIDE DEF asked
  <2> QED BY <2>2, <2>3, <2>4
<1> HIDE DEF clean, asked
<1>4. ASSUME NEW x \in {clean, asked} PROVE Shown(ShowSpec(x)) /\ ShowSpec(x).status = x.status
  <2> DEFINE c == ShowSpec(x)
  <2>1. /\ c \in Tabs /\ Framed(x, c) /\ c.ext = x.ext /\ c.stack = x.stack
        /\ c.processed = x.processed
        /\ (c.edited => x.edited /\ c.canvas.val = x.canvas.val)
    BY <1>3, ShowSpecType
  <2> HIDE DEF c
  <2>2. c.open = tab.open /\ c.messages = tab.messages /\ c.status = tab.status
        /\ c.current = tab.current /\ c.wasLoading = (tab.status = "busy")
    BY <1>1, <1>3, <2>1 DEF Framed
  <2>3. c.edited => tab.edited /\ c.canvas.val = tab.canvas.val
    BY <1>1, <1>3, <2>1
  <2>4. Unseen(tab) = {} => c.ext = tab.ext /\ c.stack = tab.stack
                          /\ c.processed = tab.processed /\ ~c.dirty
    BY <1>1, <1>3, <2>1 DEF Framed
  <2>5. Unseen(tab) # {} =>
          \E i \in Unseen(tab) : c.processed = tab.processed \cup {tab.messages[i].turn}
    BY <1>1, <1>3, <2>1
  <2>6. c.status = x.status
    BY <2>1 DEF Framed
  <2> QED BY <2>1, <2>2, <2>3, <2>4, <2>5, <2>6 DEF Shown, c
<1>5. Shown(ShowSpec(clean)) /\ Shown(ShowSpec(asked))
  BY <1>4
<1>6. ShowSpec(clean) \in Tabs /\ ShowSpec(asked).status = clean.status
  BY <1>3, <1>4, <1>5 DEF Shown
<1> QED BY <1>2, <1>5, <1>6

-----------------------------------------------------------------------------
(***************************************************************************)
(* Types, and the order of the runs.                                       *)
(***************************************************************************)

LEMMA NextRunIs ==
  ASSUME NEW k \in 0..MaxRuns, Posted = 1..k
  PROVE  NextRun = k + 1
<1>1. Cardinality(1..k) = k
  BY FS_Interval, ChatAssumption
<1> QED BY <1>1, ChatAssumption DEF NextRun

\* A turn that is sent: the tab reads a new run.
LEMMA SubmitType ==
  ASSUME NEW t \in Tabs, NEW p \in Tabs, NEW text \in {"ask", "continue"}, NextRun \in 1..MaxRuns
  PROVE  LET u == Submitted(t, text)
             q == Post(p, text)
         IN /\ u \in Tabs /\ u.open = t.open /\ u.status = "busy" /\ u.current = NextRun /\ u.dirty
            /\ u.messages = Append(t.messages, Asked(NextRun, text))
            /\ u.processed = t.processed /\ u.edited = t.edited /\ u.canvas = t.canvas
            /\ q \in RunStates /\ q.pc = "load" /\ q.turn = Asked(NextRun, text)
<1>1. NextRun \in 0..MaxRuns /\ Asked(NextRun, text) \in Messages
  BY MessageKinds, ChatAssumption
<1>2. Append(t.messages, Asked(NextRun, text)) \in Seq(Messages)
  BY <1>1, AppendHas DEF Tabs
<1>3. AgentOf(p.ext) \in Agents
  BY DEF AgentOf, Agents
<1> DEFINE u == Submitted(t, text)
           q == Post(p, text)
           s == Append(t.messages, Asked(NextRun, text))
           n == NextRun
           a == Asked(NextRun, text)
<1>4. u = [t EXCEPT !.messages = s, !.status = "busy", !.current = n, !.dirty = TRUE]
  BY DEF Submitted
<1>5. q = [pc |-> "load", agent |-> AgentOf(p.ext), turn |-> a, canvas |-> p.canvas,
           stack |-> p.stack, history |-> <<>>, steps |-> 0]
  <2> DEFINE zero == Asked(0, "ask")
             g == AgentOf(p.ext)
             c == p.canvas
             k == p.stack
  <2>1. NoRun = [pc |-> "none", agent |-> Assistant, turn |-> zero, canvas |-> Null,
                 stack |-> <<>>, history |-> <<>>, steps |-> 0]
    BY DEF NoRun
  <2>2. q = [NoRun EXCEPT !.pc = "load", !.agent = g, !.turn = a, !.canvas = c, !.stack = k]
    BY DEF Post
  <2> HIDE DEF zero, g, c, k, a, q
  <2>3. q = [pc |-> "load", agent |-> g, turn |-> a, canvas |-> c, stack |-> k,
             history |-> <<>>, steps |-> 0]
    BY <2>1, <2>2
  <2> QED BY <2>3 DEF g, c, k
<1>6. /\ u \in Tabs /\ u.open = t.open /\ u.status = "busy" /\ u.current = n /\ u.dirty
      /\ u.messages = s
      /\ u.processed = t.processed /\ u.edited = t.edited /\ u.canvas = t.canvas
  <2> HIDE DEF s, n, u
  <2>1. s \in Seq(Messages) /\ n \in 0..MaxRuns
    BY <1>1, <1>2 DEF s, n
  <2> QED BY <1>4, <2>1 DEF Tabs
<1>7. q \in RunStates /\ q.pc = "load" /\ q.turn = a
  <2> HIDE DEF a, q
  <2>1. a \in Messages /\ <<>> \in Seq(Messages)
    BY <1>1 DEF a
  <2> QED BY <1>3, <1>5, <2>1 DEF Tabs, RunStates
<1> QED BY <1>6, <1>7

\* The run that is posted comes after all the others.
LEMMA PostedNext ==
  ASSUME Types, NEW k \in 0..MaxRuns, Posted = 1..k, NextRun <= MaxRuns,
         NEW q \in RunStates, q.pc = "load", run' = [run EXCEPT ![NextRun] = q]
  PROVE  /\ NextRun = k + 1 /\ NextRun \in 1..MaxRuns
         /\ Posted' = 1..NextRun
         /\ run' \in [1..MaxRuns -> RunStates]
         /\ run'[NextRun] = q /\ \A n \in 1..MaxRuns : n # NextRun => run'[n] = run[n]
<1>1. NextRun = k + 1 /\ NextRun \in 1..MaxRuns
  BY NextRunIs, ChatAssumption
<1>2. /\ run' \in [1..MaxRuns -> RunStates]
      /\ run'[NextRun] = q /\ \A n \in 1..MaxRuns : n # NextRun => run'[n] = run[n]
  BY <1>1 DEF Types
<1>3. \A n \in 1..MaxRuns : (run'[n].pc # "none") = (n \in 1..NextRun)
  BY <1>1, <1>2 DEF Posted
<1>4. Posted' = {n \in 1..MaxRuns : run'[n].pc # "none"}
  BY DEF Posted
<1>5. Posted' = 1..NextRun
  BY <1>1, <1>3, <1>4, ChatAssumption
<1> QED BY <1>1, <1>2, <1>5

-----------------------------------------------------------------------------
(***************************************************************************)
(* The answer of a run.                                                    *)
(***************************************************************************)

\* A tab that has more of the answer of run n.
Extends(n, t, u) ==
  /\ u \in Tabs /\ u = [t EXCEPT !.messages = u.messages]
  /\ u.messages # <<>> /\ Last(u.messages).turn = n /\ Last(u.messages).role = "assistant"
  /\ \A k, role : Has(t.messages, k, role) => Has(u.messages, k, role)
  /\ \A i \in DOMAIN u.messages :
       u.messages[i].turn = n \/ (i \in DOMAIN t.messages /\ u.messages[i] = t.messages[i])

LEMMA OpenedType ==
  ASSUME NEW t \in Tabs, NEW n \in 0..MaxRuns, t.messages # <<>>, Last(t.messages).turn = n
  PROVE  Extends(n, t, Opened(n, t))
<1> DEFINE s == t.messages
           u == Opened(n, t)
<1>0. s \in Seq(Messages) /\ Len(s) \in Nat \ {0} /\ Last(s) \in Messages
  <2>1. s \in Seq(Messages)
    BY DEF Tabs
  <2>2. Len(s) \in Nat \ {0}
    BY <2>1, EmptySeq
  <2> QED BY <2>1, <2>2 DEF Last
<1>1. CASE Last(s).role = "user"
  <2> DEFINE w == Append(s, Answer(n))
  <2>1. /\ Answer(n) \in Messages /\ Answer(n).turn = n /\ Answer(n).role = "assistant"
    BY MessageKinds
  <2>2. /\ w \in Seq(Messages) /\ w # <<>> /\ Last(w) = Answer(n)
        /\ \A k, role : Has(s, k, role) => Has(w, k, role)
    BY <1>0, <2>1, AppendHas
  <2>3. \A i \in DOMAIN w : w[i].turn = n \/ (i \in DOMAIN s /\ w[i] = s[i])
    <3> HIDE DEF s
    <3>1. Len(w) = Len(s) + 1 /\ DOMAIN w = 1..(Len(s) + 1) /\ DOMAIN s = 1..Len(s)
          /\ w[Len(s) + 1] = Answer(n) /\ \A i \in 1..Len(s) : w[i] = s[i]
      BY <1>0, <2>1
    <3> QED BY <1>0, <2>1, <3>1
  <2>4. u = [t EXCEPT !.messages = w]
    BY <1>0, <1>1 DEF Opened
  <2> HIDE DEF w, u
  <2>5. u \in Tabs /\ u.messages = w
    BY <2>2, <2>4 DEF Tabs
  <2> QED BY <2>1, <2>2, <2>3, <2>4, <2>5 DEF Extends, u
<1>2. CASE Last(s).role # "user"
  <2>1. u = t
    BY <1>2 DEF Opened
  <2>2. Last(s).role = "assistant"
    BY <1>0, <1>2, MessageKinds
  <2>3. t = [t EXCEPT !.messages = t.messages]
    BY DEF Tabs
  <2> QED BY <1>0, <2>1, <2>2, <2>3 DEF Extends
<1> QED BY <1>1, <1>2

\* A part of the answer.
LEMMA PartType ==
  ASSUME NEW t \in Tabs, NEW n \in 0..MaxRuns, NEW o, Extends(n, t, o),
         NEW m \in Messages, m.turn = n, m.role = "assistant"
  PROVE  Extends(n, t, [o EXCEPT !.messages[Len(o.messages)] = m])
<1> DEFINE s == o.messages
           w == [s EXCEPT ![Len(s)] = m]
           u == [o EXCEPT !.messages[Len(o.messages)] = m]
<1>1. s \in Seq(Messages) /\ s # <<>> /\ Last(s).turn = n /\ Last(s).role = "assistant"
      /\ \A k, role : Has(t.messages, k, role) => Has(s, k, role)
  BY DEF Extends, Tabs
<1>2. /\ w \in Seq(Messages) /\ w # <<>> /\ Last(w) = m
      /\ \A k, role : Has(s, k, role) => Has(w, k, role)
      /\ Len(w) = Len(s) /\ \A i \in 1..Len(s) : i # Len(s) => w[i] = s[i]
  BY <1>1, ReplaceHas
<1>3. u = [o EXCEPT !.messages = w]
  BY DEF Extends, Tabs
<1>4. \A i \in DOMAIN w : w[i].turn = n \/ (i \in DOMAIN t.messages /\ w[i] = t.messages[i])
  <2>1. DOMAIN w = 1..Len(s) /\ DOMAIN s = 1..Len(s) /\ w[Len(s)] = m
    BY <1>1, <1>2 DEF Last
  <2> QED BY <1>2, <2>1 DEF Extends
<1> HIDE DEF w, u
<1>5. u \in Tabs /\ u.messages = w
  BY <1>2, <1>3 DEF Extends, Tabs
<1>6. u = [t EXCEPT !.messages = w]
  BY <1>3 DEF Extends, Tabs
<1>7. Extends(n, t, u)
  BY <1>1, <1>2, <1>4, <1>5, <1>6 DEF Extends
<1> QED BY <1>7 DEF u

\* What a call of the model changes.
Answers(n) ==
  /\ ~tab.dirty /\ run[n].pc = "model" /\ n \in Posted
  /\ run' = [run EXCEPT ![n] = run'[n]]
  /\ run'[n] \in RunStates /\ run'[n].pc \in {"model", "commit"}
  /\ run'[n].history = run[n].history /\ run'[n].turn = run[n].turn
  /\ IF tab.open /\ tab.current = n
       THEN \E u : Extends(n, tab, u) /\ tab' = [u EXCEPT !.dirty = TRUE]
       ELSE tab' = tab
  /\ UNCHANGED <<row, saves, faults>>

LEMMA AnswersStep ==
  ASSUME IType, NEW n \in 1..MaxRuns,
         \/ ModelText(n)
         \/ \E agent \in Agents, spelling \in {"extension", "agent"} : ToolHandoff(n, agent, spelling)
         \/ \E spec \in Specs : ToolRender(n, spec)
  PROVE  Answers(n)
<1>0. /\ tab \in Tabs /\ run \in [1..MaxRuns -> RunStates] /\ n \in 0..MaxRuns /\ n # 0
      /\ run[n] \in RunStates
  BY ChatAssumption DEF IType, Types
<1>1. tab.open /\ tab.current = n => Extends(n, tab, Opened(n, tab))
  <2>1. tab.open /\ tab.current = n => tab.messages # <<>> /\ Last(tab.messages).turn = n
    BY <1>0 DEF IType, EndsInTurn
  <2> QED BY <1>0, <2>1, OpenedType
<1>2. ASSUME AfterTool(n), run[n].pc = "model"
      PROVE  /\ run' = [run EXCEPT ![n] = run'[n]]
             /\ run'[n] \in RunStates /\ run'[n].pc \in {"model", "commit"}
             /\ run'[n].history = run[n].history /\ run'[n].turn = run[n].turn
  <2> DEFINE e == IF run[n].steps + 1 < MaxSteps THEN "model" ELSE "commit"
             k == run[n].steps + 1
             q == [run[n] EXCEPT !.steps = k, !.pc = e]
  <2>1. run' = [run EXCEPT ![n] = q]
    BY <1>0, <1>2 DEF AfterTool
  <2>2. e \in {"model", "commit"}
    OBVIOUS
  <2>a. k \in Nat
    BY <1>0 DEF RunStates
  <2> HIDE DEF e, k
  <2>3. q \in RunStates /\ q.pc \in {"model", "commit"}
        /\ q.history = run[n].history /\ q.turn = run[n].turn
    BY <1>0, <2>2, <2>a DEF RunStates
  <2> HIDE DEF q
  <2>4. run'[n] = q
    BY <1>0, <2>1
  <2> QED BY <2>1, <2>3, <2>4
<1>3. run[n].pc = "model" => n \in Posted
  BY DEF Posted
<1>4. CASE ModelText(n)
  <2>1. /\ run[n].pc = "model" /\ run' = [run EXCEPT ![n].pc = "commit"]
        /\ ~tab.dirty /\ UNCHANGED <<row, saves, faults>>
        /\ tab' = Streamed(n, Opened(n, tab))
    BY <1>4 DEF ModelText, Step
  <2>2. /\ run' = [run EXCEPT ![n] = run'[n]]
        /\ run'[n] \in RunStates /\ run'[n].pc \in {"model", "commit"}
        /\ run'[n].history = run[n].history /\ run'[n].turn = run[n].turn
    BY <1>0, <2>1 DEF RunStates
  <2> QED BY <1>1, <1>3, <2>1, <2>2 DEF Answers, Streamed
<1>5. ASSUME NEW agent \in Agents, NEW spelling \in {"extension", "agent"},
             ToolHandoff(n, agent, spelling)
      PROVE  Answers(n)
  <2> DEFINE o == Opened(n, tab)
             last == o.messages[Len(o.messages)]
             h == [tool |-> IF Refuses(run[n].stack, agent, spelling) THEN "refused" ELSE "handoff",
                   agent |-> agent]
             m == IF last.handoff = Null THEN [last EXCEPT !.handoff = h] ELSE last
             u == [o EXCEPT !.messages[Len(o.messages)] = m]
  <2>1. /\ run[n].pc = "model" /\ AfterTool(n)
        /\ ~tab.dirty /\ UNCHANGED <<row, saves, faults>>
        /\ tab' = Streamed(n, u)
    BY <1>5 DEF ToolHandoff, WithPart
  <2>2. tab.open /\ tab.current = n => Extends(n, tab, u)
    <3> SUFFICES ASSUME tab.open, tab.current = n PROVE Extends(n, tab, u)
      OBVIOUS
    <3>1. Extends(n, tab, o)
      BY <1>1
    <3> HIDE DEF o
    <3>2. last \in Messages /\ last.turn = n /\ last.role = "assistant"
      <4>1. o.messages \in Seq(Messages) /\ o.messages # <<>>
        BY <3>1 DEF Extends, Tabs
      <4>2. Len(o.messages) \in 1..Len(o.messages)
        BY <4>1, EmptySeq
      <4> QED BY <3>1, <4>1, <4>2 DEF Extends, Last
    <3>3. h \in Handoffs
      BY DEF Handoffs
    <3> HIDE DEF last, h
    <3>4. m \in Messages /\ m.turn = n /\ m.role = "assistant"
      <4>1. last \in [turn : 0..MaxRuns, role : {"assistant"},
                      handoff : Handoffs \cup {Null}, render : Renders \cup {Null}]
        BY <3>2, MessageKinds
      <4>2. m \in [turn : 0..MaxRuns, role : {"assistant"},
                   handoff : Handoffs \cup {Null}, render : Renders \cup {Null}]
            /\ m.turn = last.turn
        BY <3>3, <4>1
      <4> QED BY <3>2, <4>2 DEF Messages
    <3> HIDE DEF m
    <3> QED BY <1>0, <3>1, <3>4, PartType
  <2> HIDE DEF u
  <2> QED BY <1>2, <1>3, <2>1, <2>2 DEF Answers, Streamed
<1>6. ASSUME NEW spec \in Specs, ToolRender(n, spec)
      PROVE  Answers(n)
  <2> DEFINE o == Opened(n, tab)
             last == o.messages[Len(o.messages)]
             r == [key |-> n * MaxSteps + run[n].steps, spec |-> spec]
             m == [last EXCEPT !.render = r]
             u == [o EXCEPT !.messages[Len(o.messages)] = m]
  <2>1. /\ run[n].pc = "model" /\ AfterTool(n)
        /\ ~tab.dirty /\ UNCHANGED <<row, saves, faults>>
        /\ tab' = Streamed(n, u)
    BY <1>6 DEF ToolRender, WithPart
  <2>2. tab.open /\ tab.current = n => Extends(n, tab, u)
    <3> SUFFICES ASSUME tab.open, tab.current = n PROVE Extends(n, tab, u)
      OBVIOUS
    <3>1. Extends(n, tab, o)
      BY <1>1
    <3> HIDE DEF o
    <3>2. last \in Messages /\ last.turn = n /\ last.role = "assistant"
      <4>1. o.messages \in Seq(Messages) /\ o.messages # <<>>
        BY <3>1 DEF Extends, Tabs
      <4>2. Len(o.messages) \in 1..Len(o.messages)
        BY <4>1, EmptySeq
      <4> QED BY <3>1, <4>1, <4>2 DEF Extends, Last
    <3>3. r \in Renders
      <4>1. n * MaxSteps \in Nat
        BY ChatAssumption
      <4>2. run[n].steps \in Nat
        BY <1>0 DEF RunStates
      <4> QED BY <4>1, <4>2 DEF Renders
    <3> HIDE DEF last, r
    <3>4. m \in Messages /\ m.turn = n /\ m.role = "assistant"
      <4>1. last \in [turn : 0..MaxRuns, role : {"assistant"},
                      handoff : Handoffs \cup {Null}, render : Renders \cup {Null}]
        BY <3>2, MessageKinds
      <4>2. m \in [turn : 0..MaxRuns, role : {"assistant"},
                   handoff : Handoffs \cup {Null}, render : Renders \cup {Null}]
            /\ m.turn = last.turn
        BY <3>3, <4>1
      <4> QED BY <3>2, <4>2 DEF Messages
    <3> HIDE DEF m
    <3> QED BY <1>0, <3>1, <3>4, PartType
  <2> HIDE DEF u
  <2> QED BY <1>2, <1>3, <2>1, <2>2 DEF Answers, Streamed
<1> QED BY <1>4, <1>5, <1>6

\* The other steps of a run leave the runs as they are in number.
LEMMA SameRuns ==
  ASSUME Types, NEW n \in Posted, NEW q \in RunStates, q.pc # "none",
         run' = [run EXCEPT ![n] = q]
  PROVE  /\ Posted' = Posted /\ n \in 1..MaxRuns
         /\ run' \in [1..MaxRuns -> RunStates]
         /\ run'[n] = q /\ \A m \in 1..MaxRuns : m # n => run'[m] = run[m]
<1>1. /\ n \in 1..MaxRuns /\ run[n].pc # "none"
      /\ run' \in [1..MaxRuns -> RunStates]
      /\ run'[n] = q /\ \A m \in 1..MaxRuns : m # n => run'[m] = run[m]
  BY DEF Types, Posted
<1>2. Posted' = {m \in 1..MaxRuns : run'[m].pc # "none"}
  BY DEF Posted
<1>3. Posted' = Posted
  BY <1>1, <1>2 DEF Posted
<1> QED BY <1>1, <1>3

\* What loading, committing, finishing and failing change of a run and of the tab.
Moves(n, q, t) ==
  /\ n \in Posted /\ q \in RunStates /\ q.pc # "none" /\ q.turn = run[n].turn
  /\ run' = [run EXCEPT ![n] = q] /\ UNCHANGED <<saves, faults>>
  /\ t \in Tabs /\ t = [tab EXCEPT !.status = t.status]
  /\ IF tab.open /\ tab.current = n THEN tab' = [t EXCEPT !.dirty = TRUE] ELSE tab' = tab

LEMMA FinishMoves ==
  ASSUME IType, NEW n \in 1..MaxRuns, Finish(n)
  PROVE  /\ ~tab.dirty /\ run[n].pc = "finish" /\ row' = row
         /\ \E q, t : Moves(n, q, t) /\ q.pc = "done" /\ q.history = run[n].history
                     /\ t.status = "ready"
<1> DEFINE q == [run[n] EXCEPT !.pc = "done"]
           t == [tab EXCEPT !.status = "ready"]
<1>1. tab \in Tabs /\ run \in [1..MaxRuns -> RunStates] /\ run[n] \in RunStates
  BY DEF IType, Types
<1>2. /\ ~tab.dirty /\ run[n].pc = "finish" /\ UNCHANGED <<row, saves, faults>>
      /\ run' = [run EXCEPT ![n] = q] /\ tab' = Streamed(n, t)
  BY <1>1 DEF Finish, Step
<1>3. q \in RunStates /\ q.pc = "done" /\ q.turn = run[n].turn /\ q.history = run[n].history
  BY <1>1 DEF RunStates, Over
<1>4. t \in Tabs /\ t.status = "ready"
  BY <1>1 DEF Tabs
<1>5. n \in Posted
  BY <1>2 DEF Posted
<1>6. t = [tab EXCEPT !.status = t.status]
  BY <1>4
<1> HIDE DEF q, t
<1> QED BY <1>2, <1>3, <1>4, <1>5, <1>6 DEF Moves, Streamed

LEMMA FailMoves ==
  ASSUME IType, NEW n \in 1..MaxRuns, Fail(n)
  PROVE  /\ run[n].pc \in {"load", "model", "commit"} /\ row' = row
         /\ \E q, t : Moves(n, q, t) /\ q.pc = "failed" /\ t.status = "error"
<1> DEFINE q == [run[n] EXCEPT !.pc = "failed"]
           t == [tab EXCEPT !.status = "error"]
<1>1. tab \in Tabs /\ run \in [1..MaxRuns -> RunStates] /\ run[n] \in RunStates
  BY DEF IType, Types
<1>2. /\ run[n].pc \in {"load", "model", "commit"} /\ UNCHANGED <<row, saves, faults>>
      /\ run' = [run EXCEPT ![n] = q] /\ tab' = Streamed(n, t)
  BY <1>1 DEF Fail
<1>3. q \in RunStates /\ q.pc = "failed" /\ q.turn = run[n].turn
  BY <1>1 DEF RunStates, Over
<1>4. t \in Tabs /\ t.status = "error"
  BY <1>1 DEF Tabs
<1>5. n \in Posted
  BY <1>2 DEF Posted
<1>6. t = [tab EXCEPT !.status = t.status]
  BY <1>4
<1> HIDE DEF q, t
<1> QED BY <1>2, <1>3, <1>4, <1>5, <1>6 DEF Moves, Streamed

\* Loading and committing change nothing of the tab.
LEMMA LoadMoves ==
  ASSUME IType, NEW n \in 1..MaxRuns, Load(n)
  PROVE  /\ n \in Posted /\ run[n].pc = "load" /\ UNCHANGED <<row, tab, saves, faults>>
         /\ \E q \in RunStates :
              /\ run' = [run EXCEPT ![n] = q] /\ q.pc = "model" /\ q.turn = run[n].turn
              /\ q.history = Append(IF row = Null THEN <<>> ELSE row.messages, run[n].turn)
<1> DEFINE s == IF row = Null THEN <<>> ELSE row.messages
           h == Append(s, run[n].turn)
           q == [run[n] EXCEPT !.pc = "model", !.history = h]
<1>1. run \in [1..MaxRuns -> RunStates] /\ run[n] \in RunStates
  BY DEF IType, Types
<1>2. /\ run[n].pc = "load" /\ UNCHANGED <<row, tab, saves, faults>>
      /\ run' = [run EXCEPT ![n] = q]
  BY <1>1 DEF Load
<1>3. s \in Seq(Messages) /\ run[n].turn \in Messages
  <2>1. row \in Rows \cup {Null}
    BY DEF IType, Types
  <2> QED BY <1>1, <2>1 DEF Rows, RunStates
<1>4. h \in Seq(Messages)
  BY <1>3
<1> HIDE DEF h
<1>5. q \in RunStates /\ q.pc = "model" /\ q.turn = run[n].turn /\ q.history = h
  BY <1>1, <1>4 DEF RunStates
<1>6. n \in Posted
  BY <1>2 DEF Posted
<1> HIDE DEF q
<1> QED BY <1>2, <1>5, <1>6 DEF h

LEMMA CommitMoves ==
  ASSUME IType, NEW n \in 1..MaxRuns, Commit(n)
  PROVE  /\ n \in Posted /\ run[n].pc = "commit" /\ UNCHANGED <<tab, saves, faults>>
         /\ "slow" \in faults \/ saves = <<>>
         /\ row' \in Rows /\ row'.messages = Append(run[n].history, Answer(n))
         /\ \E q \in RunStates :
              /\ run' = [run EXCEPT ![n] = q] /\ q.pc = "finish" /\ q.turn = run[n].turn
              /\ q.history = run[n].history
<1> DEFINE q == [run[n] EXCEPT !.pc = "finish"]
           s == Append(run[n].history, Answer(n))
<1>1. run \in [1..MaxRuns -> RunStates] /\ run[n] \in RunStates /\ n \in 0..MaxRuns
  BY ChatAssumption DEF IType, Types
<1>2. /\ run[n].pc = "commit" /\ UNCHANGED <<tab, saves, faults>>
      /\ "slow" \in faults \/ saves = <<>>
      /\ run' = [run EXCEPT ![n] = q]
  BY <1>1 DEF Commit, Step
<1>3. s \in Seq(Messages)
  <2>1. run[n].history \in Seq(Messages) /\ Answer(n) \in Messages
    BY <1>1, MessageKinds DEF RunStates
  <2> QED BY <2>1
<1>4. row' \in Rows /\ row'.messages = s
  <2>1. row \in Rows \cup {Null}
    BY DEF IType, Types
  <2>2. row' = IF row = Null THEN [messages |-> s, ext |-> Null, stack |-> <<>>, canvas |-> Null]
                             ELSE [row EXCEPT !.messages = s]
    BY DEF Commit, Committed
  <2>3. Null \in Extensions /\ <<>> \in Seq(Entries) /\ Null \in Specs \cup {Null}
    BY DEF Extensions
  <2> HIDE DEF s
  <2> QED BY <1>3, <2>1, <2>2, <2>3 DEF Rows
<1>5. q \in RunStates /\ q.pc = "finish" /\ q.turn = run[n].turn /\ q.history = run[n].history
  BY <1>1 DEF RunStates
<1>6. n \in Posted
  BY <1>2 DEF Posted
<1> HIDE DEF q
<1> QED BY <1>2, <1>4, <1>5, <1>6

LEMMA TabTypes ==
  /\ EmptyTab \in Tabs
  /\ \A edits \in Nat : [EmptyTab EXCEPT !.edits = edits] \in Tabs
  /\ \A r \in Rows, edits \in Nat : RestoredTab(r, edits) \in Tabs
  /\ NoRun \in RunStates
<1>1. EmptyTab \in Tabs
  BY ChatAssumption DEF EmptyTab, Tabs, Extensions, Canvases
<1>2. \A edits \in Nat : [EmptyTab EXCEPT !.edits = edits] \in Tabs
  BY <1>1 DEF Tabs
<1>3. \A r \in Rows, edits \in Nat : RestoredTab(r, edits) \in Tabs
  BY <1>1 DEF RestoredTab, Tabs, Rows, Canvases
<1>4. NoRun \in RunStates
  <2>1. Asked(0, "ask") \in Messages
    BY MessageKinds, ChatAssumption
  <2>2. Assistant \in Agents /\ Null \in Canvases
    BY DEF Agents, Canvases
  <2> DEFINE a == Asked(0, "ask")
  <2>3. NoRun = [pc |-> "none", agent |-> Assistant, turn |-> a, canvas |-> Null,
                 stack |-> <<>>, history |-> <<>>, steps |-> 0]
    BY DEF NoRun
  <2> HIDE DEF a
  <2>4. a \in Messages
    BY <2>1 DEF a
  <2> QED BY <2>2, <2>3, <2>4 DEF RunStates
<1> QED BY <1>1, <1>2, <1>3, <1>4

LEMMA InitInv == Init => IInv
<1> SUFFICES ASSUME Init PROVE IInv
  OBVIOUS
<1>1. row \in Rows \cup {Null}
  BY ChatAssumption DEF Init
<1>2. tab \in Tabs /\ tab.current = 0
  <2>1. CASE row = Null
    BY <2>1, TabTypes DEF Init, EmptyTab
  <2>2. CASE row # Null
    <3>1. tab = RestoredTab(row, 0)
      BY <2>2 DEF Init
    <3>2. RestoredTab(row, 0).current = 0
      BY DEF RestoredTab, EmptyTab
    <3> QED BY <1>1, <2>2, <3>1, <3>2, TabTypes
  <2> QED BY <2>1, <2>2
<1>3. saves = <<>> /\ run = [n \in 1..MaxRuns |-> NoRun] /\ run \in [1..MaxRuns -> RunStates]
  BY TabTypes DEF Init
<1>4. Posted = {}
  BY <1>3 DEF Posted, NoRun
<1>5. IType
  <2>1. Posted = 1..0 /\ 0 \in 0..MaxRuns
    BY <1>4, ChatAssumption
  <2>2. Counted
    BY <2>1 DEF Counted
  <2> QED BY <1>1, <1>2, <1>3, <2>2 DEF IType, Types, EndsInTurn
<1>6. Stays => tab = EmptyTab /\ row = Null
  BY DEF Stays, Init
<1>7. IStays
  <2> SUFFICES ASSUME Stays PROVE /\ Sequential /\ TabHasTurns /\ RowHasTurns
                                  /\ HandoffsSeen /\ SaveIsDue /\ LastSaveFollows
    BY DEF IStays
  <2>0. tab.messages = <<>> /\ tab.status = "ready" /\ ~tab.wasLoading /\ ~tab.dirty
        /\ tab.current = 0
    BY <1>6 DEF EmptyTab
  <2>1. Unseen(tab) = {}
    BY <2>0 DEF Unseen
  <2>2. Sequential
    BY <1>3, <1>4, <1>6, <2>0 DEF Sequential
  <2>3. TabHasTurns /\ RowHasTurns
    BY <1>4 DEF TabHasTurns, RowHasTurns
  <2>4. HandoffsSeen /\ SaveIsDue /\ LastSaveFollows
    BY <2>0, <2>1 DEF HandoffsSeen, SaveIsDue, LastSaveFollows
  <2> QED BY <2>2, <2>3, <2>4
<1> QED BY <1>5, <1>7 DEF IInv

\* A turn that is sent, and a run that moves, keep the types.
LEMMA SentTypes ==
  ASSUME IType, NEW t \in Tabs, NEW p \in Tabs, NEW text \in {"ask", "continue"},
         NextRun <= MaxRuns, tab' = Submitted(t, text),
         run' = [run EXCEPT ![NextRun] = Post(p, text)], row' = row, saves' \in Seq(Rows)
  PROVE  IType'
<1>1. PICK k \in 0..MaxRuns : Posted = 1..k
  BY DEF IType, Counted
<1>2. NextRun \in 1..MaxRuns
  BY <1>1, NextRunIs, ChatAssumption
<1>3. /\ tab' \in Tabs /\ tab'.current = NextRun
      /\ tab'.messages = Append(t.messages, Asked(NextRun, text))
      /\ Post(p, text) \in RunStates /\ Post(p, text).pc = "load"
  BY <1>2, SubmitType
<1>4. Posted' = 1..NextRun /\ run' \in [1..MaxRuns -> RunStates]
  BY <1>1, <1>3, PostedNext DEF IType
<1>5. tab'.messages # <<>> /\ Last(tab'.messages).turn = NextRun
  <2>1. t.messages \in Seq(Messages) /\ NextRun \in 0..MaxRuns
    BY <1>2, ChatAssumption DEF Tabs
  <2>2. Asked(NextRun, text) \in Messages /\ Asked(NextRun, text).turn = NextRun
    BY <2>1, MessageKinds
  <2> QED BY <1>3, <2>1, <2>2, AppendHas
<1>6. Counted' /\ EndsInTurn(tab)'
  <2>1. NextRun \in 0..MaxRuns
    BY <1>2
  <2>2. Counted'
    BY <1>4, <2>1 DEF Counted
  <2>3. EndsInTurn(tab')
    BY <1>3, <1>5 DEF EndsInTurn
  <2> QED BY <2>2, <2>3 DEF EndsInTurn
<1>7. row' \in Rows \cup {Null}
  BY DEF IType, Types
<1> QED BY <1>3, <1>4, <1>6, <1>7 DEF IType, Types

LEMMA MovedTypes ==
  ASSUME IType, NEW n, NEW q, NEW t, Moves(n, q, t), row' = row
  PROVE  IType'
<1>1. Posted' = Posted /\ run' \in [1..MaxRuns -> RunStates]
  BY SameRuns DEF Moves, IType
<1>2. tab' \in Tabs /\ tab'.messages = tab.messages /\ tab'.current = tab.current /\ tab'.open = tab.open
  <2> DEFINE st == t.status
  <2>0. tab \in Tabs /\ t \in Tabs /\ t = [tab EXCEPT !.status = st]
    BY DEF Moves, IType, Types
  <2> HIDE DEF st
  <2>1. t.messages = tab.messages /\ t.current = tab.current /\ t.open = tab.open
    BY <2>0 DEF Tabs
  <2>2. tab' = [t EXCEPT !.dirty = TRUE] \/ tab' = tab
    BY DEF Moves
  <2> QED BY <2>0, <2>1, <2>2 DEF Tabs
<1>3. Counted' /\ EndsInTurn(tab)'
  BY <1>1, <1>2 DEF IType, Counted, EndsInTurn
<1> QED BY <1>1, <1>2, <1>3 DEF IType, Types, Moves

LEMMA AnsweredTypes ==
  ASSUME IType, NEW n, Answers(n)
  PROVE  IType'
<1>1. Posted' = Posted /\ run' \in [1..MaxRuns -> RunStates]
  <2>1. run'[n].pc # "none"
    BY DEF Answers
  <2> QED BY <2>1, SameRuns DEF Answers, IType
<1>2. tab' \in Tabs /\ EndsInTurn(tab')
  <2>1. CASE tab.open /\ tab.current = n
    <3>1. PICK u : Extends(n, tab, u) /\ tab' = [u EXCEPT !.dirty = TRUE]
      BY <2>1 DEF Answers
    <3>2. tab' \in Tabs /\ tab'.messages = u.messages /\ tab'.current = u.current
      BY <3>1 DEF Extends, Tabs
    <3>3. u.current = n
      BY <2>1, <3>1 DEF Extends, Tabs, IType, Types
    <3> QED BY <3>1, <3>2, <3>3 DEF Extends, EndsInTurn
  <2>2. CASE ~(tab.open /\ tab.current = n)
    BY <2>2 DEF Answers, IType, Types
  <2> QED BY <2>1, <2>2
<1>3. Counted' /\ EndsInTurn(tab)'
  BY <1>1, <1>2 DEF IType, Counted, EndsInTurn
<1> QED BY <1>1, <1>2, <1>3 DEF IType, Types, Answers

\* A change of the tab alone that leaves its messages and its turn.
LEMMA TabTypesKept ==
  ASSUME IType, row' \in Rows \cup {Null}, saves' \in Seq(Rows), run' = run, tab' \in Tabs,
         tab'.current = 0 \/ ~tab'.open \/ (tab'.messages = tab.messages /\ tab'.current = tab.current
                                            /\ tab'.open = tab.open)
  PROVE  IType'
<1>1. Posted' = Posted /\ run' \in [1..MaxRuns -> RunStates]
  BY DEF IType, Types, Posted
<1>2. Counted' /\ EndsInTurn(tab)'
  BY <1>1 DEF IType, Counted, EndsInTurn
<1> QED BY <1>1, <1>2 DEF IType, Types

LEMMA EditStep ==
  ASSUME Types, NEW v \in Values, UserEdits(v)
  PROVE  /\ tab' \in Tabs /\ UNCHANGED <<row, saves, run, faults>> /\ ~tab.dirty /\ tab.open
         /\ tab' = [tab EXCEPT !.canvas = tab'.canvas, !.edited = TRUE, !.edits = tab.edits + 1]
<1> DEFINE c == [tab.canvas EXCEPT !.val = v]
<1>1. tab \in Tabs /\ tab.canvas # Null
  BY DEF Types, UserEdits
<1>2. tab' = [tab EXCEPT !.canvas = c, !.edited = TRUE, !.edits = tab.edits + 1]
  BY <1>1 DEF UserEdits, Tabs
<1>3. c \in Canvases
  BY <1>1 DEF Tabs, Canvases, Specs
<1> HIDE DEF c
<1>4. tab' \in Tabs /\ tab'.canvas = c
  <2> DEFINE k == tab.edits + 1
  <2>1. k \in Nat
    BY <1>1 DEF Tabs
  <2>2. tab' = [tab EXCEPT !.canvas = c, !.edited = TRUE, !.edits = k]
    BY <1>2
  <2> HIDE DEF k
  <2> QED BY <1>1, <1>3, <2>1, <2>2 DEF Tabs
<1> QED BY <1>2, <1>4 DEF UserEdits

LEMMA TypeStep == IType /\ [Next]_vars => IType'
<1> SUFFICES ASSUME IType, [Next]_vars PROVE IType'
  OBVIOUS
<1>0. /\ row \in Rows \cup {Null} /\ tab \in Tabs /\ saves \in Seq(Rows)
  BY DEF IType, Types
<1>1. CASE Send
  <2>1. /\ tab' = Submitted(tab, "ask") /\ NextRun <= MaxRuns
        /\ run' = [run EXCEPT ![NextRun] = Post(tab, "ask")] /\ row' = row /\ saves' = saves
    BY <1>1 DEF Send
  <2> QED BY <1>0, <2>1, SentTypes
<1>2. CASE Effects
  <2>1. row' = row /\ saves' \in Seq(Rows)
    <3>1. RowOf(tab) \in Rows
      BY <1>0 DEF RowOf, Tabs, Rows, Canvases
    <3>2. saves' = saves \/ saves' = Append(saves, RowOf(tab))
      BY <1>2 DEF Effects
    <3> QED BY <1>0, <1>2, <3>1, <3>2 DEF Effects
  <2>2. PICK c : /\ Shown(c)
                 /\ \/ tab' = c /\ run' = run
                    \/ /\ c.status = "ready" /\ NextRun <= MaxRuns
                       /\ tab' = Submitted(c, "continue")
                       /\ \E p \in Tabs : run' = [run EXCEPT ![NextRun] = Post(p, "continue")]
    BY <1>2, EffectsStep DEF IType
  <2>3. CASE tab' = c /\ run' = run
    BY <1>0, <2>1, <2>2, <2>3, TabTypesKept DEF Shown
  <2>4. CASE /\ NextRun <= MaxRuns /\ tab' = Submitted(c, "continue")
             /\ \E p \in Tabs : run' = [run EXCEPT ![NextRun] = Post(p, "continue")]
    BY <2>1, <2>2, <2>4, SentTypes DEF Shown
  <2> QED BY <2>2, <2>3, <2>4
<1>3. CASE SaveLands
  <2>1. saves # <<>> /\ row' = Head(saves) /\ saves' = Tail(saves) /\ UNCHANGED <<tab, run>>
    BY <1>3 DEF SaveLands, Saved
  <2>2. row' \in Rows /\ saves' \in Seq(Rows)
    BY <1>0, <2>1, EmptySeq
  <2> QED BY <1>0, <2>1, <2>2, TabTypesKept
<1>4. CASE Reload
  <2>1. /\ UNCHANGED <<row, saves, run>>
        /\ tab' = IF row = Null THEN [EmptyTab EXCEPT !.edits = tab.edits]
                                ELSE RestoredTab(row, tab.edits)
    BY <1>4 DEF Reload
  <2>2. tab.edits \in Nat
    BY <1>0 DEF Tabs
  <2>3. tab' \in Tabs
    BY <1>0, <2>1, <2>2, TabTypes
  <2>4. tab'.current = 0
    BY <2>1 DEF RestoredTab, EmptyTab
  <2> QED BY <1>0, <2>1, <2>3, <2>4, TabTypesKept
<1>5. CASE Delete
  <2>1. row' = Null /\ UNCHANGED <<saves, run>> /\ tab' = [EmptyTab EXCEPT !.open = FALSE]
    BY <1>5 DEF Delete
  <2>2. tab' \in Tabs /\ ~tab'.open
    BY <2>1, TabTypes DEF Tabs
  <2> QED BY <1>0, <2>1, <2>2, TabTypesKept
<1>6. ASSUME NEW v \in Values, UserEdits(v) PROVE IType'
  <2>1. /\ tab' \in Tabs /\ UNCHANGED <<row, saves, run, faults>>
        /\ tab' = [tab EXCEPT !.canvas = tab'.canvas, !.edited = TRUE, !.edits = tab.edits + 1]
    BY <1>6, EditStep DEF IType
  <2>2. tab'.messages = tab.messages /\ tab'.current = tab.current /\ tab'.open = tab.open
    BY <1>0, <2>1 DEF Tabs
  <2> QED BY <1>0, <2>1, <2>2, TabTypesKept
<1>7. ASSUME NEW n \in 1..MaxRuns, RunStep(n) PROVE IType'
  <2>1. CASE Load(n)
    <3>1. PICK q \in RunStates : /\ run' = [run EXCEPT ![n] = q] /\ q.pc = "model"
      BY <2>1, LoadMoves
    <3>2. n \in Posted /\ UNCHANGED <<row, tab, saves>>
      BY <2>1, LoadMoves
    <3>3. Posted' = Posted /\ run' \in [1..MaxRuns -> RunStates]
      BY <3>1, <3>2, SameRuns DEF IType
    <3> QED BY <1>0, <3>2, <3>3 DEF IType, Types, Counted, EndsInTurn
  <2>2. CASE Commit(n)
    <3>1. PICK q \in RunStates : /\ run' = [run EXCEPT ![n] = q] /\ q.pc = "finish"
      BY <2>2, CommitMoves
    <3>2. n \in Posted /\ row' \in Rows /\ UNCHANGED <<tab, saves>>
      BY <2>2, CommitMoves
    <3>3. Posted' = Posted /\ run' \in [1..MaxRuns -> RunStates]
      BY <3>1, <3>2, SameRuns DEF IType
    <3> QED BY <1>0, <3>2, <3>3 DEF IType, Types, Counted, EndsInTurn
  <2>3. CASE Finish(n)
    BY <2>3, FinishMoves, MovedTypes
  <2>4. CASE Fail(n)
    BY <2>4, FailMoves, MovedTypes
  <2>5. ASSUME \/ ModelText(n)
               \/ \E agent \in Agents, spelling \in {"extension", "agent"} :
                    ToolHandoff(n, agent, spelling)
               \/ \E spec \in Specs : ToolRender(n, spec)
        PROVE  IType'
    BY <2>5, AnswersStep, AnsweredTypes
  <2> QED BY <1>7, <2>1, <2>2, <2>3, <2>4, <2>5 DEF RunStep
<1>8. CASE UNCHANGED vars
  BY <1>8 DEF vars, IType, Types, Counted, EndsInTurn, Posted
<1> QED BY <1>1, <1>2, <1>3, <1>4, <1>5, <1>6, <1>7, <1>8 DEF Next

-----------------------------------------------------------------------------
(***************************************************************************)
(* A tab that is not loaded again, step by step.                           *)
(***************************************************************************)

Holds == Sequential /\ TabHasTurns /\ RowHasTurns /\ HandoffsSeen /\ SaveIsDue /\ LastSaveFollows

LEMMA StaysIs == IStays = (Stays => Holds)
BY DEF IStays, Holds

\* A run that is at work is the one the tab reads, and the tab is busy.
LEMMA ActiveIsRead ==
  ASSUME IType, Sequential, NEW n \in Posted, run[n].pc \notin Over
  PROVE  n = tab.current /\ n # 0 /\ tab.status = "busy" /\ n \in 1..MaxRuns
BY DEF Sequential, Posted

LEMMA LastHas ==
  ASSUME NEW s \in Seq(Messages), s # <<>>
  PROVE  Has(s, Last(s).turn, Last(s).role)
<1>1. Len(s) \in DOMAIN s
  BY EmptySeq
<1> QED BY <1>1 DEF Has, Last

LEMMA RowOfTab ==
  tab \in Tabs => RowOf(tab) \in Rows /\ RowOf(tab).messages = tab.messages /\ SameRow(RowOf(tab), tab)
BY DEF RowOf, Tabs, Rows, Canvases, SameRow

\* A save that is added has the turns of the tab.
LEMMA SaveAdded ==
  ASSUME IType, TabHasTurns, RowHasTurns, "slow" \notin faults,
         saves' = saves \/ saves' = Append(saves, RowOf(tab)),
         NEW n \in Posted, run[n].pc = "done"
  PROVE  \A i \in DOMAIN saves' : HasTurn(saves'[i].messages, n)
<1>1. saves \in Seq(Rows) /\ RowOf(tab) \in Rows /\ RowOf(tab).messages = tab.messages
  BY RowOfTab DEF IType, Types
<1>2. HasTurn(tab.messages, n) /\ \A i \in DOMAIN saves : HasTurn(saves[i].messages, n)
  BY DEF TabHasTurns, RowHasTurns, HasTurn
<1>3. CASE saves' = saves
  BY <1>2, <1>3
<1>4. CASE saves' = Append(saves, RowOf(tab))
  <2>1. /\ DOMAIN saves' = 1..(Len(saves) + 1) /\ DOMAIN saves = 1..Len(saves) /\ Len(saves) \in Nat
        /\ saves'[Len(saves) + 1] = RowOf(tab)
        /\ \A i \in 1..Len(saves) : saves'[i] = saves[i]
    BY <1>1, <1>4
  <2>2. \A i \in DOMAIN saves' : i \in DOMAIN saves \/ i = Len(saves) + 1
    BY <2>1
  <2> QED BY <1>1, <1>2, <2>1, <2>2
<1> QED BY <1>3, <1>4

LEMMA SentStays ==
  ASSUME IInv, Stays, Unseen(tab) = {}, tab.status # "busy", NextRun <= MaxRuns,
         NEW t \in Tabs, t.messages = tab.messages, t.processed = tab.processed,
         NEW p \in Tabs, NEW text \in {"ask", "continue"},
         tab' = Submitted(t, text), run' = [run EXCEPT ![NextRun] = Post(p, text)],
         row' = row, faults' = faults,
         saves' = saves \/ saves' = Append(saves, RowOf(tab))
  PROVE  Holds'
<1>0. IType /\ Sequential /\ TabHasTurns /\ RowHasTurns /\ tab \in Tabs
  BY DEF IInv, IStays, IType, Types
<1> DEFINE k == tab.current
           new == NextRun
           q == Post(p, text)
<1>1. k \in 0..MaxRuns /\ Posted = 1..k /\ new = k + 1 /\ new \in 1..MaxRuns
  <2>1. k \in 0..MaxRuns /\ Posted = 1..k
    BY <1>0 DEF Tabs, Sequential
  <2> QED BY <2>1, NextRunIs, ChatAssumption
<1>2. /\ tab' \in Tabs /\ tab'.status = "busy" /\ tab'.current = new /\ tab'.dirty
      /\ tab'.messages = Append(tab.messages, Asked(new, text))
      /\ tab'.processed = tab.processed
      /\ q \in RunStates /\ q.pc = "load" /\ q.turn = Asked(new, text)
  BY SMTT(40), <1>1, SubmitType
<1>3. /\ Posted' = 1..new
      /\ run'[new] = q /\ \A n \in 1..MaxRuns : n # new => run'[n] = run[n]
  BY <1>0, <1>1, <1>2, PostedNext DEF IType
<1> HIDE DEF q, new, k
<1>4. \A n \in Posted : n # new /\ n \in 1..MaxRuns /\ run'[n] = run[n] /\ run[n].pc \in Over
  <2> SUFFICES ASSUME NEW n \in Posted
               PROVE  n # new /\ n \in 1..MaxRuns /\ run'[n] = run[n] /\ run[n].pc \in Over
    OBVIOUS
  <2>1. n # new /\ n \in 1..MaxRuns
    BY <1>1, ChatAssumption
  <2>2. run[n].pc \in Over
    BY <1>0, ActiveIsRead
  <2> QED BY <1>3, <2>1, <2>2
<1>5. \A n \in Posted' : n \in Posted \/ n = new
  BY <1>1, <1>3
<1>6. Sequential'
  <2>1. \A n \in Posted' : n # new => run'[n].pc \in Over
    BY <1>4, <1>5
  <2>2. run'[new].pc \notin Over /\ run'[new].pc # "done" /\ new # 0
    BY <1>1, <1>2, <1>3 DEF Over
  <2> QED BY <1>2, <1>3, <2>1, <2>2 DEF Sequential
<1>7. TabHasTurns'
  <2>1. /\ Asked(new, text) \in Messages /\ Asked(new, text).turn = new
        /\ Asked(new, text).role = "user" /\ tab.messages \in Seq(Messages)
    <3>1. new \in 0..MaxRuns
      BY <1>1
    <3> QED BY <1>0, <3>1, MessageKinds DEF Tabs
  <2>2. /\ Has(tab'.messages, new, "user")
        /\ \A n, role : Has(tab.messages, n, role) => Has(tab'.messages, n, role)
    BY <1>2, <2>1, AppendHas
  <2>3. run'[new].pc \notin {"commit", "finish", "done"} /\ run'[new].turn.turn = new
        /\ run'[new].turn.role = "user"
    BY <1>2, <1>3, <2>1
  <2> QED BY <1>0, <1>4, <1>5, <2>2, <2>3 DEF TabHasTurns
<1>8. RowHasTurns'
  <2> SUFFICES ASSUME "slow" \notin faults, NEW n \in Posted'
               PROVE  /\ run'[n].pc = "finish" => saves' = <<>>
                      /\ run'[n].pc \in {"finish", "done"} => row' # Null /\ HasTurn(row'.messages, n)
                      /\ run'[n].pc = "done" => \A i \in DOMAIN saves' : HasTurn(saves'[i].messages, n)
                      /\ run'[n].pc \notin {"load", "failed"} =>
                           /\ Has(run'[n].history, n, "user")
                           /\ \A j \in 1..n-1 : run'[j].pc = "done" => HasTurn(run'[n].history, j)
    BY DEF RowHasTurns
  <2>1. CASE n = new
    BY <1>2, <1>3, <2>1
  <2>2. CASE n \in Posted
    <3>1. run'[n] = run[n] /\ run[n].pc \in Over
      BY <1>4, <2>2
    <3>2. run[n].pc = "done" => \A i \in DOMAIN saves' : HasTurn(saves'[i].messages, n)
      BY <1>0, <2>2, SaveAdded
    <3>3. \A j \in 1..n-1 : run'[j] = run[j]
      BY <1>1, <1>4, <2>2
    <3> QED BY <1>0, <2>2, <3>1, <3>2, <3>3 DEF RowHasTurns, Over
  <2> QED BY <1>5, <2>1, <2>2
<1>9. HandoffsSeen'
  <2>1. Unseen(tab') = {}
    <3> SUFFICES ASSUME NEW i \in Unseen(tab') PROVE FALSE
      OBVIOUS
    <3>0. tab.messages \in Seq(Messages) /\ Asked(new, text).role = "user"
      BY <1>0 DEF Tabs, Asked
    <3> DEFINE a == Asked(new, text)
    <3> HIDE DEF a
    <3>1. tab'.messages = Append(tab.messages, a) /\ a.role = "user"
      BY <1>2, <3>0 DEF a
    <3>2. i \in DOMAIN tab'.messages /\ IsHandoff(tab'.messages[i])
          /\ tab'.messages[i].turn \notin tab.processed
      BY <1>2 DEF Unseen
    <3>3. i \in DOMAIN tab.messages \/ tab'.messages[i] = a
      BY <3>0, <3>1, <3>2
    <3>4. i \in DOMAIN tab.messages => tab'.messages[i] = tab.messages[i]
      BY <3>0, <3>1
    <3>5. i \in DOMAIN tab.messages
      BY <3>1, <3>2, <3>3 DEF IsHandoff
    <3> QED BY <3>2, <3>4, <3>5 DEF Unseen
  <2> QED BY <2>1 DEF HandoffsSeen
<1>10. SaveIsDue' /\ LastSaveFollows'
  BY <1>2 DEF SaveIsDue, LastSaveFollows
<1> QED BY <1>6, <1>7, <1>8, <1>9, <1>10 DEF Holds

LEMMA EffectsStays ==
  ASSUME IInv, Stays, Effects
  PROVE  Holds'
<1>0. IType /\ Sequential /\ TabHasTurns /\ RowHasTurns /\ HandoffsSeen /\ LastSaveFollows
      /\ tab \in Tabs
  BY DEF IInv, IStays, IType, Types
<1>1. /\ saves' = (IF SavesNow(tab) THEN Append(saves, RowOf(tab)) ELSE saves)
      /\ row' = row /\ faults' = faults
  BY DEF Effects
<1>2. PICK c : /\ Shown(c)
               /\ \/ tab' = c /\ run' = run
                  \/ /\ c.status = "ready" /\ NextRun <= MaxRuns
                     /\ tab' = Submitted(c, "continue")
                     /\ \E p \in Tabs : run' = [run EXCEPT ![NextRun] = Post(p, "continue")]
  BY <1>0, EffectsStep DEF IType
<1>3. CASE /\ c.status = "ready" /\ NextRun <= MaxRuns
           /\ tab' = Submitted(c, "continue")
           /\ \E p \in Tabs : run' = [run EXCEPT ![NextRun] = Post(p, "continue")]
  <2>1. tab.status = "ready" /\ c \in Tabs /\ c.messages = tab.messages
    BY <1>2, <1>3 DEF Shown
  <2>2. Unseen(tab) = {}
    BY <1>0, <2>1 DEF HandoffsSeen
  <2>3. c.processed = tab.processed
    BY <1>2, <2>2 DEF Shown
  <2> QED BY <1>1, <1>3, <2>1, <2>2, <2>3, SentStays
<1>4. CASE tab' = c /\ run' = run
  <2>1. /\ tab'.messages = tab.messages /\ tab'.status = tab.status /\ tab'.current = tab.current
        /\ tab'.wasLoading = (tab.status = "busy") /\ Posted' = Posted
    BY <1>2, <1>4 DEF Shown, Posted
  <2>2. Sequential'
    <3>1. tab.messages = <<>> => saves' = saves
      BY <1>1 DEF SavesNow
    <3> QED BY <1>0, <1>1, <1>4, <2>1, <3>1 DEF Sequential
  <2>3. TabHasTurns'
    BY <1>0, <1>4, <2>1 DEF TabHasTurns
  <2>4. RowHasTurns'
    <3> SUFFICES ASSUME "slow" \notin faults, NEW n \in Posted
                 PROVE  /\ run[n].pc = "finish" => saves' = <<>>
                        /\ run[n].pc = "done" => \A i \in DOMAIN saves' : HasTurn(saves'[i].messages, n)
      BY <1>0, <1>1, <1>4, <2>1 DEF RowHasTurns
    <3>1. run[n].pc = "finish" => tab.status = "busy"
      BY <1>0, ActiveIsRead DEF Over
    <3>2. run[n].pc = "finish" => saves' = saves
      BY <1>1, <3>1 DEF SavesNow
    <3>3. run[n].pc = "done" => \A i \in DOMAIN saves' : HasTurn(saves'[i].messages, n)
      BY <1>0, <1>1, SaveAdded
    <3> QED BY <1>0, <3>2, <3>3 DEF RowHasTurns
  <2>5. HandoffsSeen'
    <3>1. Unseen(tab') = {}
      <4>1. CASE Unseen(tab) = {}
        BY <1>2, <1>4, <2>1, <4>1 DEF Shown, Unseen
      <4>2. CASE Unseen(tab) # {}
        <5>1. c.processed = tab.processed \cup {tab.current}
          BY <1>0, <1>2, <4>2 DEF Shown, HandoffsSeen
        <5>2. \A i \in Unseen(tab') : i \in Unseen(tab) /\ tab.messages[i].turn # tab.current
          BY <1>4, <2>1, <5>1 DEF Unseen
        <5> QED BY <1>0, <5>2 DEF HandoffsSeen
      <4> QED BY <4>1, <4>2
    <3> QED BY <3>1 DEF HandoffsSeen
  <2>6. SaveIsDue'
    BY <2>1 DEF SaveIsDue
  <2>7. LastSaveFollows'
    <3> SUFFICES ASSUME tab.status = "ready", tab.current # 0
                 PROVE  IF saves' = <<>> THEN row # Null /\ SameRow(row, tab') ELSE SameRow(Last(saves'), tab')
      BY <1>1, <2>1 DEF LastSaveFollows
    <3>1. Unseen(tab) = {}
      BY <1>0 DEF HandoffsSeen
    <3>2. tab'.ext = tab.ext /\ tab'.stack = tab.stack
      BY <1>2, <1>4, <3>1 DEF Shown
    <3>3. \A r : SameRow(r, tab) => SameRow(r, tab')
      BY <2>1, <3>2 DEF SameRow
    <3>4. CASE tab.wasLoading
      <4>1. tab.messages # <<>>
        BY <1>0 DEF IType, EndsInTurn, Stays
      <4>2. saves' = Append(saves, RowOf(tab))
        BY <1>1, <3>4, <4>1 DEF SavesNow
      <4>3. saves \in Seq(Rows) /\ RowOf(tab) \in Rows /\ SameRow(RowOf(tab), tab)
        BY <1>0, RowOfTab DEF IType, Types
      <4> DEFINE r == RowOf(tab)
      <4> HIDE DEF r
      <4>4. saves \in Seq(Rows) /\ r \in Rows /\ saves' = Append(saves, r)
        BY <4>2, <4>3 DEF r
      <4>5. saves' # <<>> /\ Last(saves') = r
        BY <4>4 DEF Last
      <4> QED BY <3>3, <4>3, <4>5 DEF r
    <3>5. CASE ~tab.wasLoading
      <4>1. saves' = saves
        BY <1>1, <3>5 DEF SavesNow
      <4> QED BY <1>0, <3>3, <3>5, <4>1 DEF LastSaveFollows
    <3> QED BY <3>4, <3>5
  <2> QED BY <2>2, <2>3, <2>4, <2>5, <2>6, <2>7 DEF Holds
<1> QED BY <1>2, <1>3, <1>4

LEMMA SaveLandsStays ==
  ASSUME IInv, Stays, SaveLands
  PROVE  Holds'
<1>0. IType /\ Sequential /\ TabHasTurns /\ RowHasTurns /\ HandoffsSeen /\ SaveIsDue /\ LastSaveFollows
      /\ saves \in Seq(Rows)
  BY DEF IInv, IStays, IType, Types
<1>1. saves # <<>> /\ row' = Head(saves) /\ saves' = Tail(saves) /\ UNCHANGED <<tab, run, faults>>
  BY DEF SaveLands, Saved
<1>2. /\ 1 \in DOMAIN saves /\ row' = saves[1] /\ row' \in Rows
      /\ saves' # <<>> => Last(saves') = Last(saves)
      /\ saves' = <<>> => row' = Last(saves)
      /\ \A i \in DOMAIN saves' : i + 1 \in DOMAIN saves /\ saves'[i] = saves[i + 1]
  <2>1. Len(saves) \in Nat \ {0} /\ DOMAIN saves = 1..Len(saves)
    BY <1>0, <1>1, EmptySeq
  <2>2. Len(saves') = Len(saves) - 1 /\ DOMAIN saves' = 1..(Len(saves) - 1)
        /\ \A i \in 1..(Len(saves) - 1) : saves'[i] = saves[i + 1]
    BY <1>0, <1>1, <2>1
  <2>3. row' = saves[1] /\ row' \in Rows
    BY <1>0, <1>1, <2>1
  <2>4. saves' # <<>> => Len(saves) - 1 \in 1..(Len(saves) - 1)
    BY <1>0, <1>1, <2>1, <2>2, EmptySeq
  <2>5. saves' = <<>> => Len(saves) = 1
    <3>0. saves' \in Seq(Rows)
      BY <1>0, <1>1, EmptySeq
    <3>1. saves' = <<>> => Len(saves') = 0
      BY <3>0, EmptySeq
    <3>2. Len(saves) \in Nat /\ Len(saves') = Len(saves) - 1
      BY <2>1, <2>2
    <3> DEFINE k == Len(saves')
               j == Len(saves)
    <3>3. (saves' = <<>> => k = 0) /\ j \in Nat /\ k = j - 1
      BY <3>1, <3>2
    <3> HIDE DEF k, j
    <3>4. saves' = <<>> => j = 1
      BY <3>3
    <3> QED BY <3>4 DEF j
  <2> QED BY <2>1, <2>2, <2>3, <2>4, <2>5 DEF Last
<1>3. row' # Null
  BY <1>2, ChatAssumption
<1>4. Posted' = Posted
  BY <1>1 DEF Posted
<1>5. Sequential' /\ TabHasTurns' /\ HandoffsSeen' /\ SaveIsDue'
  BY <1>0, <1>1, <1>4 DEF Sequential, TabHasTurns, HandoffsSeen, SaveIsDue
<1>6. RowHasTurns'
  <2> SUFFICES ASSUME "slow" \notin faults, NEW n \in Posted
               PROVE  /\ run[n].pc = "finish" => saves' = <<>>
                      /\ run[n].pc \in {"finish", "done"} => HasTurn(row'.messages, n)
                      /\ run[n].pc = "done" => \A i \in DOMAIN saves' : HasTurn(saves'[i].messages, n)
    BY <1>0, <1>1, <1>3, <1>4 DEF RowHasTurns
  <2> QED BY <1>0, <1>1, <1>2 DEF RowHasTurns
<1>7. LastSaveFollows'
  BY <1>0, <1>1, <1>2, <1>3 DEF LastSaveFollows
<1> QED BY <1>5, <1>6, <1>7 DEF Holds

LEMMA EditStays ==
  ASSUME IInv, Stays, NEW v \in Values, UserEdits(v)
  PROVE  Holds'
<1>0. IType /\ Sequential /\ TabHasTurns /\ RowHasTurns /\ HandoffsSeen /\ SaveIsDue /\ LastSaveFollows
  BY DEF IInv, IStays, IType
<1>1. /\ tab' \in Tabs /\ UNCHANGED <<row, saves, run, faults>> /\ tab \in Tabs
      /\ tab' = [tab EXCEPT !.canvas = tab'.canvas, !.edited = TRUE, !.edits = tab.edits + 1]
  BY <1>0, EditStep DEF IType, Types
<1>2. /\ tab'.messages = tab.messages /\ tab'.status = tab.status /\ tab'.current = tab.current
      /\ tab'.wasLoading = tab.wasLoading /\ tab'.dirty = tab.dirty /\ tab'.processed = tab.processed
      /\ tab'.ext = tab.ext /\ tab'.stack = tab.stack
  <2> DEFINE c == tab'.canvas
             k == tab.edits + 1
  <2>1. tab' = [tab EXCEPT !.canvas = c, !.edited = TRUE, !.edits = k]
    BY <1>1
  <2> HIDE DEF c, k
  <2> QED BY <1>1, <2>1 DEF Tabs
<1>3. Posted' = Posted /\ Unseen(tab)' = Unseen(tab)
  BY <1>1, <1>2 DEF Posted, Unseen
<1>4. Sequential' /\ TabHasTurns' /\ RowHasTurns'
  BY <1>0, <1>1, <1>2, <1>3 DEF Sequential, TabHasTurns, RowHasTurns
<1>5. HandoffsSeen' /\ SaveIsDue'
  BY <1>0, <1>2, <1>3 DEF HandoffsSeen, SaveIsDue
<1>6. LastSaveFollows'
  BY <1>0, <1>1, <1>2 DEF LastSaveFollows, SameRow
<1> QED BY <1>4, <1>5, <1>6 DEF Holds

LEMMA LoadStays ==
  ASSUME IInv, Stays, NEW n \in 1..MaxRuns, Load(n)
  PROVE  Holds'
<1>0. IType /\ Sequential /\ TabHasTurns /\ RowHasTurns /\ HandoffsSeen /\ SaveIsDue /\ LastSaveFollows
  BY DEF IInv, IStays, IType
<1> DEFINE s == IF row = Null THEN <<>> ELSE row.messages
<1>1. PICK q \in RunStates :
         /\ run' = [run EXCEPT ![n] = q] /\ q.pc = "model" /\ q.turn = run[n].turn
         /\ q.history = Append(s, run[n].turn)
  BY <1>0, LoadMoves
<1>2. n \in Posted /\ run[n].pc = "load" /\ UNCHANGED <<row, tab, saves, faults>>
  BY <1>0, LoadMoves
<1>3. Posted' = Posted /\ run'[n] = q /\ \A m \in 1..MaxRuns : m # n => run'[m] = run[m]
  BY <1>0, <1>1, <1>2, SameRuns DEF IType
<1>4. n = tab.current /\ n # 0 /\ tab.status = "busy"
  BY <1>0, <1>2, ActiveIsRead DEF Over
<1>5. Posted \subseteq 1..MaxRuns
  BY DEF Posted
<1>6. Sequential'
  BY <1>0, <1>1, <1>2, <1>3, <1>4, <1>5 DEF Sequential, Over
<1>7. TabHasTurns'
  BY <1>0, <1>1, <1>2, <1>3, <1>5 DEF TabHasTurns
<1>8. RowHasTurns'
  <2> SUFFICES ASSUME "slow" \notin faults, NEW m \in Posted
               PROVE  /\ run'[m].pc = "finish" => saves = <<>>
                      /\ run'[m].pc \in {"finish", "done"} => row # Null /\ HasTurn(row.messages, m)
                      /\ run'[m].pc = "done" => \A i \in DOMAIN saves : HasTurn(saves[i].messages, m)
                      /\ run'[m].pc \notin {"load", "failed"} =>
                           /\ Has(run'[m].history, m, "user")
                           /\ \A k \in 1..m-1 : run'[k].pc = "done" => HasTurn(run'[m].history, k)
    BY <1>2, <1>3 DEF RowHasTurns
  <2>1. \A k \in 1..MaxRuns : run'[k].pc = "done" => run[k].pc = "done" /\ k # n /\ k \in Posted
    BY <1>1, <1>3 DEF Posted
  <2>2. CASE m = n
    <3>1. s \in Seq(Messages) /\ run[n].turn \in Messages
      <4>1. row \in Rows \cup {Null} /\ run[n] \in RunStates
        BY <1>0 DEF IType, Types
      <4> QED BY <4>1 DEF Rows, RunStates
    <3>2. run[n].turn.turn = n /\ run[n].turn.role = "user"
      BY <1>0, <1>2 DEF TabHasTurns
    <3> HIDE DEF s
    <3>3. /\ Has(q.history, n, "user")
          /\ \A k, role : Has(s, k, role) => Has(q.history, k, role)
      BY <1>1, <3>1, <3>2, AppendHas
    <3>4. \A k \in 1..n-1 : run'[k].pc = "done" => HasTurn(q.history, k)
      <4> SUFFICES ASSUME NEW k \in 1..n-1, run'[k].pc = "done" PROVE HasTurn(q.history, k)
        OBVIOUS
      <4>1. k \in 1..MaxRuns
        BY ChatAssumption
      <4>2. run[k].pc = "done" /\ k \in Posted
        BY <2>1, <4>1
      <4>3. row # Null /\ HasTurn(row.messages, k)
        BY <1>0, <4>2 DEF RowHasTurns
      <4> QED BY <3>3, <4>3 DEF HasTurn, s
    <3> QED BY <1>1, <1>3, <2>2, <3>3, <3>4
  <2>3. CASE m # n
    <3>1. run'[m] = run[m]
      BY <1>3, <1>5, <2>3
    <3>2. \A k \in 1..m-1 : run'[k].pc = "done" => run[k].pc = "done"
      <4>1. \A k \in 1..m-1 : k \in 1..MaxRuns
        BY <1>5, ChatAssumption
      <4> QED BY <2>1, <4>1
    <3> QED BY <1>0, <3>1, <3>2 DEF RowHasTurns
  <2> QED BY <2>2, <2>3
<1>9. HandoffsSeen' /\ SaveIsDue' /\ LastSaveFollows'
  BY <1>0, <1>2 DEF HandoffsSeen, SaveIsDue, LastSaveFollows
<1> QED BY <1>6, <1>7, <1>8, <1>9 DEF Holds

LEMMA CommitStays ==
  ASSUME IInv, Stays, NEW n \in 1..MaxRuns, Commit(n)
  PROVE  Holds'
<1>0. IType /\ Sequential /\ TabHasTurns /\ RowHasTurns /\ HandoffsSeen /\ SaveIsDue /\ LastSaveFollows
  BY DEF IInv, IStays, IType
<1>1. PICK q \in RunStates :
         /\ run' = [run EXCEPT ![n] = q] /\ q.pc = "finish" /\ q.turn = run[n].turn
         /\ q.history = run[n].history
  BY <1>0, CommitMoves
<1>2. /\ n \in Posted /\ run[n].pc = "commit" /\ UNCHANGED <<tab, saves, faults>>
      /\ "slow" \in faults \/ saves = <<>>
      /\ row' \in Rows /\ row'.messages = Append(run[n].history, Answer(n))
  BY <1>0, CommitMoves
<1>3. Posted' = Posted /\ run'[n] = q /\ \A m \in 1..MaxRuns : m # n => run'[m] = run[m]
  BY <1>0, <1>1, <1>2, SameRuns DEF IType
<1>4. n = tab.current /\ n # 0 /\ tab.status = "busy"
  BY <1>0, <1>2, ActiveIsRead DEF Over
<1>5. Posted \subseteq 1..MaxRuns /\ row' # Null
  BY <1>2, ChatAssumption DEF Posted
<1>6. Sequential'
  BY <1>0, <1>1, <1>2, <1>3, <1>4, <1>5 DEF Sequential, Over
<1>7. TabHasTurns'
  BY <1>0, <1>1, <1>2, <1>3, <1>5 DEF TabHasTurns
<1>8. RowHasTurns'
  <2> SUFFICES ASSUME "slow" \notin faults, NEW m \in Posted
               PROVE  /\ run'[m].pc \in {"finish", "done"} => HasTurn(row'.messages, m)
                      /\ run'[m].pc \notin {"load", "failed"} =>
                           /\ Has(run'[m].history, m, "user")
                           /\ \A k \in 1..m-1 : run'[k].pc = "done" => HasTurn(run'[m].history, k)
    <3>1. "slow" \notin faults => saves' = <<>> /\ DOMAIN saves' = {} /\ faults' = faults
      BY <1>2
    <3>2. "slow" \in faults => faults' = faults
      BY <1>2
    <3> QED BY <1>3, <1>5, <3>1, <3>2 DEF RowHasTurns
  <2>1. \A k \in 1..MaxRuns : run'[k].pc = "done" => run[k].pc = "done" /\ k # n
    BY <1>1, <1>3
  <2>2. /\ Has(run[n].history, n, "user")
        /\ \A k \in 1..n-1 : run[k].pc = "done" => HasTurn(run[n].history, k)
    BY <1>0, <1>2 DEF RowHasTurns
  <2>3. /\ Has(row'.messages, n, "assistant")
        /\ \A k, role : Has(run[n].history, k, role) => Has(row'.messages, k, role)
    <3>1. run[n].history \in Seq(Messages)
      BY <1>0 DEF IType, Types, RunStates
    <3>2. Answer(n) \in Messages /\ Answer(n).turn = n /\ Answer(n).role = "assistant"
      <4>1. n \in 0..MaxRuns
        BY ChatAssumption
      <4> QED BY <4>1, MessageKinds
    <3> QED BY <1>2, <3>1, <3>2, AppendHas
  <2>4. run'[m].pc \in {"finish", "done"} => HasTurn(row'.messages, m)
    <3>1. CASE m = n
      BY <2>2, <2>3, <3>1 DEF HasTurn
    <3>2. CASE m # n
      <4>1. run'[m] = run[m] /\ run[m].pc \in Over /\ m \in 1..n-1
        BY <1>0, <1>3, <1>4, <1>5, <3>2 DEF Sequential
      <4>2. run'[m].pc \in {"finish", "done"} => HasTurn(run[n].history, m)
        BY <2>2, <4>1 DEF Over
      <4> QED BY <2>3, <4>2 DEF HasTurn
    <3> QED BY <3>1, <3>2
  <2>5. run'[m].pc \notin {"load", "failed"} =>
          /\ Has(run'[m].history, m, "user")
          /\ \A k \in 1..m-1 : run'[k].pc = "done" => HasTurn(run'[m].history, k)
    <3>1. run'[m].history = run[m].history /\ (run'[m].pc \notin {"load", "failed"} => run[m].pc \notin {"load", "failed"})
      BY <1>1, <1>2, <1>3, <1>5
    <3>2. \A k \in 1..m-1 : run'[k].pc = "done" => run[k].pc = "done"
      <4>1. \A k \in 1..m-1 : k \in 1..MaxRuns
        BY <1>5, ChatAssumption
      <4> QED BY <2>1, <4>1
    <3> QED BY <1>0, <3>1, <3>2 DEF RowHasTurns
  <2> QED BY <2>4, <2>5
<1>9. HandoffsSeen' /\ SaveIsDue' /\ LastSaveFollows'
  BY <1>0, <1>2, <1>4 DEF HandoffsSeen, SaveIsDue, LastSaveFollows
<1> QED BY <1>6, <1>7, <1>8, <1>9 DEF Holds

\* What finishing and failing leave alone.
LEMMA MovesKeep ==
  ASSUME IInv, Stays, NEW n, NEW q, NEW t, Moves(n, q, t), run[n].pc \notin Over, row' = row
  PROVE  /\ n = tab.current /\ n # 0 /\ n \in 1..MaxRuns /\ tab.status = "busy"
         /\ tab'.status = t.status /\ tab'.dirty
         /\ tab'.messages = tab.messages /\ tab'.current = tab.current
         /\ tab'.wasLoading = tab.wasLoading
         /\ Unseen(tab)' = Unseen(tab) /\ Posted' = Posted
         /\ run'[n] = q /\ q.turn = run[n].turn /\ \A m \in 1..MaxRuns : m # n => run'[m] = run[m]
         /\ UNCHANGED <<saves, faults>>
<1>0. IType /\ Sequential /\ tab \in Tabs
  BY DEF IInv, IStays, IType, Types
<1>1. n = tab.current /\ n # 0 /\ n \in 1..MaxRuns /\ tab.status = "busy"
  BY <1>0, ActiveIsRead DEF Moves
<1>2. Posted' = Posted /\ run'[n] = q /\ \A m \in 1..MaxRuns : m # n => run'[m] = run[m]
  BY <1>0, SameRuns DEF Moves, IType
<1>3. /\ t.messages = tab.messages /\ t.current = tab.current /\ t.wasLoading = tab.wasLoading
      /\ t.processed = tab.processed /\ t \in Tabs
  <2> DEFINE st == t.status
  <2>1. t \in Tabs /\ t = [tab EXCEPT !.status = st]
    BY DEF Moves
  <2> HIDE DEF st
  <2> QED BY <1>0, <2>1 DEF Tabs
<1>4. tab' = [t EXCEPT !.dirty = TRUE]
  BY <1>1 DEF Moves, Stays
<1>5. /\ tab'.status = t.status /\ tab'.dirty /\ tab'.messages = t.messages
      /\ tab'.current = t.current /\ tab'.wasLoading = t.wasLoading /\ tab'.processed = t.processed
  BY <1>3, <1>4 DEF Tabs
<1>6. Unseen(tab)' = Unseen(tab)
  BY <1>3, <1>5 DEF Unseen
<1> QED BY <1>1, <1>2, <1>3, <1>5, <1>6 DEF Moves

LEMMA FinishStays ==
  ASSUME IInv, Stays, NEW n \in 1..MaxRuns, Finish(n)
  PROVE  Holds'
<1>0. IType /\ Sequential /\ TabHasTurns /\ RowHasTurns /\ HandoffsSeen /\ SaveIsDue /\ LastSaveFollows
  BY DEF IInv, IStays, IType
<1>1. ~tab.dirty /\ run[n].pc = "finish" /\ row' = row
  BY <1>0, FinishMoves
<1>2. PICK q, t : Moves(n, q, t) /\ q.pc = "done" /\ q.history = run[n].history /\ t.status = "ready"
  BY <1>0, FinishMoves
<1>3. /\ n = tab.current /\ n # 0 /\ tab.status = "busy"
      /\ tab'.status = "ready" /\ tab'.dirty
      /\ tab'.messages = tab.messages /\ tab'.current = tab.current
      /\ tab'.wasLoading = tab.wasLoading
      /\ Unseen(tab)' = Unseen(tab) /\ Posted' = Posted
      /\ run'[n] = q /\ q.turn = run[n].turn /\ \A m \in 1..MaxRuns : m # n => run'[m] = run[m]
      /\ UNCHANGED <<saves, faults>>
  BY <1>1, <1>2, MovesKeep DEF Over
<1>4. Posted \subseteq 1..MaxRuns /\ n \in Posted
  BY <1>1 DEF Posted
<1>5. Sequential'
  BY <1>0, <1>1, <1>2, <1>3, <1>4 DEF Sequential, Over
<1>6. TabHasTurns'
  BY <1>0, <1>1, <1>2, <1>3, <1>4 DEF TabHasTurns
<1>7. RowHasTurns'
  <2> SUFFICES ASSUME "slow" \notin faults, NEW m \in Posted
               PROVE  /\ run'[m].pc = "finish" => saves = <<>>
                      /\ run'[m].pc \in {"finish", "done"} => row # Null /\ HasTurn(row.messages, m)
                      /\ run'[m].pc = "done" => \A i \in DOMAIN saves : HasTurn(saves[i].messages, m)
                      /\ run'[m].pc \notin {"load", "failed"} =>
                           /\ Has(run'[m].history, m, "user")
                           /\ \A k \in 1..m-1 : run'[k].pc = "done" => HasTurn(run'[m].history, k)
    BY <1>1, <1>3 DEF RowHasTurns
  <2>1. m <= n
    BY <1>0, <1>3, ChatAssumption DEF Sequential, IType, Types, Tabs
  <2>2. \A k \in 1..m-1 : k \in 1..MaxRuns /\ run'[k] = run[k]
    BY <1>3, <1>4, <2>1, ChatAssumption
  <2>3. saves = <<>> /\ DOMAIN saves = {}
    BY <1>0, <1>1, <1>4 DEF RowHasTurns
  <2>4. CASE m = n
    BY <1>0, <1>1, <1>2, <1>3, <1>4, <2>2, <2>3, <2>4 DEF RowHasTurns
  <2>5. CASE m # n
    <3>1. run'[m] = run[m]
      BY <1>3, <1>4, <2>5
    <3> QED BY <1>0, <2>2, <2>3, <3>1 DEF RowHasTurns
  <2> QED BY <2>4, <2>5
<1>8. HandoffsSeen' /\ SaveIsDue' /\ LastSaveFollows'
  BY <1>0, <1>1, <1>3 DEF HandoffsSeen, SaveIsDue, LastSaveFollows
<1> QED BY <1>5, <1>6, <1>7, <1>8 DEF Holds

LEMMA FailStays ==
  ASSUME IInv, Stays, NEW n \in 1..MaxRuns, Fail(n)
  PROVE  Holds'
<1>0. IType /\ Sequential /\ TabHasTurns /\ RowHasTurns /\ HandoffsSeen /\ SaveIsDue /\ LastSaveFollows
  BY DEF IInv, IStays, IType
<1>1. run[n].pc \in {"load", "model", "commit"} /\ row' = row
  BY <1>0, FailMoves
<1>2. PICK q, t : Moves(n, q, t) /\ q.pc = "failed" /\ t.status = "error"
  BY <1>0, FailMoves
<1>3. /\ n = tab.current /\ n # 0 /\ tab.status = "busy"
      /\ tab'.status = "error" /\ tab'.dirty
      /\ tab'.messages = tab.messages /\ tab'.current = tab.current
      /\ Unseen(tab)' = Unseen(tab) /\ Posted' = Posted
      /\ run'[n] = q /\ q.turn = run[n].turn /\ \A m \in 1..MaxRuns : m # n => run'[m] = run[m]
      /\ UNCHANGED <<saves, faults>>
  BY <1>1, <1>2, MovesKeep DEF Over
<1>4. Posted \subseteq 1..MaxRuns /\ n \in Posted
  BY <1>1 DEF Posted
<1>5. Sequential'
  BY <1>0, <1>1, <1>2, <1>3, <1>4 DEF Sequential, Over
<1>6. TabHasTurns'
  BY <1>0, <1>1, <1>2, <1>3, <1>4 DEF TabHasTurns
<1>7. RowHasTurns'
  <2> SUFFICES ASSUME "slow" \notin faults, NEW m \in Posted
               PROVE  /\ run'[m].pc = "finish" => saves = <<>>
                      /\ run'[m].pc \in {"finish", "done"} => row # Null /\ HasTurn(row.messages, m)
                      /\ run'[m].pc = "done" => \A i \in DOMAIN saves : HasTurn(saves[i].messages, m)
                      /\ run'[m].pc \notin {"load", "failed"} =>
                           /\ Has(run'[m].history, m, "user")
                           /\ \A k \in 1..m-1 : run'[k].pc = "done" => HasTurn(run'[m].history, k)
    BY <1>1, <1>3 DEF RowHasTurns
  <2>1. CASE m = n
    BY <1>2, <1>3, <2>1
  <2>2. CASE m # n
    <3>1. run'[m] = run[m]
      BY <1>3, <1>4, <2>2
    <3>2. \A k \in 1..m-1 : run'[k].pc = "done" => run[k].pc = "done"
      <4>1. \A k \in 1..m-1 : k \in 1..MaxRuns
        BY <1>4, ChatAssumption
      <4> QED BY <1>2, <1>3, <4>1
    <3> QED BY <1>0, <3>1, <3>2 DEF RowHasTurns
  <2> QED BY <2>1, <2>2
<1>8. HandoffsSeen' /\ SaveIsDue' /\ LastSaveFollows'
  BY <1>0, <1>1, <1>3 DEF HandoffsSeen, SaveIsDue, LastSaveFollows
<1> QED BY <1>5, <1>6, <1>7, <1>8 DEF Holds

LEMMA AnswersStays ==
  ASSUME IInv, Stays, NEW n \in 1..MaxRuns, Answers(n)
  PROVE  Holds'
<1>0. IType /\ Sequential /\ TabHasTurns /\ RowHasTurns /\ HandoffsSeen /\ SaveIsDue /\ LastSaveFollows
      /\ tab \in Tabs
  BY DEF IInv, IStays, IType, Types
<1>1. /\ ~tab.dirty /\ run[n].pc = "model" /\ n \in Posted
      /\ run' = [run EXCEPT ![n] = run'[n]]
      /\ run'[n] \in RunStates /\ run'[n].pc \in {"model", "commit"}
      /\ run'[n].history = run[n].history /\ run'[n].turn = run[n].turn
      /\ UNCHANGED <<row, saves, faults>>
  BY DEF Answers
<1>2. n = tab.current /\ n # 0 /\ tab.status = "busy"
  BY <1>0, <1>1, ActiveIsRead DEF Over
<1>3. PICK u : Extends(n, tab, u) /\ tab' = [u EXCEPT !.dirty = TRUE]
  BY <1>2 DEF Answers, Stays
<1>4. /\ tab'.messages = u.messages /\ tab'.status = "busy" /\ tab'.current = tab.current /\ tab'.dirty
      /\ tab'.processed = tab.processed /\ u.messages \in Seq(Messages)
  <2> DEFINE s == u.messages
  <2>1. u \in Tabs /\ u = [tab EXCEPT !.messages = s]
    BY <1>3 DEF Extends
  <2>2. u.messages \in Seq(Messages)
    BY <2>1 DEF Tabs
  <2> HIDE DEF s
  <2>3. u.status = tab.status /\ u.current = tab.current /\ u.processed = tab.processed
    BY <1>0, <2>1 DEF Tabs
  <2> QED BY <1>2, <1>3, <2>1, <2>2, <2>3 DEF Tabs
<1>5. /\ Posted' = Posted /\ \A m \in 1..MaxRuns : m # n => run'[m] = run[m]
  <2>1. run'[n].pc # "none"
    BY <1>1
  <2> QED BY <1>0, <1>1, <2>1, SameRuns DEF IType
<1>6. Posted \subseteq 1..MaxRuns
  BY DEF Posted
<1>7. Sequential'
  BY <1>0, <1>1, <1>2, <1>4, <1>5, <1>6 DEF Sequential, Over
<1>8. TabHasTurns'
  <2>1. \A k, role : Has(tab.messages, k, role) => Has(tab'.messages, k, role)
    BY <1>3, <1>4 DEF Extends
  <2>2. Has(tab'.messages, n, "assistant")
    BY <1>3, <1>4, LastHas DEF Extends
  <2> QED BY <1>0, <1>1, <1>5, <1>6, <2>1, <2>2 DEF TabHasTurns
<1>9. RowHasTurns'
  <2>1. \A m \in Posted : \A k \in 1..m-1 : k \in 1..MaxRuns
    BY <1>6, ChatAssumption
  <2>2. \A k \in 1..MaxRuns : run'[k].pc = "done" => run[k].pc = "done"
    BY <1>1, <1>5
  <2> SUFFICES ASSUME "slow" \notin faults, NEW m \in Posted
               PROVE  /\ run'[m].pc = "finish" => saves = <<>>
                      /\ run'[m].pc \in {"finish", "done"} => row # Null /\ HasTurn(row.messages, m)
                      /\ run'[m].pc = "done" => \A i \in DOMAIN saves : HasTurn(saves[i].messages, m)
                      /\ run'[m].pc \notin {"load", "failed"} =>
                           /\ Has(run'[m].history, m, "user")
                           /\ \A k \in 1..m-1 : run'[k].pc = "done" => HasTurn(run'[m].history, k)
    BY <1>1, <1>5 DEF RowHasTurns
  <2>3. CASE m = n
    BY <1>0, <1>1, <2>1, <2>2, <2>3 DEF RowHasTurns
  <2>4. CASE m # n
    <3>1. run'[m] = run[m]
      BY <1>5, <1>6, <2>4
    <3> QED BY <1>0, <2>1, <2>2, <3>1 DEF RowHasTurns
  <2> QED BY <2>3, <2>4
<1>10. HandoffsSeen'
  <2>1. Unseen(tab) = {}
    BY <1>0, <1>1 DEF HandoffsSeen
  <2>2. \A i \in DOMAIN u.messages : u.messages[i].turn = n
          \/ (i \in DOMAIN tab.messages /\ u.messages[i] = tab.messages[i])
    BY <1>3 DEF Extends
  <2>3. ASSUME NEW i \in Unseen(tab') PROVE tab'.messages[i].turn = n
    <3>1. i \in DOMAIN u.messages /\ IsHandoff(u.messages[i]) /\ u.messages[i].turn \notin tab.processed
      BY <1>4, <2>3 DEF Unseen
    <3> QED BY <1>4, <2>1, <2>2, <3>1 DEF Unseen
  <2> QED BY <1>2, <1>4, <2>3 DEF HandoffsSeen
<1>11. SaveIsDue' /\ LastSaveFollows'
  BY <1>4 DEF SaveIsDue, LastSaveFollows
<1> QED BY <1>7, <1>8, <1>9, <1>10, <1>11 DEF Holds

\* A run's steps neither open nor close the tab, and leave its canvas.
LEMMA MovesOpen ==
  ASSUME tab \in Tabs, NEW n, NEW q, NEW t, Moves(n, q, t)
  PROVE  tab'.open = tab.open /\ tab'.canvas = tab.canvas /\ faults' = faults
<1> DEFINE st == t.status
<1>1. t \in Tabs /\ t = [tab EXCEPT !.status = st]
  BY DEF Moves
<1>2. tab' = [t EXCEPT !.dirty = TRUE] \/ tab' = tab
  BY DEF Moves
<1> HIDE DEF st
<1>3. t.open = tab.open /\ t.canvas = tab.canvas
  BY <1>1 DEF Tabs
<1>4. tab'.open = tab.open /\ tab'.canvas = tab.canvas
  BY <1>1, <1>2, <1>3 DEF Tabs
<1> QED BY <1>4 DEF Moves

\* Nor do the events of an answer.
LEMMA AnswersOpen ==
  ASSUME tab \in Tabs, NEW n, Answers(n)
  PROVE  tab'.open = tab.open /\ tab'.canvas = tab.canvas /\ faults' = faults
<1>1. CASE tab.open /\ tab.current = n
  <2>1. PICK u : Extends(n, tab, u) /\ tab' = [u EXCEPT !.dirty = TRUE]
    BY <1>1 DEF Answers
  <2> DEFINE s == u.messages
  <2>2. u \in Tabs /\ u = [tab EXCEPT !.messages = s]
    BY <2>1 DEF Extends
  <2> HIDE DEF s
  <2>3. u.open = tab.open /\ u.canvas = tab.canvas
    BY <2>2 DEF Tabs
  <2>4. tab'.open = tab.open /\ tab'.canvas = tab.canvas
    BY <2>1, <2>2, <2>3 DEF Tabs
  <2> QED BY <2>4 DEF Answers
<1>2. CASE ~(tab.open /\ tab.current = n)
  BY <1>2 DEF Answers
<1> QED BY <1>1, <1>2

\* Every step that leaves the tab open keeps what holds of it.
LEMMA StaysStep == IInv /\ [Next]_vars => IStays'
<1> SUFFICES ASSUME IInv, [Next]_vars, Stays' PROVE Holds'
  BY StaysIs DEF IStays, Holds
<1>0. IType /\ tab \in Tabs
  BY DEF IInv, IType, Types
<1>1. CASE Send
  <2>1. /\ tab' = Submitted(tab, "ask") /\ NextRun <= MaxRuns /\ tab.open /\ ~tab.dirty
        /\ tab.status # "busy" /\ UNCHANGED <<row, saves, faults>>
        /\ run' = [run EXCEPT ![NextRun] = Post(tab, "ask")]
    BY <1>1 DEF Send
  <2>2. Stays
    BY <2>1 DEF Stays
  <2>3. Unseen(tab) = {}
    BY <2>1, <2>2 DEF IInv, IStays, HandoffsSeen
  <2> QED BY <1>0, <2>1, <2>2, <2>3, SentStays
<1>2. CASE Effects
  <2>1. Stays
    BY <1>2 DEF Stays, Effects
  <2> QED BY <1>2, <2>1, EffectsStays
<1>3. CASE SaveLands
  <2>1. Stays
    BY <1>3 DEF Stays, SaveLands
  <2> QED BY <1>3, <2>1, SaveLandsStays
<1>4. CASE Reload
  BY <1>4 DEF Stays, Reload
<1>5. CASE Delete
  <2>1. tab' = [EmptyTab EXCEPT !.open = FALSE]
    BY <1>5 DEF Delete
  <2>2. ~tab'.open
    BY <2>1, TabTypes DEF Tabs
  <2> QED BY <2>2 DEF Stays
<1>6. ASSUME NEW v \in Values, UserEdits(v) PROVE Holds'
  <2>1. Stays
    BY <1>6 DEF Stays, UserEdits
  <2> QED BY <1>6, <2>1, EditStays
<1>7. ASSUME NEW n \in 1..MaxRuns, RunStep(n) PROVE Holds'
  <2>1. CASE Load(n)
    <3>1. Stays
      BY <2>1 DEF Stays, Load
    <3> QED BY <2>1, <3>1, LoadStays
  <2>2. CASE Commit(n)
    <3>1. Stays
      BY <2>2 DEF Stays, Commit
    <3> QED BY <2>2, <3>1, CommitStays
  <2>3. CASE Finish(n)
    <3>1. \E q, t : Moves(n, q, t)
      BY <1>0, <2>3, FinishMoves
    <3>2. Stays
      BY <1>0, <3>1, MovesOpen DEF Stays, Moves
    <3> QED BY <2>3, <3>2, FinishStays
  <2>4. CASE Fail(n)
    <3>1. \E q, t : Moves(n, q, t)
      BY <1>0, <2>4, FailMoves
    <3>2. Stays
      BY <1>0, <3>1, MovesOpen DEF Stays, Moves
    <3> QED BY <2>4, <3>2, FailStays
  <2>5. ASSUME \/ ModelText(n)
               \/ \E agent \in Agents, spelling \in {"extension", "agent"} :
                    ToolHandoff(n, agent, spelling)
               \/ \E spec \in Specs : ToolRender(n, spec)
        PROVE  Holds'
    <3>1. Answers(n)
      BY <1>0, <2>5, AnswersStep
    <3>2. Stays
      BY <1>0, <3>1, AnswersOpen DEF Stays, Answers
    <3> QED BY <3>1, <3>2, AnswersStays
  <2> QED BY <1>7, <2>1, <2>2, <2>3, <2>4, <2>5 DEF RunStep
<1>8. CASE UNCHANGED vars
  <2>1. UNCHANGED <<row, tab, saves, run, faults>>
    BY <1>8 DEF vars
  <2>2. Stays /\ Posted' = Posted /\ Unseen(tab)' = Unseen(tab)
    BY <2>1 DEF Stays, Posted, Unseen
  <2>3. Holds
    BY <2>2, StaysIs DEF IInv
  <2>4. Sequential' /\ TabHasTurns' /\ RowHasTurns'
    BY <2>1, <2>2, <2>3 DEF Holds, Sequential, TabHasTurns, RowHasTurns
  <2>5. HandoffsSeen' /\ SaveIsDue' /\ LastSaveFollows'
    BY <2>1, <2>2, <2>3 DEF Holds, HandoffsSeen, SaveIsDue, LastSaveFollows
  <2> QED BY <2>4, <2>5 DEF Holds
<1> QED BY <1>1, <1>2, <1>3, <1>4, <1>5, <1>6, <1>7, <1>8 DEF Next

\* Both parts of the invariant, in every state of every behaviour.
THEOREM InductiveInvariant == Spec => []IInv
<1>1. IInv /\ [Next]_vars => IInv'
  BY TypeStep, StaysStep DEF IInv
<1>2. QED
  BY InitInv, <1>1, PTL DEF Spec

-----------------------------------------------------------------------------
(***************************************************************************)
(* The properties.                                                         *)
(***************************************************************************)

\* A run of a conversation that is neither loaded again nor saved late reads
\* the question and the answer of every turn before it that completed,
\* although loadConversationStep races with the saveConversation of the turn
\* before (agent-loop.ts:1011, chat-panel.tsx:308).
THEOREM RunsReadTheirHistory == Spec => []ChatInv
<1>1. IInv => TypeOK
  <2> SUFFICES ASSUME IInv PROVE TypeOK
    OBVIOUS
  <2>1. /\ row \in Rows \cup {Null} /\ tab \in Tabs /\ saves \in Seq(Rows)
        /\ run \in [1..MaxRuns -> RunStates]
    BY DEF IInv, IType, Types
  <2>2. \A i \in DOMAIN saves : saves[i] \in Rows
    BY <2>1
  <2>3. \A n \in Posted : run[n].agent \in Agents /\ run[n].history \in Seq(Messages)
    BY <2>1 DEF Posted, RunStates
  <2>4. /\ tab.messages \in Seq(Messages) /\ tab.ext \in Extensions
        /\ tab.stack \in Seq(Entries) /\ tab.canvas \in Specs \cup {Null}
        /\ tab.status \in {"ready", "busy", "error"}
    BY <2>1 DEF Tabs, Canvases
  <2> QED BY <2>1, <2>2, <2>3, <2>4 DEF TypeOK
<1>2. IInv => HistoryKept
  <2> SUFFICES ASSUME IInv, faults \cap {"reload", "slow"} = {}, tab.open,
                      NEW n \in Posted, run[n].pc \notin {"load", "failed"},
                      NEW k \in 1..n-1, run[k].pc = "done"
               PROVE  LET read == {<<run[n].history[i].turn, run[n].history[i].role>> :
                                     i \in DOMAIN run[n].history}
                      IN {<<k, "user">>, <<k, "assistant">>} \subseteq read
    BY DEF HistoryKept
  <2>1. RowHasTurns /\ "slow" \notin faults
    BY DEF IInv, IStays, Stays
  <2>2. HasTurn(run[n].history, k)
    BY <2>1 DEF RowHasTurns
  <2> QED BY <2>2 DEF HasTurn, Has
<1>3. QED
  BY <1>1, <1>2, InductiveInvariant, PTL DEF ChatInv

\* Once the tab is idle and its saves have landed, the row holds what the tab
\* shows, whichever of its two writers came last (conversations.ts:36,
\* agent-loop.ts:919).
THEOREM RowIsShown == Spec => []RowFollowsTab
<1>1. IInv => RowFollowsTab
  <2> SUFFICES ASSUME IInv, "reload" \notin faults, tab.open, ~tab.dirty, tab.status = "ready",
                      saves = <<>>, row # Null
               PROVE  RowOf(tab) = [row EXCEPT !.canvas = tab.canvas]
    BY DEF RowFollowsTab
  <2>1. Sequential /\ SaveIsDue /\ LastSaveFollows
    BY DEF IInv, IStays, Stays
  <2>2. SameRow(row, tab)
    BY <2>1 DEF Sequential, SaveIsDue, LastSaveFollows
  <2>3. row \in Rows
    BY DEF IInv, IType, Types
  <2> QED BY <2>2, <2>3 DEF SameRow, RowOf, Rows
<1>2. QED
  BY <1>1, InductiveInvariant, PTL

\* The stream never overwrites a field that the user has edited on the form
\* that stays on display: only the user changes it (use-canvas.ts:90-104).
THEOREM UserEditsSurvive == Spec => EditsSurvive
<1>1. ASSUME IInv, [Next]_vars
      PROVE  [(\A v \in Values : ~UserEdits(v)) /\ tab.edited /\ tab'.edited /\ tab'.open
                => tab'.canvas.val = tab.canvas.val]_vars
  <2> SUFFICES ASSUME Next, \A v \in Values : ~UserEdits(v), tab'.edited, tab'.open
               PROVE  tab'.canvas.val = tab.canvas.val
    BY <1>1
  <2>0. IType /\ Types /\ tab \in Tabs
    BY <1>1 DEF IInv, IType, Types
  <2>1. CASE Send
    <3>1. tab' = Submitted(tab, "ask")
      BY <2>1 DEF Send
    <3> QED BY <2>0, <3>1 DEF Submitted, Tabs
  <2>2. CASE Effects
    <3>1. PICK c : Shown(c) /\ (tab' = c \/ tab' = Submitted(c, "continue"))
      BY <2>0, <2>2, EffectsStep
    <3>2. c \in Tabs /\ (c.edited => c.canvas.val = tab.canvas.val)
      BY <3>1 DEF Shown
    <3>3. tab'.canvas = c.canvas /\ tab'.edited = c.edited
      BY <3>1, <3>2 DEF Submitted, Tabs
    <3> QED BY <3>2, <3>3
  <2>3. CASE SaveLands
    BY <2>3 DEF SaveLands
  <2>4. CASE Reload
    <3>1. tab.edits \in Nat /\ row \in Rows \cup {Null}
      BY <2>0 DEF Tabs, Types
    <3>2. ~tab'.edited
      BY <2>4, <3>1 DEF Reload, RestoredTab, EmptyTab
    <3> QED BY <3>2
  <2>5. CASE Delete
    <3>1. ~tab'.open
      BY <2>5 DEF Delete, EmptyTab
    <3> QED BY <3>1
  <2>6. ASSUME NEW n \in 1..MaxRuns, RunStep(n) PROVE tab'.canvas.val = tab.canvas.val
    <3>1. CASE Load(n) \/ Commit(n)
      BY <3>1 DEF Load, Commit
    <3>2. CASE Finish(n) \/ Fail(n)
      <4>1. \E q, t : Moves(n, q, t)
        BY <2>0, <3>2, FinishMoves, FailMoves
      <4> QED BY <2>0, <4>1, MovesOpen
    <3>3. ASSUME \/ ModelText(n)
                 \/ \E agent \in Agents, spelling \in {"extension", "agent"} :
                      ToolHandoff(n, agent, spelling)
                 \/ \E spec \in Specs : ToolRender(n, spec)
          PROVE  tab'.canvas.val = tab.canvas.val
      <4>1. Answers(n)
        BY <2>0, <3>3, AnswersStep
      <4> QED BY <2>0, <4>1, AnswersOpen
    <3> QED BY <2>6, <3>1, <3>2, <3>3 DEF RunStep
  <2> QED BY <2>1, <2>2, <2>3, <2>4, <2>5, <2>6 DEF Next
<1>2. QED
  BY <1>1, InductiveInvariant, PTL DEF EditsSurvive, Spec

-----------------------------------------------------------------------------
(***************************************************************************)
(* FormInputs: the source table.                                           *)
(***************************************************************************)

\* What the input may hold, what may be shown below it, and answers of the catalog.
Named == Words \cup Tables \cup Dotted \cup {""}
Offered == {<<>>} \cup ({"definition", "catalog"} \X Named)
CatalogAnswers == UNION {[D -> BOOLEAN] : D \in SUBSET Dotted}

\* The type of the input of a source table.
SourceStates ==
  [value : Named, loaded : BOOLEAN, tables : {{}, Tables},
   status : {"idle", "loading", "definition", "catalog", "not_found"}, columns : Offered,
   cache : CatalogAnswers, timers : SUBSET Dotted, lookups : SUBSET Dotted, fetches : SUBSET Named,
   foreign : BOOLEAN]

\* The answers that are kept are those of the catalog.
CacheSound(s) == \A n \in DOMAIN s.cache : s.cache[n] = TRUE => n \in Catalog

\* The badge of s is that of its value.
Badge(s) ==
  /\ s.status \in {"definition", "catalog"} => s.columns = <<s.status, s.value>>
  /\ s.status = "definition" <=> s.value \in s.tables
  /\ s.status = "catalog" => s.value \in Catalog
  /\ s.status = "idle" <=> s.value \notin s.tables \cup Dotted

\* Nothing is on its way, and only a value that is not a table keeps its pause.
Settled(s) == s.loaded /\ ~s.foreign /\ s.lookups = {} /\ s.timers = {}
Paused(s) == s.value \notin {""} \cup s.tables => s.timers \subseteq {s.value}

\* The invariant of the source table.
SourceSound(s) ==
  /\ s \in SourceStates /\ CacheSound(s)
  /\ ~s.loaded => s.timers = {} /\ s.tables = {}
  /\ Settled(s) => Badge(s)
  /\ Paused(s)

\* r has what s has, but for what the badge shows and for its timers.
SameSource(r, s) ==
  /\ r.value = s.value /\ r.loaded = s.loaded /\ r.tables = s.tables /\ r.cache = s.cache
  /\ r.lookups = s.lookups /\ r.fetches = s.fetches /\ r.foreign = s.foreign

\* r is s but for its requests, or but for its cache.
SameButFetches(r, s) ==
  /\ r.value = s.value /\ r.loaded = s.loaded /\ r.tables = s.tables /\ r.cache = s.cache
  /\ r.lookups = s.lookups /\ r.foreign = s.foreign /\ r.timers = s.timers
  /\ r.status = s.status /\ r.columns = s.columns

\* r has what the badge of s was answered for.
SameAnswer(r, s) ==
  /\ r.value = s.value /\ r.loaded = s.loaded /\ r.tables = s.tables
  /\ r.timers = s.timers /\ r.foreign = s.foreign

\* Asking again for the list changes nothing that is shown.
LEMMA FetchesAside ==
  ASSUME NEW r \in SourceStates, SourceSound(src), SameButFetches(r, src)
  PROVE  SourceSound(r)
<1>1. CacheSound(r)
  BY DEF SourceSound, CacheSound, SameButFetches
<1>2. Settled(r) => Badge(r)
  BY DEF SourceSound, Settled, Badge, SameButFetches
<1>3. Paused(r) /\ (~r.loaded => r.timers = {} /\ r.tables = {})
  BY DEF SourceSound, Paused, SameButFetches
<1> QED  BY <1>1, <1>2, <1>3 DEF SourceSound

\* What the effect leaves fits the value it was started for.
LEMMA FoundIs ==
  ASSUME NEW s \in SourceStates, NEW n \in Named, NEW e \in BOOLEAN
  PROVE  LET r == Input!Found(s, n, e) IN
         /\ r \in SourceStates /\ SameSource(r, s) /\ r.timers = s.timers
         /\ r.status = IF e THEN "catalog" ELSE "not_found"
         /\ e => r.columns = <<"catalog", n>>
<1>1. CASE e
  <2>1. <<"catalog", n>> \in Offered
    BY DEF Offered
  <2> QED  BY <1>1, <2>1 DEF Input!Found, SourceStates, SameSource
<1>2. CASE ~e
  BY <1>2 DEF Input!Found, SourceStates, SameSource
<1> QED  BY <1>1, <1>2

\* A lookup starts only for the value, unless its answer is kept.
LEMMA CheckIs ==
  ASSUME NEW s \in SourceStates, CacheSound(s), s.loaded, s.value \notin s.tables
  PROVE  LET r == Input!CheckCatalog(s) IN
         /\ r \in SourceStates /\ SameSource(r, s)
         /\ r.timers = {} => Badge(r)
         /\ r.timers \subseteq {s.value}
<1> DEFINE r == Input!CheckCatalog(s)
<1> HIDE DEF r
<1>1. CASE s.value \notin Dotted
  <2>0. s.value \notin DOMAIN s.cache
    <3>1. PICK D \in SUBSET Dotted : s.cache \in [D -> BOOLEAN]
      BY DEF SourceStates, CatalogAnswers
    <3> QED  BY <1>1, <3>1
  <2>1. r = [s EXCEPT !.timers = {}, !.status = "idle"]
    BY <1>1, <2>0 DEF r, Input!CheckCatalog
  <2>2. r \in SourceStates /\ SameSource(r, s) /\ r.timers = {} /\ r.status = "idle"
    BY <2>1 DEF SourceStates, SameSource
  <2> QED  BY <1>1, <2>2 DEF Badge, SameSource, r
<1>2. CASE s.value \in Dotted /\ s.value \in DOMAIN s.cache
  <2> DEFINE q == [s EXCEPT !.timers = {}]
             e == s.cache[s.value]
  <2> HIDE DEF q, e
  <2>1. q \in SourceStates /\ SameSource(q, s) /\ q.timers = {}
    BY DEF SourceStates, SameSource, q
  <2>2. e \in BOOLEAN
    BY <1>2 DEF SourceStates, CatalogAnswers, e
  <2>3. r = Input!Found(q, s.value, e)
    BY <1>2 DEF r, Input!CheckCatalog, q, e
  <2>4. s.value \in Named
    BY DEF SourceStates
  <2>5. /\ r \in SourceStates /\ SameSource(r, q) /\ r.timers = q.timers
        /\ r.status = (IF e THEN "catalog" ELSE "not_found")
        /\ e => r.columns = <<"catalog", s.value>>
    BY <2>1, <2>2, <2>3, <2>4, FoundIs
  <2>6. SameSource(r, s)
    BY <2>1, <2>5 DEF SameSource
  <2>7. e = TRUE => s.value \in Catalog
    BY <1>2 DEF CacheSound, e
  <2>8. Badge(r)
    <3>1. CASE e = TRUE
      <4>1. r.status = "catalog" /\ r.columns = <<"catalog", s.value>>
        BY <2>5, <3>1
      <4>2. s.value \in Catalog
        BY <2>7, <3>1
      <4> QED  BY <4>1, <4>2, <1>2, <2>6 DEF Badge, SameSource
    <3>2. CASE e = FALSE
      <4>1. r.status = "not_found"
        BY <2>5, <3>2
      <4> QED  BY <4>1, <1>2, <2>6 DEF Badge, SameSource
    <3> QED  BY <2>2, <3>1, <3>2
  <2> QED  BY <2>1, <2>5, <2>6, <2>8 DEF r
<1>3. CASE s.value \in Dotted /\ s.value \notin DOMAIN s.cache
  <2>1. r = [s EXCEPT !.timers = {s.value}, !.status = "loading"]
    BY <1>3 DEF r, Input!CheckCatalog
  <2>2. r \in SourceStates /\ SameSource(r, s) /\ r.timers = {s.value}
    BY <2>1, <1>3 DEF SourceStates, SameSource
  <2> QED  BY <2>2 DEF r
<1> QED  BY <1>1, <1>2, <1>3

\* The list is there, or nothing is looked up.
LEMMA ResolveIs ==
  ASSUME NEW s \in SourceStates, CacheSound(s)
  PROVE  LET r == Input!Resolve(s) IN
         /\ r \in SourceStates /\ SameSource(r, s)
         /\ s.loaded /\ r.timers = {} => Badge(r)
         /\ s.loaded => Paused(r)
         /\ ~s.loaded => r.timers = s.timers
<1> DEFINE r == Input!Resolve(s)
<1> HIDE DEF r
<1>0. "" \notin Tables \cup Dotted
  BY InputAssumed DEF Input!InputAssumption
<1>1. CASE s.value = "" \/ ~s.loaded
  <2>1. r = [s EXCEPT !.status = "idle"]
    BY <1>1 DEF r, Input!Resolve
  <2>2. r \in SourceStates /\ SameSource(r, s) /\ r.timers = s.timers /\ r.status = "idle"
    BY <2>1 DEF SourceStates, SameSource
  <2>3. s.tables \subseteq Tables
    BY DEF SourceStates
  <2> QED  BY <1>0, <1>1, <2>2, <2>3 DEF Badge, SameSource, r, Paused
<1>2. CASE s.value # "" /\ s.loaded /\ s.value \in s.tables
  <2>1. r = [s EXCEPT !.columns = <<"definition", s.value>>, !.status = "definition"]
    BY <1>2 DEF r, Input!Resolve
  <2>2. <<"definition", s.value>> \in Offered
    BY DEF SourceStates, Offered
  <2>3. /\ r \in SourceStates /\ SameSource(r, s) /\ r.status = "definition"
        /\ r.columns = <<"definition", s.value>>
    BY <2>1, <2>2 DEF SourceStates, SameSource
  <2> QED  BY <1>2, <2>3 DEF Badge, SameSource, r, Paused
<1>3. CASE s.value # "" /\ s.loaded /\ s.value \notin s.tables
  <2>1. r = Input!CheckCatalog(s)
    BY <1>3 DEF r, Input!Resolve
  <2>2. /\ r \in SourceStates /\ SameSource(r, s)
        /\ r.timers = {} => Badge(r)
        /\ r.timers \subseteq {s.value}
    BY <1>3, <2>1, CheckIs
  <2> QED  BY <1>3, <2>2 DEF SameSource, r, Paused
<1> QED  BY <1>1, <1>2, <1>3

\* An effect of a state that keeps to the answers leaves a sound one.
LEMMA ResolveSound ==
  ASSUME NEW s \in SourceStates, CacheSound(s),
         ~s.loaded => s.timers = {} /\ s.tables = {}
  PROVE  SourceSound(Input!Resolve(s))
<1> DEFINE r == Input!Resolve(s)
<1> HIDE DEF r
<1>1. /\ r \in SourceStates /\ SameSource(r, s)
      /\ s.loaded /\ r.timers = {} => Badge(r)
      /\ s.loaded => Paused(r)
      /\ ~s.loaded => r.timers = s.timers
  BY ResolveIs DEF r
<1>2. CacheSound(r)
  BY <1>1 DEF CacheSound, SameSource
<1>3. Settled(r) => Badge(r)
  BY <1>1 DEF Settled, SameSource
<1>4. ~r.loaded => r.timers = {} /\ r.tables = {} /\ Paused(r)
  BY <1>1 DEF SameSource, Paused
<1>5. Paused(r)
  BY <1>1, <1>4 DEF SameSource
<1> QED  BY <1>1, <1>2, <1>3, <1>4, <1>5 DEF SourceSound, r

\* Every step of the source table keeps its invariant.
LEMMA SourceNext ==
  ASSUME SourceSound(src), Input!NextSource
  PROVE  SourceSound(src')
<1>1. src \in SourceStates /\ CacheSound(src)
  BY DEF SourceSound
<1>2. ASSUME NEW v \in Words \cup {""}, Input!TypeSource(v)
      PROVE  SourceSound(src')
  <2> DEFINE s == [src EXCEPT !.value = v, !.foreign = FALSE]
  <2> HIDE DEF s
  <2>1. src' = Input!Resolve(s)
    BY <1>2 DEF Input!TypeSource, s
  <2>2. v \in Named
    BY DEF Named
  <2>3. s \in SourceStates /\ s.cache = src.cache /\ s.loaded = src.loaded /\ s.timers = src.timers
        /\ s.tables = src.tables
    BY <1>1, <2>2 DEF SourceStates, s
  <2>4. CacheSound(s)
    BY <1>1, <2>3 DEF CacheSound
  <2>5. ~s.loaded => s.timers = {} /\ s.tables = {}
    BY <2>3 DEF SourceSound
  <2> QED  BY <2>1, <2>3, <2>4, <2>5, ResolveSound
<1>3. ASSUME NEW t \in src.tables, Input!SelectSource(t)
      PROVE  SourceSound(src')
  <2>1. t \in Tables /\ t \in Named
    BY <1>1 DEF SourceStates, Named
  <2>2. <<"definition", t>> \in Offered
    BY <2>1 DEF Offered
  <2>3. src' = [src EXCEPT !.value = t, !.columns = <<"definition", t>>, !.status = "definition",
                           !.foreign = FALSE]
    BY <1>3 DEF Input!SelectSource
  <2>4. /\ src' \in SourceStates /\ src'.cache = src.cache /\ src'.loaded = src.loaded
        /\ src'.tables = src.tables /\ src'.value = t /\ src'.status = "definition"
        /\ src'.columns = <<"definition", t>>
    BY <1>1, <2>1, <2>2, <2>3 DEF SourceStates
  <2>5. src'.loaded
    BY <1>3, <2>4 DEF Input!SelectSource
  <2>6. CacheSound(src')
    BY <1>1, <2>4 DEF CacheSound
  <2>7. Badge(src')
    BY <2>4 DEF Badge
  <2> QED  BY <2>4, <2>5, <2>6, <2>7 DEF SourceSound, Paused
<1>4. CASE Input!FocusSource
  <2>1. src' = [src EXCEPT !.fetches = @ \cup {src.value}]
    BY <1>4 DEF Input!FocusSource
  <2>2. src' \in SourceStates /\ SameButFetches(src', src)
    BY <1>1, <2>1 DEF SourceStates, SameButFetches
  <2> QED  BY <2>2, FetchesAside
<1>5. ASSUME NEW v \in src.fetches, Input!Fetched(v)
      PROVE  SourceSound(src')
  <2> DEFINE f == src.fetches \ {v}
             l == [src EXCEPT !.fetches = f, !.tables = Tables, !.loaded = TRUE]
             m == IF v \in Tables
                  THEN [l EXCEPT !.columns = <<"definition", v>>, !.status = "definition"]
                  ELSE l
  <2>1. src' = IF src.loaded THEN [m EXCEPT !.foreign = TRUE] ELSE Input!Resolve(m)
    BY <1>5 DEF Input!Fetched
  <2>2. v \in Named /\ f \in SUBSET Named
    BY <1>1 DEF SourceStates
  <2> HIDE DEF f
  <2>3. /\ l \in SourceStates /\ l.cache = src.cache /\ l.loaded = TRUE /\ l.timers = src.timers
        /\ l.tables = Tables /\ l.value = src.value
    BY <1>1, <2>2 DEF SourceStates
  <2> HIDE DEF l
  <2>4. <<"definition", v>> \in Offered
    BY <2>2 DEF Offered
  <2>5. /\ m \in SourceStates /\ m.cache = src.cache /\ m.loaded = TRUE /\ m.timers = src.timers
        /\ m.tables = Tables /\ m.value = src.value
    <3>1. CASE v \in Tables
      BY <2>3, <2>4, <3>1 DEF SourceStates
    <3>2. CASE v \notin Tables
      BY <2>3, <3>2
    <3> QED  BY <3>1, <3>2
  <2> HIDE DEF m
  <2>6. CacheSound(m)
    BY <1>1, <2>5 DEF CacheSound
  <2>7. CASE src.loaded
    <3>1. src' = [m EXCEPT !.foreign = TRUE]
      BY <2>1, <2>7
    <3>2. /\ src' \in SourceStates /\ src'.cache = src.cache /\ src'.loaded = TRUE
          /\ src'.timers = src.timers /\ src'.tables = Tables /\ src'.value = src.value
          /\ src'.foreign = TRUE
      BY <2>5, <3>1 DEF SourceStates
    <3>3. CacheSound(src')
      BY <1>1, <3>2 DEF CacheSound
    <3>4. src.tables \subseteq Tables
      BY <1>1 DEF SourceStates
    <3>5. Paused(src')
      BY <3>2, <3>4 DEF SourceSound, Paused
    <3> QED  BY <3>2, <3>3, <3>5 DEF SourceSound, Settled
  <2>8. CASE ~src.loaded
    <3>1. src' = Input!Resolve(m)
      BY <2>1, <2>8
    <3> QED  BY <2>5, <2>6, <3>1, ResolveSound
  <2> QED  BY <2>7, <2>8
<1>6. ASSUME NEW v \in src.fetches, Input!FetchFailed(v)
      PROVE  SourceSound(src')
  <2> DEFINE f == src.fetches \ {v}
             m == [src EXCEPT !.fetches = f, !.loaded = TRUE]
  <2>1. src' = IF src.loaded THEN m ELSE Input!Resolve(m)
    BY <1>6 DEF Input!FetchFailed
  <2>2. f \in SUBSET Named
    BY <1>1 DEF SourceStates
  <2> HIDE DEF f
  <2>3. m \in SourceStates /\ m.cache = src.cache /\ m.loaded = TRUE
    BY <1>1, <2>2 DEF SourceStates
  <2>4. CASE src.loaded
    <3>1. SameButFetches(m, src)
      BY <1>1, <2>4 DEF SourceStates, SameButFetches
    <3> QED  BY <2>1, <2>3, <2>4, <3>1, FetchesAside
  <2>5. CASE ~src.loaded
    <3> HIDE DEF m
    <3>1. CacheSound(m)
      BY <1>1, <2>3 DEF CacheSound
    <3> QED  BY <2>1, <2>3, <2>5, <3>1, ResolveSound
  <2> QED  BY <2>4, <2>5
<1>7. ASSUME NEW n \in src.timers, Input!Pause(n)
      PROVE  SourceSound(src')
  <2>1. src' = [src EXCEPT !.timers = @ \ {n}, !.lookups = @ \cup {n}]
    BY <1>7 DEF Input!Pause
  <2>2. /\ src' \in SourceStates /\ src'.cache = src.cache /\ src'.loaded = src.loaded
        /\ src'.timers = src.timers \ {n} /\ src'.tables = src.tables /\ src'.value = src.value
        /\ src'.lookups = src.lookups \cup {n}
    BY <1>1, <2>1 DEF SourceStates
  <2>3. CacheSound(src')
    BY <1>1, <2>2 DEF CacheSound
  <2>4. ~Settled(src')
    BY <2>2 DEF Settled
  <2>5. Paused(src')
    BY <2>2 DEF SourceSound, Paused
  <2> QED  BY <2>2, <2>3, <2>4, <2>5 DEF SourceSound
<1>8. ASSUME NEW n \in src.lookups, Input!LookupFailed(n) \/ \E up \in BOOLEAN : Input!LookedUp(n, up)
      PROVE  SourceSound(src')
  <2> DEFINE a == Input!Answered(n)
  <2>1. n \in Dotted /\ n \in Named
    BY <1>1 DEF SourceStates, Named
  <2>2. /\ a \in SourceStates /\ a.cache = src.cache /\ a.loaded = src.loaded
        /\ a.timers = src.timers /\ a.tables = src.tables /\ a.value = src.value
        /\ a.foreign = (n # src.value \/ n \in src.tables)
    <3> DEFINE o == n # src.value \/ n \in src.tables
               l == src.lookups \ {n}
    <3>1. o \in BOOLEAN /\ l \in SUBSET Dotted
      BY <1>1 DEF SourceStates
    <3>2. a = [src EXCEPT !.lookups = l, !.foreign = o]
      BY DEF Input!Answered
    <3> HIDE DEF o, l, a
    <3>3. /\ a \in SourceStates /\ a.cache = src.cache /\ a.loaded = src.loaded
          /\ a.timers = src.timers /\ a.tables = src.tables /\ a.value = src.value
          /\ a.foreign = o
      BY <1>1, <3>1, <3>2 DEF SourceStates
    <3> QED  BY <3>3 DEF o
  <2> HIDE DEF a
  <2>3. PICK q \in SourceStates, e \in BOOLEAN :
          /\ CacheSound(q) /\ SameAnswer(q, a) /\ (e => n \in Catalog)
          /\ src' = Input!Found(q, n, e)
    <3>1. CASE Input!LookupFailed(n)
      <4>1. src' = Input!Found(a, n, FALSE)
        BY <3>1 DEF Input!LookupFailed, a
      <4>2. CacheSound(a) /\ SameAnswer(a, a)
        BY <1>1, <2>2 DEF CacheSound, SameAnswer
      <4> QED  BY <2>2, <4>1, <4>2
    <3>2. ASSUME NEW up \in BOOLEAN, Input!LookedUp(n, up)
          PROVE  \E q \in SourceStates, e \in BOOLEAN :
                   /\ CacheSound(q) /\ SameAnswer(q, a) /\ (e => n \in Catalog)
                   /\ src' = Input!Found(q, n, e)
      <4> DEFINE e == up /\ n \in Catalog
                 c == Input!Remembered(a.cache, n, e)
                 q == [a EXCEPT !.cache = c]
      <4>1. src' = Input!Found(q, n, e)
        BY <3>2 DEF Input!LookedUp, a
      <4>2. e \in BOOLEAN /\ (e => n \in Catalog)
        OBVIOUS
      <4> HIDE DEF e
      <4>3. c \in CatalogAnswers /\ \A k \in DOMAIN c : c[k] = TRUE => k \in Catalog
        <5>1. PICK D \in SUBSET Dotted : a.cache \in [D -> BOOLEAN]
          BY <2>2 DEF SourceStates, CatalogAnswers
        <5>2. DOMAIN a.cache = D
          BY <5>1
        <5>3. c = [k \in D \cup {n} |-> IF k = n THEN e ELSE a.cache[k]]
          BY <5>2 DEF Input!Remembered
        <5>4. \A k \in D : a.cache[k] \in BOOLEAN /\ (a.cache[k] = TRUE => k \in Catalog)
          BY <1>1, <2>2, <5>1, <5>2 DEF CacheSound
        <5>5. c \in [D \cup {n} -> BOOLEAN]
          BY <5>3, <5>4, <4>2
        <5>6. \A k \in DOMAIN c : c[k] = TRUE => k \in Catalog
          BY <5>3, <5>4, <4>2
        <5>7. D \cup {n} \in SUBSET Dotted
          BY <2>1
        <5> QED  BY <5>5, <5>6, <5>7 DEF CatalogAnswers
      <4> HIDE DEF c
      <4>4. q \in SourceStates /\ q.cache = c /\ SameAnswer(q, a)
        BY <2>2, <4>3 DEF SourceStates, SameAnswer
      <4>5. CacheSound(q)
        BY <4>3, <4>4 DEF CacheSound
      <4> QED  BY <4>1, <4>2, <4>4, <4>5
    <3> QED  BY <1>8, <3>1, <3>2
  <2>4. /\ src' \in SourceStates /\ SameSource(src', q) /\ src'.timers = q.timers
        /\ src'.status = (IF e THEN "catalog" ELSE "not_found")
        /\ e => src'.columns = <<"catalog", n>>
    BY <2>1, <2>3, FoundIs
  <2>5. CacheSound(src')
    BY <2>3, <2>4 DEF CacheSound, SameSource
  <2>6. /\ src'.value = src.value /\ src'.loaded = src.loaded /\ src'.tables = src.tables
        /\ src'.timers = src.timers /\ src'.foreign = a.foreign
    BY <2>2, <2>3, <2>4 DEF SameSource, SameAnswer
  <2>7. ASSUME Settled(src') PROVE Badge(src')
    <3>1. n = src.value /\ n \notin src.tables
      BY <2>2, <2>6, <2>7 DEF Settled
    <3>2. CASE e = TRUE
      <4>1. src'.status = "catalog" /\ src'.columns = <<"catalog", n>> /\ n \in Catalog
        BY <2>3, <2>4, <3>2
      <4> QED  BY <2>1, <2>6, <3>1, <4>1 DEF Badge
    <3>3. CASE e = FALSE
      <4>1. src'.status = "not_found"
        BY <2>4, <3>3
      <4> QED  BY <2>1, <2>6, <3>1, <4>1 DEF Badge
    <3> QED  BY <2>3, <3>2, <3>3
  <2>8. Paused(src')
    BY <2>6 DEF SourceSound, Paused
  <2> QED  BY <2>4, <2>5, <2>6, <2>7, <2>8 DEF SourceSound
<1> QED  BY <1>2, <1>3, <1>4, <1>5, <1>6, <1>7, <1>8 DEF Input!NextSource

-----------------------------------------------------------------------------
(***************************************************************************)
(* FormInputs: the box that creates what it names.                         *)
(***************************************************************************)

\* What may be typed into the box, or asked by a popover.
Typeable == Terms \cup Visible \cup {""}
Requested == Typeable \cup {Input!None}

\* The type of the box.
BoxStates ==
  [kind : Kinds, value : Typeable, loaded : BOOLEAN, listed : SUBSET Typeable,
   fetches : SUBSET SUBSET Typeable, creating : BOOLEAN, filled : BOOLEAN, asked : Requested,
   error : Requested \cup {"required"}, created : SUBSET Typeable, tried : SUBSET Typeable,
   late : BOOLEAN, again : BOOLEAN]

\* What a popover of a dimension has asked for itself.
OwnAttempts(b) ==
  b.kind = "dimension" /\ b.creating /\ ~b.late =>
    /\ b.asked # Input!None => b.asked \in b.tried
    /\ b.error \in {Input!None, "required"} \cup b.tried

\* The invariant of the box: what it created is in the list, unless it asks again.
BoxSound(b) == b \in BoxStates /\ (~b.again => b.created \subseteq b.listed) /\ OwnAttempts(b)

\* Every step of the box keeps its invariant.
LEMMA BoxNext ==
  ASSUME BoxSound(box), Input!NextBox
  PROVE  BoxSound(box')
<1>0. box \in BoxStates
  BY DEF BoxSound
<1>1. ASSUME NEW v \in Typeable, box' = [box EXCEPT !.value = v]
      PROVE  BoxSound(box')
  BY <1>0, <1>1 DEF BoxSound, BoxStates, OwnAttempts
<1>2. ASSUME NEW v \in Terms \cup {""}, Input!TypeTerm(v) PROVE BoxSound(box')
  <2>1. v \in Typeable /\ box' = [box EXCEPT !.value = v]
    BY <1>2 DEF Typeable, Input!TypeTerm
  <2> QED  BY <1>1, <2>1
<1>3. ASSUME NEW n \in box.listed, Input!SelectTerm(n) PROVE BoxSound(box')
  <2>1. n \in Typeable /\ box' = [box EXCEPT !.value = n]
    BY <1>0, <1>3 DEF BoxStates, Input!SelectTerm
  <2> QED  BY <1>1, <2>1
<1>4. CASE Input!FocusBox
  <2>1. box' = [box EXCEPT !.fetches = @ \cup {box.created}]
    BY <1>4 DEF Input!FocusBox
  <2> QED  BY <1>0, <2>1 DEF BoxSound, BoxStates, OwnAttempts
<1>5. CASE Input!OpenCreate
  <2> DEFINE f == box.kind = "entity"
             e == IF box.kind = "dimension" THEN Input!None ELSE box.error
             l == box.asked # Input!None
  <2>1. box' = [box EXCEPT !.creating = TRUE, !.filled = f, !.error = e, !.tried = {}, !.late = l]
    BY <1>5 DEF Input!OpenCreate
  <2>2. f \in BOOLEAN /\ l \in BOOLEAN /\ e \in Requested \cup {"required"}
    BY <1>0 DEF BoxStates, Requested
  <2>3. (box.kind = "dimension" => e = Input!None) /\ (~l => box.asked = Input!None)
    OBVIOUS
  <2> HIDE DEF f, e, l
  <2>4. /\ box' \in BoxStates /\ box'.kind = box.kind /\ box'.again = box.again
        /\ box'.created = box.created /\ box'.listed = box.listed /\ box'.error = e
        /\ box'.late = l /\ box'.asked = box.asked
    BY <1>0, <2>1, <2>2 DEF BoxStates
  <2> QED  BY <2>2, <2>3, <2>4 DEF BoxSound, OwnAttempts
<1>6. CASE Input!Fill
  <2>1. box' = [box EXCEPT !.filled = TRUE]
    BY <1>6 DEF Input!Fill
  <2> QED  BY <1>0, <2>1 DEF BoxSound, BoxStates, OwnAttempts
<1>7. CASE Input!HandleCreate
  <2>1. CASE box.filled
    <3>1. /\ box' = [box EXCEPT !.asked = box.value, !.error = Input!None,
                                !.tried = @ \cup {box.value}]
      BY <1>7, <2>1 DEF Input!HandleCreate
    <3> QED  BY <1>0, <3>1 DEF BoxSound, BoxStates, OwnAttempts, Requested
  <2>2. CASE ~box.filled
    <3>1. box' = [box EXCEPT !.error = "required"]
      BY <1>7, <2>2 DEF Input!HandleCreate
    <3> QED  BY <1>0, <3>1 DEF BoxSound, BoxStates, OwnAttempts
  <2> QED  BY <2>1, <2>2
<1>8. ASSUME NEW clear \in BOOLEAN, Input!Cancel(clear) PROVE BoxSound(box')
  <2> DEFINE e == IF clear THEN Input!None ELSE box.error
  <2>1. box' = [box EXCEPT !.creating = FALSE, !.error = e]
    BY <1>8 DEF Input!Cancel
  <2>2. e \in Requested \cup {"required"}
    BY <1>0 DEF BoxStates, Requested
  <2> HIDE DEF e
  <2> QED  BY <1>0, <2>1, <2>2 DEF BoxSound, BoxStates, OwnAttempts
<1>9. ASSUME NEW at \in box.fetches, Input!BoxFetched(at) PROVE BoxSound(box')
  <2>1. PICK seen \in {at, box.created} :
          box' = [box EXCEPT !.fetches = @ \ {at}, !.loaded = TRUE, !.listed = Visible \cup seen,
                             !.again = @ \/ seen # box.created]
    BY <1>9 DEF Input!BoxFetched
  <2> DEFINE a == box.again \/ seen # box.created
             s == Visible \cup seen
  <2>2. a \in BOOLEAN /\ s \in SUBSET Typeable /\ (~a => ~box.again /\ box.created \subseteq s)
    BY <1>0 DEF BoxStates, Typeable
  <2>3. box' = [box EXCEPT !.fetches = @ \ {at}, !.loaded = TRUE, !.listed = s, !.again = a]
    BY <2>1
  <2> HIDE DEF a, s
  <2> QED  BY <1>0, <2>2, <2>3 DEF BoxSound, BoxStates, OwnAttempts
<1>10. ASSUME NEW at \in box.fetches, Input!BoxFetchFailed(at) PROVE BoxSound(box')
  <2>1. box' = [box EXCEPT !.fetches = @ \ {at}, !.loaded = TRUE]
    BY <1>10 DEF Input!BoxFetchFailed
  <2> QED  BY <1>0, <2>1 DEF BoxSound, BoxStates, OwnAttempts
<1>11. CASE Input!CreateAnswered
  <2> DEFINE v == IF box.kind = "dimension" THEN box.asked ELSE box.value
  <2>1. box' = [box EXCEPT !.created = @ \cup {box.asked}, !.listed = @ \cup {box.asked},
                           !.value = v, !.creating = FALSE, !.asked = Input!None]
    BY <1>11 DEF Input!CreateAnswered
  <2>2. box.asked \in Typeable /\ v \in Typeable
    BY <1>0, <1>11 DEF Input!CreateAnswered, BoxStates, Requested
  <2> HIDE DEF v
  <2> QED  BY <1>0, <2>1, <2>2 DEF BoxSound, BoxStates, OwnAttempts, Requested
<1>12. ASSUME NEW lost \in BOOLEAN, Input!CreateFailed(lost) PROVE BoxSound(box')
  <2> DEFINE a == box.again \/ lost
             c == IF lost THEN box.created \cup {box.asked} ELSE box.created
  <2>1. box' = [box EXCEPT !.error = box.asked, !.asked = Input!None, !.again = a, !.created = c]
    BY <1>12 DEF Input!CreateFailed
  <2>2. box.asked \in Typeable
    BY <1>0, <1>12 DEF Input!CreateFailed, BoxStates, Requested
  <2>3. /\ a \in BOOLEAN /\ c \in SUBSET Typeable
        /\ ~a => ~box.again /\ c = box.created
    BY <1>0, <2>2 DEF BoxStates
  <2>4. box.asked # Input!None
    BY <1>12 DEF Input!CreateFailed
  <2> HIDE DEF a, c
  <2> QED  BY <1>0, <2>1, <2>2, <2>3, <2>4 DEF BoxSound, BoxStates, OwnAttempts, Requested
<1> QED
  BY <1>2, <1>3, <1>4, <1>5, <1>6, <1>7, <1>8, <1>9, <1>10, <1>11, <1>12 DEF Input!NextBox

-----------------------------------------------------------------------------
(***************************************************************************)
(* FormInputs: the expression with its tab stops.                          *)
(***************************************************************************)

\* The characters an expression is made of.
Characters == {"l", "f", "."} \cup {Input!ToString(i) : i \in Nat}

\* The type of the expression.
ExprStates ==
  [text : Seq(Characters), cursor : Nat, stops : Seq(Nat \X Nat), tab : Nat,
   args : Seq(Seq(Characters)), fresh : BOOLEAN]

\* The stops follow one another, and what stands at each is its argument.
Fits(text, stops, args) ==
  /\ Len(stops) = Len(args)
  /\ \A i \in 1..Len(stops) :
       /\ stops[i][2] = stops[i][1] + Len(args[i]) /\ stops[i][2] <= Len(text)
       /\ \A k \in 1..Len(args[i]) : text[stops[i][1] + k] = args[i][k]
  /\ \A i, j \in 1..Len(stops) : i < j => stops[i][2] <= stops[j][1]

\* The invariant of the expression: outside a function there are no stops.
ExprSound(e) ==
  /\ e \in ExprStates /\ e.cursor <= Len(e.text) /\ e.tab <= Len(e.stops)
  /\ e.tab = 0 => e.stops = <<>>
  /\ Fits(e.text, e.stops, e.args)

\* A set of numbers has a least one.
LEMMA LeastOne ==
  ASSUME NEW T, T \subseteq Nat, T # {}
  PROVE  \E m \in T : \A n \in T : m <= n
<1>1. PICK m \in T : \A n \in T : ~(<<n, m>> \in OpToRel(<, Nat))
  BY NatLessThanWellFounded, WFMin
<1>2. \A n \in T : m <= n
  <2> SUFFICES ASSUME NEW n \in T, ~(m <= n) PROVE FALSE
    OBVIOUS
  <2>1. n \in Nat /\ m \in Nat
    OBVIOUS
  <2>2. n < m
    BY <2>1
  <2> QED  BY <1>1, <2>1, <2>2 DEF OpToRel
<1> QED  BY <1>2

\* What a recursive definition over the first naturals defines.
Iterated(g, step, a, m) == \A n \in 1..m : g[n] = IF n = 1 THEN a ELSE step[n][g[n - 1]]

\* There is such a g.
LEMMA Iterates ==
  ASSUME NEW S, NEW step \in [Nat -> [S -> S]], NEW a \in S, NEW m \in Nat
  PROVE  \E g \in [1..m -> S] : Iterated(g, step, a, m)
<1> DEFINE There(k) == \E g \in [1..k -> S] : Iterated(g, step, a, k)
           T == {k \in Nat : ~There(k)}
<1> SUFFICES ASSUME T # {} PROVE FALSE
  OBVIOUS
<1>1. T \subseteq Nat
  OBVIOUS
<1>2. PICK k \in T : \A n \in T : k <= n
  BY <1>1, LeastOne
<1>3. k \in Nat /\ ~There(k)
  OBVIOUS
<1>4. There(0)
  <2>1. \A g : Iterated(g, step, a, 0)
    BY DEF Iterated
  <2>2. [n \in 1..0 |-> a] \in [1..0 -> S]
    OBVIOUS
  <2> WITNESS [n \in 1..0 |-> a] \in [1..0 -> S]
  <2> QED  BY <2>1
<1>5. k # 0
  BY <1>3, <1>4
<1>6. k - 1 \in Nat /\ k - 1 \notin T
  <2> HIDE DEF There, T
  <2>1. k - 1 \in Nat /\ ~(k <= k - 1)
    BY <1>3, <1>5
  <2> QED  BY <1>2, <2>1
<1>7. There(k - 1)
  BY <1>6
<1>8. PICK g \in [1..(k - 1) -> S] : Iterated(g, step, a, k - 1)
  BY <1>7
<1> DEFINE last == IF k = 1 THEN a ELSE step[k][g[k - 1]]
           h == [n \in 1..k |-> IF n = k THEN last ELSE g[n]]
<1>9. last \in S
  <2>1. k # 1 => k - 1 \in 1..(k - 1)
    BY <1>6
  <2> QED  BY <1>3, <2>1
<1>10. h \in [1..k -> S]
  <2>1. \A n \in 1..k : n # k => n \in 1..(k - 1)
    BY <1>3
  <2> HIDE DEF last
  <2> QED  BY <1>9, <2>1
<1>11. ASSUME NEW n \in 1..k PROVE h[n] = IF n = 1 THEN a ELSE step[n][h[n - 1]]
  <2>1. n # 1 => n - 1 \in 1..k /\ n - 1 # k
    BY <1>3
  <2>2. n # 1 => h[n - 1] = g[n - 1]
    BY <2>1
  <2>3. CASE n = k
    BY <2>2, <2>3
  <2>4. CASE n # k
    <3>1. n \in 1..(k - 1)
      BY <1>3, <2>4
    <3> QED  BY <1>8, <2>2, <2>4, <3>1 DEF Iterated
  <2> QED  BY <2>3, <2>4
<1>12. Iterated(h, step, a, k)
  BY <1>11 DEF Iterated
<1> HIDE DEF h
<1> QED  BY <1>3, <1>10, <1>12

\* Where the stops of a function start.
LEMMA StopsAre ==
  ASSUME NEW start \in Nat, NEW f \in Seq(Nat)
  PROVE  \E h : /\ \A i \in 1..Len(f) : h[i] = IF i = 1 THEN start ELSE h[i - 1] + f[i - 1] + 2
                /\ Input!StopsFrom(start, f) = [i \in 1..Len(f) |-> <<h[i], h[i] + f[i]>>]
<1> DEFINE Is(h) == h = [i \in 1..Len(f) |-> IF i = 1 THEN start ELSE h[i - 1] + f[i - 1] + 2]
           step == [n \in Nat |-> [x \in Nat |-> IF n - 1 \in 1..Len(f) THEN x + f[n - 1] + 2 ELSE x]]
<1>1. step \in [Nat -> [Nat -> Nat]] /\ Len(f) \in Nat
  OBVIOUS
<1>2. PICK g \in [1..Len(f) -> Nat] : Iterated(g, step, start, Len(f))
  <2> HIDE DEF step
  <2> DEFINE N == Nat
  <2>1. /\ step \in [Nat -> [N -> N]] /\ start \in N
    BY <1>1
  <2> HIDE DEF N
  <2>2. \E g \in [1..Len(f) -> N] : Iterated(g, step, start, Len(f))
    BY <1>1, <2>1, Iterates
  <2> QED  BY <2>2 DEF N
<1>3. Is(g)
  <2>1. ASSUME NEW n \in 1..Len(f)
        PROVE  g[n] = IF n = 1 THEN start ELSE g[n - 1] + f[n - 1] + 2
    <3>1. n # 1 => n - 1 \in 1..Len(f)
      OBVIOUS
    <3>2. n # 1 => step[n][g[n - 1]] = g[n - 1] + f[n - 1] + 2
      <4> SUFFICES ASSUME n # 1 PROVE step[n][g[n - 1]] = g[n - 1] + f[n - 1] + 2
        OBVIOUS
      <4>1. g[n - 1] \in Nat /\ n \in Nat
        BY <3>1
      <4> QED  BY <3>1, <4>1
    <3> QED  BY <1>2, <3>2 DEF Iterated
  <2> QED  BY <2>1
<1>4. PICK h : h = (CHOOSE e : Is(e))
  OBVIOUS
<1> HIDE DEF Is, step
<1>5. Is(h)
  BY <1>3, <1>4
<1>6. Input!StopsFrom(start, f) = [i \in 1..Len(f) |-> <<h[i], h[i] + f[i]>>]
  BY <1>4 DEF Input!StopsFrom, Is
<1>7. \A i \in 1..Len(f) : h[i] = IF i = 1 THEN start ELSE h[i - 1] + f[i - 1] + 2
  BY <1>5 DEF Is
<1> QED  BY <1>6, <1>7

\* The sequences of a sequence, one after the other.
LEMMA FlatIs ==
  ASSUME NEW C, NEW seqs \in Seq(Seq(C)), Len(seqs) # 0
  PROVE  \E h : /\ \A i \in 1..Len(seqs) : h[i] = IF i = 1 THEN seqs[i] ELSE h[i - 1] \o seqs[i]
                /\ Input!FlattenSeq(seqs) = h[Len(seqs)]
<1> DEFINE Is(h) == h = [i \in 1..Len(seqs) |-> IF i = 1 THEN seqs[i] ELSE h[i - 1] \o seqs[i]]
           step == [n \in Nat |-> [x \in Seq(C) |-> IF n \in 1..Len(seqs) THEN x \o seqs[n] ELSE x]]
<1>1. step \in [Nat -> [Seq(C) -> Seq(C)]] /\ Len(seqs) \in Nat /\ seqs[1] \in Seq(C)
  OBVIOUS
<1>2. PICK g \in [1..Len(seqs) -> Seq(C)] : Iterated(g, step, seqs[1], Len(seqs))
  <2> HIDE DEF step
  <2> DEFINE N == Seq(C)
  <2>1. /\ step \in [Nat -> [N -> N]] /\ seqs[1] \in N
    BY <1>1
  <2> HIDE DEF N
  <2>2. \E g \in [1..Len(seqs) -> N] : Iterated(g, step, seqs[1], Len(seqs))
    BY <1>1, <2>1, Iterates
  <2> QED  BY <2>2 DEF N
<1>3. Is(g)
  <2>1. ASSUME NEW n \in 1..Len(seqs)
        PROVE  g[n] = IF n = 1 THEN seqs[n] ELSE g[n - 1] \o seqs[n]
    <3>1. n # 1 => n - 1 \in 1..Len(seqs)
      OBVIOUS
    <3>2. n # 1 => step[n][g[n - 1]] = g[n - 1] \o seqs[n]
      <4> SUFFICES ASSUME n # 1 PROVE step[n][g[n - 1]] = g[n - 1] \o seqs[n]
        OBVIOUS
      <4>1. g[n - 1] \in Seq(C) /\ n \in Nat
        BY <3>1
      <4> QED  BY <4>1
    <3> QED  BY <1>2, <3>2 DEF Iterated
  <2> QED  BY <2>1
<1>4. PICK h : h = (CHOOSE e : Is(e))
  OBVIOUS
<1> HIDE DEF Is, step
<1>5. Is(h)
  BY <1>3, <1>4
<1>6. Input!FlattenSeq(seqs) = h[Len(seqs)]
  BY <1>4 DEF Input!FlattenSeq, Is
<1>7. \A i \in 1..Len(seqs) : h[i] = IF i = 1 THEN seqs[i] ELSE h[i - 1] \o seqs[i]
  BY <1>5 DEF Is
<1> QED  BY <1>6, <1>7

\* The arguments of a function stand where its stops say, counted from start.
Stand(joined, stops, args, start) ==
  \A i \in 1..Len(stops) : /\ stops[i][1] \in Nat /\ start <= stops[i][1]
                           /\ stops[i][2] = stops[i][1] + Len(args[i])
                           /\ stops[i][2] - start <= Len(joined)
                           /\ \A k \in 1..Len(args[i]) : joined[stops[i][1] - start + k] = args[i][k]

\* The stops follow one another.
Follow(stops) == \A i, j \in 1..Len(stops) : i < j => stops[i][2] <= stops[j][1]

\* u is s and then t.
Joins(u, s, t) ==
  /\ Len(u) = Len(s) + Len(t)
  /\ \A k \in 1..Len(s) : u[k] = s[k]
  /\ \A k \in 1..Len(t) : u[Len(s) + k] = t[k]

\* It is what \o makes.
LEMMA JoinsIs ==
  ASSUME NEW C, NEW s \in Seq(C), NEW t \in Seq(C)
  PROVE  s \o t \in Seq(C) /\ Joins(s \o t, s, t)
<1> DEFINE u == s \o t
<1>1. /\ u \in Seq(C) /\ Len(u) = Len(s) + Len(t)
      /\ \A k \in 1..Len(s) + Len(t) : u[k] = IF k <= Len(s) THEN s[k] ELSE t[k - Len(s)]
  BY ConcatProperties
<1> HIDE DEF u
<1>2. Len(s) \in Nat /\ Len(t) \in Nat
  OBVIOUS
<1>3. ASSUME NEW k \in 1..Len(s) PROVE u[k] = s[k]
  BY <1>1, <1>2
<1>4. ASSUME NEW k \in 1..Len(t) PROVE u[Len(s) + k] = t[k]
  <2> DEFINE x == Len(s) + k
  <2>1. x \in 1..Len(s) + Len(t) /\ ~(x <= Len(s)) /\ x - Len(s) = k
    BY <1>2
  <2> HIDE DEF x
  <2>2. u[x] = t[k]
    BY <1>1, <2>1
  <2> QED  BY <2>2 DEF x
<1> QED  BY <1>1, <1>3, <1>4 DEF u, Joins

\* The next of the arguments: where it starts and where it ends.
Further(a, p, m, lp, f, ls, i, li) ==
  /\ i \in Nat /\ a <= i /\ li = (i - a) + f
  /\ \A k \in 1..f : 2 + k \in 1..ls /\ lp + (2 + k) = i - a + k
  /\ \A j, g \in Nat : a <= j /\ j + g <= p + m =>
       j + g <= i /\ j + g <= i + f /\ \A k \in 1..g : j - a + k \in 1..lp

LEMMA NextAt ==
  ASSUME NEW a \in Nat, NEW p \in Nat, NEW m \in Nat, NEW f \in Nat, a <= p,
         NEW lp, lp = (p - a) + m, NEW ls, ls = 2 + f, NEW i, i = p + m + 2, NEW li, li = lp + ls
  PROVE  Further(a, p, m, lp, f, ls, i, li)
BY DEF Further

\* Arguments, with their lengths f.
Arguments(args, C, f) ==
  /\ args \in Seq(Seq(C)) /\ f \in Seq(Nat) /\ Len(f) = Len(args)
  /\ \A i \in 1..Len(args) : Len(args[i]) = f[i]

\* The arguments of a function stand at its stops, and these follow one another.
LEMMA JoinedAre ==
  ASSUME NEW C, "." \in C, NEW args, NEW f, Arguments(args, C, f), NEW start \in Nat
  PROVE  LET stops == Input!StopsFrom(start, f)
             joined == Input!Joined(args) IN
         /\ joined \in Seq(C) /\ stops \in Seq(Nat \X Nat) /\ Len(stops) = Len(args)
         /\ Stand(joined, stops, args, start) /\ Follow(stops)
<1> DEFINE stops == Input!StopsFrom(start, f)
           joined == Input!Joined(args)
           n == Len(args)
           dots == <<".", ".">>
           seqs == [i \in 1..n |-> IF i = 1 THEN args[i] ELSE dots \o args[i]]
<1>1. n \in Nat /\ DOMAIN args = 1..n /\ \A i \in 1..n : args[i] \in Seq(C) /\ f[i] \in Nat
  BY LenProperties, ElementOfSeq DEF Arguments, n
<1>10. f \in Seq(Nat) /\ Len(f) = n /\ \A i \in 1..n : Len(args[i]) = f[i]
  BY DEF Arguments
<1>2. dots \in Seq(C) /\ Len(dots) = 2
  OBVIOUS
<1> HIDE DEF n, dots
<1>3. \A i \in 1..n : /\ dots \o args[i] \in Seq(C) /\ Len(dots \o args[i]) = 2 + f[i]
                      /\ \A k \in 1..f[i] : (dots \o args[i])[2 + k] = args[i][k]
  <2> TAKE i \in 1..n
  <2>1. Len(args[i]) = f[i] /\ args[i] \in Seq(C) /\ f[i] \in Nat
    BY <1>1, <1>10
  <2>2. dots \o args[i] \in Seq(C) /\ Joins(dots \o args[i], dots, args[i])
    BY <1>2, <2>1, JoinsIs
  <2> QED  BY <1>2, <2>1, <2>2 DEF Joins
<1>4. seqs \in Seq(Seq(C)) /\ Len(seqs) = n
  <2>1. \A i \in 1..n : seqs[i] \in Seq(C)
    BY <1>1, <1>3
  <2>2. seqs \in [1..n -> Seq(C)]
    BY <2>1
  <2> QED  BY <1>1, <2>2
<1>5. joined = Input!FlattenSeq(seqs)
  BY <1>1 DEF Input!Joined, dots
<1>6. PICK h : /\ \A i \in 1..Len(f) : h[i] = IF i = 1 THEN start ELSE h[i - 1] + f[i - 1] + 2
               /\ stops = [i \in 1..Len(f) |-> <<h[i], h[i] + f[i]>>]
  BY <1>10, StopsAre
<1>7. stops = [i \in 1..n |-> <<h[i], h[i] + f[i]>>]
  BY <1>6, <1>10
<1> HIDE DEF stops, joined, seqs
<1>8. CASE n = 0
  <2>1. joined = seqs
    BY <1>4, <1>5, <1>8 DEF Input!FlattenSeq
  <2>2. joined = <<>>
    BY <1>4, <1>8, <2>1, EmptySeq
  <2>3. stops \in [1..n -> Nat \X Nat]
    BY <1>7, <1>8
  <2>4. stops \in Seq(Nat \X Nat) /\ Len(stops) = 0 /\ \A i \in 1..Len(stops) : FALSE
    BY <1>8, <2>3
  <2> QED  BY <1>8, <2>2, <2>4 DEF Stand, Follow, stops, joined, n
<1>9. CASE n # 0
  <2>1. PICK w : /\ \A i \in 1..n : w[i] = IF i = 1 THEN seqs[i] ELSE w[i - 1] \o seqs[i]
                 /\ joined = w[n]
    BY <1>4, <1>5, <1>9, FlatIs
  <2> DEFINE Before(i, j) == /\ h[j] \in Nat /\ start <= h[j] /\ h[j] + f[j] <= h[i] + f[i]
                             /\ j < i => h[j] + f[j] <= h[i]
                             /\ \A k \in 1..f[j] : w[i][h[j] - start + k] = args[j][k]
             P(i) == /\ w[i] \in Seq(C) /\ Len(w[i]) = (h[i] - start) + f[i]
                     /\ \A j \in 1..i : Before(i, j)
             T == {i \in 1..n : ~P(i)}
  <2>2. ASSUME T # {} PROVE FALSE
    <3>1. T \subseteq Nat
      BY <1>1
    <3> HIDE DEF P, T
    <3>2. PICK i \in T : \A j \in T : i <= j
      BY <2>2, <3>1, LeastOne
    <3>3. i \in 1..n /\ ~P(i) /\ \A j \in 1..n : j < i => P(j)
      <4>1. ASSUME NEW j \in 1..n, j < i, ~P(j) PROVE FALSE
        <5>1. j \in T /\ i \in Nat /\ j \in Nat
          BY <1>1, <3>1, <4>1 DEF T
        <5> QED  BY <3>2, <4>1, <5>1
      <4>2. i \in 1..n /\ ~P(i)
        BY DEF T
      <4> QED  BY <4>1, <4>2
    <3>4. f[i] \in Nat /\ i \in Nat /\ Len(args[i]) = f[i]
      BY <1>1, <1>10, <3>3
    <3>7. h[i] = IF i = 1 THEN start ELSE h[i - 1] + f[i - 1] + 2
      BY <1>6, <1>10, <3>3
    <3>8. w[i] = IF i = 1 THEN seqs[i] ELSE w[i - 1] \o seqs[i]
      BY <2>1, <3>3
    <3>5. CASE i = 1
      <4>1. w[i] = args[i] /\ h[i] = start
        BY <3>3, <3>5, <3>7, <3>8 DEF seqs
      <4>2. w[i] \in Seq(C) /\ Len(w[i]) = (h[i] - start) + f[i]
        <5>1. w[i] \in Seq(C)
          BY <1>1, <3>3, <4>1
        <5>2. Len(w[i]) = f[i] /\ f[i] \in Nat
          BY <3>4, <4>1
        <5>3. h[i] - start = 0
          BY <4>1
        <5>4. 0 + f[i] = f[i]
          BY <5>2
        <5> QED  BY <5>1, <5>2, <5>3, <5>4
      <4>3. Before(i, i)
        <5>1. ASSUME NEW k \in 1..f[i] PROVE w[i][h[i] - start + k] = args[i][k]
          <6>1. h[i] - start + k = k
            BY <3>4, <4>1
          <6> QED  BY <4>1, <6>1
        <5>2. h[i] \in Nat /\ start <= h[i] /\ h[i] + f[i] <= h[i] + f[i] /\ ~(i < i)
          BY <3>4, <4>1
        <5> QED  BY <5>1, <5>2
      <4>4. 1..i = {i}
        BY <3>5
      <4> QED  BY <3>3, <4>2, <4>3, <4>4 DEF P
    <3>6. CASE i # 1
      <4> DEFINE p == i - 1
      <4>1. p \in 1..n /\ p < i /\ p \in Nat /\ f[p] \in Nat
        BY <1>1, <3>3, <3>4, <3>6
      <4>2. h[i] = h[p] + f[p] + 2 /\ w[i] = w[p] \o seqs[i]
        BY <3>6, <3>7, <3>8
      <4>3. P(p)
        BY <3>3, <4>1
      <4>4. seqs[i] = dots \o args[i]
        BY <3>3, <3>6 DEF seqs
      <4>5. /\ seqs[i] \in Seq(C) /\ Len(seqs[i]) = 2 + f[i]
            /\ \A k \in 1..f[i] : seqs[i][2 + k] = args[i][k]
        BY <1>3, <3>3, <4>4
      <4> HIDE DEF p
      <4>6. w[p] \in Seq(C) /\ Len(w[p]) = (h[p] - start) + f[p] /\ \A j \in 1..p : Before(p, j)
        BY <4>3 DEF P
      <4>7. h[p] \in Nat /\ start <= h[p]
        BY <4>1, <4>6
      <4>8. w[i] \in Seq(C) /\ Joins(w[i], w[p], seqs[i])
        <5>1. w[p] \in Seq(C) /\ seqs[i] \in Seq(C)
          BY <4>5, <4>6
        <5>2. w[p] \o seqs[i] \in Seq(C) /\ Joins(w[p] \o seqs[i], w[p], seqs[i])
          BY <5>1, JoinsIs
        <5> QED  BY <4>2, <5>2
      <4>9. /\ h[i] \in Nat /\ start <= h[i] /\ Len(w[i]) = (h[i] - start) + f[i]
            /\ \A k \in 1..f[i] : 2 + k \in 1..Len(seqs[i]) /\ Len(w[p]) + (2 + k) = h[i] - start + k
            /\ \A x, g \in Nat : start <= x /\ x + g <= h[p] + f[p] =>
                 x + g <= h[i] /\ x + g <= h[i] + f[i] /\ \A k \in 1..g : x - start + k \in 1..Len(w[p])
        <5>1. Len(w[i]) = Len(w[p]) + Len(seqs[i])
          BY <4>8 DEF Joins
        <5>2. Len(w[p]) = (h[p] - start) + f[p]
          BY <4>6
        <5>3. Len(seqs[i]) = 2 + f[i] /\ f[i] \in Nat /\ f[p] \in Nat
          BY <3>4, <4>1, <4>5
        <5>4. h[i] = h[p] + f[p] + 2
          BY <4>2
        <5> HIDE DEF Before
        <5>5. Further(start, h[p], f[p], Len(w[p]), f[i], Len(seqs[i]), h[i], Len(w[i]))
          BY <4>7, <5>1, <5>2, <5>3, <5>4, NextAt
        <5> QED  BY <5>5 DEF Further
      <4>10. Before(i, i)
        <5>1. ASSUME NEW k \in 1..f[i] PROVE w[i][h[i] - start + k] = args[i][k]
          <6> HIDE DEF Before
          <6>1. 2 + k \in 1..Len(seqs[i]) /\ Len(w[p]) + (2 + k) = h[i] - start + k
            BY <4>9
          <6>2. w[i][Len(w[p]) + (2 + k)] = seqs[i][2 + k]
            BY <4>8, <6>1 DEF Joins
          <6>3. seqs[i][2 + k] = args[i][k]
            BY <4>5
          <6> QED  BY <6>1, <6>2, <6>3
        <5> QED  BY <3>4, <4>9, <5>1
      <4>11. ASSUME NEW j \in 1..i, j # i PROVE Before(i, j)
        <5>1. j \in 1..p
          BY <3>4, <4>1, <4>11 DEF p
        <5>2. Before(p, j)
          BY <4>6, <5>1
        <5>3. f[j] \in Nat
          BY <1>1, <4>1, <5>1
        <5>4. ASSUME NEW k \in 1..f[j] PROVE w[i][h[j] - start + k] = args[j][k]
          <6>1. h[j] - start + k \in 1..Len(w[p])
            <7>1. h[j] \in Nat /\ start <= h[j] /\ h[j] + f[j] <= h[p] + f[p]
              BY <5>2
            <7> QED  BY <4>9, <5>3, <7>1
          <6>2. w[i][h[j] - start + k] = w[p][h[j] - start + k]
            BY <4>8, <6>1 DEF Joins
          <6> QED  BY <5>2, <6>2
        <5>5. h[j] \in Nat /\ start <= h[j] /\ h[j] + f[j] <= h[p] + f[p]
          BY <5>2
        <5>7. h[j] + f[j] <= h[i] /\ h[j] + f[j] <= h[i] + f[i]
          BY <4>9, <5>3, <5>5
        <5> QED  BY <5>4, <5>5, <5>7
      <4>12. \A j \in 1..i : Before(i, j)
        BY <4>10, <4>11
      <4> HIDE DEF Before
      <4> QED  BY <3>3, <4>8, <4>9, <4>12 DEF P
    <3> QED  BY <3>5, <3>6
  <2>3. \A i \in 1..n : P(i)
    BY <2>2
  <2>4. P(n) /\ \A i \in 1..n : Before(n, i)
    BY <1>1, <1>9, <2>3
  <2>5. stops \in [1..n -> Nat \X Nat] /\ \A i \in 1..n : stops[i][1] = h[i] /\ stops[i][2] = h[i] + f[i]
    BY <1>1, <1>7, <2>4
  <2>6. stops \in Seq(Nat \X Nat) /\ Len(stops) = n
    BY <1>1, <2>5
  <2>7. joined \in Seq(C) /\ Len(joined) = (h[n] - start) + f[n]
    BY <2>1, <2>4
  <2>8. Stand(joined, stops, args, start)
    <3> SUFFICES ASSUME NEW i \in 1..n
                 PROVE  /\ stops[i][1] \in Nat /\ start <= stops[i][1]
                        /\ stops[i][2] = stops[i][1] + Len(args[i])
                        /\ stops[i][2] - start <= Len(joined)
                        /\ \A k \in 1..Len(args[i]) : joined[stops[i][1] - start + k] = args[i][k]
      BY <2>6 DEF Stand
    <3>1. Len(args[i]) = f[i] /\ f[i] \in Nat /\ f[n] \in Nat
      BY <1>1, <1>9, <1>10
    <3>2. stops[i][1] = h[i] /\ stops[i][2] = h[i] + f[i]
      BY <2>5
    <3>3. h[i] \in Nat /\ start <= h[i] /\ h[i] + f[i] <= h[n] + f[n] /\ h[n] \in Nat
      BY <1>1, <1>9, <2>4
    <3>4. \A k \in 1..f[i] : w[n][h[i] - start + k] = args[i][k]
      BY <2>4
    <3>5. (h[i] + f[i]) - start <= Len(joined)
      <4> DEFINE a == h[i] + f[i]
                 b == h[n] + f[n]
                 l == Len(joined)
      <4>1. a \in Nat /\ b \in Nat /\ a <= b
        BY <3>1, <3>3
      <4>2. l = b - start
        BY <2>7, <3>1, <3>3
      <4> HIDE DEF a, b, l
      <4>3. a - start <= l
        BY <4>1, <4>2
      <4> QED  BY <4>3 DEF a, l
    <3> HIDE DEF Before, P
    <3> QED  BY <2>1, <3>1, <3>2, <3>3, <3>4, <3>5
  <2>9. Follow(stops)
    <3> SUFFICES ASSUME NEW i \in 1..n, NEW j \in 1..n, i < j PROVE stops[i][2] <= stops[j][1]
      BY <2>6 DEF Follow
    <3>1. Before(j, i)
      <4>1. P(j)
        <5> HIDE DEF P
        <5> QED  BY <2>3
      <4> HIDE DEF Before
      <4>2. \A m \in 1..j : Before(j, m)
        BY <4>1
      <4>3. i \in 1..j
        BY <1>1
      <4> HIDE DEF P
      <4> QED  BY <4>2, <4>3
    <3> QED  BY <2>5, <3>1
  <2> HIDE DEF P, Before
  <2> QED  BY <2>6, <2>7, <2>8, <2>9 DEF stops, joined, n
<1> QED  BY <1>8, <1>9

\* u is t with s in place of what stands from a to b.
Splice(u, t, s, a, b) ==
  /\ Len(u) = a + Len(s) + (Len(t) - b)
  /\ \A k \in 1..a : u[k] = t[k]
  /\ \A k \in 1..Len(s) : u[a + k] = s[k]
  /\ \A k \in (b + 1)..Len(t) : u[(k - b) + a + Len(s)] = t[k]

\* It is what the slices of t around s make.
LEMMA Spliced ==
  ASSUME NEW C, NEW t \in Seq(C), NEW s \in Seq(C), NEW a \in Nat, NEW b \in Nat, a <= b, b <= Len(t)
  PROVE  LET u == SubSeq(t, 1, a) \o s \o SubSeq(t, b + 1, Len(t)) IN
         u \in Seq(C) /\ Splice(u, t, s, a, b)
<1> DEFINE l == SubSeq(t, 1, a)
           r == SubSeq(t, b + 1, Len(t))
           m == l \o s
           u == m \o r
<1>0. Len(t) \in Nat /\ Len(s) \in Nat
  OBVIOUS
<1>1. l \in Seq(C) /\ Len(l) = a /\ \A k \in 1..a : l[k] = t[k]
  <2>1. \A k \in 1..a : k \in 1..Len(t) /\ t[k] \in C
    BY <1>0
  <2> QED  BY <1>0, <2>1
<1>2. r \in Seq(C) /\ Len(r) = Len(t) - b /\ \A k \in (b + 1)..Len(t) : r[k - b] = t[k]
  <2>1. \A k \in (b + 1)..Len(t) : k \in 1..Len(t) /\ t[k] \in C
    BY <1>0
  <2> QED  BY <1>0, <2>1
<1> HIDE DEF l, r
<1>3. m \in Seq(C) /\ Joins(m, l, s)
  BY <1>1, JoinsIs
<1> HIDE DEF m
<1>4. u \in Seq(C) /\ Joins(u, m, r)
  BY <1>2, <1>3, JoinsIs
<1> HIDE DEF u
<1>9. Len(m) = a + Len(s)
  BY <1>1, <1>3 DEF Joins
<1>5. ASSUME NEW k \in 1..a PROVE u[k] = t[k]
  BY <1>0, <1>1, <1>3, <1>4, <1>9 DEF Joins
<1>6. ASSUME NEW k \in 1..Len(s) PROVE u[a + k] = s[k]
  <2>1. m[a + k] = s[k]
    BY <1>1, <1>3 DEF Joins
  <2>2. a + k \in 1..Len(m)
    BY <1>0, <1>9
  <2> QED  BY <1>4, <2>1, <2>2 DEF Joins
<1>7. ASSUME NEW k \in (b + 1)..Len(t) PROVE u[(k - b) + a + Len(s)] = t[k]
  <2>1. k - b \in 1..Len(r) /\ Len(m) + (k - b) = (k - b) + a + Len(s)
    BY <1>0, <1>2, <1>9
  <2>2. u[Len(m) + (k - b)] = r[k - b]
    BY <1>4, <2>1 DEF Joins
  <2> QED  BY <1>2, <2>1, <2>2
<1>8. Len(u) = a + Len(s) + (Len(t) - b)
  BY <1>0, <1>2, <1>4, <1>9 DEF Joins
<1>10. Splice(u, t, s, a, b)
  BY <1>5, <1>6, <1>7, <1>8 DEF Splice
<1> QED  BY <1>4, <1>10 DEF u, m, l, r

\* A stop from x to y whose argument has g characters, in a text of l, when the one
\* from a to b gets m.
Shift(a, b, m, l, u, d, x, y, g) ==
  /\ y <= a => y <= u /\ \A k \in 1..g : x + k \in 1..a
  /\ a + m <= u
  /\ b <= x => /\ x + d \in Nat /\ y + d \in Nat /\ y + d = (x + d) + g /\ y + d <= u
               /\ a + m <= x + d
               /\ \A k \in 1..g : x + k \in (b + 1)..l /\ ((x + k) - b) + a + m = (x + d) + k

LEMMA ShiftedAt ==
  ASSUME NEW a \in Nat, NEW b \in Nat, NEW m \in Nat, NEW l \in Nat, a <= b, b <= l,
         NEW u, u = a + m + (l - b), NEW d, d = m - (b - a),
         NEW x \in Nat, NEW y \in Nat, NEW g \in Nat, y = x + g, y <= l
  PROVE  Shift(a, b, m, l, u, d, x, y, g)
BY DEF Shift

\* A function of 1..n is a sequence.
LEMMA FcnIsSeq ==
  ASSUME NEW D, NEW n \in Nat, NEW f \in [1..n -> D]
  PROVE  f \in Seq(D) /\ Len(f) = n
OBVIOUS

\* An argument that is within a stop leaves it in order.
LEMMA Between ==
  ASSUME NEW x \in Nat, NEW y \in Nat, NEW a \in Nat, NEW m \in Nat, x <= a, a + m <= y
  PROVE  x <= y
OBVIOUS

\* A change within a stop moves the later ones along, and each keeps its argument.
LEMMA ChangeKeeps ==
  ASSUME ExprSound(expr), expr.tab > 0, NEW new \in Seq(Characters), Input!Change(new)
  PROVE  ExprSound(expr')
<1> DEFINE text == expr.text
           stops == expr.stops
           args == expr.args
           t == expr.tab
           a == stops[t][1]
           b == stops[t][2]
           m == Len(new)
           u == SubSeq(text, 1, a) \o new \o SubSeq(text, b + 1, Len(text))
           d == m - (b - a)
           shifted == Input!Shifted(a + m)
           given == [args EXCEPT ![t] = new]
<1>1. /\ text \in Seq(Characters) /\ stops \in Seq(Nat \X Nat) /\ args \in Seq(Seq(Characters))
      /\ t \in 1..Len(stops) /\ Len(text) \in Nat /\ Len(stops) \in Nat /\ m \in Nat
      /\ expr \in ExprStates /\ expr.tab \in Nat
  BY DEF ExprSound, ExprStates
<1>2. Fits(text, stops, args)
  BY DEF ExprSound
<1> HIDE DEF text, stops, args, t
<1>3. expr' = [expr EXCEPT !.text = u, !.cursor = a + m, !.stops = shifted, !.args = given,
                           !.fresh = FALSE]
  BY DEF Input!Change, text, stops, args, t
<1>18. Len(args) = Len(stops) /\ t \in Nat
  BY <1>1, <1>2 DEF Fits
<1>4. \A i \in 1..Len(stops) : /\ stops[i][1] \in Nat /\ stops[i][2] \in Nat
                                /\ args[i] \in Seq(Characters) /\ Len(args[i]) \in Nat
  <2> TAKE i \in 1..Len(stops)
  <2>1. stops[i] \in Nat \X Nat
    BY <1>1
  <2>2. args[i] \in Seq(Characters)
    BY <1>1, <1>18
  <2> QED  BY <2>1, <2>2
<1>5. /\ a \in Nat /\ b \in Nat /\ a <= b /\ b <= Len(text)
  <2>1. a \in Nat /\ b \in Nat /\ Len(args[t]) \in Nat
    BY <1>1, <1>4
  <2>2. b = a + Len(args[t]) /\ b <= Len(text)
    BY <1>1, <1>2 DEF Fits
  <2> HIDE DEF a, b
  <2> QED  BY <2>1, <2>2
<1> HIDE DEF a, b
<1>19. u \in Seq(Characters) /\ Splice(u, text, new, a, b)
  BY <1>1, <1>5, Spliced
<1>6. /\ u \in Seq(Characters) /\ Len(u) = a + m + (Len(text) - b)
      /\ \A k \in 1..a : u[k] = text[k]
      /\ \A k \in 1..m : u[a + k] = new[k]
      /\ \A k \in (b + 1)..Len(text) : u[(k - b) + a + m] = text[k]
  <2> HIDE DEF u
  <2> QED  BY <1>19 DEF Splice
<1>7. shifted = [i \in 1..Len(stops) |->
         CASE i < t -> stops[i]
           [] i = t -> <<stops[i][1], stops[i][1] + m>>
           [] i > t -> <<stops[i][1] + d, stops[i][2] + d>>]
  <2>1. DOMAIN stops = 1..Len(stops)
    BY <1>1
  <2>2. (a + m) - a = m
    <3> HIDE DEF m
    <3> QED  BY <1>1, <1>5
  <2> HIDE DEF m
  <2> QED  BY <2>1, <2>2 DEF Input!Shifted, stops, t, a, b
<1>20. d \in Int
  <2> HIDE DEF m
  <2> QED  BY <1>1, <1>5
<1>21. d = m - (b - a)
  OBVIOUS
<1> HIDE DEF u, shifted, given, m, d
<1>8. ASSUME NEW i \in 1..Len(stops)
      PROVE  /\ i < t => shifted[i][1] = stops[i][1] /\ shifted[i][2] = stops[i][2]
             /\ i = t => shifted[i][1] = a /\ shifted[i][2] = a + m
             /\ i > t => shifted[i][1] = stops[i][1] + d /\ shifted[i][2] = stops[i][2] + d
  <2>1. i \in Nat /\ t \in Nat
    BY <1>1
  <2>2. CASE i < t
    BY <1>7, <2>1, <2>2
  <2>3. CASE i = t
    <3>1. shifted[i] = <<stops[i][1], stops[i][1] + m>>
      BY <1>7, <2>1, <2>3
    <3> QED  BY <2>1, <2>3, <3>1 DEF a
  <2>4. CASE i > t
    <3>1. shifted[i] = <<stops[i][1] + d, stops[i][2] + d>>
      BY <1>7, <2>1, <2>4
    <3> QED  BY <2>1, <2>4, <3>1
  <2> QED  BY <2>1, <2>2, <2>3, <2>4
<1>9. /\ given \in Seq(Seq(Characters)) /\ Len(given) = Len(stops) /\ given[t] = new
      /\ \A i \in 1..Len(stops) : i # t => given[i] = args[i]
  <2>1. DOMAIN args = 1..Len(stops) /\ t \in 1..Len(stops)
    BY <1>1, <1>18
  <2>2. given \in [1..Len(stops) -> Seq(Characters)]
    BY <1>4, <2>1 DEF given
  <2>3. Len(given) = Len(stops) /\ given \in Seq(Seq(Characters))
    <3> HIDE DEF given
    <3> QED  BY <1>1, <2>2, FcnIsSeq
  <2> QED  BY <2>1, <2>3 DEF given
<1>10. /\ \A i \in 1..Len(stops) : i < t => stops[i][2] <= a
       /\ \A i \in 1..Len(stops) : i > t => b <= stops[i][1]
       /\ \A i \in 1..Len(stops) : stops[i][2] = stops[i][1] + Len(args[i]) /\ stops[i][2] <= Len(text)
       /\ \A i \in 1..Len(stops) : \A k \in 1..Len(args[i]) : text[stops[i][1] + k] = args[i][k]
       /\ \A i, j \in 1..Len(stops) : i < j => stops[i][2] <= stops[j][1]
  BY <1>1, <1>2 DEF Fits, a, b
<1> DEFINE StillFits(i) ==
      /\ shifted[i][1] \in Nat /\ shifted[i][2] \in Nat
      /\ shifted[i][2] = shifted[i][1] + Len(given[i]) /\ shifted[i][2] <= Len(u)
      /\ \A k \in 1..Len(given[i]) : u[shifted[i][1] + k] = given[i][k]
      /\ i < t => shifted[i][2] <= a
      /\ i > t => a + m <= shifted[i][1]
<1>11. ASSUME NEW i \in 1..Len(stops) PROVE StillFits(i)
  <2> DEFINE x == stops[i][1]
             y == stops[i][2]
             g == Len(args[i])
  <2>1. x \in Nat /\ y \in Nat /\ g \in Nat /\ y = x + g /\ y <= Len(text)
    BY <1>4, <1>10
  <2>2. \A k \in 1..g : text[x + k] = args[i][k]
    BY <1>10
  <2>3. i \in Nat /\ t \in Nat
    BY <1>1
  <2> HIDE DEF x, y, g
  <2>8. Shift(a, b, m, Len(text), Len(u), d, x, y, g)
    BY <1>1, <1>5, <1>6, <1>21, <2>1, ShiftedAt
  <2>4. /\ y <= a => y <= Len(u) /\ \A k \in 1..g : x + k \in 1..a
        /\ a + m <= Len(u)
        /\ b <= x => /\ x + d \in Nat /\ y + d \in Nat /\ y + d = (x + d) + g /\ y + d <= Len(u)
                     /\ a + m <= x + d
                     /\ \A k \in 1..g : x + k \in (b + 1)..Len(text) /\ ((x + k) - b) + a + m = (x + d) + k
    BY <2>8 DEF Shift
  <2>5. CASE i < t
    <3>1. y <= a
      BY <1>10, <2>5 DEF y
    <3>2. given[i] = args[i] /\ shifted[i][1] = x /\ shifted[i][2] = y
      BY <1>8, <1>9, <2>3, <2>5 DEF x, y
    <3>3. \A k \in 1..g : u[x + k] = args[i][k]
      BY <1>6, <2>2, <2>4, <3>1
    <3>4. ~(i > t)
      BY <2>3, <2>5
    <3> QED  BY <2>1, <2>4, <3>1, <3>2, <3>3, <3>4 DEF g
  <2>6. CASE i = t
    <3>1. given[i] = new /\ shifted[i][1] = a /\ shifted[i][2] = a + m
      BY <1>8, <1>9, <2>6
    <3>2. ~(i > t) /\ ~(i < t)
      BY <2>3, <2>6
    <3> QED  BY <1>1, <1>5, <1>6, <2>4, <3>1, <3>2 DEF m
  <2>7. CASE i > t
    <3>1. b <= x
      BY <1>10, <2>7 DEF x
    <3>5. i # t
      BY <2>3, <2>7
    <3>2. given[i] = args[i] /\ shifted[i][1] = x + d /\ shifted[i][2] = y + d
      BY <1>8, <1>9, <2>7, <3>5 DEF x, y
    <3>3. ASSUME NEW k \in 1..g PROVE u[(x + d) + k] = args[i][k]
      <4>1. x + k \in (b + 1)..Len(text) /\ ((x + k) - b) + a + m = (x + d) + k
        BY <2>4, <3>1
      <4>2. u[((x + k) - b) + a + m] = text[x + k]
        BY <1>6, <4>1
      <4> QED  BY <2>2, <4>1, <4>2
    <3>4. ~(i < t)
      BY <2>3, <2>7
    <3> QED  BY <2>4, <3>1, <3>2, <3>3, <3>4 DEF g
  <2> QED  BY <2>3, <2>5, <2>6, <2>7
<1>12. Len(shifted) = Len(stops) /\ shifted \in Seq(Nat \X Nat)
  <2>1. ASSUME NEW i \in 1..Len(stops) PROVE shifted[i] \in Nat \X Nat
    <3>1. shifted[i][1] \in Nat /\ shifted[i][2] \in Nat
      BY <1>11
    <3>2. stops[i] \in Nat \X Nat
      BY <1>1
    <3>3. i \in Nat
      BY <1>1
    <3>4. \/ shifted[i] = stops[i] \/ shifted[i] = <<stops[i][1], stops[i][1] + m>>
          \/ shifted[i] = <<stops[i][1] + d, stops[i][2] + d>>
      BY <1>7, <1>18, <3>3
    <3> HIDE DEF StillFits
    <3> QED  BY <3>1, <3>2, <3>4
  <2> HIDE DEF StillFits
  <2>2. shifted \in [1..Len(stops) -> Nat \X Nat]
    BY <1>7, <2>1
  <2> QED  BY <1>1, <2>2, FcnIsSeq
<1>13. \A i, j \in 1..Len(stops) : i < j => shifted[i][2] <= shifted[j][1]
  <2> SUFFICES ASSUME NEW i \in 1..Len(stops), NEW j \in 1..Len(stops), i < j
               PROVE  shifted[i][2] <= shifted[j][1]
    OBVIOUS
  <2>1. i \in Nat /\ j \in Nat /\ t \in Nat
    BY <1>1
  <2>2. /\ shifted[i][2] \in Nat /\ shifted[j][1] \in Nat /\ d \in Int
        /\ stops[i][2] \in Nat /\ stops[j][1] \in Nat /\ stops[i][2] <= stops[j][1]
    <3>1. shifted[i][2] \in Nat /\ shifted[j][1] \in Nat
      BY <1>11
    <3>2. stops[i][2] \in Nat /\ stops[j][1] \in Nat
      BY <1>4
    <3>3. stops[i][2] <= stops[j][1]
      BY <1>10
    <3> QED  BY <1>20, <3>1, <3>2, <3>3
  <2>3. CASE j < t
    <3>1. i < t
      BY <2>1, <2>3
    <3> QED  BY <1>8, <2>2, <2>3, <3>1
  <2>4. CASE i > t
    <3>1. j > t
      BY <2>1, <2>4
    <3>2. shifted[i][2] = stops[i][2] + d /\ shifted[j][1] = stops[j][1] + d
      BY <1>8, <2>4, <3>1
    <3> QED  BY <2>2, <3>2
  <2>5. CASE i < t /\ t < j
    <3>1. j > t
      BY <2>1, <2>5
    <3>2. shifted[i][2] <= a /\ a + m <= shifted[j][1]
      BY <1>11, <2>5, <3>1
    <3> HIDE DEF StillFits
    <3> QED  BY <1>1, <1>5, <2>2, <3>2, Between
  <2>6. CASE i = t
    <3>1. j > t
      BY <2>1, <2>6
    <3>2. shifted[i][2] = a + m /\ a + m <= shifted[j][1]
      BY <1>8, <1>11, <2>6, <3>1
    <3> QED  BY <3>2
  <2>7. CASE j = t
    <3>1. i < t
      BY <2>1, <2>7
    <3>2. shifted[i][2] <= a /\ shifted[j][1] = a
      BY <1>8, <1>11, <2>7, <3>1
    <3> QED  BY <3>2
  <2> QED  BY <2>1, <2>3, <2>4, <2>5, <2>6, <2>7
<1>14. Fits(u, shifted, given)
  <2> HIDE DEF d
  <2> QED  BY <1>9, <1>11, <1>12, <1>13 DEF Fits
<1>15. a + m \in Nat /\ a + m <= Len(u)
  <2>1. shifted[t][2] = a + m
    BY <1>1, <1>8, <1>18
  <2>2. StillFits(t)
    BY <1>1, <1>11
  <2> QED  BY <2>1, <2>2
<1>16. /\ expr' \in ExprStates /\ expr'.text = u /\ expr'.cursor = a + m /\ expr'.stops = shifted
       /\ expr'.args = given /\ expr'.tab = expr.tab
  <2> HIDE DEF StillFits, d
  <2> QED  BY <1>1, <1>3, <1>6, <1>9, <1>12, <1>15 DEF ExprStates, t
<1>17. expr'.tab <= Len(expr'.stops) /\ expr'.tab # 0
  BY <1>1, <1>12, <1>16 DEF t
<1> QED
  <2> HIDE DEF StillFits, d
  <2> QED  BY <1>14, <1>15, <1>16, <1>17 DEF ExprSound

\* A function brings its own stops, each with its placeholder.
LEMMA FunctionKeeps ==
  ASSUME ExprSound(expr), NEW f \in Functions, Input!ApplyFunction(f)
  PROVE  ExprSound(expr')
<1> DEFINE text == expr.text
           c == expr.cursor
           args == [i \in DOMAIN f |-> Input!Placeholder(f, i)]
           joined == Input!Joined(args)
           head == <<"f", ".">>
           rest == head \o joined \o <<".">>
           u == SubSeq(text, 1, c) \o rest \o SubSeq(text, c + 1, Len(text))
           stops == Input!StopsFrom(c + 2, f)
           t == IF f = <<>> THEN 0 ELSE 1
<1>1. /\ expr \in ExprStates /\ text \in Seq(Characters) /\ c \in Nat /\ c <= Len(text) /\ Len(text) \in Nat
  BY DEF ExprSound, ExprStates
<1>2. f \in Seq(Nat)
  BY InputAssumed DEF Input!InputAssumption
<1>3. expr' = [expr EXCEPT !.text = u, !.stops = stops, !.tab = t, !.args = args, !.fresh = TRUE]
  BY DEF Input!ApplyFunction, Input!Completed
<1>4. Arguments(args, Characters, f)
  <2>1. DOMAIN f = 1..Len(f) /\ Len(f) \in Nat /\ \A i \in 1..Len(f) : f[i] \in Nat
    BY <1>2
  <2>2. ASSUME NEW i \in 1..Len(f)
        PROVE  args[i] \in Seq(Characters) /\ Len(args[i]) = f[i]
    <3> DEFINE digit == Input!ToString(i)
               p == [k \in 1..f[i] |-> digit]
    <3>1. args[i] = p
      BY <2>1 DEF Input!Placeholder
    <3>2. digit \in Characters
      BY <2>1 DEF Characters
    <3> HIDE DEF digit
    <3>3. p \in [1..f[i] -> Characters]
      BY <3>2
    <3> HIDE DEF p
    <3>4. f[i] \in Nat
      BY <2>1
    <3> QED  BY <3>1, <3>3, <3>4, FcnIsSeq
  <2>3. args \in [1..Len(f) -> Seq(Characters)]
    BY <2>1, <2>2
  <2> HIDE DEF args
  <2>4. args \in Seq(Seq(Characters)) /\ Len(args) = Len(f)
    BY <2>1, <2>3, FcnIsSeq
  <2> QED  BY <1>2, <2>2, <2>4 DEF Arguments
<1> HIDE DEF text, c, args
<1>5. "." \in Characters /\ "f" \in Characters
  BY DEF Characters
<1>6. /\ joined \in Seq(Characters) /\ stops \in Seq(Nat \X Nat) /\ Len(stops) = Len(args)
      /\ Stand(joined, stops, args, c + 2) /\ Follow(stops)
  <2>1. c + 2 \in Nat
    BY <1>1
  <2> QED  BY <1>4, <1>5, <2>1, JoinedAre
<1> HIDE DEF joined, stops
<1>7. /\ rest \in Seq(Characters) /\ Len(rest) = Len(joined) + 3 /\ Len(joined) \in Nat
      /\ \A k \in 1..Len(joined) : rest[2 + k] = joined[k]
  <2> DEFINE m == head \o joined
  <2>1. head \in Seq(Characters) /\ Len(head) = 2 /\ <<".">> \in Seq(Characters) /\ Len(<<".">>) = 1
    BY <1>5
  <2> HIDE DEF head
  <2>2. m \in Seq(Characters) /\ Joins(m, head, joined)
    BY <1>6, <2>1, JoinsIs
  <2> HIDE DEF m
  <2>3. m \o <<".">> \in Seq(Characters) /\ Joins(m \o <<".">>, m, <<".">>)
    BY <2>1, <2>2, JoinsIs
  <2>4. rest = m \o <<".">>
    BY DEF m
  <2> HIDE DEF rest
  <2>5. Len(joined) \in Nat
    BY <1>6
  <2>6. Len(m) = 2 + Len(joined) /\ Len(rest) = Len(m) + 1
    BY <2>1, <2>2, <2>3, <2>4 DEF Joins
  <2>7. ASSUME NEW k \in 1..Len(joined) PROVE rest[2 + k] = joined[k]
    <3>1. m[2 + k] = joined[k]
      BY <2>1, <2>2 DEF Joins
    <3>2. 2 + k \in 1..Len(m)
      BY <2>5, <2>6
    <3> QED  BY <2>3, <2>4, <3>1, <3>2 DEF Joins
  <2>8. Len(rest) = Len(joined) + 3
    BY <2>5, <2>6
  <2> QED  BY <2>3, <2>4, <2>5, <2>7, <2>8
<1> HIDE DEF rest
<1>8. u \in Seq(Characters) /\ Splice(u, text, rest, c, c)
  BY <1>1, <1>7, Spliced
<1> HIDE DEF u
<1>9. Len(u) = c + (Len(joined) + 3) + (Len(text) - c)
  BY <1>7, <1>8 DEF Splice
<1>10. Fits(u, stops, args)
  <2>1. ASSUME NEW i \in 1..Len(stops)
        PROVE  /\ stops[i][2] = stops[i][1] + Len(args[i]) /\ stops[i][2] <= Len(u)
               /\ \A k \in 1..Len(args[i]) : u[stops[i][1] + k] = args[i][k]
    <3> DEFINE x == stops[i][1]
               y == stops[i][2]
               g == Len(args[i])
    <3>1. /\ x \in Nat /\ c + 2 <= x /\ y = x + g /\ y - (c + 2) <= Len(joined)
          /\ \A k \in 1..g : joined[x - (c + 2) + k] = args[i][k]
      BY <1>6 DEF Stand
    <3>2. g \in Nat
      BY <1>4, <1>6 DEF Arguments
    <3> HIDE DEF x, y, g
    <3>3. y <= Len(u)
      <4>1. y \in Nat /\ y - (c + 2) <= Len(joined) /\ c \in Nat
        BY <1>1, <3>1, <3>2
      <4>2. Len(joined) \in Nat /\ Len(text) \in Nat /\ c <= Len(text)
        BY <1>1, <1>7
      <4> QED  BY <1>9, <4>1, <4>2
    <3>4. ASSUME NEW k \in 1..g PROVE u[x + k] = args[i][k]
      <4> DEFINE z == x - (c + 2) + k
      <4>1. z \in 1..Len(joined) /\ 2 + z \in 1..Len(rest) /\ c + (2 + z) = x + k
        BY <1>1, <1>7, <3>1, <3>2
      <4>2. joined[z] = args[i][k]
        BY <3>1
      <4> HIDE DEF z
      <4>3. rest[2 + z] = joined[z]
        BY <1>7, <4>1
      <4>4. u[c + (2 + z)] = rest[2 + z]
        BY <1>8, <4>1 DEF Splice
      <4> QED  BY <4>1, <4>2, <4>3, <4>4
    <3> QED  BY <3>1, <3>3, <3>4 DEF x, y, g
  <2> QED  BY <1>6, <2>1 DEF Fits, Follow
<1>11. t \in Nat /\ t <= Len(stops) /\ (t = 0 => stops = <<>>)
  <2>1. Len(stops) = Len(f) /\ Len(f) \in Nat
    BY <1>2, <1>4, <1>6 DEF Arguments
  <2>2. f # <<>> => Len(f) # 0
    BY <1>2, EmptySeq
  <2>3. f = <<>> => Len(stops) = 0
    BY <2>1
  <2>4. Len(stops) = 0 => stops = <<>>
    BY <1>6, EmptySeq
  <2> QED  BY <2>1, <2>2, <2>3, <2>4
<1> HIDE DEF t
<1>12. c <= Len(u)
  BY <1>1, <1>7, <1>9
<1>13. args \in Seq(Seq(Characters))
  BY <1>4 DEF Arguments
<1>14. /\ expr' \in ExprStates /\ expr'.text = u /\ expr'.cursor = c /\ expr'.stops = stops
       /\ expr'.args = args /\ expr'.tab = t
  BY <1>1, <1>3, <1>6, <1>8, <1>11, <1>13 DEF ExprStates, c
<1> QED  BY <1>10, <1>11, <1>12, <1>14 DEF ExprSound

\* u is t with one more item, ch after its first p.
OneMore(u, t, p, ch) == u = SubSeq(t, 1, p) \o <<ch>> \o SubSeq(t, p + 1, Len(t))

\* It is longer by one.
LEMMA OneIn ==
  ASSUME NEW C, NEW t \in Seq(C), NEW p \in Nat, p <= Len(t), NEW ch \in C, NEW u, OneMore(u, t, p, ch)
  PROVE  u \in Seq(C) /\ Len(u) = Len(t) + 1
<1> DEFINE s == <<ch>>
           v == SubSeq(t, 1, p) \o s \o SubSeq(t, p + 1, Len(t))
<1>1. s \in Seq(C) /\ Len(s) = 1 /\ Len(t) \in Nat
  OBVIOUS
<1>2. u = v
  BY DEF OneMore
<1> HIDE DEF s
<1>3. v \in Seq(C) /\ Splice(v, t, s, p, p)
  BY <1>1, Spliced
<1> HIDE DEF v
<1>4. Len(v) = p + Len(s) + (Len(t) - p)
  BY <1>3 DEF Splice
<1>5. Len(v) = Len(t) + 1
  BY <1>1, <1>4
<1> QED  BY <1>2, <1>3, <1>5

\* s is the n items of t after its first x.
Part(s, t, x, n) == Len(s) = n /\ \A k \in 1..n : s[k] = t[x + k]

\* It is the slice of t.
LEMMA PartIs ==
  ASSUME NEW C, NEW t \in Seq(C), NEW x \in Nat, NEW n \in Nat, x + n <= Len(t)
  PROVE  SubSeq(t, x + 1, x + n) \in Seq(C) /\ Part(SubSeq(t, x + 1, x + n), t, x, n)
<1>1. \A k \in (x + 1)..(x + n) : t[k] \in C
  OBVIOUS
<1>2. x + 1 \in Int /\ x + n \in Int
  OBVIOUS
<1> DEFINE s == SubSeq(t, x + 1, x + n)
<1>3. /\ s \in Seq(C)
      /\ Len(s) = (IF x + 1 <= x + n THEN (x + n) - (x + 1) + 1 ELSE 0)
      /\ \A k \in 1..((x + n) - (x + 1) + 1) : s[k] = t[(x + 1) + k - 1]
  BY <1>1, <1>2, SubSeqProperties
<1> HIDE DEF s
<1>4. (x + n) - (x + 1) + 1 = n /\ \A k \in 1..n : (x + 1) + k - 1 = x + k
  OBVIOUS
<1>5. Len(s) = n
  BY <1>3, <1>4
<1>6. \A k \in 1..n : s[k] = t[x + k]
  BY <1>3, <1>4
<1> QED  BY <1>3, <1>5, <1>6 DEF s, Part

\* Without stops there is nothing to fit.
LEMMA NoStops ==
  ASSUME NEW text, NEW args, Len(args) = 0
  PROVE  Fits(text, <<>>, args)
<1>1. Len(<<>>) = 0 /\ 1..0 = {}
  OBVIOUS
<1> QED  BY <1>1 DEF Fits

\* Every step of the expression keeps its invariant.
LEMMA ExprNext ==
  ASSUME ExprSound(expr), Input!NextExpr
  PROVE  ExprSound(expr')
<1>1. /\ expr \in ExprStates /\ expr.text \in Seq(Characters) /\ expr.cursor \in Nat
      /\ expr.cursor <= Len(expr.text) /\ Len(expr.text) \in Nat /\ expr.tab \in Nat
      /\ expr.stops \in Seq(Nat \X Nat) /\ expr.args \in Seq(Seq(Characters))
      /\ Len(expr.stops) \in Nat /\ expr.tab <= Len(expr.stops) /\ Fits(expr.text, expr.stops, expr.args)
  BY DEF ExprSound, ExprStates
<1>2. Len(<<>>) = 0 /\ <<>> \in Seq(Nat \X Nat) /\ <<>> \in Seq(Seq(Characters))
  OBVIOUS
<1>3. CASE Input!ApplyColumn
  <2> DEFINE u == SubSeq(expr.text, 1, expr.cursor) \o <<"l">> \o SubSeq(expr.text, expr.cursor + 1, Len(expr.text))
  <2>1. expr' = [expr EXCEPT !.text = u, !.stops = <<>>, !.tab = 0, !.args = <<>>]
    BY <1>3 DEF Input!ApplyColumn, Input!Completed
  <2>2. "l" \in Characters
    BY DEF Characters
  <2>3. u \in Seq(Characters) /\ Len(u) = Len(expr.text) + 1
    <3> DEFINE text == expr.text
               c == expr.cursor
    <3>1. text \in Seq(Characters) /\ c \in Nat /\ c <= Len(text)
      BY <1>1
    <3>2. OneMore(u, text, c, "l")
      BY DEF OneMore
    <3> HIDE DEF u, text, c
    <3>3. u \in Seq(Characters) /\ Len(u) = Len(text) + 1
      BY ONLY <2>2, <3>1, <3>2, OneIn
    <3> QED  BY <3>3 DEF text
  <2> HIDE DEF u
  <2>4. expr.cursor <= Len(u)
    BY <1>1, <2>3
  <2>5. /\ expr' \in ExprStates /\ expr'.text = u /\ expr'.cursor = expr.cursor /\ expr'.stops = <<>>
        /\ expr'.args = <<>> /\ expr'.tab = 0
    BY <1>1, <1>2, <2>1, <2>3 DEF ExprStates
  <2> QED  BY <1>2, <2>4, <2>5, NoStops DEF ExprSound
<1>4. CASE Input!Tab
  <2>1. CASE expr.tab < Len(expr.stops)
    <3>1. expr' = [expr EXCEPT !.tab = @ + 1, !.fresh = TRUE]
      BY <1>4, <2>1 DEF Input!Tab
    <3> DEFINE t == expr.tab + 1
               a == expr.tab
               b == Len(expr.stops)
    <3>4. t \in Nat /\ t <= Len(expr.stops) /\ t # 0
      <4>1. a \in Nat /\ b \in Nat /\ a < b
        BY <1>1, <2>1
      <4> HIDE DEF a, b
      <4>2. a + 1 \in Nat /\ a + 1 <= b /\ a + 1 # 0
        BY ONLY <4>1
      <4> QED  BY ONLY <4>2 DEF a, b
    <3>5. expr' = [expr EXCEPT !.tab = t, !.fresh = TRUE]
      BY <1>1, <3>1 DEF ExprStates
    <3> HIDE DEF t
    <3>2. /\ expr' \in ExprStates /\ expr'.text = expr.text /\ expr'.cursor = expr.cursor
          /\ expr'.stops = expr.stops /\ expr'.args = expr.args /\ expr'.tab = t
      BY <1>1, <3>4, <3>5 DEF ExprStates
    <3>3. expr'.tab <= Len(expr'.stops) /\ expr'.tab # 0
      BY <3>2, <3>4
    <3> QED  BY <1>1, <3>2, <3>3 DEF ExprSound
  <2>2. CASE ~(expr.tab < Len(expr.stops))
    <3>1. expr' = [expr EXCEPT !.stops = <<>>, !.tab = 0, !.args = <<>>]
      BY <1>4, <2>2 DEF Input!Tab
    <3>2. /\ expr' \in ExprStates /\ expr'.text = expr.text /\ expr'.cursor = expr.cursor
          /\ expr'.stops = <<>> /\ expr'.args = <<>> /\ expr'.tab = 0
      BY <1>1, <1>2, <3>1 DEF ExprStates
    <3> QED  BY <1>1, <1>2, <3>2, NoStops DEF ExprSound
  <2> QED  BY <2>1, <2>2
<1>5. expr.tab > 0 => expr.args[expr.tab] \in Seq(Characters)
  BY <1>1 DEF Fits
<1>6. CASE Input!EraseInStop
  <2> DEFINE new == IF expr.fresh THEN <<>> ELSE Input!Front(expr.args[expr.tab])
  <2>1. expr.tab > 0 /\ Input!Change(new) /\ (expr.fresh \/ expr.args[expr.tab] # <<>>)
    BY <1>6 DEF Input!EraseInStop
  <2>2. new \in Seq(Characters)
    <3> DEFINE old == expr.args[expr.tab]
    <3>1. old \in Seq(Characters)
      BY <1>5, <2>1
    <3>2. Input!Front(old) = SubSeq(old, 1, Len(old) - 1)
      BY DEF Input!Front
    <3> HIDE DEF old
    <3>3. old # <<>> => SubSeq(old, 1, Len(old) - 1) \in Seq(Characters)
      <4>1. old # <<>> => Len(old) \in Nat /\ Len(old) # 0
        BY <3>1, EmptySeq
      <4>2. \A k \in 1..(Len(old) - 1) : old[k] \in Characters
        BY <3>1
      <4> QED  BY <3>1, <4>1, <4>2
    <3>4. <<>> \in Seq(Characters)
      OBVIOUS
    <3> QED  BY <2>1, <3>2, <3>3, <3>4 DEF old
  <2> HIDE DEF new
  <2> QED  BY <2>1, <2>2, ChangeKeeps
<1>7. ASSUME NEW ch \in {"l", "."}, Input!TypeInStop(ch)
      PROVE  ExprSound(expr')
  <2> DEFINE new == IF expr.fresh THEN <<ch>> ELSE Append(expr.args[expr.tab], ch)
  <2>1. expr.tab > 0 /\ Input!Change(new)
    BY <1>7 DEF Input!TypeInStop
  <2>2. ch \in Characters
    BY DEF Characters
  <2>3. new \in Seq(Characters)
    BY <1>5, <2>1, <2>2
  <2> HIDE DEF new
  <2> QED  BY <2>1, <2>3, ChangeKeeps
<1>8. ASSUME NEW ch \in {"l", "."}, NEW p \in 0..Len(expr.text), Input!TypeAt(p, ch)
      PROVE  ExprSound(expr')
  <2> DEFINE u == SubSeq(expr.text, 1, p) \o <<ch>> \o SubSeq(expr.text, p + 1, Len(expr.text))
  <2>1. ch \in Characters
    BY DEF Characters
  <2>2. p \in Nat /\ p <= Len(expr.text) /\ (p + 1) - 1 = p
    BY <1>1
  <2>3. Input!InsertAt(expr.text, p + 1, ch) = u
    BY <2>2 DEF Input!InsertAt
  <2>4. u \in Seq(Characters) /\ Len(u) = Len(expr.text) + 1
    <3> DEFINE text == expr.text
    <3>1. text \in Seq(Characters)
      BY <1>1
    <3>2. p \in Nat /\ p <= Len(text)
      BY <2>2
    <3>3. OneMore(u, text, p, ch)
      BY DEF OneMore
    <3> HIDE DEF u, text
    <3>4. u \in Seq(Characters) /\ Len(u) = Len(text) + 1
      BY ONLY <2>1, <3>1, <3>2, <3>3, OneIn
    <3> QED  BY <3>4 DEF text
  <2>5. expr' = [expr EXCEPT !.text = u, !.cursor = p + 1] /\ expr.tab = 0
    BY <1>8, <2>3 DEF Input!TypeAt
  <2> HIDE DEF u
  <2>6. p + 1 <= Len(u) /\ p + 1 \in Nat
    BY <1>1, <2>2, <2>4
  <2>7. /\ expr' \in ExprStates /\ expr'.text = u /\ expr'.cursor = p + 1
        /\ expr'.stops = expr.stops /\ expr'.args = expr.args /\ expr'.tab = expr.tab
    BY <1>1, <2>4, <2>5, <2>6 DEF ExprStates
  <2>8. expr.stops = <<>>
    BY <2>5 DEF ExprSound
  <2>9. Len(expr.args) = 0
    BY <1>1, <1>2, <2>8 DEF Fits
  <2>10. Fits(u, expr.stops, expr.args)
    BY <2>8, <2>9, NoStops
  <2> QED  BY <1>1, <2>6, <2>7, <2>8, <2>10 DEF ExprSound
<1> QED  BY <1>3, <1>4, <1>6, <1>7, <1>8, FunctionKeeps DEF Input!NextExpr

-----------------------------------------------------------------------------
(***************************************************************************)
(* FormInputs: all of the inputs.                                          *)
(***************************************************************************)

\* The inductive invariant of the inputs.
InputIInv == SourceSound(src) /\ BoxSound(box) /\ ExprSound(expr)

\* It holds at the start.
LEMMA InputInit == Input!Init => InputIInv
<1> SUFFICES ASSUME Input!Init PROVE InputIInv
  OBVIOUS
<1>1. SourceSound(src)
  <2>1. src = [value |-> "", loaded |-> FALSE, tables |-> {}, status |-> "idle",
               columns |-> <<>>, cache |-> <<>>, timers |-> {}, lookups |-> {}, fetches |-> {},
               foreign |-> FALSE]
    BY DEF Input!Init, Input!InitSource
  <2>2. DOMAIN <<>> = {} /\ <<>> \in [{} -> BOOLEAN]
    OBVIOUS
  <2>3. <<>> \in CatalogAnswers
    BY <2>2 DEF CatalogAnswers
  <2>4. src \in SourceStates
    BY <2>1, <2>3 DEF SourceStates, Named, Offered
  <2>5. CacheSound(src)
    BY <2>1, <2>2 DEF CacheSound
  <2> QED  BY <2>1, <2>4, <2>5 DEF SourceSound, Settled, Paused
<1>2. BoxSound(box)
  <2>1. PICK k \in Kinds :
          box = [kind |-> k, value |-> "", loaded |-> FALSE, listed |-> {}, fetches |-> {},
                 creating |-> FALSE, filled |-> FALSE, asked |-> Input!None, error |-> Input!None,
                 created |-> {}, tried |-> {}, late |-> FALSE, again |-> FALSE]
    BY DEF Input!Init, Input!InitBox
  <2>2. box \in BoxStates
    BY <2>1 DEF BoxStates, Typeable, Requested
  <2> QED  BY <2>1, <2>2 DEF BoxSound, OwnAttempts
<1>3. ExprSound(expr)
  <2>1. expr = [text |-> <<>>, cursor |-> 0, stops |-> <<>>, tab |-> 0, args |-> <<>>, fresh |-> FALSE]
    BY DEF Input!Init, Input!InitExpr
  <2>2. /\ Len(<<>>) = 0 /\ <<>> \in Seq(Nat \X Nat) /\ <<>> \in Seq(Seq(Characters))
        /\ <<>> \in Seq(Characters)
    OBVIOUS
  <2>3. expr \in ExprStates
    BY <2>1, <2>2 DEF ExprStates
  <2>4. Fits(<<>>, <<>>, <<>>)
    BY <2>2, NoStops
  <2> QED  BY <2>1, <2>2, <2>3, <2>4 DEF ExprSound
<1> QED  BY <1>1, <1>2, <1>3 DEF InputIInv

\* Every step keeps it.
LEMMA InputNext == InputIInv /\ [Input!Next]_Input!vars => InputIInv'
<1> SUFFICES ASSUME InputIInv, [Input!Next]_Input!vars PROVE InputIInv'
  OBVIOUS
<1>1. SourceSound(src) /\ BoxSound(box) /\ ExprSound(expr)
  BY DEF InputIInv
<1>2. CASE Input!NextSource
  <2>1. box' = box /\ expr' = expr
    BY <1>2 DEF Input!NextSource
  <2>2. SourceSound(src')
    BY <1>1, <1>2, SourceNext
  <2> QED  BY <1>1, <2>1, <2>2 DEF InputIInv
<1>3. CASE Input!NextBox
  <2>1. src' = src /\ expr' = expr
    BY <1>3 DEF Input!NextBox
  <2>2. BoxSound(box')
    BY <1>1, <1>3, BoxNext
  <2> QED  BY <1>1, <2>1, <2>2 DEF InputIInv
<1>4. CASE Input!NextExpr
  <2>1. src' = src /\ box' = box
    BY <1>4 DEF Input!NextExpr
  <2>2. ExprSound(expr')
    BY <1>1, <1>4, ExprNext
  <2> QED  BY <1>1, <2>1, <2>2 DEF InputIInv
<1>5. CASE UNCHANGED Input!vars
  <2>1. src' = src /\ box' = box /\ expr' = expr
    BY <1>5 DEF Input!vars
  <2> QED  BY <1>1, <2>1 DEF InputIInv
<1> QED  BY <1>2, <1>3, <1>4, <1>5 DEF Input!Next

\* It implies the property.
LEMMA InputHolds == InputIInv => InputsInv
<1> SUFFICES ASSUME InputIInv PROVE InputsInv
  OBVIOUS
<1>1. SourceSound(src) /\ BoxSound(box) /\ ExprSound(expr)
  BY DEF InputIInv
<1>2. Input!BadgeIsRight
  BY <1>1 DEF SourceSound, Settled, Badge, Input!BadgeIsRight
<1>3. Input!OnlyPausedNames
  BY <1>1 DEF SourceSound, Paused, Input!OnlyPausedNames
<1>4. Input!CreatedIsListed
  BY <1>1 DEF BoxSound, OwnAttempts, Input!CreatedIsListed
<1>5. Input!StopsFit
  <2> DEFINE text == expr.text
             stops == expr.stops
             args == expr.args
  <2>1. text \in Seq(Characters) /\ stops \in Seq(Nat \X Nat) /\ args \in Seq(Seq(Characters))
    BY <1>1 DEF ExprSound, ExprStates
  <2>2. Fits(text, stops, args)
    BY <1>1 DEF ExprSound
  <2> HIDE DEF text, stops, args
  <2>3. ASSUME NEW i \in 1..Len(stops)
        PROVE  SubSeq(text, stops[i][1] + 1, stops[i][2]) = args[i]
    <3> DEFINE x == stops[i][1]
               y == stops[i][2]
               given == args[i]
               s == SubSeq(text, x + 1, y)
    <3>1. x \in Nat /\ y = x + Len(given) /\ y <= Len(text) /\ \A k \in 1..Len(given) : text[x + k] = given[k]
      <4>1. stops[i] \in Nat \X Nat
        BY <2>1
      <4> QED  BY <2>2, <4>1 DEF Fits
    <3>2. given \in Seq(Characters) /\ Len(given) \in Nat /\ Len(text) \in Nat
      BY <2>1, <2>2 DEF Fits
    <3> HIDE DEF x, y, given
    <3>3. s \in Seq(Characters) /\ Len(s) = Len(given) /\ \A k \in 1..Len(given) : s[k] = text[x + k]
      <4> DEFINE n == Len(given)
                 z == SubSeq(text, x + 1, x + n)
      <4>1. text \in Seq(Characters) /\ x \in Nat /\ n \in Nat /\ x + n <= Len(text)
        BY <2>1, <3>1, <3>2
      <4>2. s = z
        BY <3>1
      <4> HIDE DEF n, s, z
      <4>3. Part(z, text, x, n) /\ z \in Seq(Characters)
        BY ONLY <4>1, PartIs DEF z
      <4> QED  BY <4>2, <4>3 DEF Part, n
    <3> HIDE DEF s
    <3>4. s = given
      BY <3>1, <3>2, <3>3, SeqEqual
    <3> QED  BY <3>4 DEF s, x, y, given
  <2>4. DOMAIN stops = 1..Len(stops)
    BY <2>1
  <2> QED  BY <2>3, <2>4 DEF Input!StopsFit, text, stops, args
<1> QED  BY <1>2, <1>3, <1>4, <1>5 DEF InputsInv, Input!InputsInv

\* The inputs of the forms tell the truth: the badge and the columns of a source
\* table, what the box has created and the error it shows, and the tab stops of an
\* expression, whatever the user types and in whatever order the answers come.
THEOREM InputsAreTrue == Input!Spec => []InputsInv
<1>1. Input!Init => InputIInv
  BY InputInit
<1>2. InputIInv /\ [Input!Next]_Input!vars => InputIInv'
  BY InputNext
<1>3. InputIInv => InputsInv
  BY InputHolds
<1> QED  BY <1>1, <1>2, <1>3, PTL DEF Input!Spec
=============================================================================
