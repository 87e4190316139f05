--------------------------- MODULE DefinitionFlow ---------------------------
(***************************************************************************)
(* From a form to a pull request.  In each conversation the agent checks   *)
(* the form, saves it as a draft and puts its YAML on the canvas           *)
(* (definition-flow.ts); the user may edit the YAML, and asks for the      *)
(* pull request, which a later run makes (submit-pr.ts); or asks for a     *)
(* definition to be deleted (delete-definition.ts).                        *)
(*                                                                         *)
(* The tools of a run read the canvas as it was when the user asked; it    *)
(* goes on changing under their hands.  A tool is a durable step: one that *)
(* dies is run again from its beginning.  Conversations share the table of *)
(* definitions and the repository, and any call to either may fail.        *)
(***************************************************************************)
EXTENDS Naturals, Sequences, FiniteSets

CONSTANTS
  Chats,        \* the conversations
  Canvases,     \* what they show at first
  Names,        \* names of definitions of one kind
  Safe,         \* of a name: its form in a branch, without the dot
  Specs,        \* what a form can hold
  Checked,      \* the specs that pass the static check
  Files,        \* the files there are at first
  Typed,        \* what the user makes of a YAML
  Absent, Null,
  MaxPRs,       \* bound: branches
  MaxEdits,     \* bound: edits of the canvases
  MaxTurns,     \* bound: turns of the user
  FaultSets     \* sets of: crash and error, once each; clash, merge

VARIABLES
  main,      \* the main branch: per name, the content of its file
  row,       \* the definitions: per name, [spec, status, pr] or Null
  canvas,    \* per conversation: what its canvas shows
  job,       \* per conversation: the run and the tool it is in
  branches,  \* the branches made: [name, base, changes, shared]
  prs,       \* the pull requests: [branch, merged, asked]
  turns, edits, faults

vars == <<main, row, canvas, job, branches, prs, turns, edits, faults>>

FileContents == [yaml : Specs] \cup {Typed}
Forms == [kind : {"form"}, name : Names, spec : Specs]
Editors == [kind : {"yaml"}, name : Names, file : FileContents]
Cards == [kind : {"card"}, name : Names]
Shows == Forms \cup Editors \cup Cards
RowStates == [spec : Specs, status : {"draft", "pending_review", "pending_deletion", "merged"}, pr : Nat]

\* An editor holds the YAML of a checked spec until the user types, and so does a
\* file that was merged.
FlowAssumption ==
  /\ Checked \subseteq Specs /\ Absent \notin FileContents /\ Null \notin RowStates
  /\ Files \subseteq [Names -> [yaml : Checked] \cup {Absent}]
  /\ Canvases \subseteq [Chats -> Forms \cup [kind : {"yaml"}, name : Names, file : [yaml : Checked]]]

Yaml(spec) == [yaml |-> spec]
Form(n, spec) == [kind |-> "form", name |-> n, spec |-> spec]
Editor(n, content) == [kind |-> "yaml", name |-> n, file |-> content]
Card(n) == [kind |-> "card", name |-> n]

Idle == [pc |-> "idle"]

Init ==
  /\ main \in Files
  /\ row = [n \in Names |-> IF main[n] = Absent THEN Null
                            ELSE [spec |-> main[n].yaml, status |-> "merged", pr |-> 0]]
  /\ canvas \in Canvases
  /\ job = [c \in Chats |-> Idle]
  /\ branches = <<>> /\ prs = <<>> /\ turns = 0 /\ edits = 0 /\ faults \in FaultSets

-----------------------------------------------------------------------------
(***************************************************************************)
(* The user.                                                               *)
(***************************************************************************)

Edit(c, shown) ==
  /\ edits < MaxEdits /\ edits' = edits + 1 /\ shown # canvas[c]
  /\ canvas' = [canvas EXCEPT ![c] = shown]
  /\ UNCHANGED <<main, row, job, branches, prs, turns, faults>>

EditForm(c, spec) == canvas[c].kind = "form" /\ Edit(c, [canvas[c] EXCEPT !.spec = spec])

\* The editor of the YAML.
EditYaml(c) == canvas[c].kind = "yaml" /\ Edit(c, [canvas[c] EXCEPT !.file = Typed])

\* A turn takes the canvas along.  Its button asks for the pull request of the
\* YAML; a deletion names its definition.
Ask(c, pc, n) ==
  /\ job[c] = Idle /\ turns < MaxTurns /\ turns' = turns + 1
  /\ job' = [job EXCEPT ![c] = [pc |-> pc, start |-> pc, snap |-> canvas[c], asked |-> canvas[c],
                                name |-> n, branch |-> 0, pr |-> 0]]
  /\ UNCHANGED <<main, row, canvas, branches, prs, edits, faults>>

AskSubmit(c) == canvas[c].kind = "form" /\ Ask(c, "check", canvas[c].name)
AskPR(c) == canvas[c].kind = "yaml" /\ Ask(c, "branch", canvas[c].name)
AskDelete(c, n) == Ask(c, "resolve", n)

-----------------------------------------------------------------------------
(***************************************************************************)
(* The tools.                                                              *)
(***************************************************************************)

\* getCanvasState: what the turn has taken along.
CanvasState(c) == job[c].snap

At(c, pc) == job[c].pc = pc
Goto(c, pc) == job' = [job EXCEPT ![c].pc = pc]
\* The next tool: one that dies is run from here.
Tool(c, pc) == job' = [job EXCEPT ![c].pc = pc, ![c].start = pc]
Done(c) == job' = [job EXCEPT ![c] = Idle]

Calls == UNCHANGED <<canvas, turns, edits, faults>>

\* staticCheck: the agent goes on when it passes.
StaticCheck(c) ==
  /\ At(c, "check")
  /\ IF CanvasState(c).spec \in Checked THEN Tool(c, "find") ELSE Done(c)
  /\ UNCHANGED <<main, row, branches, prs>> /\ Calls

\* updateDefinition: a row of the name is looked for, then updated or made.
Find(c) ==
  /\ At(c, "find")
  /\ Goto(c, IF row[CanvasState(c).name] # Null THEN "update" ELSE "insert")
  /\ UNCHANGED <<main, row, branches, prs>> /\ Calls

\* The spec is replaced, whatever the status of the row.
Update(c) ==
  /\ At(c, "update") /\ Tool(c, "generate")
  /\ row' = [row EXCEPT ![CanvasState(c).name].spec = CanvasState(c).spec]
  /\ UNCHANGED <<main, branches, prs>> /\ Calls

\* A row that has come in between makes the insertion fail: it is updated.
Insert(c) ==
  LET n == CanvasState(c).name IN
  /\ At(c, "insert")
  /\ IF row[n] # Null
       THEN Goto(c, "update") /\ UNCHANGED row
       ELSE /\ Tool(c, "generate")
            /\ row' = [row EXCEPT ![n] = [spec |-> CanvasState(c).spec, status |-> "draft", pr |-> 0]]
  /\ UNCHANGED <<main, branches, prs>> /\ Calls

\* generateYaml: the canvas becomes the editor, and the agent stops.
GenerateYaml(c) ==
  /\ At(c, "generate") /\ Done(c)
  /\ canvas' = [canvas EXCEPT ![c] = Editor(CanvasState(c).name, Yaml(CanvasState(c).spec))]
  /\ UNCHANGED <<main, row, branches, prs, turns, edits, faults>>

-----------------------------------------------------------------------------

\* resolveKind of deleteDefinition.
Resolve(c) ==
  /\ At(c, "resolve")
  /\ IF row[job[c].name] # Null THEN Goto(c, "branch") ELSE Done(c)
  /\ UNCHANGED <<main, row, branches, prs>> /\ Calls

Deleting(c) == job[c].start = "resolve"

\* createBranch.  The name ends in the time in milliseconds; a branch that is
\* there already, made by another run within the millisecond, is used.
CreateBranch(c, same) ==
  LET name == <<Deleting(c), Safe[job[c].name]>> IN
  /\ At(c, "branch")
  /\ IF same
       THEN /\ "clash" \in faults
            /\ \E d \in Chats \ {c} : job[d] # Idle /\ job[d].branch = Len(branches)
            /\ branches # <<>> /\ branches[Len(branches)].name = name
            /\ branches' = [branches EXCEPT ![Len(branches)].shared = TRUE]
       ELSE /\ Len(branches) < MaxPRs
            /\ branches' = Append(branches, [name |-> name, base |-> main, changes |-> {}, shared |-> FALSE])
  /\ job' = [job EXCEPT ![c].pc = "commit", ![c].branch = Len(branches')]
  /\ UNCHANGED <<main, row, prs>> /\ Calls

\* A branch's file: the last change of it, or that of its base.
FileOf(b, n) ==
  LET of == {x \in branches[b].changes : x.name = n}
  IN IF of = {} THEN branches[b].base[n] ELSE (CHOOSE x \in of : TRUE).content

Change(b, n, content) ==
  branches' = [branches EXCEPT ![b].changes =
                 {x \in @ : x.name # n} \cup {[name |-> n, content |-> content]}]

\* commitFiles, deleteFile: a file that is not there cannot be deleted.
Commit(c) ==
  LET n == job[c].name
      b == job[c].branch
  IN /\ At(c, "commit")
     /\ IF Deleting(c) /\ FileOf(b, n) = Absent
          THEN Done(c) /\ UNCHANGED branches
          ELSE /\ Goto(c, "open")
               /\ Change(b, n, IF Deleting(c) THEN Absent ELSE CanvasState(c).file)
     /\ UNCHANGED <<main, row, prs>> /\ Calls

\* GitHub refuses a second pull request of a branch.
Opens(c) == \A p \in DOMAIN prs : prs[p].branch # job[c].branch \/ prs[p].merged

\* Mutant: the answer of GitHub is not looked at.
OpenPRUnchecked(c) ==
  /\ At(c, "open")
  /\ prs' = IF Opens(c) THEN Append(prs, [branch |-> job[c].branch, merged |-> FALSE,
                                          asked |-> job[c].asked]) ELSE prs
  /\ job' = [job EXCEPT ![c].pc = "mark", ![c].pr = Len(prs) + 1]
  /\ UNCHANGED <<main, row, branches>> /\ Calls

\* createPullRequest.
OpenPR(c) ==
  /\ At(c, "open")
  /\ IF Opens(c)
       THEN /\ prs' = Append(prs, [branch |-> job[c].branch, merged |-> FALSE, asked |-> job[c].asked])
            /\ job' = [job EXCEPT ![c].pc = "mark", ![c].pr = Len(prs')]
       ELSE Done(c) /\ UNCHANGED prs
  /\ UNCHANGED <<main, row, branches>> /\ Calls

\* The row is looked up by its name, and marked when it is there; then the
\* canvas shows the card.
Mark(c) ==
  LET n == job[c].name IN
  /\ At(c, "mark") /\ Done(c)
  /\ row' = IF row[n] = Null THEN row
            ELSE [row EXCEPT ![n].status = IF Deleting(c) THEN "pending_deletion" ELSE "pending_review",
                             ![n].pr = job[c].pr]
  /\ canvas' = IF Deleting(c) THEN canvas ELSE [canvas EXCEPT ![c] = Card(n)]
  /\ UNCHANGED <<main, branches, prs, turns, edits, faults>>

\* A call that fails ends the tool with an error; what is done stays.
Error(c) ==
  /\ job[c].pc \in {"find", "update", "insert", "resolve", "branch", "commit", "open", "mark"}
  /\ "error" \in faults /\ faults' = faults \ {"error"}
  /\ Done(c)
  /\ UNCHANGED <<main, row, canvas, branches, prs, turns, edits>>

\* The step dies, and runs again from its beginning.
Crash(c) ==
  /\ job[c] # Idle /\ job[c].pc # job[c].start
  /\ "crash" \in faults /\ faults' = faults \ {"crash"}
  /\ Goto(c, job[c].start)
  /\ UNCHANGED <<main, row, canvas, branches, prs, turns, edits>>

\* GitHub merges what does not conflict with what was merged since.
Merge(p) ==
  LET b == branches[prs[p].branch] IN
  /\ "merge" \in faults /\ p \in DOMAIN prs /\ ~prs[p].merged
  /\ \A x \in b.changes : main[x.name] = b.base[x.name]
  /\ prs' = [prs EXCEPT ![p].merged = TRUE]
  /\ main' = [n \in Names |-> IF \E x \in b.changes : x.name = n THEN FileOf(prs[p].branch, n)
                                                                ELSE main[n]]
  /\ UNCHANGED <<row, canvas, job, branches, turns, edits, faults>>

Next ==
  \/ \E c \in Chats :
       \/ \E s \in Specs : EditForm(c, s)
       \/ EditYaml(c) \/ AskSubmit(c) \/ AskPR(c)
       \/ \E n \in Names : AskDelete(c, n)
       \/ StaticCheck(c) \/ Find(c) \/ Update(c) \/ Insert(c) \/ GenerateYaml(c)
       \/ Resolve(c) \/ Commit(c) \/ OpenPR(c) \/ Mark(c) \/ Error(c) \/ Crash(c)
       \/ \E same \in BOOLEAN : CreateBranch(c, same)
  \/ \E p \in 1..MaxPRs : Merge(p)

Spec == Init /\ [][Next]_vars

-----------------------------------------------------------------------------
(***************************************************************************)
(* Properties.                                                             *)
(***************************************************************************)

\* A definition is pending only because of a pull request there is: one that
\* sets its file when it is pending review, one that removes it when it is
\* pending deletion.  The rows are marked by one run while others make their
\* branches, fail half-way or die and start again.
PendingHasPR ==
  \A n \in Names : row[n] # Null /\ row[n].status \in {"pending_review", "pending_deletion"} =>
    /\ row[n].pr \in DOMAIN prs
    /\ \E x \in branches[prs[row[n].pr].branch].changes :
         x.name = n /\ (x.content = Absent <=> row[n].status = "pending_deletion")

\* "Requires that generateYaml has been called first - reads the (possibly
\* user-edited) YAML files directly from canvas state" (submit-pr.ts:84): a pull
\* request that sets a file holds what the editor showed when the user asked for
\* it, whatever the user has typed since, another run has saved under the name or
\* a repeated step has done; and unless the user typed it, that is the YAML of a
\* spec that passed the static check, as the saved ones are.  A branch of two
\* runs within one millisecond holds the files of both.
ShownIsSubmitted ==
  /\ \A p \in DOMAIN prs : ~branches[prs[p].branch].shared =>
       \A x \in branches[prs[p].branch].changes : x.content # Absent =>
         Editor(x.name, x.content) = prs[p].asked
  /\ \A c \in Chats : canvas[c].kind = "yaml" /\ canvas[c].file # Typed =>
       canvas[c].file.yaml \in Checked
  /\ \A n \in Names : row[n] # Null => row[n].spec \in Checked
=============================================================================
