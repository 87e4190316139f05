----------------------------- MODULE FormInputs -----------------------------
(***************************************************************************)
(* The inputs of the forms that ask the server while the user types        *)
(* (registry.tsx): the source table with its badge, looked up in the       *)
(* definitions and then in the catalog (SourceTableCombobox); the field    *)
(* that creates the entity or the dimension it names (EntityCombobox,      *)
(* DimensionCombobox); and the expression with its tab stops               *)
(* (ExpressionInput).  Each is a record of its own: src, box and expr.     *)
(*                                                                         *)
(* Answers arrive when they arrive: nothing cancels a request, and each    *)
(* goes on with the value it was started with.  The fields foreign, late   *)
(* and again are history: they note that an answer came for another value, *)
(* to another popover or over a newer list.                                *)
(***************************************************************************)
EXTENDS Integers, Sequences, FiniteSets, SequencesExt, TLC

CONSTANTS
  Words,        \* what the user types for a source table
  Dotted,       \* those with a dot
  Tables,       \* the tables that have a definition
  Catalog,      \* the tables of the catalog
  Kinds,        \* what the box creates: "entity", "dimension"
  Terms,        \* what the user types into the box, in snake case
  Visible,      \* definitions listed to this user
  Hidden,       \* definitions of others, not merged: not listed
  Functions,    \* sequences of the lengths of a function's parameters
  MaxUserSteps  \* bound: steps of the user

\* A table has a name, and a parameter a length.
InputAssumption == "" \notin Tables \cup Dotted /\ Functions \subseteq Seq(Nat)

VARIABLES src, box, expr, steps

vars == <<src, box, expr, steps>>

None == "none"

User == steps < MaxUserSteps /\ steps' = steps + 1

-----------------------------------------------------------------------------
(* The source table.                                                       *)

InitSource ==
  src = [value |-> "", loaded |-> FALSE, tables |-> {}, status |-> "idle",
         columns |-> <<>>, cache |-> <<>>, timers |-> {}, lookups |-> {}, fetches |-> {},
         foreign |-> FALSE]

\* What is known of a name in the catalog.
Found(s, name, exists) ==
  IF exists THEN [s EXCEPT !.status = "catalog", !.columns = <<"catalog", name>>]
  ELSE [s EXCEPT !.status = "not_found"]

\* Mutant: the timer of the value before goes on.
CheckCatalogOn(s) ==
  CASE s.value \notin Dotted -> [s EXCEPT !.status = "idle"]
    [] s.value \in DOMAIN s.cache -> Found(s, s.value, s.cache[s.value])
    [] OTHER -> [s EXCEPT !.timers = @ \cup {s.value}, !.status = "loading"]

\* An abandoned value is not looked up, unless the value that follows is blank
\* or a definition's: the timer is cleared here only.
CheckCatalog(s) ==
  CASE s.value \notin Dotted -> [s EXCEPT !.timers = {}, !.status = "idle"]
    [] s.value \in DOMAIN s.cache -> Found([s EXCEPT !.timers = {}], s.value, s.cache[s.value])
    [] OTHER -> [s EXCEPT !.timers = {s.value}, !.status = "loading"]

\* The effect on a new value or list.
Resolve(s) ==
  IF s.value = "" \/ ~s.loaded THEN [s EXCEPT !.status = "idle"]
  ELSE IF s.value \in s.tables
  THEN [s EXCEPT !.columns = <<"definition", s.value>>, !.status = "definition"]
  ELSE CheckCatalog(s)

TypeSource(v) ==
  /\ User /\ v # src.value
  /\ src' = Resolve([src EXCEPT !.value = v, !.foreign = FALSE])

SelectSource(t) ==
  /\ User /\ src.loaded
  /\ src' = [src EXCEPT !.value = t, !.columns = <<"definition", t>>, !.status = "definition",
                        !.foreign = FALSE]

FocusSource ==
  /\ User /\ ~src.loaded
  /\ src' = [src EXCEPT !.fetches = @ \cup {src.value}]

\* The definitions arrive, or the request for them fails.  The value that is
\* matched is the one of the focus.
Fetched(v) ==
  LET listed == [src EXCEPT !.fetches = @ \ {v}, !.tables = Tables, !.loaded = TRUE]
      matched == IF v \in Tables
                 THEN [listed EXCEPT !.columns = <<"definition", v>>, !.status = "definition"]
                 ELSE listed
  IN src' = IF src.loaded THEN [matched EXCEPT !.foreign = TRUE] ELSE Resolve(matched)

FetchFailed(v) ==
  LET empty == [src EXCEPT !.fetches = @ \ {v}, !.loaded = TRUE]
  IN src' = IF src.loaded THEN empty ELSE Resolve(empty)

Pause(name) ==
  src' = [src EXCEPT !.timers = @ \ {name}, !.lookups = @ \cup {name}]

Remembered(cache, name, exists) ==
  [n \in DOMAIN cache \cup {name} |-> IF n = name THEN exists ELSE cache[n]]

Answered(name) ==
  [src EXCEPT !.lookups = @ \ {name}, !.foreign = name # src.value \/ name \in src.tables]

\* A catalog that is down answers that there is no such table, and why; the
\* answer is kept as it is.
LookedUp(name, up) ==
  LET exists == up /\ name \in Catalog
  IN src' = Found([Answered(name) EXCEPT !.cache = Remembered(@, name, exists)], name, exists)

LookupFailed(name) == src' = Found(Answered(name), name, FALSE)

NextSource ==
  /\ \/ \E v \in Words \cup {""} : TypeSource(v)
     \/ \E t \in src.tables : SelectSource(t)
     \/ FocusSource
     \/ /\ UNCHANGED steps
        /\ \/ \E v \in src.fetches : Fetched(v) \/ FetchFailed(v)
           \/ \E name \in src.timers : Pause(name)
           \/ \E name \in src.lookups :
                LookupFailed(name) \/ \E up \in BOOLEAN : LookedUp(name, up)
  /\ UNCHANGED <<box, expr>>

-----------------------------------------------------------------------------
(* The box that creates what it names.                                     *)

InitBox ==
  \E k \in Kinds :
    box = [kind |-> k, value |-> "", loaded |-> FALSE, listed |-> {}, fetches |-> {},
           creating |-> FALSE, filled |-> FALSE, asked |-> None, error |-> None,
           created |-> {}, tried |-> {}, late |-> FALSE, again |-> FALSE]

TypeTerm(v) == User /\ v # box.value /\ box' = [box EXCEPT !.value = v]

SelectTerm(n) == User /\ box' = [box EXCEPT !.value = n]

FocusBox ==
  /\ User /\ ~box.loaded
  /\ box' = [box EXCEPT !.fetches = @ \cup {box.created}]

\* The list as it was read, at the focus or now.
BoxFetched(at) ==
  \E seen \in {at, box.created} :
    box' = [box EXCEPT !.fetches = @ \ {at}, !.loaded = TRUE, !.listed = Visible \cup seen,
                       !.again = @ \/ seen # box.created]

BoxFetchFailed(at) == box' = [box EXCEPT !.fetches = @ \ {at}, !.loaded = TRUE]

ShowCreateOption == box.loaded /\ box.value # "" /\ box.value \notin box.listed

\* The dimension's popover starts afresh; the entity's keeps the last error.
OpenCreate ==
  /\ User /\ ShowCreateOption /\ ~box.creating
  /\ box' = [box EXCEPT !.creating = TRUE, !.filled = box.kind = "entity",
                        !.error = IF box.kind = "dimension" THEN None ELSE @,
                        !.tried = {}, !.late = box.asked # None]

Fill == User /\ box.creating /\ ~box.filled /\ box' = [box EXCEPT !.filled = TRUE]

\* Cancel clears the error, the cross, Escape and leaving the field do not.
Cancel(clear) ==
  /\ User /\ box.creating
  /\ box' = [box EXCEPT !.creating = FALSE, !.error = IF clear THEN None ELSE @]

HandleCreate ==
  /\ User /\ box.creating /\ box.value # "" /\ box.asked = None
  /\ box' = IF box.filled
            THEN [box EXCEPT !.asked = box.value, !.error = None, !.tried = @ \cup {box.value}]
            ELSE [box EXCEPT !.error = "required"]

\* A name is unique among the definitions of everyone.
Taken(n) == n \in Visible \cup Hidden \cup box.created

\* The dimension's field takes the name again, whatever was typed since.
CreateAnswered ==
  /\ box.asked # None /\ ~Taken(box.asked)
  /\ box' = [box EXCEPT !.created = @ \cup {box.asked}, !.listed = @ \cup {box.asked},
                        !.value = IF box.kind = "dimension" THEN box.asked ELSE @,
                        !.creating = FALSE, !.asked = None]

\* The name is taken, the request fails, or only its answer is lost.
CreateFailed(lost) ==
  /\ box.asked # None /\ (lost => ~Taken(box.asked))
  /\ box' = [box EXCEPT !.error = box.asked, !.asked = None, !.again = @ \/ lost,
                        !.created = IF lost THEN @ \cup {box.asked} ELSE @]

NextBox ==
  /\ \/ \E v \in Terms \cup {""} : TypeTerm(v)
     \/ \E n \in box.listed : SelectTerm(n)
     \/ FocusBox \/ OpenCreate \/ Fill \/ HandleCreate
     \/ \E clear \in BOOLEAN : Cancel(clear)
     \/ /\ UNCHANGED steps
        /\ \/ \E at \in box.fetches : BoxFetched(at) \/ BoxFetchFailed(at)
           \/ CreateAnswered \/ \E lost \in BOOLEAN : CreateFailed(lost)
  /\ UNCHANGED <<src, expr>>

-----------------------------------------------------------------------------
(* The expression: a sequence of characters, of which "l" is a letter the  *)
(* user types, "f" one of a function's name, "1", "2", ... those of the    *)
(* placeholder of a parameter and "." any other.  args is what each parameter has  *)
(* been given since the function was put in.                               *)

InitExpr ==
  expr = [text |-> <<>>, cursor |-> 0, stops |-> <<>>, tab |-> 0, args |-> <<>>, fresh |-> FALSE]

\* tokenAtCursor.  The cursor is the one of the last change: selecting,
\* clicking and completing do not move it.
CursorToken == expr.cursor > 0 /\ expr.text[expr.cursor] # "."

Placeholder(f, i) == [c \in 1..f[i] |-> ToString(i)]

\* The arguments, separated by two characters.
Joined(args) == FlattenSeq([i \in DOMAIN args |-> IF i = 1 THEN args[i] ELSE <<".", ".">> \o args[i]])

StopsFrom(start, f) ==
  LET offset[i \in 1..Len(f)] == IF i = 1 THEN start ELSE offset[i - 1] + f[i - 1] + 2
  IN [i \in 1..Len(f) |-> <<offset[i], offset[i] + f[i]>>]

\* The word before the cursor, where the user last typed, is completed: what is
\* put in starts with it.
Completed(rest) ==
  SubSeq(expr.text, 1, expr.cursor) \o rest \o SubSeq(expr.text, expr.cursor + 1, Len(expr.text))

\* A function comes with its placeholders, the first of them selected.
ApplyFunction(f) ==
  LET args == [i \in DOMAIN f |-> Placeholder(f, i)] IN
  /\ User /\ CursorToken
  /\ expr' = [expr EXCEPT !.text = Completed(<<"f", ".">> \o Joined(args) \o <<".">>),
                          !.stops = StopsFrom(expr.cursor + 2, f),
                          !.tab = IF f = <<>> THEN 0 ELSE 1,
                          !.args = args, !.fresh = TRUE]

ApplyColumn ==
  /\ User /\ CursorToken
  /\ expr' = [expr EXCEPT !.text = Completed(<<"l">>), !.stops = <<>>, !.tab = 0, !.args = <<>>]

Tab ==
  /\ User /\ expr.tab > 0
  /\ expr' = IF expr.tab < Len(expr.stops) THEN [expr EXCEPT !.tab = @ + 1, !.fresh = TRUE]
             ELSE [expr EXCEPT !.stops = <<>>, !.tab = 0, !.args = <<>>]

\* handleChange's stops, when the cursor is left at newCursor.
Shifted(newCursor) ==
  LET newLen == newCursor - expr.stops[expr.tab][1]
      delta == newLen - (expr.stops[expr.tab][2] - expr.stops[expr.tab][1])
  IN [i \in DOMAIN expr.stops |->
        LET s == expr.stops[i] IN
        CASE i < expr.tab -> s
          [] i = expr.tab -> <<s[1], s[1] + newLen>>
          [] i > expr.tab -> <<s[1] + delta, s[2] + delta>>]

\* The user types over the selected placeholder, or goes on at its end: a
\* character more, or one less.
Change(new) ==
  LET stop == expr.stops[expr.tab]
      newCursor == stop[1] + Len(new)
  IN expr' = [expr EXCEPT !.text = SubSeq(@, 1, stop[1]) \o new \o SubSeq(@, stop[2] + 1, Len(@)),
                          !.cursor = newCursor, !.stops = Shifted(newCursor),
                          !.args = [@ EXCEPT ![expr.tab] = new], !.fresh = FALSE]

TypeInStop(c) ==
  /\ User /\ expr.tab > 0
  /\ Change(IF expr.fresh THEN <<c>> ELSE Append(expr.args[expr.tab], c))

EraseInStop ==
  /\ User /\ expr.tab > 0
  /\ expr.fresh \/ expr.args[expr.tab] # <<>>
  /\ Change(IF expr.fresh THEN <<>> ELSE Front(expr.args[expr.tab]))

\* Without stops, anywhere.
TypeAt(p, c) ==
  /\ User /\ expr.tab = 0
  /\ expr' = [expr EXCEPT !.text = InsertAt(@, p + 1, c), !.cursor = p + 1]

NextExpr ==
  /\ \/ \E f \in Functions : ApplyFunction(f)
     \/ ApplyColumn \/ Tab \/ EraseInStop
     \/ \E c \in {"l", "."} : TypeInStop(c) \/ \E p \in 0..Len(expr.text) : TypeAt(p, c)
  /\ UNCHANGED <<src, box>>

-----------------------------------------------------------------------------
Init == InitSource /\ InitBox /\ InitExpr /\ steps = 0

Next == NextSource \/ NextBox \/ NextExpr

Spec == Init /\ [][Next]_vars

-----------------------------------------------------------------------------
(***************************************************************************)
(* Properties.                                                             *)
(***************************************************************************)

\* The badge next to a source table says where the table shown is defined, and
\* the columns offered below are its own, once the requests are answered and
\* unless the last answer was to another name (SourceTableCombobox).
BadgeIsRight ==
  src.loaded /\ ~src.foreign /\ src.lookups = {} /\ src.timers = {} =>
    /\ src.status \in {"definition", "catalog"} => src.columns = <<src.status, src.value>>
    /\ src.status = "definition" <=> src.value \in src.tables
    /\ src.status = "catalog" => src.value \in Catalog
    /\ src.status = "idle" <=> src.value \notin src.tables \cup Dotted

\* Only the name the user pauses on is looked up (registry.tsx:311), but for
\* one that a blank or a definition's name has replaced.
OnlyPausedNames ==
  src.value \notin {""} \cup src.tables => src.timers \subseteq {src.value}

\* What the box has created is in its list, so that it does not offer to create
\* it again, unless an older list has arrived since or the answer was lost; and
\* the error a popover shows is about an attempt of its own, unless one was still
\* open when it opened - for a dimension: the entity's keeps the last error.
CreatedIsListed ==
  /\ ~box.again => box.created \subseteq box.listed
  /\ box.kind = "dimension" /\ box.creating /\ ~box.late =>
       box.error \in {None, "required"} \cup box.tried

\* Tab goes to the next placeholder, whole and nothing more, whatever the user
\* has put in place of those before it (ExpressionInput, handleChange).
StopsFit ==
  \A i \in DOMAIN expr.stops :
    SubSeq(expr.text, expr.stops[i][1] + 1, expr.stops[i][2]) = expr.args[i]

InputsInv == BadgeIsRight /\ OnlyPausedNames /\ CreatedIsListed /\ StopsFit
=============================================================================
