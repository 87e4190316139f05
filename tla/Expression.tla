----------------------------- MODULE Expression -----------------------------
(***************************************************************************)
(* The SQL expression language of packages/lattik-expression: the lexer,   *)
(* the recursive-descent parser, the emitter that writes a tree back, and  *)
(* the type checker.                                                       *)
(*                                                                         *)
(* A node is a record [kind, op, mod, args]: "op" is the operator, name or *)
(* value, "mod" the variant ("NOT", "DISTINCT", a table, the NULLS order), *)
(* "args" the children, with Nothing where an optional one is absent.      *)
(* Text is a sequence of lexemes <<class, text>>, words in upper case; a   *)
(* lexeme of class "glue" is followed by the next one without a space.     *)
(* A parse with any error returns no tree, as parse() does.                *)
(***************************************************************************)
EXTENDS Integers, SequencesExt

CONSTANT MaxDepth     \* MAX_DEPTH of the parser

Node(kind, op, mod, args) == [kind |-> kind, op |-> op, mod |-> mod, args |-> args]

Nothing == Node("Nothing", "", "", << >>)

List(nodes) == Node("List", "", "", nodes)

Binary(op, l, r) == Node("BinaryExpr", op, "", <<l, r>>)

Column(name) == Node("ColumnRef", name, "", << >>)

Literal(kind, text) == Node("Literal", text, kind, << >>)

-----------------------------------------------------------------------------
(* emit-sql.ts                                                             *)

Compare == {"=", "!=", "<>", "<", "<=", ">", ">="}

Precedence(op) == CASE op = "OR"  -> 1
                    [] op = "AND" -> 2
                    [] op \in Compare -> 3
                    [] op \in {"+", "-", "||"} -> 4
                    [] op \in {"*", "/", "%"}  -> 5

\* The words the emitter quotes; of the lexer's own it lacks NULLS, FIRST, LAST.
Shared == {"AND", "OR", "NOT", "IS", "NULL", "TRUE", "FALSE", "IN", "BETWEEN", "LIKE", "CASE", "WHEN",
           "THEN", "ELSE", "END", "CAST", "AS", "OVER", "PARTITION", "BY", "ORDER", "ASC", "DESC", "ROWS",
           "RANGE", "UNBOUNDED", "PRECEDING", "FOLLOWING", "CURRENT", "ROW", "FILTER", "WHERE", "DISTINCT"}

SQL_KEYWORDS == Shared \cup {"SELECT", "FROM", "TABLE", "INDEX", "GROUP", "HAVING", "LIMIT", "JOIN", "LEFT",
                             "RIGHT", "ON", "UNION", "ALL", "EXISTS"}

\* Names that are not plain words.
Spaced == {"UNIT PRICE"}

W(word) == <<"word", word>>

Y(symbol) == <<"sym", symbol>>

Paren(ls) == <<Y("(")>> \o ls \o <<Y(")")>>

Not(mod) == IF mod = "NOT" THEN <<W("NOT")>> ELSE << >>

Join(parts, sep) ==
  FoldLeft(LAMBDA acc, i : acc \o (IF i = 1 THEN << >> ELSE sep) \o parts[i], << >>, [i \in DOMAIN parts |-> i])

Ident(name) == <<IF name \in Spaced \cup SQL_KEYWORDS THEN <<"quoted", name>> ELSE W(name)>>

\* A mutant: a right operand of the same precedence is not bracketed.
WithParensNoSide(child, text, prec, side) ==
  IF child.kind = "BinaryExpr" /\ Precedence(child.op) < prec THEN Paren(text) ELSE text

\* emitWithParens: only a binary operand is ever put in parentheses.
WithParens(child, text, prec, side) ==
  IF child.kind = "BinaryExpr" /\ (\/ Precedence(child.op) < prec
                                   \/ Precedence(child.op) = prec /\ side = "right")
  THEN Paren(text) ELSE text

RECURSIVE Emit(_)

EmitList(nodes) == Join([i \in DOMAIN nodes |-> Emit(nodes[i])], <<Y(",")>>)

EmitBinary(e) == WithParens(e.args[1], Emit(e.args[1]), Precedence(e.op), "left") \o <<Y(e.op)>>
                 \o WithParens(e.args[2], Emit(e.args[2]), Precedence(e.op), "right")

\* The operand, the WHENs in pairs, the ELSE.
EmitCase(e) ==
  LET n == Len(e.args)
      when(i) == <<W("WHEN")>> \o Emit(e.args[2*i]) \o <<W("THEN")>> \o Emit(e.args[2*i + 1])
  IN <<W("CASE")>> \o Emit(e.args[1]) \o FlattenSeq([i \in 1..((n - 2) \div 2) |-> when(i)])
     \o (IF e.args[n] = Nothing THEN << >> ELSE <<W("ELSE")>> \o Emit(e.args[n])) \o <<W("END")>>

\* The arguments are the FILTER and then the aggregate's own.
EmitAggregate(e) ==
  <<W(e.op)>> \o Paren((IF e.mod = "DISTINCT" THEN <<W("DISTINCT")>> ELSE << >>) \o EmitList(Tail(e.args)))
  \o (IF e.args[1] = Nothing THEN << >> ELSE <<W("FILTER")>> \o Paren(<<W("WHERE")>> \o Emit(e.args[1])))

\* One bound of a frame: its kind in words, after the offset if it has one.
EmitBound(b) == IF b.args = << >> THEN <<W(b.op), W(b.mod)>> ELSE Emit(b.args[1]) \o <<W(b.op)>>

EmitItem(o) == Emit(o.args[1]) \o (IF o.op = "DESC" THEN <<W("DESC")>> ELSE << >>)
               \o (IF o.mod = "" THEN << >> ELSE <<W("NULLS"), W(o.mod)>>)

\* The function, PARTITION BY, ORDER BY and the frame.
EmitWindow(e) ==
  LET order == e.args[3].args
      frame == e.args[4]
      by(word, ls) == IF ls = << >> THEN << >> ELSE <<W(word), W("BY")>> \o ls
  IN Emit(e.args[1]) \o <<W("OVER")>> \o
     Paren(by("PARTITION", EmitList(e.args[2].args))
           \o by("ORDER", Join([i \in DOMAIN order |-> EmitItem(order[i])], <<Y(",")>>))
           \o (IF frame = Nothing THEN << >>
               ELSE <<W(frame.op)>> \o Join([i \in DOMAIN frame.args |-> EmitBound(frame.args[i])], <<W("AND")>>)))

Emit(e) ==
  CASE e.kind = "Nothing"      -> << >>
    [] e.kind = "Literal"      -> <<<<e.mod, e.op>>>>
    [] e.kind = "ColumnRef"    -> (IF e.mod = "" THEN << >> ELSE Ident(e.mod) \o <<Y(".")>>) \o Ident(e.op)
    [] e.kind = "Star"         -> (IF e.mod = "" THEN << >> ELSE Ident(e.mod) \o <<Y(".")>>) \o <<Y("*")>>
    [] e.kind = "BinaryExpr"   -> EmitBinary(e)
    [] e.kind = "UnaryExpr"    -> IF e.op = "-" THEN <<<<"glue", "-">>>> \o WithParens(e.args[1], Emit(e.args[1]), 6, "")
                                  ELSE <<W("NOT")>> \o WithParens(e.args[1], Emit(e.args[1]), 2, "")
    [] e.kind = "BetweenExpr"  -> Emit(e.args[1]) \o Not(e.mod) \o <<W("BETWEEN")>> \o Emit(e.args[2])
                                  \o <<W("AND")>> \o Emit(e.args[3])
    [] e.kind = "InExpr"       -> Emit(e.args[1]) \o Not(e.mod) \o <<W("IN")>> \o Paren(EmitList(Tail(e.args)))
    [] e.kind = "IsNullExpr"   -> Emit(e.args[1]) \o <<W("IS")>> \o Not(e.mod) \o <<W("NULL")>>
    [] e.kind = "LikeExpr"     -> Emit(e.args[1]) \o Not(e.mod) \o <<W("LIKE")>> \o Emit(e.args[2])
    [] e.kind = "CaseExpr"     -> EmitCase(e)
    [] e.kind = "CastExpr"     -> <<W("CAST")>> \o Paren(Emit(e.args[1]) \o <<W("AS"), W(e.op)>>)
    [] e.kind = "FunctionCall" -> <<W(e.op)>> \o Paren(EmitList(e.args))
    [] e.kind = "AggregateCall" -> EmitAggregate(e)
    [] e.kind = "WindowExpr"   -> EmitWindow(e)

-----------------------------------------------------------------------------
(* lexer.ts: a token is a pair of its kind and its text.                   *)

KEYWORDS == Shared \cup {"NULLS", "FIRST", "LAST"}

TYPE_KEYWORDS == {"STRING", "INT32", "INT64", "FLOAT", "DOUBLE", "BOOLEAN", "TIMESTAMP", "DATE", "JSON"}

\* Two dashes that touch start a comment that runs to the end of the line.
DropComment(ls) ==
  LET dashes == {i \in 1..(Len(ls) - 1) : ls[i] = <<"glue", "-">> /\ ls[i + 1][2] = "-"}
  IN IF dashes = {} THEN ls ELSE SubSeq(ls, 1, Min(dashes) - 1)

LexWord(prev, word) == CASE prev = W("AS") /\ word \in TYPE_KEYWORDS -> <<"TYPE", word>>
                         [] word \in KEYWORDS -> <<word, word>>
                         [] OTHER             -> <<"IDENT", word>>

Lex(lexemes) ==
  LET ls == DropComment(lexemes)
  IN [i \in DOMAIN ls |->
        CASE ls[i][1] = "word"   -> LexWord(IF i = 1 THEN Y("") ELSE ls[i - 1], ls[i][2])
          [] ls[i][1] = "quoted" -> <<"IDENT", ls[i][2]>>
          [] ls[i][1] \in {"sym", "glue"} -> <<ls[i][2], ls[i][2]>>
          [] OTHER -> ls[i]]

-----------------------------------------------------------------------------
(* parse.ts: every function returns the node and the next position, 0 once *)
(* there was an error; "d" is the nesting depth.                           *)

KNOWN_AGGREGATES == {"SUM", "COUNT", "AVG", "MIN", "MAX", "FIRST", "LAST", "COUNT_DISTINCT", "COLLECT_LIST",
                     "COLLECT_SET", "ANY_VALUE", "STDDEV", "VARIANCE", "COUNT_IF", "SUM_IF", "AVG_IF",
                     "PERCENTILE", "PERCENTILE_APPROX", "APPROX_COUNT_DISTINCT"}

Fail == [e |-> Nothing, p |-> 0]

At(ts, p) == IF p \in DOMAIN ts THEN ts[p][1] ELSE "EOF"

Expect(ts, p, kind) == IF At(ts, p) = kind THEN p + 1 ELSE 0

Got(e, p) == IF p = 0 THEN Fail ELSE [e |-> e, p |-> p]

RECURSIVE OrExpr(_, _, _)
RECURSIVE Chain(_, _, _, _)
RECURSIVE Level(_, _, _, _)
RECURSIVE NotExpr(_, _, _)
RECURSIVE Unary(_, _, _)
RECURSIVE ListFrom(_, _, _, _)

ParseExpr(ts, p, d) == IF d >= MaxDepth THEN Fail ELSE OrExpr(ts, p, d + 1)

\* exprList
ListFrom(ts, acc, p, d) ==
  LET x == ParseExpr(ts, p, d)
  IN IF At(ts, x.p) = "," THEN ListFrom(ts, Append(acc, x.e), x.p + 1, d) ELSE Got(List(Append(acc, x.e)), x.p)

ExprList(ts, p, d) == ListFrom(ts, << >>, p, d)

\* orderByItem and orderByList
OrderByItem(ts, p, d) ==
  LET x   == ParseExpr(ts, p, d)
      dir == At(ts, x.p) \in {"ASC", "DESC"}
      q   == IF dir THEN x.p + 1 ELSE x.p
      ord == IF dir THEN At(ts, x.p) ELSE "ASC"
  IN IF At(ts, q) # "NULLS" THEN Got(Node("Item", ord, "", <<x.e>>), q)
     ELSE IF At(ts, q + 1) \in {"FIRST", "LAST"} THEN Got(Node("Item", ord, At(ts, q + 1), <<x.e>>), q + 2)
     ELSE Fail

RECURSIVE OrderByList(_, _, _, _)
OrderByList(ts, acc, p, d) ==
  LET x == OrderByItem(ts, p, d)
  IN IF At(ts, x.p) = "," THEN OrderByList(ts, Append(acc, x.e), x.p + 1, d) ELSE Got(List(Append(acc, x.e)), x.p)

FrameBound(ts, p, d) ==
  LET x == ParseExpr(ts, p, d)
      after(q, ok) == IF At(ts, q) \in ok THEN q + 1 ELSE 0
  IN CASE At(ts, p) = "UNBOUNDED" ->
            Got(Node("Bound", "UNBOUNDED", At(ts, p + 1), << >>), after(p + 1, {"PRECEDING", "FOLLOWING"}))
       [] At(ts, p) = "CURRENT" -> Got(Node("Bound", "CURRENT", "ROW", << >>), after(p + 1, {"ROW"}))
       [] OTHER -> Got(Node("Bound", At(ts, x.p), "", <<x.e>>), after(x.p, {"PRECEDING", "FOLLOWING"}))

WindowFrame(ts, p, d) ==
  LET start == FrameBound(ts, p + 1, d)
      end   == FrameBound(ts, start.p + 1, d)
  IN IF At(ts, p) \notin {"ROWS", "RANGE"} THEN Got(Nothing, p)
     ELSE IF At(ts, start.p) = "AND" THEN Got(Node("Frame", At(ts, p), "", <<start.e, end.e>>), end.p)
     ELSE Got(Node("Frame", At(ts, p), "", <<start.e>>), start.p)

TryParseFilter(ts, p, d) ==
  LET x == ParseExpr(ts, Expect(ts, Expect(ts, p + 1, "("), "WHERE"), d)
  IN IF At(ts, p) # "FILTER" THEN Got(Nothing, p) ELSE Got(x.e, Expect(ts, x.p, ")"))

TryParseWindow(ts, func, p, d) ==
  LET open  == Expect(ts, p + 1, "(")
      none  == Got(List(<< >>), open)
      part  == IF At(ts, open) = "PARTITION" THEN ExprList(ts, Expect(ts, open + 1, "BY"), d) ELSE none
      order == IF At(ts, part.p) = "ORDER" THEN OrderByList(ts, << >>, Expect(ts, part.p + 1, "BY"), d)
               ELSE Got(List(<< >>), part.p)
      frame == WindowFrame(ts, order.p, d)
  IN IF At(ts, p) # "OVER" THEN Got(func, p)
     ELSE Got(Node("WindowExpr", "", "", <<func, part.e, order.e, frame.e>>), Expect(ts, frame.p, ")"))

\* From the opening parenthesis on: COUNT(*), DISTINCT, the arguments.
FunctionCallExpr(ts, name, p, d) ==
  LET star     == name = "COUNT" /\ At(ts, p + 1) = "*"
      distinct == ~ star /\ At(ts, p + 1) = "DISTINCT"
      q        == IF distinct THEN p + 2 ELSE p + 1
      args     == IF star THEN Got(List(<<Node("Star", "*", "", << >>)>>), p + 2)
                  ELSE IF At(ts, q) = ")" THEN Got(List(<< >>), q) ELSE ExprList(ts, q, d)
      close    == Expect(ts, args.p, ")")
      filter   == TryParseFilter(ts, close, d)
      mod      == IF distinct THEN "DISTINCT" ELSE ""
  IN IF name \in KNOWN_AGGREGATES
     THEN TryParseWindow(ts, Node("AggregateCall", name, mod, <<filter.e>> \o args.e.args), filter.p, d)
     ELSE TryParseWindow(ts, Node("FunctionCall", name, "", args.e.args), close, d)

RECURSIVE Whens(_, _, _, _)
Whens(ts, acc, p, d) ==
  LET c == ParseExpr(ts, p + 1, d)
      r == ParseExpr(ts, Expect(ts, c.p, "THEN"), d)
  IN IF At(ts, p) # "WHEN" THEN Got(List(acc), p) ELSE Whens(ts, acc \o <<c.e, r.e>>, r.p, d)

CaseExpr(ts, p, d) ==
  LET operand == IF At(ts, p + 1) = "WHEN" THEN Got(Nothing, p + 1) ELSE ParseExpr(ts, p + 1, d)
      whens   == Whens(ts, << >>, operand.p, d)
      last    == IF At(ts, whens.p) = "ELSE" THEN ParseExpr(ts, whens.p + 1, d) ELSE Got(Nothing, whens.p)
  IN IF whens.e.args = << >> THEN Fail
     ELSE Got(Node("CaseExpr", "", "", <<operand.e>> \o whens.e.args \o <<last.e>>), Expect(ts, last.p, "END"))

CastExpr(ts, p, d) ==
  LET x == ParseExpr(ts, Expect(ts, p + 1, "("), d)
      q == Expect(ts, x.p, "AS")
  IN IF At(ts, q) # "TYPE" THEN Fail ELSE Got(Node("CastExpr", ts[q][2], "", <<x.e>>), Expect(ts, q + 1, ")"))

IdentExpr(ts, p, d) ==
  LET name == ts[p][2]
  IN IF At(ts, p + 1) = "(" THEN FunctionCallExpr(ts, name, p + 1, d)
     ELSE IF At(ts, p + 1) # "." THEN Got(Column(name), p + 1)
     ELSE CASE At(ts, p + 2) = "*"     -> Got(Node("Star", "*", name, << >>), p + 3)
            [] At(ts, p + 2) = "IDENT" -> Got(Node("ColumnRef", ts[p + 2][2], name, << >>), p + 3)
            [] OTHER                   -> Fail

Primary(ts, p, d) ==
  LET k == At(ts, p)
      x == ParseExpr(ts, p + 1, d)
  IN CASE k \in {"INTEGER", "DECIMAL", "STRING"} -> Got(Literal(k, ts[p][2]), p + 1)
       [] k \in {"TRUE", "FALSE", "NULL"}        -> Got(Literal("word", k), p + 1)
       [] k = "CASE"  -> CaseExpr(ts, p, d)
       [] k = "CAST"  -> CastExpr(ts, p, d)
       [] k = "("     -> Got(x.e, Expect(ts, x.p, ")"))
       [] k = "*"     -> Got(Node("Star", "*", "", << >>), p + 1)
       [] k \in {"FIRST", "LAST"} /\ At(ts, p + 1) = "(" -> FunctionCallExpr(ts, k, p + 1, d)
       [] k = "IDENT" -> IdentExpr(ts, p, d)
       [] OTHER       -> Fail

Unary(ts, p, d) ==
  IF At(ts, p) # "-" THEN Primary(ts, p, d)
  ELSE IF d >= MaxDepth THEN Fail
  ELSE LET x == Unary(ts, p + 1, d + 1) IN Got(Node("UnaryExpr", "-", "", <<x.e>>), x.p)

\* The left-associative levels: orExpr, andExpr, addition and multiply.
Ops(level) == CASE level = 1 -> {"OR"} [] level = 2 -> {"AND"} [] level = 4 -> {"+", "-", "||"}
                [] level = 5 -> {"*", "/", "%"}

Operand(ts, p, d, level) == CASE level = 1 -> Level(ts, p, d, 2) [] level = 2 -> NotExpr(ts, p, d)
                              [] level = 4 -> Level(ts, p, d, 5) [] level = 5 -> Unary(ts, p, d)

Chain(ts, left, d, level) ==
  LET x == Operand(ts, left.p + 1, d, level)
  IN IF At(ts, left.p) \notin Ops(level) THEN left
     ELSE Chain(ts, Got(Binary(At(ts, left.p), left.e, x.e), x.p), d, level)

Level(ts, p, d, level) == Chain(ts, Operand(ts, p, d, level), d, level)

Addition(ts, p, d) == Level(ts, p, d, 4)

OrExpr(ts, p, d) == Level(ts, p, d, 1)

Comparison(ts, p, d) ==
  LET left == Addition(ts, p, d)
      neg  == At(ts, left.p) = "NOT" /\ At(ts, left.p + 1) \in {"BETWEEN", "IN", "LIKE"}
      q    == IF neg THEN left.p + 1 ELSE left.p
      mod  == IF neg THEN "NOT" ELSE ""
      x    == Addition(ts, q + 1, d)
      y    == Addition(ts, Expect(ts, x.p, "AND"), d)
      list == ExprList(ts, Expect(ts, q + 1, "("), d)
      null == At(ts, q + 1) # "NOT"
  IN CASE At(ts, q) = "IS"      -> Got(Node("IsNullExpr", "", IF null THEN "" ELSE "NOT", <<left.e>>),
                                       Expect(ts, IF null THEN q + 1 ELSE q + 2, "NULL"))
       [] At(ts, q) = "BETWEEN" -> Got(Node("BetweenExpr", "", mod, <<left.e, x.e, y.e>>), y.p)
       [] At(ts, q) = "IN"      -> Got(Node("InExpr", "", mod, <<left.e>> \o list.e.args), Expect(ts, list.p, ")"))
       [] At(ts, q) = "LIKE"    -> Got(Node("LikeExpr", "", mod, <<left.e, x.e>>), x.p)
       [] At(ts, q) \in Compare -> Got(Binary(At(ts, q), left.e, x.e), x.p)
       [] OTHER                 -> left

NotExpr(ts, p, d) ==
  IF At(ts, p) # "NOT" THEN Comparison(ts, p, d)
  ELSE LET x == NotExpr(ts, p + 1, d) IN Got(Node("UnaryExpr", "NOT", "", <<x.e>>), x.p)

\* parse: the whole input or no tree.
Parse(lexemes) ==
  LET ts == Lex(lexemes)
      x  == ParseExpr(ts, 1, 0)
  IN IF x.p = Len(ts) + 1 THEN x.e ELSE Nothing

-----------------------------------------------------------------------------
(* When a tree survives: a plain tree is one whose operands all bind at    *)
(* least as tightly as their place in the grammar, except the binary ones  *)
(* the emitter puts in parentheses.                                        *)

\* The predicates and NOT bind less tightly than arithmetic.
Loose(c) == c.kind \in {"BetweenExpr", "InExpr", "IsNullExpr", "LikeExpr"} \/ (c.kind = "UnaryExpr" /\ c.op = "NOT")

Ordering(c) == c.kind = "BinaryExpr" /\ Precedence(c.op) <= 3

FitsUnary(e, c) ==
  IF e.op = "NOT" THEN ~ (c.kind = "BinaryExpr" /\ c.op = "AND")
  ELSE ~ Loose(c) /\ ~ (c.kind = "UnaryExpr" /\ c.op = "-")

FitsBinary(e, i, c) == /\ Precedence(e.op) >= 3 => ~ Loose(c)
                       /\ Precedence(e.op) = 3 /\ i = 1 => ~ (Ordering(c) /\ Precedence(c.op) = 3)

\* The operands of a predicate, for IN only the first, are sums at loosest.
FitsPredicate(e, i, c) == (e.kind = "InExpr" /\ i > 1) \/ (~ Loose(c) /\ ~ Ordering(c))

RECURSIVE Plain(_)
Plain(e) ==
  /\ e.kind = "ColumnRef" => {e.op, e.mod} \cap {"NULLS", "FIRST", "LAST"} = {}
  /\ \A i \in DOMAIN e.args :
       /\ Plain(e.args[i])
       /\ e.kind = "UnaryExpr"  => FitsUnary(e, e.args[i])
       /\ e.kind = "BinaryExpr" => FitsBinary(e, i, e.args[i])
       /\ e.kind \in {"BetweenExpr", "InExpr", "IsNullExpr", "LikeExpr"} => FitsPredicate(e, i, e.args[i])

\* What the emitter writes parses back to the tree it wrote, of exactly the
\* plain trees.
SurvivesEmit(e) == Parse(Emit(e)) = e <=> Plain(e)

\* What roundtrip.test.ts asserts: the text written parses, to the same text.
SameText(e) == LET again == Parse(Emit(e)) IN again # Nothing /\ Emit(again) = Emit(e)
=============================================================================
