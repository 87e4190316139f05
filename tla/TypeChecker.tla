---------------------------- MODULE TypeChecker -----------------------------
(***************************************************************************)
(* check.ts over the trees of Expression: the type of every node, from the *)
(* columns of a schema, and the errors that reject an expression.  A type  *)
(* is a scalar and whether it may be NULL; errors are kept as the set of   *)
(* their codes.  Of the built-in functions one of each shape stands for    *)
(* the others.                                                             *)
(***************************************************************************)
EXTENDS Expression

T(scalar, nullable) == [scalar |-> scalar, nullable |-> nullable]

Inferred(type, codes) == [type |-> type, codes |-> codes]

Unknown == T("unknown", TRUE)

Bool == T("boolean", FALSE)

-----------------------------------------------------------------------------
(* data-types.ts                                                           *)

Numeric == <<"int32", "int64", "float", "double">>

Rank(s) == CHOOSE i \in DOMAIN Numeric : Numeric[i] = s

IsNumeric(s) == s \in Range(Numeric)

PromoteNumeric(a, b) == IF ~ IsNumeric(a) \/ ~ IsNumeric(b) THEN "none" ELSE IF Rank(a) >= Rank(b) THEN a ELSE b

CommonType(a, b) ==
  CASE a = b      -> a
    [] a = "null" -> b
    [] a # "null" /\ b = "null" -> a
    [] a # b /\ "null" \notin {a, b} /\ "unknown" \in {a, b} -> "unknown"
    [] {a, b} = {"timestamp", "date"} -> "timestamp"
    [] OTHER      -> PromoteNumeric(a, b)

\* The fold of COALESCE and CASE: what does not unify is passed over.
Unify(acc, s) == IF CommonType(acc, s) = "none" THEN acc ELSE CommonType(acc, s)

IsComparable(s) == s \notin {"json", "unknown"}

-----------------------------------------------------------------------------
(* The checker.  A schema is a sequence of [name, table, type].            *)

\* inferColumnRef and resolveColumn: the first match, an error if several
\* match an unqualified name.
InferColumn(e, schema) ==
  LET found == SelectSeq(schema, LAMBDA c : c.name = e.op /\ (e.mod = "" \/ c.table \in {"", e.mod}))
  IN IF found = << >> THEN Inferred(Unknown, {"UNKNOWN_COLUMN"})
     ELSE Inferred(found[1].type, IF Len(found) > 1 /\ e.mod = "" THEN {"AMBIGUOUS_COLUMN"} ELSE {})

LiteralType(word) == CASE word = "INTEGER" -> T("int64", FALSE) [] word = "DECIMAL" -> T("double", FALSE)
                       [] word = "STRING" -> T("string", FALSE) [] word = "NULL" -> T("null", TRUE)
                       [] word \in {"TRUE", "FALSE"} -> Bool

Mismatch(unless) == IF unless THEN {} ELSE {"TYPE_MISMATCH"}

InferBinary(op, l, r) ==
  LET nullable == l.nullable \/ r.nullable
      both     == {l.scalar, r.scalar}
      promoted == PromoteNumeric(l.scalar, r.scalar)
  IN CASE op \in {"+", "-", "*", "/", "%"} ->
            IF "null" \in both \/ promoted = "none"
            THEN Inferred(T("unknown", nullable), Mismatch("null" \in both))
            ELSE Inferred(T(promoted, nullable), {})
       [] op = "||" -> Inferred(T("string", nullable), {})
       [] op \in Compare -> Inferred(Bool, Mismatch(both \cap {"null", "unknown"} # {} \/ \A s \in both : IsComparable(s)))
       [] OTHER -> Inferred(Bool, {})

InferUnary(op, t) ==
  IF op = "NOT" THEN Inferred(Bool, {})
  ELSE Inferred(t, Mismatch(t.scalar \in {"null", "unknown"} \/ IsNumeric(t.scalar)))

\* The WHEN results must unify; an ELSE that does not is passed over.
InferCase(results, last) ==
  LET after[i \in 0..Len(results)] == IF i = 0 THEN "null" ELSE Unify(after[i - 1], results[i].scalar)
      clash == \E i \in DOMAIN results : CommonType(after[i - 1], results[i].scalar) = "none"
      when  == after[Len(results)]
      some  == \E i \in DOMAIN results : results[i].nullable
  IN Inferred(IF last = << >> THEN T(when, TRUE) ELSE T(Unify(when, last[1].scalar), some \/ last[1].nullable),
              Mismatch(~ clash))

\* BUILT_IN_FUNCTIONS, one for each way a result type is derived.
BuiltIn == {"COALESCE", "GREATEST", "NULLIF", "NVL", "IF", "ABS", "LOWER", "LENGTH"}

ArgCount(name, n) == CASE name = "COALESCE" -> n >= 1
                       [] name = "GREATEST" -> n >= 2
                       [] name \in {"NULLIF", "NVL"} -> n = 2
                       [] name = "IF" -> n = 3
                       [] OTHER -> n = 1

Resolve(name, args) ==
  LET scalar(i) == IF i \in DOMAIN args THEN args[i].scalar ELSE "unknown"
      common(i, j) == LET c == CommonType(scalar(i), scalar(j)) IN IF c = "none" THEN "unknown" ELSE c
      fold(from, first) == FoldLeft(LAMBDA acc, t : Unify(acc, t.scalar), first, SubSeq(args, from, Len(args)))
  IN CASE name = "COALESCE" -> T(fold(1, "null"), FALSE)
       [] name = "GREATEST" -> T(fold(2, scalar(1)), FALSE)
       [] name = "NULLIF"   -> T(scalar(1), TRUE)
       [] name = "NVL"      -> T(common(1, 2), FALSE)
       [] name = "IF"       -> T(common(2, 3), TRUE)
       [] name = "ABS"      -> IF args = << >> THEN T("unknown", FALSE) ELSE args[1]
       [] name = "LOWER"    -> T("string", args # << >> /\ args[1].nullable)
       [] name = "LENGTH"   -> T("int32", FALSE)

InferFunction(name, args) ==
  IF name \notin BuiltIn THEN Inferred(Unknown, {"UNKNOWN_FUNCTION"})
  ELSE Inferred(Resolve(name, args), IF ArgCount(name, Len(args)) THEN {} ELSE {"ARG_COUNT"})

\* aggregateReturnType; "arg" is the scalar of the first argument.
AggregateReturnType(name, arg) ==
  CASE name \in {"COUNT", "COUNT_IF", "APPROX_COUNT_DISTINCT"} -> T("int64", FALSE)
    [] name \in {"SUM", "SUM_IF"} -> T(IF arg = "int32" THEN "int64" ELSE IF IsNumeric(arg) THEN arg ELSE "double", TRUE)
    [] name \in {"AVG", "AVG_IF", "STDDEV", "VARIANCE", "PERCENTILE", "PERCENTILE_APPROX"} -> T("double", TRUE)
    [] name \in {"MIN", "MAX", "FIRST", "LAST", "ANY_VALUE"} -> T(arg, TRUE)
    [] name \in {"COLLECT_LIST", "COLLECT_SET"} -> T("json", FALSE)
    [] OTHER -> Unknown

IsCondition(s) == s \in {"boolean", "null", "unknown"}

\* filter is the type of the FILTER clause, if there is one.
InferAggregate(e, args, filter) ==
  LET arg  == IF args = << >> \/ e.args[2].kind = "Star" THEN "unknown" ELSE args[1].scalar
      need == CASE e.op = "COUNT_IF" -> 1 [] e.op \in {"SUM_IF", "AVG_IF"} -> 2 [] OTHER -> 0
  IN Inferred(AggregateReturnType(e.op, arg),
              Mismatch(filter = << >> \/ IsCondition(filter[1].scalar)) \cup
              (IF need = 0 THEN {} ELSE IF Len(args) # need THEN {"ARG_COUNT"}
               ELSE Mismatch(IsCondition(args[need].scalar))))

RECURSIVE Infer(_, _)
Infer(e, schema) ==
  LET subs  == [i \in DOMAIN e.args |-> Infer(e.args[i], schema)]
      types == [i \in DOMAIN e.args |-> subs[i].type]
      n     == Len(e.args)
      opt(i) == IF e.args[i] = Nothing THEN << >> ELSE <<types[i]>>
      own   == CASE e.kind \in {"Nothing", "List", "Item", "Frame", "Bound"} -> Inferred(Unknown, {})
                 [] e.kind = "Literal"    -> Inferred(LiteralType(IF e.mod = "word" THEN e.op ELSE e.mod), {})
                 [] e.kind = "ColumnRef"  -> InferColumn(e, schema)
                 [] e.kind = "Star"       -> Inferred(T("int64", FALSE), {})
                 [] e.kind = "BinaryExpr" -> InferBinary(e.op, types[1], types[2])
                 [] e.kind = "UnaryExpr"  -> InferUnary(e.op, types[1])
                 [] e.kind \in {"BetweenExpr", "InExpr", "IsNullExpr", "LikeExpr"} -> Inferred(Bool, {})
                 [] e.kind = "CaseExpr"   -> InferCase([i \in 1..((n - 2) \div 2) |-> types[2*i + 1]], opt(n))
                 [] e.kind = "CastExpr"   -> Inferred(T(e.op, types[1].nullable), {})
                 [] e.kind = "FunctionCall"  -> InferFunction(e.op, types)
                 [] e.kind = "AggregateCall" -> InferAggregate(e, Tail(types), opt(1))
                 [] e.kind = "WindowExpr"    -> Inferred(types[1], {})
  IN [own EXCEPT !.codes = @ \cup UNION {subs[i].codes : i \in DOMAIN e.args}]

-----------------------------------------------------------------------------
(* What the types promise: the types of the values an expression can have, *)
(* "null" for NULL, whatever its conditions and its groups are.            *)

Wider(x, y) == IF "null" \in {x, y} THEN "null" ELSE IF Rank(x) >= Rank(y) THEN x ELSE y

RECURSIVE Values(_, _)
Values(e, schema) ==
  LET sub(i) == Values(e.args[i], schema)
      n      == Len(e.args)
      type   == Infer(e, schema).type
      orNull(s) == IF "null" \in s THEN {"null"} ELSE {}
  IN CASE e.kind \in {"Literal", "ColumnRef"} -> {type.scalar} \cup (IF type.nullable THEN {"null"} ELSE {})
       [] e.kind = "BinaryExpr" /\ Precedence(e.op) <= 3 -> {"boolean"} \cup orNull(sub(1) \cup sub(2))
       [] e.kind = "BinaryExpr" /\ e.op = "||" -> {"string"} \cup orNull(sub(1) \cup sub(2))
       [] e.kind = "BinaryExpr" -> {Wider(x, y) : x \in sub(1), y \in sub(2)}
       [] e.kind = "UnaryExpr"  -> IF e.op = "NOT" THEN {"boolean"} \cup orNull(sub(1)) ELSE sub(1)
       [] e.kind = "IsNullExpr" -> {"boolean"}
       [] e.kind = "CaseExpr"   -> UNION {sub(2*i + 1) : i \in 1..((n - 2) \div 2)}
                                   \cup (IF e.args[n] = Nothing THEN {"null"} ELSE sub(n))
       [] e.kind = "CastExpr"   -> {e.op} \cup orNull(sub(1))
       [] e.kind = "FunctionCall" /\ e.op = "IF"     -> sub(2) \cup sub(3)
       [] e.kind = "FunctionCall" /\ e.op = "NULLIF" -> sub(1) \cup {"null"}
       [] e.kind = "FunctionCall" /\ e.op \in {"COALESCE", "NVL", "GREATEST"} -> UNION {sub(i) : i \in 1..n}
       [] e.kind = "AggregateCall" -> CASE e.op = "COUNT" -> {"int64"}
                                        [] e.op = "SUM"   -> {"null"} \cup {IF IsNumeric(x) THEN Wider(x, "int64") ELSE "double" : x \in sub(2) \ {"null"}}
                                        [] e.op = "MAX"   -> {"null"} \cup sub(2)

\* A value of one type is one of the other.
Widens(x, s) == \/ x \in {s, "null"} \/ s = "unknown" \/ (x = "date" /\ s = "timestamp")
                \/ (IsNumeric(x) /\ IsNumeric(s) /\ Rank(x) <= Rank(s))

\* What the checker lets pass: an ELSE or an argument that unifies with
\* nothing before it.
RECURSIVE Reported(_, _)
Reported(e, schema) ==
  LET scalar(i) == Infer(e.args[i], schema).type.scalar
      from   == IF e.kind = "CaseExpr" THEN {2*i + 1 : i \in 1..((Len(e.args) - 2) \div 2)} \cup {Len(e.args)}
                ELSE IF e.kind = "FunctionCall" /\ e.op \in {"COALESCE", "GREATEST"} THEN DOMAIN e.args ELSE {}
      valued == {i \in from : e.args[i] # Nothing}
  IN /\ \A i, j \in valued : CommonType(scalar(i), scalar(j)) # "none"
     /\ \A i \in DOMAIN e.args : Reported(e.args[i], schema)

\* Predicates, logic and the functions below are typed as never NULL.
RECURSIVE TracksNull(_)
TracksNull(e) ==
  /\ e.kind = "BinaryExpr" => Precedence(e.op) > 3
  /\ e.kind = "UnaryExpr"  => e.op = "-"
  /\ e.kind = "FunctionCall" => e.op \notin {"COALESCE", "NVL", "GREATEST"}
  /\ \A i \in DOMAIN e.args : TracksNull(e.args[i])

\* Of an expression without errors every value is of its type, and NULL
\* only if the type says so.
TypesHold(e, schema) ==
  LET type == Infer(e, schema).type
  IN (Infer(e, schema).codes = {} /\ Reported(e, schema)) =>
       \A v \in Values(e, schema) : Widens(v, type.scalar) /\ (v = "null" /\ TracksNull(e) => type.nullable)
=============================================================================
