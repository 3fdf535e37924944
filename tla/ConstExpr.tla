------------------------------ MODULE ConstExpr ------------------------------
(***************************************************************************)
(* One integer expression, growing by an operation at a time, and the      *)
(* three ways the compiler has to give it a value: the constant evaluator, *)
(* the folding of the backend and the instructions.                        *)
(***************************************************************************)
EXTENDS Numbers

CONSTANTS
  Types,     \* integer types
  Default,   \* the type of a literal that nothing else types
  Lits,      \* the literals of the expression
  MaxSize,   \* bound: operations in the expression
  Tables     \* programs' constants: functions from names to [value, type]

VARIABLES expr, type, table

vars == <<expr, type, table>>

ArithmeticOps == {"+", "-", "*", "/", "%"}
BitOps == {"&", "|", "^", "<<", ">>"}

-----------------------------------------------------------------------------
(* emit_expr: a value is [p, t, c]: its pattern, its type, and the Python  *)
(* value of the ir.Constant it is, if it is one.                            *)

IsConstant(v) == v.c # <<>>
Emits(p, t) == [p |-> p, t |-> t, c |-> <<>>]
Constant(c, t) == [p |-> Pattern(c, t), t |-> t, c |-> <<c>>]

\* What a literal directly under a cast is, negated or not.
LiteralOf(e) ==
  CASE e[1] = "lit" -> <<e[2]>>
    [] e[1] = "neg" /\ e[2][1] = "lit" -> <<-e[2][2]>>
    [] OTHER -> <<>>

Poisoned(v) == v.p = Poison

Binary(op, l, r, folds) ==
  IF Poisoned(l) \/ Poisoned(r) THEN Emits(Poison, l.t)
  ELSE IF folds /\ IsConstant(l) /\ IsConstant(r) /\ op \in {"+", "-", "*"}
       THEN Constant(FoldedArithmetic(op, l.c[1], r.c[1], l.t), l.t)
  ELSE IF folds /\ IsConstant(l) /\ IsConstant(r) /\ op \in {"&", "|", "^", "<<"}
       THEN IF FoldCrashes(op, r.c[1]) THEN Emits(Poison, l.t)
            ELSE Constant(FoldedBits(op, l.c[1], r.c[1], l.t), l.t)
  ELSE IF op \in ArithmeticOps THEN Emits(Arithmetic(op, l.p, r.p, l.t), l.t)
  ELSE Emits(BitOperation(op, l.p, r.p, l.t), l.t)

RECURSIVE Emitted(_, _, _)
Emitted(e, t, folds) ==
  CASE e[1] = "lit" -> Constant(e[2], t)
    [] e[1] \in {"neg", "~"} ->
         LET v == Emitted(e[2], t, folds)
         IN  IF Poisoned(v) THEN v
             ELSE Emits(IF e[1] = "neg" THEN Negated(v.p, v.t) ELSE Inverted(v.p, v.t), v.t)
    [] e[1] = "as" ->
         IF LiteralOf(e[3]) # <<>> THEN Constant(CastLiteral(LiteralOf(e[3])[1], e[2]), e[2])
         ELSE LET v == Emitted(e[3], Default, folds)
              IN  IF Poisoned(v) THEN Emits(Poison, e[2])
                  ELSE IF v.t.bits = e[2].bits THEN [v EXCEPT !.t = e[2]]
                  ELSE Emits(CastInt(v.p, v.t, e[2]), e[2])
    [] OTHER -> Binary(e[1], Emitted(e[2], t, folds), Emitted(e[3], t, folds), folds)

\* The type the checker gives an expression, whose operands must agree.
RECURSIVE TypeOf(_, _)
TypeOf(e, t) ==
  CASE e[1] = "lit" -> t
    [] e[1] = "as" -> e[2]
    [] OTHER -> TypeOf(e[2], t)

-----------------------------------------------------------------------------
Init ==
  /\ type \in Types
  /\ expr \in {<<"lit", v>> : v \in {n \in Lits : InRange(n, type)}}
  /\ table \in Tables

RECURSIVE Size(_)
Size(e) == CASE e[1] = "lit" -> 0
             [] e[1] \in {"neg", "~"} -> 1 + Size(e[2])
             [] e[1] = "as" -> 1 + Size(e[3])
             [] OTHER -> 1 + Size(e[2]) + Size(e[3])

Grow(e) == /\ Size(e) <= MaxSize /\ expr' = e /\ UNCHANGED <<type, table>>

\* Only the simplest programs grow an expression: the two questions, what an
\* expression is worth and which names depend on which, are apart.
Plain == \A n \in DOMAIN table : table[n].value[1] = "lit"

Operate ==
  /\ Plain
  /\ \E op \in ArithmeticOps \cup BitOps, v \in Lits :
       /\ TypeOf(expr, type) = type /\ InRange(v, type)
       /\ \/ Grow(<<op, expr, <<"lit", v>>>>)
          \/ Grow(<<op, <<"lit", v>>, expr>>)
Negate == Plain /\ \E op \in {"neg", "~"} : Grow(<<op, expr>>)
Cast == Plain /\ type = Default /\ \E t \in Types : Grow(<<"as", t, expr>>)

Next == Operate \/ Negate \/ Cast

Spec == Init /\ [][Next]_vars

-----------------------------------------------------------------------------
Worth(e) == ConstEval(e, type, table, <<>>)

\* Every intermediate value fits the type the machine computes it in, no
\* operand of a division is negative and no shift is as wide as its type.
RECURSIVE Tame(_, _)
Tame(e, t) ==
  LET v(x, u) == ConstEval(x, u, table, <<>>).v
  IN  CASE e[1] = "lit" -> InRange(e[2], t)
        [] e[1] \in {"neg", "~"} -> Tame(e[2], t) /\ InRange(v(e, t), TypeOf(e, t))
        [] e[1] = "as" -> Tame(e[3], Default) /\ InRange(v(e, e[2]), e[2])
        [] OTHER ->
             /\ Tame(e[2], t) /\ Tame(e[3], t)
             /\ e[1] \in {"/", "%"} => v(e[2], t) >= 0 /\ v(e[3], t) > 0
             /\ e[1] \in {"<<", ">>"} => v(e[3], t) \in 0..(TypeOf(e[2], t).bits - 1)
             /\ InRange(v(e, t), TypeOf(e, t))

Dependents(n) ==
  LET refs(e) == CASE e[1] = "lit" -> {} [] e[1] = "name" -> {e[2]}
                   [] OTHER -> {e[2][2], e[3][2]}
  IN  refs(table[n].value)

\* The names a name's value depends on, in any number of steps.
Reachable(n) ==
  LET more(s) == s \cup UNION {Dependents(m) : m \in s}
      step[k \in 0..Cardinality(DOMAIN table)] ==
        IF k = 0 THEN Dependents(n) ELSE more(step[k - 1])
  IN  step[Cardinality(DOMAIN table)]

\* Exactly those constants are called cyclic that need, in any number of
\* steps, one that needs itself; and the evaluator always ends.
CyclesFound ==
  \A n \in DOMAIN table :
    (Worth(<<"name", n>>) = Cyclic) = (\E m \in {n} \cup Reachable(n) : m \in Reachable(m))

(* A program cannot tell who computed a number.  What the backend folds is *)
(* the pattern the instructions would have produced, or the instructions   *)
(* promise none; the constant evaluator, which knows no widths, agrees     *)
(* with both as long as nothing overflows on the way and no operand of a   *)
(* division is negative; and order and the library's abs, min and max      *)
(* follow the signedness of the type.  Constants that need themselves are   *)
(* reported, and no others.                                                *)
NumbersAgree ==
  LET whole   == Emitted(expr, type, TRUE)
      machine == Emitted(expr, type, FALSE)
      result  == TypeOf(expr, type)
      value   == Reads(machine.p, result)
  IN  /\ CyclesFound
      /\ machine.t = result
      /\ ~Poisoned(machine) => whole.p = machine.p
      /\ Tame(expr, type) => /\ IsNumber(Worth(expr))
                             /\ machine.p = Stored([Worth(expr) EXCEPT !.t = result])
      /\ ~Poisoned(machine) =>
           \A v \in Lits :
             LET p == Pattern(v, result) IN
             /\ \A op \in Orders : Comparison(op, machine.p, p, result)
                                     = Compares(op, value, Reads(p, result))
             /\ Reads(MinOf(machine.p, p, result), result)
                  + Reads(MaxOf(machine.p, p, result), result) = value + Reads(p, result)
             /\ result.signed /\ value > -(Modulus(result) \div 2) =>
                  Reads(AbsOf(machine.p, result), result) \in {value, -value} \cap Nat
=============================================================================
