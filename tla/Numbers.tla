------------------------------ MODULE Numbers ------------------------------
(***************************************************************************)
(* Integers three times over: as the constant evaluator computes them in   *)
(* unbounded Python integers (semantics/passes/const_eval.py), as the      *)
(* backend folds them while it emits (backend/expressions/operators.py),   *)
(* and as the emitted instructions compute them in the type's width.  A    *)
(* program must not be able to tell which of the three did it.             *)
(*                                                                         *)
(* A type is [bits, signed]; a machine value is its bit pattern, a number  *)
(* in 0 .. 2^bits - 1.                                                     *)
(***************************************************************************)
EXTENDS Integers, Sequences, FiniteSets, Bitwise

CONSTANT Wide \* more bits than any type has; Python's integers have no end

Modulus(t) == 2 ^ t.bits
Pattern(v, t) == v % Modulus(t)
Reads(p, t) == IF t.signed /\ p >= Modulus(t) \div 2 THEN p - Modulus(t) ELSE p
InRange(v, t) == Reads(Pattern(v, t), t) = v

\* Poison: what an instruction gives where LLVM promises nothing.
Poison == -1

Quotient(a, b) ==
  LET q == (IF a < 0 THEN -a ELSE a) \div (IF b < 0 THEN -b ELSE b)
  IN  IF (a < 0) # (b < 0) THEN -q ELSE q
Remainder(a, b) == a - b * Quotient(a, b)

Orders == {"==", "!=", "<", "<=", ">", ">="}
Compares(op, a, b) ==
  CASE op = "==" -> a = b [] op = "!=" -> a # b [] op = "<" -> a < b
    [] op = "<=" -> a <= b [] op = ">" -> a > b [] op = ">=" -> a >= b

-----------------------------------------------------------------------------
(* What the instructions do: emit_arithmetic, emit_bitwise, emit_comparison *)
(* and emit_unary_op choose among them by the signedness of the operands.  *)

\* sdiv overflows on the least value over -1, and every division by zero.
Divides(a, b, t) == b # 0 /\ ~(t.signed /\ a = -(Modulus(t) \div 2) /\ b = -1)

\* Mutant: division always dispatches to the signed instruction.
ArithmeticSigned(op, p, q, t) ==
  LET s == [t EXCEPT !.signed = TRUE]
      a == Reads(p, s)
      b == Reads(q, s)
  IN  CASE op = "+" -> Pattern(p + q, t)
        [] op = "-" -> Pattern(p - q, t)
        [] op = "*" -> Pattern(p * q, t)
        [] op = "/" -> IF Divides(a, b, s) THEN Pattern(Quotient(a, b), t) ELSE Poison
        [] op = "%" -> IF Divides(a, b, s) THEN Pattern(Remainder(a, b), t) ELSE Poison

Arithmetic(op, p, q, t) ==
  LET a == Reads(p, t)
      b == Reads(q, t)
  IN  CASE op = "+" -> Pattern(p + q, t)
        [] op = "-" -> Pattern(p - q, t)
        [] op = "*" -> Pattern(p * q, t)
        [] op = "/" -> IF Divides(a, b, t) THEN Pattern(Quotient(a, b), t) ELSE Poison
        [] op = "%" -> IF Divides(a, b, t) THEN Pattern(Remainder(a, b), t) ELSE Poison

\* A shift by the width or more is poison; >> keeps the sign of signed types.
BitOperation(op, p, q, t) ==
  CASE op = "&" -> p & q
    [] op = "|" -> p | q
    [] op = "^" -> p ^^ q
    [] op = "<<" -> IF q < t.bits THEN Pattern(p * 2 ^ q, t) ELSE Poison
    [] op = ">>" -> IF q < t.bits THEN Pattern(Reads(p, t) \div 2 ^ q, t) ELSE Poison

Comparison(op, p, q, t) == Compares(op, Reads(p, t), Reads(q, t))

Negated(p, t) == Pattern(0 - p, t)
Inverted(p, t) == Modulus(t) - 1 - p

-----------------------------------------------------------------------------
(* What the backend folds: operands that are ir.Constant, whose Python     *)
(* value may be the signed or the unsigned reading of the same bits.       *)

\* _fold_arithmetic_constants: masked, then read as signed.  / and % are
\* left to the instruction.
FoldedArithmetic(op, c, d, t) ==
  LET full == CASE op = "+" -> c + d [] op = "-" -> c - d [] op = "*" -> c * d
  IN  Reads(Pattern(full, t), [t EXCEPT !.signed = TRUE])

Python(p) == Reads(p, [bits |-> Wide, signed |-> TRUE])
PythonBits(op, c, d) ==
  LET p == c % 2 ^ Wide
      q == d % 2 ^ Wide
  IN  Python(CASE op = "&" -> p & q [] op = "|" -> p | q [] op = "^" -> p ^^ q)

\* _fold_bitwise_constants: masked.  >> is left to the instruction.
FoldedBits(op, c, d, t) ==
  Pattern(IF op = "<<" THEN c * 2 ^ d ELSE PythonBits(op, c, d), t)

\* Python refuses to shift by a negative amount.
FoldCrashes(op, d) == op = "<<" /\ d < 0

-----------------------------------------------------------------------------
(* Casts between integers, and the integer half of the math module.        *)

\* cast_int_to_int: extend by the signedness of the SOURCE, or truncate.
CastInt(p, from, to) ==
  IF to.bits > from.bits THEN Pattern(Reads(p, from), to) ELSE Pattern(p, to)

\* A literal, or a negated one, is made at the target's width at once.
CastLiteral(v, to) == Pattern(v, to)

AbsOf(p, t) == IF Reads(p, t) < 0 THEN Pattern(0 - p, t) ELSE p
MinOf(p, q, t) == IF Reads(p, t) < Reads(q, t) THEN p ELSE q
MaxOf(p, q, t) == IF Reads(p, t) > Reads(q, t) THEN p ELSE q

-----------------------------------------------------------------------------
(* The constant evaluator.  An expression is <<"lit", v>>, <<"name", n>>,   *)
(* <<"neg", e>>, <<"~", e>>, <<"as", type, e>> or <<op, left, right>>.      *)
(* A result is a number with its type, a truth value, or no value: the     *)
(* evaluation failed, or met a name that is being evaluated.               *)

Number(v, t) == [is |-> "number", v |-> v, t |-> t]
Truth(b, t) == [is |-> "bool", v |-> IF b THEN 1 ELSE 0, t |-> t]
Failed == [is |-> "failed"]
Cyclic == [is |-> "cyclic"]

IsNumber(r) == r.is = "number"
Broken(r) == r.is \in {"failed", "cyclic"}

ConstOperation(op, l, r) ==
  IF ~(IsNumber(l) /\ IsNumber(r)) THEN Failed
  ELSE IF op \in Orders THEN Truth(Compares(op, l.v, r.v), l.t)
  ELSE IF op \in {"/", "%"} /\ r.v = 0 THEN Failed
  ELSE IF op \in {"<<", ">>"} /\ r.v < 0 THEN Failed
  ELSE Number(CASE op = "+" -> l.v + r.v
                [] op = "-" -> l.v - r.v
                [] op = "*" -> l.v * r.v
                [] op = "/" -> IF r.v < 0 THEN (-l.v) \div (-r.v) ELSE l.v \div r.v
                [] op = "%" -> IF r.v < 0 THEN -((-l.v) % (-r.v)) ELSE l.v % r.v
                [] op \in {"&", "|", "^"} -> PythonBits(op, l.v, r.v)
                [] op = "<<" -> l.v * 2 ^ r.v
                [] op = ">>" -> l.v \div 2 ^ r.v,
              l.t)

\* evaluation_stack, the names whose values are being evaluated.
OnStack(n, stack) == \E k \in DOMAIN stack : stack[k] = n

\* evaluate: `expected` is the type a literal takes, `table` the constants of
\* the program with their types, `stack` the names being evaluated.  Both
\* operands are always evaluated; the first that fails decides.
RECURSIVE ConstEval(_, _, _, _)
ConstEval(e, expected, table, stack) ==
  CASE e[1] = "lit" -> Number(e[2], expected)
    [] e[1] = "name" ->
         IF OnStack(e[2], stack) THEN Cyclic
         ELSE ConstEval(table[e[2]].value, table[e[2]].type, table, Append(stack, e[2]))
    [] e[1] \in {"neg", "~"} ->
         LET r == ConstEval(e[2], expected, table, stack)
         IN  IF Broken(r) THEN r
             ELSE IF ~IsNumber(r) THEN Failed
             ELSE Number(IF e[1] = "neg" THEN -r.v ELSE -r.v - 1, r.t)
    [] e[1] = "as" ->
         LET r == ConstEval(e[3], e[2], table, stack)
         IN  IF Broken(r) THEN r ELSE Number(r.v, e[2])
    [] OTHER ->
         LET l == ConstEval(e[2], expected, table, stack)
             r == ConstEval(e[3], expected, table, stack)
         IN  IF Broken(l) THEN l ELSE IF Broken(r) THEN r ELSE ConstOperation(e[1], l, r)

\* to_llvm_constant: the constant the global is initialised with.
Stored(r) == Pattern(r.v, r.t)
=============================================================================
