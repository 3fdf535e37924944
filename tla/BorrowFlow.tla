------------------------------ MODULE BorrowFlow ------------------------------
(***************************************************************************)
(* The flow-sensitive half of the borrow pass: what it concludes about     *)
(* moves and destroys from the shape of one function body                  *)
(* (semantics/passes/borrow: statements.py, flow.py, consume.py).          *)
(*                                                                         *)
(* A body is a sequence of tokens [op, var], one per statement, with "if", *)
(* "else", "while" and "end" marking blocks.  A token whose op ends in     *)
(* "Take" is a statement with a condition that hands var to a nom          *)
(* parameter: ifTake is if (take(nom v)), whileTake is while (take(nom     *)
(* v)), andTake is a statement with the operand c and take(nom v).  The    *)
(* other conditions are opaque.  Types are not modelled: every variable    *)
(* owns heap (TypeClass MOVE) and may be rebound or destroyed, as a        *)
(* dynamic array may.                                                      *)
(***************************************************************************)
EXTENDS Naturals, Sequences, FiniteSets, FiniteSetsExt

CONSTANTS Names         \* the local variables

IfOps    == {"if", "ifTake"}
WhileOps == {"while", "whileTake"}
OpenOps  == IfOps \cup WhileOps
TakeOps  == {"take", "andTake", "ifTake", "whileTake"}
JumpOps  == {"break", "continue", "return"}

-----------------------------------------------------------------------------
(* The block structure of a body p.                                        *)

\* The number of blocks open just before token i.
Depth(p, i) ==
    Cardinality({j \in 1 .. i - 1 : p[j].op \in OpenOps})
      - Cardinality({j \in 1 .. i - 1 : p[j].op = "end"})

\* The end of the block token i opens.
CloseOf(p, i) ==
    Min({j \in i + 1 .. Len(p) : p[j].op = "end" /\ Depth(p, j) = Depth(p, i) + 1})

ElsesOf(p, i) ==
    {j \in i + 1 .. CloseOf(p, i) : p[j].op = "else" /\ Depth(p, j) = Depth(p, i) + 1}

\* The end of the first arm of the if at i: its else, or its end.
ArmEnd(p, i) == Min(ElsesOf(p, i) \cup {CloseOf(p, i)})

\* The statement after the one at i in the same block.
NextStmt(p, i) == IF p[i].op \in OpenOps THEN CloseOf(p, i) + 1 ELSE i + 1

\* terminates: every path through tokens i .. j leaves the function.  Only a
\* return counts; break and continue do not.
RECURSIVE Terminates(_, _, _)
Terminates(p, i, j) ==
    /\ i <= j
    /\ \/ p[i].op = "return"
       \/ /\ p[i].op \in IfOps
          /\ ElsesOf(p, i) # {}
          /\ Terminates(p, i + 1, ArmEnd(p, i) - 1)
          /\ Terminates(p, ArmEnd(p, i) + 1, CloseOf(p, i) - 1)
       \/ Terminates(p, NextStmt(p, i), j)

-----------------------------------------------------------------------------
(* The facts.  moved and destroyed are path-sensitive and are joined; the  *)
(* rest accumulates along the walk of the text: the branch depth each name *)
(* was last declared at, the names stamped as conditionally moved, and     *)
(* whether an error was reported.                                          *)

Facts == [moved : SUBSET Names, destroyed : SUBSET Names,
          declared : [Names -> Nat], conditional : SUBSET Names, error : BOOLEAN]

StartFacts == [moved |-> {}, destroyed |-> {}, declared |-> [n \in Names |-> 0],
               conditional |-> {}, error |-> FALSE]

\* FlowFacts.__or__ for the monotone facts: a fact holds after the join if it
\* held on either path.
JoinPaths(a, b) == [moved |-> a.moved \cup b.moved, destroyed |-> a.destroyed \cup b.destroyed]

\* restore_flow: take the path-sensitive facts of paths, keep the rest of st.
Restore(st, paths) == [st EXCEPT !.moved = paths.moved, !.destroyed = paths.destroyed]

\* _check_name: a use of a moved (CE2405) or destroyed (CE2406) variable.
UseOf(st, n, quiet) ==
    [st EXCEPT !.error = @ \/ (~quiet /\ n \in st.moved \cup st.destroyed)]

\* A mutant: no move counts as conditional.
NeverConditional(st, n, branches) == FALSE

IsConditional(st, n, branches) == branches > st.declared[n]

\* check_expr on the argument, then consume_named's MOVE arm: the source is
\* moved, and stamped as conditionally moved when the move is deeper than the
\* declaration.
Consume(st, n, branches, quiet) ==
    LET used == UseOf(st, n, quiet)
    IN  [used EXCEPT !.moved = @ \cup {n},
                     !.conditional = IF IsConditional(st, n, branches)
                                     THEN @ \cup {n} ELSE @]

\* One statement without a block: _check_let, _check_rebind (with reinitialize),
\* _check_expr_stmt's destroy, and a read.
CheckSimple(st, t, branches, quiet) ==
    CASE t.op \in {"take", "andTake"} -> Consume(st, t.var, branches, quiet)
      [] t.op = "read" -> UseOf(st, t.var, quiet)
      [] t.op = "destroy" -> [UseOf(st, t.var, quiet) EXCEPT !.destroyed = @ \cup {t.var}]
      [] t.op = "init" -> [st EXCEPT !.moved = @ \ {t.var}, !.destroyed = @ \ {t.var}]
      [] t.op = "let" -> [st EXCEPT !.moved = @ \ {t.var}, !.destroyed = @ \ {t.var},
                                    !.declared[t.var] = branches]
      [] OTHER -> st

\* check_expr on the condition of the if or while at token t.
CheckCondition(st, t, branches, quiet) ==
    IF t.op \in {"ifTake", "whileTake"} THEN Consume(st, t.var, branches, quiet) ELSE st

RECURSIVE CheckRange(_, _, _, _, _, _)

\* _check_if.  The else block, and the fall-through when there is none, start
\* from the facts at entry, which are taken before the condition is checked.
CheckIf(p, i, st, branches, quiet) ==
    LET mid    == ArmEnd(p, i)
        end    == CloseOf(p, i)
        hasElse == ElsesOf(p, i) # {}
        arm    == CheckRange(p, i + 1, mid - 1, CheckCondition(st, p[i], branches, quiet),
                             branches + 1, quiet)
        other  == IF hasElse
                  THEN CheckRange(p, mid + 1, end - 1, Restore(arm, st), branches + 1, quiet)
                  ELSE Restore(arm, st)
        armLeaves   == Terminates(p, i + 1, mid - 1)
        otherLeaves == hasElse /\ Terminates(p, mid + 1, end - 1)
    IN  IF armLeaves /\ otherLeaves
        THEN Restore(other, [moved |-> {}, destroyed |-> {}])
        ELSE IF armLeaves THEN other
        ELSE IF otherLeaves THEN Restore(other, arm)
        ELSE Restore(other, JoinPaths(arm, other))

\* A mutant: the loop body is checked once, from the facts at entry.
CheckLoopBodyOnce(p, i, j, st, branches, quiet) ==
    LET first == CheckRange(p, i, j, st, branches + 1, quiet)
    IN  Restore(first, JoinPaths(st, first))

\* check_loop_body: one pass with diagnostics suppressed, the join with the
\* entry, and a reporting pass from that fixed point, whose own exit facts are
\* dropped.
CheckLoopBody(p, i, j, st, branches, quiet) ==
    LET first == CheckRange(p, i, j, st, branches + 1, TRUE)
        fixed == Restore(first, JoinPaths(st, first))
    IN  Restore(CheckRange(p, i, j, fixed, branches + 1, quiet), fixed)

\* The While arm of check_stmt: the condition is checked once, before the loop.
CheckWhile(p, i, st, branches, quiet) ==
    CheckLoopBody(p, i + 1, CloseOf(p, i) - 1, CheckCondition(st, p[i], branches, quiet),
                  branches, quiet)

\* check_block over tokens i .. j.
CheckRange(p, i, j, st, branches, quiet) ==
    IF i > j THEN st
    ELSE CheckRange(p, NextStmt(p, i), j,
                    IF p[i].op \in IfOps THEN CheckIf(p, i, st, branches, quiet)
                    ELSE IF p[i].op \in WhileOps THEN CheckWhile(p, i, st, branches, quiet)
                    ELSE CheckSimple(st, p[i], branches, quiet),
                    branches, quiet)

\* _check_callable: the verdict on a whole body.
CheckBody(p) == CheckRange(p, 1, Len(p), StartFacts, 0, FALSE)
=============================================================================
