------------------------------ MODULE MCDropFlags ------------------------------
(* Styles of bodies for DropFlags.  x is a nom parameter or a local. *)
EXTENDS DropFlags

On(ops, n)  == {[op |-> o, var |-> n] : o \in ops}
Blocks(ops) == On(ops, "none")
Style(ops, blocks, params, max) ==
    [tokens |-> On(ops, "x") \cup Blocks(blocks), params |-> params, max |-> max]

\* Runs whose properties hold: branches and returns around every operation on a
\* parameter, loops around locals that come and go, and operands.
AllStyles ==
    { Style({"take", "read", "init", "destroy"}, {"if", "else", "while", "end", "return"}, {"x"}, 7),
      Style({"let", "take", "ifTake", "init"}, {"if", "while", "end", "break", "continue"}, {}, 8),
      Style({"andTake", "take", "init", "read"}, {"if", "while", "end"}, {"x"}, 6) }

\* A rebind after a break, in a loop that took the parameter.
BreakStyles == { Style({"take", "read", "init"}, {"if", "while", "end", "break"}, {"x"}, 8) }
=============================================================================
