------------------------------- MODULE DropFlags -------------------------------
(***************************************************************************)
(* What a function body the borrow pass accepts does to the heap when the  *)
(* emitted code runs.  The backend decides every free from two sources: a  *)
(* set of slots moved so far in the order the text is EMITTED              *)
(* (MoveTracker._moved), and, for the names the pass stamped as            *)
(* conditionally moved, a drop flag that is set and cleared at run time    *)
(* (backend/memory/moves.py, scopes.py, backend/statements).               *)
(*                                                                         *)
(* A behaviour writes a body, one statement at a time; compiles it, which  *)
(* ends the behaviour if the pass reports an error; and runs it, with      *)
(* every condition true or false as the run pleases.                       *)
(***************************************************************************)
EXTENDS BorrowFlow, Functions, TLC

CONSTANTS Styles,       \* sets of bodies, each given by a record of tokens, the
                        \* alphabet, params, the names that are nom parameters,
                        \* and max, the bound on the tokens of a body
          Shadows,      \* whether a let may shadow a binding of an outer block
          DeepRebinds,  \* whether a rebind may be deeper than the declaration
          MaxLaps       \* bound on loop iterations in one run

ASSUME StylesAssumption == \A s \in Styles : s.params \subseteq Names /\ s.max \in Nat

VARIABLES phase,        \* "write", "run", "done" or "rejected"
          style,        \* the style the body is written in
          prog,         \* the body
          conditional,  \* conditional_move_names, as stamped on the body
          pc,           \* the token to execute
          val,          \* what each slot holds: an object, or Null
          flags,        \* the slots whose drop flag is 1
          live,         \* the objects allocated and not freed
          next,         \* the next object
          laps,         \* loop iterations begun
          fault         \* "none", "use" of a freed object, or double "free"

vars == <<phase, style, prog, conditional, pc, val, flags, live, next, laps, fault>>

Null == 0

-----------------------------------------------------------------------------
(* Bindings.  A slot is a name and the position of its let, 0 for a nom    *)
(* parameter: a nested let of the same name is a slot of its own.          *)

\* The block that holds token r is still open just before token q.
InScope(p, r, q) ==
    /\ r < q
    /\ \A k \in r .. q : Depth(p, k) >= Depth(p, r)
    /\ \A k \in r + 1 .. q - 1 : ~(p[k].op = "else" /\ Depth(p, k) = Depth(p, r))

\* Every slot registered for cleanup at q, in every open scope.
SlotsAt(p, q) ==
    {<<n, 0>> : n \in style.params}
      \cup {<<p[r].var, r>> : r \in {k \in 1 .. q - 1 : p[k].op = "let" /\ InScope(p, k, q)}}

\* _slot_for_name: the innermost binding of n.
SlotOf(p, q, n) == <<n, Max({s[2] : s \in {t \in SlotsAt(p, q) : t[1] = n}})>>

Bound(p, q, n) == \E s \in SlotsAt(p, q) : s[1] = n

\* The number of blocks around the declaration of slot s.
DeclDepth(p, s) == IF s[2] = 0 THEN 0 ELSE Depth(p, s[2])

\* The slots of the scopes opened at or inside the block of token i.
SlotsWithin(p, q, i) == {s \in SlotsAt(p, q) : s[2] > i}

\* The blocks open just before token q, by their opening token.
OpenBlocks(p, q) ==
    {i \in 1 .. q - 1 : p[i].op \in OpenOps /\ \A k \in i + 1 .. q : Depth(p, k) > Depth(p, i)}

\* loop_stack[-1]
LoopOf(p, q) == Max({i \in OpenBlocks(p, q) : p[i].op \in WhileOps})

\* is_moved: the last mark or unmark of s emitted before token q is a mark.
StaticallyMoved(p, q, s) ==
    LET Last(ops) ==
            Max({0} \cup {r \in 1 .. q - 1 : p[r].op \in ops /\ SlotOf(p, r, p[r].var) = s})
    IN  Last(TakeOps) > Last({"init"})

\* emit_free_unless_moved at token q.
Frees(s, q) ==
    IF s[1] \in conditional THEN s \in flags ELSE ~StaticallyMoved(prog, q, s)

-----------------------------------------------------------------------------
(* Writing and compiling a body.                                           *)

\* t may follow p: the parser and the scope pass accept it, nothing follows a
\* jump in its block, and the blocks can be closed within the bound.
MayFollow(p, t) ==
    LET q    == Len(p) + 1
        open == OpenBlocks(p, q)
        room == style.max - Len(p)
    IN  /\ p # <<>> => (p[Len(p)].op \in JumpOps => t.op \in {"end", "else"})
        /\ t.op = "end" => open # {}
        /\ t.op = "else" => /\ open # {}
                            /\ p[Max(open)].op \in IfOps
                            /\ ~\E k \in Max(open) .. Len(p) :
                                   p[k].op = "else" /\ Depth(p, k) = Depth(p, q)
        /\ t.op \in {"break", "continue"} => \E i \in open : p[i].op \in WhileOps
        /\ t.op \in TakeOps \cup {"read", "init", "destroy"} => Bound(p, q, t.var)
        /\ t.op = "init" /\ ~DeepRebinds =>
               Depth(p, q) = DeclDepth(p, SlotOf(p, q, t.var))
        /\ t.op = "let" => ~\E s \in SlotsAt(p, q) :
               s[1] = t.var /\ (Shadows => Depth(p, q) = DeclDepth(p, s))
        /\ Cardinality(open) + (IF t.op \in OpenOps THEN 2 ELSE IF t.op = "end" THEN 0 ELSE 1)
             <= room

Init ==
    /\ style \in Styles
    /\ phase = "write" /\ prog = <<>> /\ conditional = {}
    /\ pc = 1 /\ val = <<>> /\ flags = {} /\ live = {} /\ next = 1 /\ laps = 0
    /\ fault = "none"

Write(t) ==
    /\ phase = "write"
    /\ MayFollow(prog, t)
    /\ prog' = Append(prog, t)
    /\ UNCHANGED <<phase, style, conditional, pc, val, flags, live, next, laps, fault>>

\* begin_function: each nom parameter arrives owning a value, its drop flag
\* armed if its name was stamped.
Compile ==
    /\ phase = "write"
    /\ prog # <<>> /\ OpenBlocks(prog, Len(prog) + 1) = {}
    /\ LET verdict == CheckBody(prog)
           args    == CHOOSE f \in Bijection({<<n, 0>> : n \in style.params}, 1 .. Cardinality(style.params)) : TRUE
       IN  /\ phase' = IF verdict.error THEN "rejected" ELSE "run"
           /\ conditional' = verdict.conditional
           /\ val' = args
           /\ flags' = {s \in DOMAIN args : s[1] \in verdict.conditional}
           /\ live' = {args[s] : s \in DOMAIN args}
           /\ next' = Cardinality(style.params) + 1
    /\ UNCHANGED <<style, prog, pc, laps, fault>>

-----------------------------------------------------------------------------
(* Running it.                                                             *)

Running    == phase = "run" /\ fault = "none"
AtAny(ops) == Running /\ pc <= Len(prog) /\ prog[pc].op \in ops
At(op)     == AtAny({op})
Here       == SlotOf(prog, pc, prog[pc].var)

\* consume at a nom argument: the callee frees the value, and mark clears the
\* drop flag of a stamped name.
HandOver(s) ==
    /\ fault' = IF val[s] \in live THEN "none" ELSE "use"
    /\ live' = live \ {val[s]}
    /\ flags' = flags \ {s}

\* The destructors of the bindings S run through their gates, those of Again
\* once more.
FreeEach(S, Again) ==
    LET freed == {s \in S : Frees(s, pc) /\ val[s] # Null}
    IN  /\ fault' = IF freed \cap Again = {} /\ \A s \in freed : val[s] \in live
                     THEN "none" ELSE "free"
        /\ live' = live \ {val[s] : s \in freed}

\* pop_scope on the fall-through exit of the block of token i: each binding of
\* that scope, popped as it is freed.
PopScope(i) == FreeEach(SlotsWithin(prog, pc, i), {})

\* emit_loop_exit_cleanup and emit_dynamic_array_cleanup: for every scope left
\* and every name in it, the destructor of the INNERMOST binding of that name.
EarlyExit(S) ==
    LET Innermost(s) == SlotOf(prog, pc, s[1])
    IN  FreeEach({Innermost(s) : s \in S},
                 {Innermost(s) : s \in {t \in S : Innermost(t) # t}})

\* emit_rebind: the old value is freed through the gate, the new one stored,
\* and unmark sets the drop flag again.
Rebind(s) ==
    LET old == IF Frees(s, pc) THEN {val[s]} \ {Null} ELSE {}
    IN  /\ fault' = IF old \subseteq live THEN "none" ELSE "free"
        /\ live' = (live \ old) \cup {next}
        /\ val' = [val EXCEPT ![s] = next]
        /\ next' = next + 1
        /\ flags' = IF s[1] \in conditional THEN flags \cup {s} ELSE flags

Take ==
    /\ At("take")
    /\ HandOver(Here)
    /\ pc' = pc + 1
    /\ UNCHANGED <<phase, style, prog, conditional, val, next, laps>>

\* c and take(nom v): emit_logic evaluates the right operand only if c holds.
AndTake ==
    /\ At("andTake")
    /\ \/ HandOver(Here)
       \/ UNCHANGED <<fault, live, flags>>
    /\ pc' = pc + 1
    /\ UNCHANGED <<phase, style, prog, conditional, val, next, laps>>

Read ==
    /\ At("read")
    /\ fault' = IF val[Here] \in live THEN "none" ELSE "use"
    /\ pc' = pc + 1
    /\ UNCHANGED <<phase, style, prog, conditional, val, flags, live, next, laps>>

\* emit_dynamic_array_destroy: free the buffer if there is one, and null it.
Destroy ==
    /\ At("destroy")
    /\ fault' = IF val[Here] \in live \cup {Null} THEN "none" ELSE "free"
    /\ live' = live \ {val[Here]}
    /\ val' = [val EXCEPT ![Here] = Null]
    /\ pc' = pc + 1
    /\ UNCHANGED <<phase, style, prog, conditional, flags, next, laps>>

Rebound ==
    /\ At("init")
    /\ Rebind(Here)
    /\ pc' = pc + 1
    /\ UNCHANGED <<phase, style, prog, conditional, laps>>

\* A mutant: the flag is armed at the first execution only.
LetArmsOnce ==
    /\ At("let")
    /\ LET s == <<prog[pc].var, pc>>
       IN  /\ val' = (s :> next) @@ val
           /\ flags' = IF s[1] \in conditional /\ s \notin DOMAIN val
                       THEN flags \cup {s} ELSE flags
    /\ live' = live \cup {next}
    /\ next' = next + 1
    /\ pc' = pc + 1
    /\ UNCHANGED <<phase, style, prog, conditional, laps, fault>>

\* emit_let: the slot owns a fresh value, its flag re-armed at every execution.
Let ==
    /\ At("let")
    /\ LET s == <<prog[pc].var, pc>>
       IN  /\ val' = (s :> next) @@ val
           /\ flags' = IF s[1] \in conditional THEN flags \cup {s} ELSE flags
    /\ live' = live \cup {next}
    /\ next' = next + 1
    /\ pc' = pc + 1
    /\ UNCHANGED <<phase, style, prog, conditional, laps, fault>>

\* The condition of the if or while at pc.
RunCondition ==
    IF prog[pc].op \in TakeOps THEN HandOver(Here) ELSE UNCHANGED <<fault, live, flags>>

\* emit_if: the condition, then one arm.
If ==
    /\ AtAny(IfOps)
    /\ RunCondition
    /\ pc' \in {pc + 1, IF ElsesOf(prog, pc) # {} THEN ArmEnd(prog, pc) + 1
                        ELSE CloseOf(prog, pc) + 1}
    /\ UNCHANGED <<phase, style, prog, conditional, val, next, laps>>

\* emit_while: the condition, then the body or the end.
While ==
    /\ AtAny(WhileOps)
    /\ RunCondition
    /\ \/ laps < MaxLaps /\ laps' = laps + 1 /\ pc' = pc + 1
       \/ laps' = laps /\ pc' = CloseOf(prog, pc) + 1
    /\ UNCHANGED <<phase, style, prog, conditional, val, next>>

\* pop_scope at the end of an arm or of a loop body, and the branch after it.
EndBlock ==
    /\ AtAny({"end", "else"})
    /\ LET i == Max(OpenBlocks(prog, pc))
       IN  /\ PopScope(i)
           /\ pc' = IF prog[i].op \in WhileOps THEN i ELSE CloseOf(prog, i) + 1
    /\ UNCHANGED <<phase, style, prog, conditional, val, flags, next, laps>>

\* emit_break: emit_loop_exit_cleanup over the loop's own scopes, and the branch
\* to its end.
Break ==
    /\ At("break")
    /\ LET i == LoopOf(prog, pc)
       IN  /\ EarlyExit(SlotsWithin(prog, pc, i))
           /\ pc' = CloseOf(prog, i) + 1
    /\ UNCHANGED <<phase, style, prog, conditional, val, flags, next, laps>>

\* emit_continue: the same, and the branch to the condition.
Continue ==
    /\ At("continue")
    /\ LET i == LoopOf(prog, pc)
       IN  /\ EarlyExit(SlotsWithin(prog, pc, i))
           /\ pc' = i
    /\ UNCHANGED <<phase, style, prog, conditional, val, flags, next, laps>>

\* emit_return: emit_scope_cleanup over every open scope.  A body ends in a
\* return of its own (CE0107), which is not written out.
Leave ==
    /\ Running
    /\ IF pc <= Len(prog) THEN prog[pc].op = "return" ELSE TRUE
    /\ EarlyExit(SlotsAt(prog, pc))
    /\ phase' = "done"
    /\ UNCHANGED <<style, prog, conditional, pc, val, flags, next, laps>>

Stopped ==
    /\ phase \in {"done", "rejected"} \/ fault # "none"
    /\ UNCHANGED vars

Next ==
    \/ \E t \in style.tokens : Write(t)
    \/ Compile
    \/ Take \/ AndTake \/ Read \/ Destroy \/ Rebound \/ Let
    \/ If \/ While \/ EndBlock \/ Break \/ Continue \/ Leave
    \/ Stopped

Spec == Init /\ [][Next]_vars

-----------------------------------------------------------------------------
(* Properties.                                                             *)

\* Every variable holds a value of its kind, and every slot a run has declared
\* belongs to the body.
TypeOK ==
    /\ phase \in {"write", "run", "done", "rejected"}
    /\ fault \in {"none", "use", "free"}
    /\ style \in Styles /\ Len(prog) <= style.max /\ pc \in 1 .. Len(prog) + 1
    /\ conditional \subseteq Names
    /\ \A s \in DOMAIN val : s[1] \in Names /\ val[s] \in 0 .. next - 1
    /\ flags \subseteq DOMAIN val
    /\ live \subseteq 1 .. next - 1
    /\ laps \in 0 .. MaxLaps

\* A body the borrow pass accepts never reads or hands over a value that was
\* moved or destroyed before, on any path (CE2405 and CE2406 miss nothing).
NoUseAfterFree == fault # "use"

\* No object is freed twice: no two of a scope exit, a rebind, an early exit,
\* a destroy and a callee free the same value on one path.
NoDoubleFree == fault # "free"

\* On no path of a body the borrow checker accepts is a value read or handed on
\* after it was freed or moved, nor freed twice.
MemorySafe == NoUseAfterFree /\ NoDoubleFree

\* A move in the right operand of and/or, which the pass takes for one that
\* always happens.
OperandMove == \E i \in DOMAIN prog : prog[i].op = "andTake"

\* When an accepted body without a move in an operand returns, every object it
\* owned has been freed.
NoLeak == phase = "done" /\ fault = "none" /\ ~OperandMove => live = {}

\* At every point of a run, the free gate of each open binding is open exactly
\* if the binding still owns its value: the static skip of an unstamped name
\* is right on the path that reaches the point, and a drop flag says what
\* happened on it.  Moves in an operand aside.
GatesExact ==
    Running /\ ~OperandMove =>
        \A s \in SlotsAt(prog, pc) \cap DOMAIN val :
            val[s] # Null => (Frees(s, pc) <=> val[s] \in live)
=============================================================================
