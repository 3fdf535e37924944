------------------------------- MODULE Unroll -------------------------------
(***************************************************************************)
(* `expand(a in args): BODY`, the loop over a parameter pack, is unrolled  *)
(* at compile time into one renamed copy of BODY per element               *)
(* (src/sushi_lang/semantics/generics/monomorphize/unroll.py).  The body   *)
(* is chosen in Init; the module states what a body means, runs the        *)
(* unrolled statements in one scope, and compares.                         *)
(*                                                                         *)
(* A name is a sequence: <<"a">> is a name of the program, <<"args", i>>   *)
(* the parameter the i-th element became, and <<"y", i>> the local y of    *)
(* copy i ("y__x0").  A statement is a record:                             *)
(*   use v              println(v)                                         *)
(*   let v = w, set v := w                                                 *)
(*   block, foreach v over w, match w binding v: a nested block            *)
(*   lambda v, w        a closure with parameter v that returns w          *)
(*   expand v           an expand of the same pack inside this one         *)
(***************************************************************************)
EXTENDS Naturals, Sequences, SequencesExt

CONSTANTS Elements   \* the pack's arguments, a sequence of values

VARIABLES body, copies   \* the expand's body; its unrolled statements

vars == <<body, copies>>

LoopVar == <<"a">>
Local == <<"y">>           \* also a variable of the function around the expand
Names == {LoopVar, Local}

Fanout(i) == <<"args", i>>

-----------------------------------------------------------------------------
(* renaming *)

RECURSIVE Rename(_, _, _), RenameIn(_, _, _)

At(v, old, new) == IF v = old THEN new ELSE v

\* a mutant: a pattern binding does not shadow
BindersLoopsOnly == {"foreach", "expand"}

Binders == {"foreach", "match", "expand"}

\* _rename_walk: the variable read is renamed; a body whose own binder has
\* the name is left alone.  A lambda's parameter is no binder to this code.
RenameIn(s, old, new) ==
  CASE s.op = "use" -> [s EXCEPT !.v = At(s.v, old, new)]
    [] s.op = "set" -> [s EXCEPT !.v = At(s.v, old, new), !.w = At(s.w, old, new)]
    [] s.op \in {"let", "lambda"} -> [s EXCEPT !.w = At(s.w, old, new)]
    [] s.op = "block" -> [s EXCEPT !.body = Rename(s.body, old, new)]
    [] OTHER -> [s EXCEPT !.w = At(s.w, old, new),
                   !.body = IF s.v = old /\ s.op \in Binders THEN s.body
                            ELSE Rename(s.body, old, new)]

\* _rename_block_statements: up to and including the value of a let of the
\* same name
Rename(stmts, old, new) ==
  IF stmts = <<>> THEN <<>>
  ELSE LET s == Head(stmts)
       IN IF s.op = "let" /\ s.v = old
          THEN <<RenameIn(s, old, new)>> \o Tail(stmts)
          ELSE <<RenameIn(s, old, new)>> \o Rename(Tail(stmts), old, new)

RECURSIVE CopyLocals(_, _), Unrolled(_, _)

\* _rename_copy_locals: each let of the copy's own level gets a fresh name,
\* and so does what follows it
CopyLocals(stmts, i) ==
  IF stmts = <<>> THEN <<>>
  ELSE LET s == Head(stmts)
           new == Append(s.v, i)
       IN IF s.op = "let"
          THEN <<[s EXCEPT !.v = new]>> \o CopyLocals(Rename(Tail(stmts), s.v, new), i)
          ELSE <<s>> \o CopyLocals(Tail(stmts), i)

\* _unroll_stmt_list, _unroll_in_nested_blocks and _unroll_expand: an expand
\* becomes its copies in place, anything else is searched for one
Unrolled(stmts, n) ==
  LET one(s) ==
        IF s.op = "expand"
        THEN FlattenSeq([i \in 1..n |->
               Unrolled(CopyLocals(Rename(s.body, s.v, Fanout(i)), i), n)])
        ELSE IF s.op \in {"block", "foreach", "match"}
        THEN <<[s EXCEPT !.body = Unrolled(s.body, n)]>>
        ELSE <<s>>
  IN FlattenSeq([i \in DOMAIN stmts |-> one(stmts[i])])

-----------------------------------------------------------------------------
(* what statements do: env is a stack of scopes, innermost last *)

Home(env, v) == CHOOSE k \in DOMAIN env : v \in DOMAIN env[k]
                  /\ \A j \in DOMAIN env : v \in DOMAIN env[j] => j <= k

\* the variable of an expand is another name of the element's parameter
IsAlias(x) == Len(x) = 2
Look(env, v) == LET x == env[Home(env, v)][v] IN IF IsAlias(x) THEN env[1][x] ELSE x
Assign(env, v, y) == LET x == env[Home(env, v)][v]
                     IN IF IsAlias(x) THEN [env EXCEPT ![1][x] = y]
                        ELSE [env EXCEPT ![Home(env, v)][v] = y]
Bind(env, v, x) == [env EXCEPT ![Len(env)] =
                      [n \in DOMAIN @ \union {v} |-> IF n = v THEN x ELSE @[n]]]
Single(v, x) == [n \in {v} |-> x]

RECURSIVE Run(_, _, _)

\* the environment after and the values printed; an expand is the loop the
\* documentation describes: a fresh scope per element
Run(stmts, env, out) ==
  IF stmts = <<>> THEN [env |-> env, out |-> out]
  ELSE
    LET s == Head(stmts)
        rest == Tail(stmts)
        inner(b, scope, e, o) ==
          LET r == Run(b, Append(e, scope), o) IN [env |-> Front(r.env), out |-> r.out]
        \* the block of each element in turn
        loop[i \in 0..Len(Elements)] ==
          IF i = 0 THEN [env |-> env, out |-> out]
          ELSE inner(s.body, Single(s.v, Fanout(i)), loop[i - 1].env, loop[i - 1].out)
        nested == CASE s.op = "block" -> inner(s.body, << >>, env, out)
                    [] s.op \in {"foreach", "match"} -> inner(s.body, Single(s.v, <<"item">>), env, out)
                    [] s.op = "expand" -> loop[Len(Elements)]
    IN CASE s.op = "use" -> Run(rest, env, Append(out, Look(env, s.v)))
         [] s.op = "let" -> Run(rest, Bind(env, s.v, Look(env, s.w)), out)
         [] s.op = "set" -> Run(rest, Assign(env, s.v, Look(env, s.w)), out)
         [] s.op = "lambda" ->
              Run(rest, env, Append(out, IF s.v = s.w THEN <<"argument">> ELSE Look(env, s.w)))
         [] OTHER -> Run(rest, nested.env, nested.out)

\* the function the expand stands in: its pack parameters and a variable y
Function == [n \in {Local} \union {Fanout(i) : i \in DOMAIN Elements} |->
               IF n = Local THEN <<"outer">> ELSE <<Elements[n[2]]>>]

Expand(b) == <<[op |-> "expand", v |-> LoopVar, w |-> <<"args">>, body |-> b]>>

-----------------------------------------------------------------------------
(* programs and the one step *)

Simple == [op : {"use"}, v : Names] \union [op : {"let", "set", "lambda"}, v : Names, w : Names]

Nested ==
  [op : {"block"}, v : {<<"none">>}, w : {<<"none">>}, body : {<<s>> : s \in Simple}]
  \union [op : {"foreach", "match"}, v : Names, w : Names, body : {<<s>> : s \in Simple}]
  \union [op : {"expand"}, v : Names, w : {<<"args">>}, body : {<<s>> : s \in Simple}]

Init ==
  /\ \E r \in Simple, s \in Simple \union Nested, t \in Simple : body = <<r, s, t>>
  /\ copies = <<>>

UnrollExpand ==
  /\ copies = <<>>
  /\ copies' = Unrolled(Expand(body), Len(Elements))
  /\ UNCHANGED body

Next == UnrollExpand

Spec == Init /\ [][Next]_vars

-----------------------------------------------------------------------------
(* properties *)

RECURSIVE Captures(_)
\* a closure's parameter has the name of something the copies rename
Captures(stmts) ==
  \E i \in DOMAIN stmts :
    \/ stmts[i].op = "lambda" /\ stmts[i].v = stmts[i].w
    \/ stmts[i].op \in {"block", "foreach", "match", "expand"} /\ Captures(stmts[i].body)

\* an expand inside the expand declares a local
InnerLocals(stmts) ==
  \E i \in DOMAIN stmts : stmts[i].op = "expand" /\ \E j \in DOMAIN stmts[i].body : stmts[i].body[j].op = "let"

\* The unrolled statements print what the loop over the elements prints: a
\* name is renamed exactly where it stands for the element or for the copy's
\* own local, past shadowing lets, patterns and loops.  Two bodies are left
\* out: see CopiesAlwaysApart.
UnrollsToTheLoop ==
  copies # <<>> /\ ~Captures(body) /\ ~InnerLocals(body) =>
    Run(copies, <<Function>>, <<>>).out = Run(Expand(body), <<Function>>, <<>>).out

Lets(stmts) == SelectSeq(stmts, LAMBDA s : s.op = "let")
Declared(stmts) == [i \in DOMAIN Lets(stmts) |-> Lets(stmts)[i].v]

\* No local is declared twice in the scope the copies share, when the body
\* declares none twice and no expand inside it has locals.
CopiesApart ==
  ~InnerLocals(body) /\ IsInjective(Declared(body)) => IsInjective(Declared(copies))

\* docs/design/variadics.md: locals declared inside an expand are scoped to
\* each copy.  (Those of an expand inside an expand take the names of the
\* outer copy's: an inner `let y` overwrites the outer y.)
CopiesAlwaysApart ==
  copies # <<>> /\ ~Captures(body) =>
    Run(copies, <<Function>>, <<>>).out = Run(Expand(body), <<Function>>, <<>>).out
=============================================================================
