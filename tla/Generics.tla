------------------------------ MODULE Generics ------------------------------
(***************************************************************************)
(* From generic definitions to concrete functions: the instantiate pass    *)
(* (src/sushi_lang/semantics/generics/instantiate/), the monomorphize pass *)
(* (generics/monomorphize/) and the calls the typecheck pass binds to what *)
(* they produced (semantics/passes/types/calls/generics.py), in the order  *)
(* semantic_analyzer.py runs them.                                         *)
(*                                                                         *)
(* A type is the sequence of names met when it is written in prefix order: *)
(* Box@(i32[]) is <<"Box", "Arr", "i32">>, and "T" is the type parameter.  *)
(* Every generic here has one parameter, so substitution replaces the "T"  *)
(* by a sequence.  The program is chosen in Init: two units of calls, two  *)
(* generic functions "f" and "g" that may call each other and themselves,  *)
(* a pack function "p" whose `expand` may call one of them, and an         *)
(* extension method on Box.  A call is made at a site:                     *)
(*   "let"     let R r = f(x): the value of a let, a return, a condition   *)
(*   "print"   println(f(x)), r := f(x), or f(y) for a local y of the body *)
(*   "expand"  f(a) in an expand(a in args)                                *)
(***************************************************************************)
EXTENDS Naturals, FiniteSets, SequencesExt

CONSTANTS
  Spelling,    \* a declared plain type -> the names its own name reads as
  Showable,    \* the plain types that implement the perk a bound may ask for
  Packs,       \* what calls of the pack function pass: sequences of plain types
  MaxRounds,   \* MAX_EXPANSION_ROUNDS
  MaxNames     \* model bound: a call that would need a longer type is not made

VARIABLES
  prog,       \* the program: calls of each unit, generic functions, extension
  pass,       \* where _check_multi_file is
  unit,       \* the next unit to collect from
  round,      \* rounds of collect_from_generic_extensions done
  types,      \* InstantiationCollector.instantiations, of Box
  wanted,     \* function_instantiations
  worklist, processed, pending,  \* of monomorphize_all_functions
  cache,      \* Monomorphizer.func_cache
  funcs,      \* func_table: symbol -> the instance registered under it
  copies,     \* the Boxes that have a copy of the extension method
  bound,      \* calls the typecheck pass rewrote: [site, want, symbol]
  diagnostics \* reports: [code, site]

instanceVars == <<prog, pass, unit, round, types, wanted, worklist, processed,
                  pending, cache, funcs, copies, bound, diagnostics>>

Generic == {"f", "g"}
Plain == {<<n>> : n \in DOMAIN Spelling}
Boxed == {<<n>> : n \in Showable}
T == <<"T">>
Box(t) == <<"Box">> \o t
Arr(t) == <<"Arr">> \o t

Instance(fn, args) == [fn |-> fn, args |-> args]

-----------------------------------------------------------------------------
(* substitution, unification and names *)

\* TypeSubstitutor.substitute_type: a parameter can only be the last name
Subst(pattern, t) == IF Last(pattern) = "T" THEN Front(pattern) \o t ELSE pattern

\* unify_types: the type the parameter must stand for, if there is one
Unify(pattern, arg) ==
  IF Len(pattern) <= Len(arg) /\ SubSeq(arg, 1, Len(pattern) - 1) = Front(pattern)
  THEN {SubSeq(arg, Len(pattern), Len(arg))}
  ELSE {}

\* _join_sanitized: "Box<i32>" becomes "Box_i32", which is also what a struct
\* of that name reads as
Sanitized(t) ==
  FlattenSeq([i \in DOMAIN t |-> IF t[i] \in DOMAIN Spelling THEN Spelling[t[i]] ELSE <<t[i]>>])

\* mangle_function_name; a pack says how many elements it has
Mangle(k) ==
  <<k.fn>> \o FlattenSeq([i \in DOMAIN k.args |-> Sanitized(k.args[i])])
    \o (IF k.fn = "p" THEN <<".pack", ToString(Len(k.args))>> ELSE <<>>)

\* infer_flat_type_args: the instance a call asks for.  A pack takes the type
\* of each argument as it stands.
Wants(callee, args) ==
  IF callee = "p" THEN {Instance("p", args)}
  ELSE {Instance(callee, <<t>>) : t \in Unify(prog.param[callee], args[1])}

\* what a call written in a body of type parameter t asks for
CallOf(c, t) == Wants(c.callee, <<Subst(c.arg, t)>>)

-----------------------------------------------------------------------------
(* programs *)

TypeNames == {"Box", "Arr"} \union DOMAIN Spelling
ShortTypes == UNION {[1..n -> TypeNames] : n \in 1..MaxNames}
Instances == {Instance(fn, <<t>>) : fn \in Generic, t \in ShortTypes}
             \union {Instance("p", ts) : ts \in Packs}

ASSUME NamesAssumption ==
  /\ MaxNames \in Nat /\ MaxNames >= 2
  /\ Showable \subseteq DOMAIN Spelling
  /\ {"Box", "Arr", "T"} \cap DOMAIN Spelling = {}
  /\ Packs \subseteq Seq(Plain)

\* Two instances never have one symbol.  Names of types can be chosen so that
\* they do, since Box<i32> and a struct Box_i32 read alike.
SymbolsApart == \A k, l \in Instances : Mangle(k) = Mangle(l) => k = l
ASSUME SymbolsAssumption == SymbolsApart

Calls(args, sites) == [callee : Generic, arg : args, site : sites]
AtMostOne(S) == {{}} \union {{x} : x \in S}

\* a unit calls with plain values and with one Box, and a pack with nothing
\* or with one value of each plain type
MainCalls == [callee : Generic, args : {<<t>> : t \in Plain \union {Box(t) : t \in Boxed}},
              site : {"let"}]
PackCalls == [callee : {"p"}, args : Packs, site : {"let"}]

Bodies == AtMostOne(Calls({T, Arr(T)}, {"let", "print"}))
PackBodies == {{}, {[callee |-> "f", arg |-> T, site |-> "expand"]}}
Extensions == {{}} \union {{[target |-> t, call |-> c]} :
                 t \in {Box(T)} \union {Box(u) : u \in Boxed}, c \in Calls({T}, {"let"})}

Programs ==
  [units : {<<{a}, {b}>> : a \in MainCalls, b \in PackCalls},
   body : {b \in [Generic \union {"p"} -> Bodies \union PackBodies] :
             b["p"] \in PackBodies /\ \A fn \in Generic : b[fn] \in Bodies},
   param : [Generic -> {T, Box(T)}],
   shows : {{}, {"g"}},
   ext : Extensions]

InstancesInit ==
  /\ prog \in Programs
  /\ pass = "collect" /\ unit = 1 /\ round = 0
  /\ types = {} /\ wanted = {}
  /\ worklist = {} /\ processed = {} /\ pending = {}
  /\ cache = {} /\ funcs = << >> /\ copies = {} /\ bound = {} /\ diagnostics = {}

-----------------------------------------------------------------------------
(* instantiate *)

\* scan_expression goes everywhere in a unit's plain functions
SeenByCollector == {"let", "print"}

\* _scan_call: the generic functions a unit's calls ask for
AskedByUnit(calls) ==
  UNION {Wants(c.callee, c.args) : c \in {d \in calls : d.site \in SeenByCollector}}

\* _collect_from_type, on the annotations the arguments were declared with
BoxesIn(calls) == {t \in UNION {ToSet(c.args) : c \in calls} : t[1] = "Box"}

CollectUnit ==
  /\ pass = "collect" /\ unit <= Len(prog.units)
  /\ LET calls == prog.units[unit]
     IN /\ wanted' = wanted \union AskedByUnit(calls)
        /\ types' = types \union BoxesIn(calls)
  /\ unit' = unit + 1
  /\ UNCHANGED <<prog, pass, round, worklist, processed, pending, cache, funcs,
                 copies, bound, diagnostics>>

\* the signatures of extensions on a generic target: here a method of
\* Box@(T) that takes a Box@(T[]) asks for another Box, which asks for another
SignatureTypes(ts) ==
  {Box(Arr(Tail(t))) : t \in {u \in ts : Len(u) <= MaxNames - 1}}

\* one round of collect_from_generic_extensions; a round that adds nothing is
\* the last, and so is MAX_EXPANSION_ROUNDS
CollectExtensions ==
  /\ pass = "collect" /\ unit > Len(prog.units)
  /\ LET templates == {e \in prog.ext : e.target = Box(T)}
         concrete == {e.target : e \in prog.ext \ templates}
         found == types \union (IF templates = {} THEN concrete ELSE SignatureTypes(types))
     IN /\ types' = found
        /\ round' = round + 1
        /\ IF found = types \/ round' = MaxRounds
           THEN pass' = "functions" /\ worklist' = wanted
           ELSE UNCHANGED <<pass, worklist>>
  /\ UNCHANGED <<prog, unit, wanted, processed, pending, cache, funcs, copies, bound, diagnostics>>

-----------------------------------------------------------------------------
(* monomorphize: functions *)

\* _collect_block_instantiations walks let, return and conditions, not a
\* println and not a rebind; var_types holds the parameters, not the locals
SeenInInstance == {"let"}

Fits(k) == \A i \in DOMAIN k.args : Len(k.args[i]) <= MaxNames

\* _collect_nested_instantiations: the body of a generic, once per instance.
\* A pack parameter has no single type, so an expand body is not typed.
Nested(k) ==
  IF k.fn = "p" THEN {}
  ELSE {n \in UNION {CallOf(c, k.args[1]) : c \in {d \in prog.body[k.fn] : d.site \in SeenInInstance}} :
          Fits(n)}

\* build_substitution with _validate_type_constraints; a pack's elements are
\* checked by the typecheck pass instead
Satisfied(k) == k.fn \in prog.shows => k.args[1] \in Boxed

\* a mutant: what a body asks for is forgotten
NewlyPendingNone(k) == {}

\* monomorphize_function: the instances its body asks for, unless the cache
\* already has it
NewlyPending(k) == IF k \in cache THEN {} ELSE Nested(k) \ cache

\* monomorphize_all_functions takes any element of the set: an instance whose
\* symbol is taken already is not registered
Register(k) ==
  /\ cache' = cache \union {k}
  /\ diagnostics' = diagnostics \union
       (IF k \in cache \/ Satisfied(k) THEN {} ELSE {[code |-> "CE4006", site |-> "bound"]})
  /\ IF Mangle(k) \in DOMAIN funcs
     THEN /\ pending' = pending \union NewlyPending(k)
          /\ worklist' = worklist \ {k}
          /\ UNCHANGED funcs
     ELSE /\ funcs' = [s \in DOMAIN funcs \union {Mangle(k)} |-> IF s = Mangle(k) THEN k ELSE funcs[s]]
          /\ worklist' = (worklist \ {k}) \union pending \union NewlyPending(k)
          /\ pending' = {}

Pop ==
  /\ pass \in {"functions", "again"}
  /\ \E k \in worklist :
       /\ processed' = processed \union {k}
       /\ IF k \in processed
          THEN worklist' = worklist \ {k} /\ UNCHANGED <<cache, diagnostics, pending, funcs>>
          ELSE Register(k)
  /\ UNCHANGED <<prog, pass, unit, round, types, wanted, copies, bound>>

-----------------------------------------------------------------------------
(* monomorphize: extensions, and the functions only their bodies ask for *)

\* a template applies to every collected Box, a concrete target to its own
Applies(e, t) == e.target \in {Box(T), t}

\* collect_from_extension_body: `self.value` has a type only in the copy
AskedByCopies(boxes) ==
  {n \in UNION {CallOf(e.call, Tail(t)) : e \in prog.ext, t \in boxes} : n \notin cache}

\* monomorphize_all_extension_methods; the second round of functions starts
\* from a set of its own
MonomorphizeExtensions ==
  /\ pass = "functions" /\ worklist = {}
  /\ copies' = {t \in types : \E e \in prog.ext : Applies(e, t)}
  /\ pass' = "again"
  /\ worklist' = AskedByCopies(copies')
  /\ processed' = {} /\ pending' = {}
  /\ UNCHANGED <<prog, unit, round, types, wanted, cache, funcs, bound, diagnostics>>

-----------------------------------------------------------------------------
(* typecheck *)

\* expand_pack_param: a pack stands for one parameter per element, and its
\* expand for one copy of the body; any other function has one type argument
BodyTypes(k) == ToSet(k.args)

\* substitute_body: the calls of an instance's own body
CallsIn(k) ==
  {[site |-> c.site, want |-> CallOf(c, t)] : c \in prog.body[k.fn], t \in BodyTypes(k)}

\* the calls of the units, and those of the copies of the extension method
UnitCalls ==
  UNION {{[site |-> c.site, want |-> Wants(c.callee, c.args)] : c \in calls} :
           calls \in ToSet(prog.units)}
CopyCalls == {[site |-> e.call.site, want |-> CallOf(e.call, Tail(t))] :
                e \in prog.ext, t \in copies}

AllCalls ==
  UnitCalls \union (UNION {CallsIn(funcs[s]) : s \in DOMAIN funcs}) \union CopyCalls

\* validate_generic_function_call: no type arguments is CE2060, no function of
\* the mangled name is CE2061, and otherwise the callee becomes that name
Typecheck ==
  /\ pass = "again" /\ worklist = {}
  /\ pass' = "done"
  /\ LET short == {c \in AllCalls : \A k \in c.want : Fits(k)}
         answer(c, code) == [code |-> code, site |-> c.site]
         symbol(c) == Mangle(CHOOSE k \in c.want : TRUE)
         typed == {c \in short : c.want # {}}
         found == {c \in typed : symbol(c) \in DOMAIN funcs}
     IN /\ diagnostics' = diagnostics \union {answer(c, "CE2060") : c \in short \ typed}
                            \union {answer(c, "CE2061") : c \in typed \ found}
        /\ bound' = {[site |-> c.site, want |-> c.want, symbol |-> symbol(c)] : c \in found}
  /\ UNCHANGED <<prog, unit, round, types, wanted, worklist, processed, pending,
                 cache, funcs, copies>>

InstancesNext ==
  \/ CollectUnit
  \/ CollectExtensions
  \/ Pop
  \/ MonomorphizeExtensions
  \/ Typecheck

InstancesSpec == InstancesInit /\ [][InstancesNext]_instanceVars

-----------------------------------------------------------------------------
(* properties *)

Registered == {funcs[s] : s \in DOMAIN funcs}

\* what the calls that the passes can see ask for, without the bodies of
\* instances
Asked ==
  wanted \union (IF pass \in {"again", "done"}
                 THEN UNION {CallOf(e.call, Tail(t)) : e \in prog.ext, t \in copies}
                 ELSE {})

\* a set of instances that has what is asked for, and what its bodies ask for
Complete(S) == Asked \subseteq S /\ \A k \in S : Nested(k) \subseteq S

\* Whatever order the set hands them out in, the functions registered are the
\* instances the program asks for, those their bodies ask for, and so on, and
\* no other: the least complete set.
LeastComplete ==
  pass \in {"functions", "again"} /\ worklist = {} =>
    Complete(Registered) /\ \A S \in SUBSET Registered : Complete(S) => S = Registered

\* No call the passes can see ends in CE2061, in a unit, in an instance or in
\* the copy of an extension method.
SeenCallsFound == \A e \in diagnostics : e.code = "CE2061" => e.site \notin SeenInInstance

\* A call the typecheck pass binds is bound to the instance of the very
\* function and types it asks for, and in a program without errors every
\* instance satisfies the perk its function asks of the type.
CallsBound ==
  /\ \A c \in bound : funcs[c.symbol] \in c.want
  /\ pass = "done" /\ diagnostics = {} => \A k \in Registered :
       k.fn \in prog.shows => k.args[1] \in Boxed

\* Generic functions get exactly the instances the program needs.
InstancesExact == LeastComplete /\ SeenCallsFound /\ CallsBound

\* docs/generics.md: the compiler detects the instantiations from call sites.
\* (It does not for a call in a println of a generic body.)
EveryCallFound == \A e \in diagnostics : e.code # "CE2061"
=============================================================================
