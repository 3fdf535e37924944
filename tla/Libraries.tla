----------------------------- MODULE Libraries -----------------------------
(***************************************************************************)
(* A library and a program that uses it.  The producer decides what the    *)
(* exported generics need of the private part of the library, the export   *)
(* closure (src/sushi_lang/backend/library_manifest.py), and compiles the  *)
(* rest to bitcode; the consumer registers what was shipped                *)
(* (semantics/library_registry.py, semantics/semantic_analyzer.py),        *)
(* compiles its instances of the templates, and the two-phase linker       *)
(* (backend/module_linker.py, dependency_graph.py, symbol_resolver.py)     *)
(* joins the two modules by the names of their symbols.                    *)
(*                                                                         *)
(* A declaration is [kind, public, foreign, refs]: the names its body      *)
(* mentions, and whether its signature shows a foreign pointer.  The       *)
(* linker's symbols are <<name, "own">> for a function or a constant and   *)
(* <<name, "instance">> for an instance of a generic function.             *)
(***************************************************************************)
EXTENDS Naturals, Sequences, FiniteSets, SequencesExt

CONSTANTS
  Symbols,      \* names a declaration may have
  MaxRefs,      \* model bound: names a body mentions
  MaxLocals     \* model bound: declarations of the program beside main

VARIABLES
  lib,       \* name -> declaration of the library
  phase,     \* "library", "shipped", "compiled", "linked", "refused"
  reason,    \* the diagnostic of a refusal
  manifest,  \* what the .slib says: [public, generics, helpers, constants]
  prog,      \* [locals : name -> kind, main : names that main mentions]
  image      \* the symbols of the linked module

vars == <<lib, phase, reason, manifest, prog, image>>

\* `main` is the program's: no library declares it
MainAssumption == "main" \notin Symbols

Few(n) == {S \in SUBSET Symbols : Cardinality(S) <= n}
Named(d, kinds) == {n \in Symbols : d[n].kind \in kinds}

Decls ==
  [kind : {"fn"}, public : BOOLEAN, foreign : {FALSE}, refs : Few(MaxRefs)]
    \cup [kind : {"fn"}, public : BOOLEAN, foreign : {TRUE}, refs : {{}}]
    \cup [kind : {"generic"}, public : BOOLEAN, foreign : {FALSE}, refs : Few(MaxRefs)]
    \cup [kind : {"const"}, public : {FALSE}, foreign : {FALSE}, refs : Few(1)]
    \cup [kind : {"namespace", "absent"}, public : {FALSE}, foreign : {FALSE}, refs : {{}}]

\* a library that passed the front end: names are declared, and a constant
\* is computed from constants
Library ==
  {d \in [Symbols -> Decls] :
     \A n \in Symbols : /\ d[n].refs \subseteq Symbols \ Named(d, {"absent"})
                        /\ d[n].kind = "const" => d[n].refs \subseteq Named(d, {"const"}) \ {n}}

NoManifest == [public |-> {}, generics |-> {}, helpers |-> {}, constants |-> {}]
NoProgram == [locals |-> [n \in Symbols |-> "absent"], main |-> {}]

Init ==
  /\ lib \in Library
  /\ phase = "library" /\ reason = "none"
  /\ manifest = NoManifest /\ prog = NoProgram /\ image = {}

Refuse(why) == /\ phase' = "refused" /\ reason' = why
               /\ UNCHANGED <<lib, manifest, prog, image>>

-----------------------------------------------------------------------------
(* the producer *)

\* What Steps leads to from a set of names: a worklist with a visited set ends
\* with the least set that has them and is closed under Steps.
Closed(start, Steps) ==
  {S \in SUBSET DOMAIN Steps : start \subseteq S /\ \A n \in S : Steps[n] \subseteq S}

Closure(start, Steps) ==
  LET closed == Closed(start, Steps)
  IN  {n \in DOMAIN Steps : \A S \in closed : n \in S}

Roots == {n \in Named(lib, {"generic"}) : lib[n].public}
Private == {n \in Named(lib, {"fn", "generic"}) : ~lib[n].public} \cup Named(lib, {"const"})

\* a mutant: the walk does not enter what it ships
WalkedFromRoots(n) == IF n \in Roots THEN lib[n].refs \ {n} ELSE {}

\* what _walk goes on to from a declaration: every private name of its body.
\* A public function stays out, the manifest names it already.
Walked(n) ==
  IF n \in Roots \cup Private THEN lib[n].refs \ {n} ELSE {}

Reached == Closure(Roots, [n \in Symbols |-> Walked(n)])

\* _extract_public_functions, _reject
Unshippable ==
  {"CE5002" : n \in {k \in Named(lib, {"fn"}) : lib[k].public /\ lib[k].foreign}}
    \cup {"CE5006" : n \in {k \in Reached : \/ lib[k].kind = "namespace"
                                            \/ k \in Private /\ lib[k].foreign}}

\* _compute_export_closure, _extract_templates
Shipped ==
  [public    |-> {n \in Named(lib, {"fn"}) : lib[n].public},
   generics  |-> Reached \cap Named(lib, {"generic"}),
   helpers   |-> Reached \cap Private \cap Named(lib, {"fn"}),
   constants |-> Reached \cap Named(lib, {"const"})]

Export ==
  /\ phase = "library"
  /\ \/ Unshippable # {} /\ \E why \in Unshippable : Refuse(why)
     \/ Unshippable = {} /\ phase' = "shipped" /\ manifest' = Shipped
        /\ UNCHANGED <<lib, reason, prog, image>>

-----------------------------------------------------------------------------
(* the consumer *)

Local(kind) == {n \in Symbols : prog.locals[n] = kind}

\* the program somebody writes against the library
WriteProgram ==
  /\ phase = "shipped" /\ prog = NoProgram
  /\ \E some \in Few(MaxLocals), used \in Few(2) :
       \E locals \in [some -> {"fn", "const"}] :
         LET offered == some \cup UNION {manifest[part] : part \in DOMAIN manifest}
         IN  /\ used # {} /\ used \subseteq offered
             /\ prog' = [locals |-> [n \in Symbols |-> IF n \in some THEN locals[n] ELSE "absent"],
                         main   |-> used]
  /\ UNCHANGED <<lib, phase, reason, manifest, image>>

\* a mutant: the program's own definition wins, as over a public function
ClashesNone == {}

\* CE5007: a shipped private is compared with its own kind of declaration.  A
\* private template never meets one: the program declares no generic.
Clashes == (Local("fn") \cap manifest.helpers) \cup (Local("const") \cap manifest.constants)

\* a name the program declares as one thing and the library ships as another:
\* the module of the program would have two globals of the name
TwoThings == (Local("const") \cap (manifest.public \cup manifest.helpers))
               \cup (Local("fn") \cap manifest.constants)

Functions == Local("fn") \cup manifest.public \cup manifest.helpers
Constants == Local("const") \cup manifest.constants
Known == Functions \cup Constants \cup manifest.generics

\* the templates the program instantiates, from main and from one another
Instances ==
  Closure(prog.main \cap manifest.generics,
          [n \in Symbols |-> lib[n].refs \cap manifest.generics])

\* every name of an instance is looked up in the tables of the consumer
Unknown == (UNION {lib[g].refs : g \in Instances}) \ Known

CompileProgram ==
  /\ phase = "shipped" /\ prog # NoProgram
  /\ \/ Clashes # {} /\ Refuse("CE5007")
     \/ Clashes = {} /\ Unknown # {} /\ Refuse("unknown name")
     \/ Clashes = {} /\ Unknown = {} /\ TwoThings # {} /\ Refuse("duplicate global")
     \/ Clashes = {} /\ Unknown = {} /\ TwoThings = {} /\ phase' = "compiled"
        /\ UNCHANGED <<lib, reason, manifest, prog, image>>

-----------------------------------------------------------------------------
(* the linker's symbols: [name, by, rank, refs], a definition of a module.  *)
(* The rank is the priority of the source (SymbolSource).                   *)

Own(n) == <<n, "own">>
Instance(g) == <<g, "instance">>
Main == <<"main", "own">>

\* the symbols a body mentions; what is foreign is left to the system linker
Mentions(refs, generics) ==
  {Instance(n) : n \in refs \cap generics}
    \cup {Own(n) : n \in refs \ (generics \cup Named(lib, {"namespace"}))}

Symbol(name, by, rank, refs) == [name |-> name, by |-> by, rank |-> rank, refs |-> refs]

\* the module of the program: a local function calls nothing, a constant is a value
MainModule ==
  {Symbol(Main, "program", 1, Mentions(prog.main, manifest.generics))}
    \cup {Symbol(Own(n), "program", 1, {}) : n \in Local("fn") \cup Local("const")}
    \cup {Symbol(Own(n), "library", 1, {}) : n \in manifest.constants}
    \cup {Symbol(Instance(g), "library", 1, Mentions(lib[g].refs, manifest.generics)) : g \in Instances}
MainDeclares == {Own(n) : n \in (manifest.public \ Local("fn")) \cup manifest.helpers}

\* the bitcode of the library: all its functions, public or not, with the
\* instances they use
LibraryGenerics == Named(lib, {"generic"})
LibraryInstances ==
  Closure(LibraryGenerics \cap UNION {lib[n].refs : n \in Named(lib, {"fn"})},
          [n \in Symbols |-> IF n \in LibraryGenerics THEN lib[n].refs \cap LibraryGenerics ELSE {}])
LibraryModule ==
  {Symbol(Own(n), "library", 2, Mentions(lib[n].refs, LibraryGenerics)) : n \in Named(lib, {"fn"})}
    \cup {Symbol(Own(n), "library", 2, {}) : n \in Named(lib, {"const"})}
    \cup {Symbol(Instance(g), "library", 2, Mentions(lib[g].refs, LibraryGenerics)) : g \in LibraryInstances}

Defined == MainModule \cup LibraryModule
AllNames(defined) == {s.name : s \in defined} \cup MainDeclares
Definitions(defined, name) == {s \in defined : s.name = name}

\* build_dependency_graph takes the definition it meets first, in the order
\* the modules were added: the program, then the library
FirstMet(candidates) == CHOOSE s \in candidates : \A t \in candidates : s.rank <= t.rank

Depends(defined) ==
  LET names == AllNames(defined)
  IN  [name \in names |-> LET met == Definitions(defined, name)
                          IN  IF met = {} THEN {} ELSE FirstMet(met).refs \cap names]

Reachable(defined) ==
  Closure({Main}, Depends(defined))

\* a mutant: the sources sorted the other way
ChooseLast(candidates) == CHOOSE s \in candidates : \A t \in candidates : s.rank >= t.rank

\* _choose_definition: the lowest source, whatever the linkage
Choose(candidates) == CHOOSE s \in candidates : \A t \in candidates : s.rank <= t.rank

\* resolve: a definition when there is one, else a declaration
Resolved(defined, name) ==
  LET candidates == Definitions(defined, name)
  IN  IF candidates = {} THEN Symbol(name, "nobody", 1, {}) ELSE Choose(candidates)

\* merge: the text of every symbol that was chosen
Link ==
  /\ phase = "compiled"
  /\ phase' = "linked"
  /\ LET defined == Defined
     IN  image' = {Resolved(defined, name) : name \in Reachable(defined)}
  /\ UNCHANGED <<lib, reason, manifest, prog>>

Next == Export \/ WriteProgram \/ CompileProgram \/ Link

Spec == Init /\ [][Next]_vars

\* the names are alike
SymbolSymmetry == Permutations(Symbols)

-----------------------------------------------------------------------------
(* properties *)

SymbolNames == (Symbols \cup {"main"}) \X {"own", "instance"}

\* Every variable holds a value of its kind: the manifest and the program name
\* what may be declared, the image holds symbols of the two modules.
TypeOK ==
  /\ lib \in Library
  /\ phase \in {"library", "shipped", "compiled", "linked", "refused"}
  /\ reason \in {"none", "CE5002", "CE5006", "CE5007", "unknown name", "duplicate global"}
  /\ manifest \in [public : SUBSET Symbols, generics : SUBSET Symbols,
                   helpers : SUBSET Symbols, constants : SUBSET Symbols]
  /\ prog \in [locals : [Symbols -> {"fn", "const", "absent"}], main : SUBSET Symbols]
  /\ image \subseteq [name : SymbolNames, by : {"program", "library", "nobody"},
                      rank : {1, 2}, refs : SUBSET SymbolNames]

(* Library export: what is exported can be used.  Whatever a program       *)
(* instantiates, every name a template mentions, through private templates *)
(* and helpers, was shipped: a consumer never meets an unknown name, nor a *)
(* symbol of a foreign namespace.                                          *)
ExportComplete == reason # "unknown name"

(* Two-phase linking: the linked module is closed.  Whatever a definition  *)
(* that was kept mentions was found reachable and has a definition, though *)
(* the edges were computed before the definitions were chosen.             *)
ImageClosed == phase = "linked" =>
  LET defined == {t.name : t \in {s \in image : s.by # "nobody"}}
  IN  Main \in defined /\ \A s \in image : s.refs \subseteq defined

Kept(names) == phase = "linked" =>
  \A s \in image : s.by = "library" =>
    \A t \in image : t.name \in s.refs \cap {Own(n) : n \in names} => t.by = "library"

(* CE5007: code of the library that mentions a shipped private gets the    *)
(* library's own, in the bitcode and in the instances of the consumer.     *)
HelpersKept == Kept(manifest.helpers \cup manifest.constants)

(* declarations.py: a private function has internal linkage, "only         *)
(* accessible within this module".  Code of the library that mentions a    *)
(* private name gets the library's own, whatever the program calls its.    *)
PrivatesKept == Kept(Private)
=============================================================================
