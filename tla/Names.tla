------------------------------- MODULE Names -------------------------------
(***************************************************************************)
(* Who a name belongs to: the collect pass over the units                  *)
(* (src/sushi_lang/semantics/passes/collect/), the merge of the tables     *)
(* (semantics/symbol_merger.py), the registration of what a library ships, *)
(* the copies of extensions on a generic target, and the two checks that   *)
(* keep methods apart, in the order semantic_analyzer.py runs them.        *)
(*                                                                         *)
(* A declaration is [kind, name, on]: what it declares, under which name,  *)
(* and for a perk's implementation (name: the perk) and an extension (name:*)
(* the method) its target.  The targets are the primitive "i32", the       *)
(* dynamic array "i32[]", the declared type "A", and the two ways to write *)
(* the generic struct G: the template "G@(T)" and the instance "G<i32>".   *)
(* Every unit sees a program in which G is declared and instantiated with  *)
(* i32 and with A.  The perk "P" has one method, "m"; "hash" is a method   *)
(* the compiler defines on every type here.                                *)
(***************************************************************************)
EXTENDS Naturals, FiniteSets, SequencesExt

CONSTANTS
  UnitSizes,    \* model bound: how many declarations each unit may have, the units
                \* in the order of compilation
  FromLibrary   \* model bound: how many the library ships

ASSUME SizesAssumption == UnitSizes \in Seq(Nat) /\ UnitSizes # <<>>

VARIABLES
  program,  \* [units : Seq(Seq(Decl)), lib : Seq(Decl)]
  pass,     \* "seed", "collect", "library", "shadow", "perks", "done"
  unit,     \* the unit of the pass
  todo,     \* its declarations, or those of the manifest, that are left to do
  found,    \* the collector's tables, which grow from unit to unit
  tables,   \* the global tables
  errors    \* diagnostics: [code, name]

nameVars == <<program, pass, unit, todo, found, tables, errors>>

TheLibrary == 0
Decl(kind, name, on) == [kind |-> kind, name |-> name, on |-> on]

-----------------------------------------------------------------------------
(* tables: sets of [in, key, by], by whom the entry was declared.  A key is *)
(* <<name>>, <<type, perk>> of an implementation, <<method, target>> of a   *)
(* template, and <<kind of type, type, method>> of an extension.            *)

Entry(table, key, by) == [in |-> table, key |-> key, by |-> by]
Has(tb, table, key) == \E e \in tb : e.in = table /\ e.key = key
HasAny(tb, names, key) == \E t \in names : Has(tb, t, key)
MethodKey(type, m) == <<type[1], type[2], m>>

\* a type a program may name where the collector stands
DeclaredType(tb, name) == HasAny(tb, {"structs", "enums"}, <<name>>)

-----------------------------------------------------------------------------
(* the collectors: what is wrong with a declaration, or where it goes *)

Report(code, d) == [code |-> code, name |-> d.name]

\* _collect_constant_def
ConstantFault(tb, d) == IF Has(tb, "constants", <<d.name>>) THEN {"CE0105"} ELSE {}

\* _collect_struct_def: a struct is compared with structs only
StructFault(tb, d) == IF Has(tb, "structs", <<d.name>>) THEN {"CE0004"} ELSE {}

\* _collect_enum_def: an enum with enums and with structs
EnumFault(tb, d) ==
  IF Has(tb, "enums", <<d.name>>) THEN {"CE2046"}
  ELSE IF Has(tb, "structs", <<d.name>>) THEN {"CE0006"}
  ELSE {}

\* _collect_concrete_function_def
PlainFault(tb, d) ==
  IF HasAny(tb, {"functions", "generics"}, <<d.name>>) THEN {"CE0101"} ELSE {}

\* _collect_generic_function_def
GenericFault(tb, d) ==
  IF HasAny(tb, {"functions", "generics"}, <<d.name>>) THEN {"CE0101"} ELSE {}

\* _collect_perk_def
PerkFault(tb, d) == IF Has(tb, "perks", <<d.name>>) THEN {"CE4001"} ELSE {}

\* _get_type_name: the text of a type, which keys the implementations
TypeName(on) == on

\* _collect_perk_impl
ImplFault(tb, d) ==
  IF ~Has(tb, "perks", <<d.name>>) THEN {"CE4003"}
  ELSE IF Has(tb, "impls", <<TypeName(d.on), d.name>>) THEN {"CE4002"}
  ELSE {}

IsGenericTarget(on) == on \in {"G@(T)", "G<i32>", "G<A>"}

\* classify_extension_target: an argument that names no type declared so far
\* is read as a parameter
TargetKey(tb, on) ==
  IF on = "G@(T)" \/ (on = "G<A>" /\ ~DeclaredType(tb, "A")) THEN "" ELSE on

\* a mutant: two targets overlap only when they are the same
OverlapsSame(k1, k2) == k1 = k2

\* _reject_overlapping_target: a template claims every instance
Overlaps(k1, k2) == k1 = k2 \/ k1 = "" \/ k2 = ""

\* a plain target is one of the four kinds of type an extension is kept for:
\* a dynamic array is not, nor is a name no unit has declared yet
PlainTarget(tb, on) ==
  CASE on = "i32" -> {<<"builtin", "i32">>}
    [] on = "A" /\ Has(tb, "structs", <<"A">>) -> {<<"struct", "A">>}
    [] on = "A" /\ ~Has(tb, "structs", <<"A">>) /\ Has(tb, "enums", <<"A">>) -> {<<"enum", "A">>}
    [] OTHER -> {}

\* _collect_extension_def
ExtensionFault(tb, d) ==
  IF IsGenericTarget(d.on)
  THEN IF \E e \in tb : /\ e.in = "templates" /\ e.key[1] = d.name
                        /\ Overlaps(e.key[2], TargetKey(tb, d.on))
       THEN {"CE0101"} ELSE {}
  ELSE IF \E t \in PlainTarget(tb, d.on) : Has(tb, "extensions", MethodKey(t, d.name))
       THEN {"CE0101"} ELSE {}

Fault(tb, d) ==
  CASE d.kind = "const" -> ConstantFault(tb, d)
    [] d.kind = "struct" -> StructFault(tb, d)
    [] d.kind = "enum" -> EnumFault(tb, d)
    [] d.kind = "fn" -> PlainFault(tb, d)
    [] d.kind = "generic" -> GenericFault(tb, d)
    [] d.kind = "perk" -> PerkFault(tb, d)
    [] d.kind = "impl" -> ImplFault(tb, d)
    [] d.kind = "extend" -> ExtensionFault(tb, d)

TableOf == [const |-> "constants", struct |-> "structs", enum |-> "enums",
            fn |-> "functions", private |-> "functions", generic |-> "generics",
            perk |-> "perks"]

\* what a sound declaration adds
Adds(tb, d, by) ==
  CASE d.kind = "impl" -> {Entry("impls", <<TypeName(d.on), d.name>>, by)}
    [] d.kind = "extend" /\ IsGenericTarget(d.on) ->
         {Entry("templates", <<d.name, TargetKey(tb, d.on)>>, by)}
    [] d.kind = "extend" /\ ~IsGenericTarget(d.on) ->
         {Entry("extensions", MethodKey(t, d.name), by) : t \in PlainTarget(tb, d.on)}
    [] OTHER -> {Entry(TableOf[d.kind], <<d.name>>, by)}

-----------------------------------------------------------------------------
(* the analyzer *)

Targets == {"i32", "i32[]", "A", "G@(T)", "G<i32>", "G<A>"}
UserDecls ==
  {Decl("const", "c", "-"), Decl("struct", "A", "-"), Decl("enum", "A", "-"),
   Decl("fn", "f", "-"), Decl("generic", "f", "-"), Decl("perk", "P", "-")}
  \union {Decl("impl", "P", t) : t \in {"i32", "A", "G<i32>"}}
  \union {Decl("extend", "m", t) : t \in Targets}
  \union {Decl("extend", "hash", t) : t \in {"i32", "G@(T)"}}

\* what a library's manifest has: a concrete extension is not shipped
LibraryDecls ==
  {Decl("const", "c", "-"), Decl("struct", "A", "-"), Decl("fn", "f", "-"),
   Decl("private", "f", "-"), Decl("generic", "f", "-"), Decl("perk", "P", "-"),
   Decl("impl", "P", "i32"), Decl("impl", "P", "A")}

Lists(decls, n) == UNION {[1..k -> decls] : k \in 0..n}
Units == DOMAIN UnitSizes
Programs ==
  {us \in [Units -> UNION {Lists(UserDecls, UnitSizes[u]) : u \in Units}] :
     \A u \in Units : us[u] \in Lists(UserDecls, UnitSizes[u])}

NamesInit ==
  /\ program \in [units : Programs, lib : Lists(LibraryDecls, FromLibrary)]
  /\ pass = "seed" /\ unit = 1 /\ todo = {}
  /\ found = {Entry("structs", <<"G">>, <<TheLibrary, 0>>)}
  /\ tables = {} /\ errors = {}

\* _seed_library_perks: before any unit, so that an implementation finds the
\* perk; it seeds the collector, and the first unit's merge makes it global
SeedPerks ==
  /\ pass = "seed"
  /\ found' = found \union {Entry("perks", <<program.lib[i].name>>, <<TheLibrary, i>>) :
                              i \in {j \in DOMAIN program.lib : program.lib[j].kind = "perk"}}
  /\ pass' = "collect" /\ todo' = DOMAIN program.units[1]
  /\ UNCHANGED <<program, unit, tables, errors>>

\* i is the next of decls to do: kind by kind, each kind in the order of the text
IsNext(i, decls, rank) ==
  \A j \in todo : \/ rank[decls[i].kind] < rank[decls[j].kind]
                  \/ rank[decls[i].kind] = rank[decls[j].kind] /\ i <= j

\* CollectorPass.run: the collectors of a unit, one kind after another
CollectRank == [const |-> 1, struct |-> 2, enum |-> 3, perk |-> 4, impl |-> 5,
                fn |-> 6, generic |-> 6, extend |-> 7]

\* one declaration: reported and dropped, or registered
CollectOne ==
  /\ pass = "collect"
  /\ \E i \in todo :
       LET d == program.units[unit][i]
           faults == Fault(found, d)
       IN  /\ IsNext(i, program.units[unit], CollectRank)
           /\ found' = IF faults = {} THEN found \union Adds(found, d, <<unit, i>>) ELSE found
           /\ errors' = errors \union {Report(c, d) : c \in faults}
           /\ todo' = todo \ {i}
  /\ UNCHANGED <<program, pass, unit, tables>>

\* SymbolTableMerger: the first entry of a key stays
Merge(global, tb) ==
  global \union {e \in tb : ~Has(global, e.in, e.key)}

\* the end of a unit, and after the last one the manifest; its perks were seeded
MergeUnit ==
  /\ pass = "collect" /\ todo = {}
  /\ tables' = Merge(tables, found)
  /\ IF unit < Len(UnitSizes)
     THEN unit' = unit + 1 /\ todo' = DOMAIN program.units[unit + 1] /\ UNCHANGED pass
     ELSE /\ pass' = "library" /\ UNCHANGED unit
          /\ todo' = {i \in DOMAIN program.lib : program.lib[i].kind # "perk"}
  /\ UNCHANGED <<program, found, errors>>

\* a record of the manifest against the tables: [adds, errors].  A public
\* name that is taken is skipped; a private one must keep its name.
Skip == [adds |-> {}, errors |-> {}]
Add(e) == [adds |-> {e}, errors |-> {}]
Clash(d) == [adds |-> {}, errors |-> {Report("CE5007", d)}]

\* _register_library_structs, _register_library_enums
LibraryStruct(tb, d, by) ==
  IF Has(tb, "structs", <<d.name>>) THEN Skip ELSE Add(Entry("structs", <<d.name>>, by))

\* _register_library_functions
LibraryFunction(tb, d, by) ==
  IF Has(tb, "functions", <<d.name>>) THEN Skip ELSE Add(Entry("functions", <<d.name>>, by))

\* _register_library_private_functions: only a plain function clashes
LibraryPrivate(tb, d, by) ==
  IF Has(tb, "functions", <<d.name>>) THEN Clash(d)
  ELSE Add(Entry("functions", <<d.name>>, by))

\* _register_library_constants
LibraryConstant(tb, d, by) ==
  IF Has(tb, "constants", <<d.name>>) THEN Clash(d)
  ELSE Add(Entry("constants", <<d.name>>, by))

\* the methods of the local extensions of a type are looked up under the
\* type's name in a table that is keyed by types, so none is ever found
LocalExtension(tb, typeName, m) == Has(tb, "extensions", <<typeName, m>>)

\* _register_library_perk_impls
LibraryImpl(tb, d, by) ==
  IF /\ Has(tb, "perks", <<d.name>>)
     /\ ~Has(tb, "impls", <<TypeName(d.on), d.name>>)
     /\ ~LocalExtension(tb, d.on, "m")
  THEN Add(Entry("impls", <<TypeName(d.on), d.name>>, by)) ELSE Skip

\* _register_library_generic_functions: compared with generic functions only
LibraryGeneric(tb, d, by) ==
  IF Has(tb, "generics", <<d.name>>) THEN Skip ELSE Add(Entry("generics", <<d.name>>, by))

LibraryRecord(tb, d, by) ==
  CASE d.kind = "struct" -> LibraryStruct(tb, d, by)
    [] d.kind = "fn" -> LibraryFunction(tb, d, by)
    [] d.kind = "private" -> LibraryPrivate(tb, d, by)
    [] d.kind = "const" -> LibraryConstant(tb, d, by)
    [] d.kind = "impl" -> LibraryImpl(tb, d, by)
    [] d.kind = "generic" -> LibraryGeneric(tb, d, by)

LibraryRank == [struct |-> 1, fn |-> 2, private |-> 3, const |-> 4, impl |-> 5, generic |-> 6]

RegisterOne ==
  /\ pass = "library"
  /\ \E i \in todo :
       LET got == LibraryRecord(tables, program.lib[i], <<TheLibrary, i>>)
       IN  /\ IsNext(i, program.lib, LibraryRank)
           /\ tables' = tables \union got.adds
           /\ errors' = errors \union got.errors
           /\ todo' = todo \ {i}
  /\ UNCHANGED <<program, pass, unit, found>>

\* the instances of G the program has
InstancesOf(tb) == {"G<i32>"} \union {t \in {"G<A>"} : DeclaredType(tb, "A")}

\* monomorphize_all_extension_methods, and the merge of the copies into the
\* extension table: a template is copied to every instance, a concrete target
\* to its own
CopyExtensions ==
  /\ pass = "library" /\ todo = {}
  /\ tables' = tables \union
       {Entry("extensions", <<"struct", p[1], p[2].key[1]>>, p[2].by) :
          p \in {q \in InstancesOf(tables) \X {x \in tables : x.in = "templates"} :
                  q[2].key[2] \in {"", q[1]}}}
  /\ pass' = "shadow"
  /\ UNCHANGED <<program, unit, todo, found, errors>>

\* _check_extension_shadows_builtin
CheckShadows ==
  /\ pass = "shadow"
  /\ errors' = errors \union {[code |-> "CE2097", name |-> e.key[3]] :
       e \in {x \in tables : x.in = "extensions" /\ x.key[3] = "hash"}}
  /\ pass' = "perks" /\ unit' = 1
  /\ UNCHANGED <<program, todo, found, tables>>

\* resolve_unknown_type: a struct's name before an enum's
ResolvedType(tb, on) ==
  CASE on = "i32" -> <<"builtin", "i32">>
    [] on = "A" /\ Has(tb, "structs", <<"A">>) -> <<"struct", "A">>
    [] on = "A" /\ ~Has(tb, "structs", <<"A">>) /\ Has(tb, "enums", <<"A">>) -> <<"enum", "A">>
    [] IsGenericTarget(on) -> <<"struct", on>>
    [] OTHER -> <<"unknown", on>>

\* check_no_conflicts_with_regular_methods, for an implementation of P
Conflicts(tb, d) == Has(tb, "extensions", MethodKey(ResolvedType(tb, d.on), "m"))

\* validate_perk_implementation_method, of the implementations each unit has
CheckPerks ==
  /\ pass = "perks"
  /\ errors' = errors \union
       {[code |-> "CE4007", name |-> "m"] :
          i \in {j \in DOMAIN program.units[unit] :
                   /\ program.units[unit][j].kind = "impl"
                   /\ Conflicts(tables, program.units[unit][j])}}
  /\ IF unit < Len(UnitSizes) THEN unit' = unit + 1 /\ UNCHANGED pass
     ELSE pass' = "done" /\ UNCHANGED unit
  /\ UNCHANGED <<program, todo, found, tables>>

NamesNext ==
  SeedPerks \/ CollectOne \/ MergeUnit \/ RegisterOne \/ CopyExtensions
    \/ CheckShadows \/ CheckPerks

NamesSpec == NamesInit /\ [][NamesNext]_nameVars

-----------------------------------------------------------------------------
(* properties *)

TableNames == {"constants", "structs", "enums", "functions", "generics", "perks",
               "impls", "templates", "extensions"}
Words == {"c", "f", "A", "G", "P", "m", "hash", "", "builtin", "struct", "enum"} \union Targets
Codes == {"CE0004", "CE0006", "CE0101", "CE0105", "CE2046", "CE2097", "CE4001", "CE4002",
          "CE4003", "CE4007", "CE5007"}

\* An entry is of one of the tables, by a declaration; what is left to do is of
\* the unit, or of the manifest, whose turn it is.
NamesTypeOK ==
  /\ program \in [units : Programs, lib : Lists(LibraryDecls, FromLibrary)]
  /\ pass \in {"seed", "collect", "library", "shadow", "perks", "done"}
  /\ unit \in Units
  /\ todo \subseteq IF pass = "library" THEN DOMAIN program.lib ELSE DOMAIN program.units[unit]
  /\ found \union tables \subseteq [in : TableNames, key : Seq(Words), by : Nat \X Nat]
  /\ errors \subseteq [code : Codes, name : Words]

Accepted == pass = "done" /\ errors = {}
Declared == UNION {{u} \X DOMAIN program.units[u] : u \in Units}
DeclOf(w) == program.units[w[1]][w[2]]

\* a method of a type: who provides it, as an extension or through a perk
Providers(type, m) ==
  {e.by : e \in {x \in tables : x.in = "extensions" /\ x.key = MethodKey(type, m)}}
  \union (IF m = "m"
          THEN {e.by : e \in {x \in tables : /\ x.in = "impls" /\ x.by[1] # TheLibrary
                                             /\ ResolvedType(tables, x.key[1]) = type}}
          ELSE {})

\* One provider: in an accepted program the units give a type's method one
\* body at most, whichever units the declarations are in and in whichever of
\* the three ways they are written: on the type, on a template or through a
\* perk.  Four checks in three passes share the work (CE0101 twice, CE4002,
\* CE4007), and the one over the templates runs before any instance exists.
OneProvider ==
  Accepted =>
    \A type \in {<<"builtin", "i32">>, <<"struct", "A">>, <<"enum", "A">>,
                 <<"struct", "G<i32>">>, <<"struct", "G<A>">>}, m \in {"m", "hash"} :
      Cardinality(Providers(type, m)) <= 1

\* the declarations of functions, constants and perks named n
OfName(kinds, n) == {w \in Declared : DeclOf(w).kind \in kinds /\ DeclOf(w).name = n}

\* Each name is declared once: two functions, constants or perks of one name,
\* in one unit or in two, are never both in an accepted program, and the one
\* declared is the one the global tables have under the name, whatever a
\* library ships as a public name of the same table.
DeclaredOnce ==
  Accepted =>
    \A k \in {<<{"fn", "generic"}, "f">>, <<{"const"}, "c">>, <<{"perk"}, "P">>} :
      /\ Cardinality(OfName(k[1], k[2])) <= 1
      /\ \A w \in OfName(k[1], k[2]) :
           \E e \in tables : e.by = w /\ e.in = TableOf[DeclOf(w).kind] /\ e.key = <<k[2]>>

\* What an accepted program means by a name or a method is settled: at most one
\* body for a method of a type, and one declaration behind a name.
NamesExact == OneProvider /\ DeclaredOnce

\* A type has one declaration.  Broken by a struct whose name an earlier
\* unit's enum has: each looks for a struct, only the enum for an enum.
TypeOnce == Accepted => Cardinality(OfName({"struct", "enum"}, "A")) <= 1

\* A local definition wins: a call of a function the units declare reaches
\* it.  A name that is generic is called as generic, so a library's template
\* takes the calls of a plain function of the same name.
LocalWins ==
  Accepted => \A w \in OfName({"fn"}, "f") : ~Has(tables, "generics", <<"f">>)

\* No declaration is lost: an accepted extension is in the extension table of
\* some type.  Broken by an extension of a dynamic array, or of a type a later
\* unit declares.
NothingDropped ==
  Accepted => \A w \in Declared :
    (DeclOf(w).kind = "extend" /\ (DeclOf(w).on = "A" => DeclaredType(tables, "A"))) =>
      \E e \in tables : e.by = w /\ e.in = "extensions"
=============================================================================
