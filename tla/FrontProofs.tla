----------------------------- MODULE FrontProofs -----------------------------
(*****************************************************************************)
(* What Names, Libraries, Calls and Matching promise, for every value of     *)
(* their constants: a name and a method of an accepted program have one      *)
(* meaning, whatever the units and the library declare; a call of an         *)
(* accepted program runs what it was checked against, with that one's type;  *)
(* a library that is written is complete, the linked module is closed, and   *)
(* code of the library that mentions a private it ships gets the library's   *)
(* own; and a match the checks accept runs the first arm its value matches.  *)
(*****************************************************************************)
EXTENDS Names, Libraries, Calls, Matching, FiniteSetTheorems, WellFoundedInduction,
        NaturalsInduction, TLAPS

-----------------------------------------------------------------------------
(* Names: the inductive invariant. *)

FromUnits(tb) == {e \in tb : e.by[1] # TheLibrary}

\* Two entries that claim the same name, implementation or method.
Rivals(x, y) ==
  \/ x.in = y.in /\ x.in \in {"constants", "perks", "impls", "extensions"} /\ x.key = y.key
  \/ {x.in, y.in} \subseteq {"functions", "generics"} /\ x.key = y.key
  \/ x.in = "templates" /\ y.in = "templates" /\ x.key[1] = y.key[1] /\ Overlaps(x.key[2], y.key[2])

\* What units declare has no rival among what units and the library declare.
NoRivals == \A x \in FromUnits(found), y \in found : Rivals(x, y) => x = y

\* An entry tells what its declaration was.
Origins ==
  \A e \in found :
    /\ e.by[1] = TheLibrary => e.in \in {"structs", "perks"}
    /\ e.by[1] # TheLibrary => e.by \in Declared
    /\ e.in = "impls" => /\ DeclOf(e.by).kind = "impl" /\ DeclOf(e.by).name = "P"
                         /\ DeclOf(e.by).on \in {"i32", "A", "G<i32>"}
                         /\ e.key = <<DeclOf(e.by).on, "P">>
    /\ e.in = "templates" => e.key[1] \in Words
    /\ e.in = "extensions" => e.key[2] \in {"i32", "A"}

\* The declarations that were collected.
Collected ==
  {w \in Declared :
     \/ pass \notin {"seed", "collect"}
     \/ pass = "collect" /\ (w[1] < unit \/ (w[1] = unit /\ w[2] \notin todo))}

PlainKinds == {"const", "fn", "generic", "perk"}

\* Without an error each of them has its entry.
AllKept ==
  errors = {} =>
    \A w \in Collected :
      DeclOf(w).kind \in PlainKinds =>
        Entry(TableOf[DeclOf(w).kind], <<DeclOf(w).name>>, w) \in found

Later == {"library", "shadow", "perks", "done"}

\* The global tables have what the units declared, and beside it what the
\* library adds, and in the end the copies of the templates.
Merged ==
  /\ pass = "seed" => unit = 1 /\ FromUnits(found) = {}
  /\ pass \notin {"collect", "library"} => todo = {}
  /\ pass \in {"seed", "collect"} => tables \subseteq found
  /\ pass = "library" => \A i \in todo : program.lib[i].kind # "perk"
  /\ pass \in Later =>
       /\ \A e \in FromUnits(found) : e.in \notin {"structs", "enums"} => e \in tables
       /\ \A e \in tables : e.in = "templates" => e \in found
       /\ \A e \in FromUnits(tables) : e.in = "impls" => e \in found
  /\ pass = "library" => \A e \in tables : e.in = "extensions" => e \in found

\* A method of a type has one extension.
OneExtension ==
  pass \in Later =>
    \A x, y \in tables : x.in = "extensions" /\ y.in = "extensions" /\ x.key = y.key => x = y

\* The implementations looked at so far do not meet an extension.
ImplsApart ==
  (pass \in {"perks", "done"} /\ errors = {}) =>
    \A w \in Declared :
      (DeclOf(w).kind = "impl" /\ (pass = "done" \/ w[1] < unit)) => ~Conflicts(tables, DeclOf(w))

NamesInv ==
  /\ NamesTypeOK /\ NoRivals /\ Origins /\ AllKept /\ Merged /\ OneExtension /\ ImplsApart
-----------------------------------------------------------------------------
(* Declarations. *)

LEMMA WordsFacts ==
  /\ "c" \in Words /\ "f" \in Words /\ "A" \in Words /\ "P" \in Words /\ "m" \in Words
  /\ "hash" \in Words /\ "" \in Words /\ "G" \in Words
  /\ "builtin" \in Words /\ "struct" \in Words /\ "enum" \in Words /\ "i32" \in Words
  /\ "G<i32>" \in Words /\ "G<A>" \in Words
  /\ \A t \in Targets : t \in Words
  BY DEF Words, Targets

LEMMA DeclFacts ==
  ASSUME NEW d \in UserDecls
  PROVE  /\ d = Decl(d.kind, d.name, d.on) /\ d.name \in Words
         /\ d.kind \in {"const", "struct", "enum", "fn", "generic", "perk", "impl", "extend"}
         /\ d.kind = "impl" => (d.name = "P" /\ d.on \in {"i32", "A", "G<i32>"})
         /\ d.kind \in {"impl", "extend"} => d.on \in Targets
<1>1. CASE d \in {Decl("const", "c", "-"), Decl("struct", "A", "-"), Decl("enum", "A", "-"),
                 Decl("fn", "f", "-"), Decl("generic", "f", "-"), Decl("perk", "P", "-")}
  <2>1. d.name \in {"c", "A", "f", "P"} /\ d = Decl(d.kind, d.name, d.on)
    BY <1>1 DEF Decl
  <2>2. d.kind \in {"const", "struct", "enum", "fn", "generic", "perk"}
    BY <1>1 DEF Decl
  <2>3. d.name \in Words
    BY <2>1, WordsFacts
  <2> QED
    BY <2>1, <2>2, <2>3
<1>2. CASE d \in {Decl("impl", "P", t) : t \in {"i32", "A", "G<i32>"}}
  <2>1. PICK t \in {"i32", "A", "G<i32>"} : d = Decl("impl", "P", t)
    BY <1>2
  <2>2. d.kind = "impl" /\ d.name = "P" /\ d.on = t /\ d = Decl(d.kind, d.name, d.on)
    BY <2>1 DEF Decl
  <2>3. t \in Targets
    BY DEF Targets
  <2> QED
    BY <2>2, <2>3, WordsFacts
<1>3. CASE d \in {Decl("extend", "m", t) : t \in Targets}
  <2>1. PICK t \in Targets : d = Decl("extend", "m", t)
    BY <1>3
  <2>2. d.kind = "extend" /\ d.name = "m" /\ d.on = t /\ d = Decl(d.kind, d.name, d.on)
    BY <2>1 DEF Decl
  <2> QED
    BY <2>2, WordsFacts
<1>4. CASE d \in {Decl("extend", "hash", t) : t \in {"i32", "G@(T)"}}
  <2>1. PICK t \in {"i32", "G@(T)"} : d = Decl("extend", "hash", t)
    BY <1>4
  <2>2. d.kind = "extend" /\ d.name = "hash" /\ d.on = t /\ d = Decl(d.kind, d.name, d.on)
    BY <2>1 DEF Decl
  <2>3. t \in Targets
    BY DEF Targets
  <2> QED
    BY <2>2, <2>3, WordsFacts
<1> QED
  BY <1>1, <1>2, <1>3, <1>4 DEF UserDecls

LEMMA TableOfFacts ==
  /\ TableOf["const"] = "constants" /\ TableOf["struct"] = "structs" /\ TableOf["enum"] = "enums"
  /\ TableOf["fn"] = "functions" /\ TableOf["generic"] = "generics" /\ TableOf["perk"] = "perks"
  BY DEF TableOf

LEMMA EntryFacts ==
  ASSUME NEW t, NEW k, NEW b
  PROVE  Entry(t, k, b).in = t /\ Entry(t, k, b).key = k /\ Entry(t, k, b).by = b
  BY DEF Entry

LEMMA PlainTargetFacts ==
  ASSUME NEW tb, NEW on, NEW t \in PlainTarget(tb, on)
  PROVE  /\ t[1] \in Words /\ t[2] \in {"i32", "A"}
         /\ \A u \in PlainTarget(tb, on) : u = t
<1>1. CASE on = "i32"
  <2>1. PlainTarget(tb, on) = {<<"builtin", "i32">>}
    BY <1>1 DEF PlainTarget
  <2>2. t = <<"builtin", "i32">> /\ \A u \in PlainTarget(tb, on) : u = t
    BY <2>1
  <2> QED
    BY <2>2, WordsFacts
<1>2. CASE on = "A"
  <2>1. CASE Has(tb, "structs", <<"A">>)
    <3>1. PlainTarget(tb, on) = {<<"struct", "A">>}
      BY <1>2, <2>1 DEF PlainTarget
    <3>2. t = <<"struct", "A">> /\ \A u \in PlainTarget(tb, on) : u = t
      BY <3>1
    <3> QED
      BY <3>2, WordsFacts
  <2>2. CASE ~Has(tb, "structs", <<"A">>) /\ Has(tb, "enums", <<"A">>)
    <3>1. PlainTarget(tb, on) = {<<"enum", "A">>}
      BY <1>2, <2>2 DEF PlainTarget
    <3>2. t = <<"enum", "A">> /\ \A u \in PlainTarget(tb, on) : u = t
      BY <3>1
    <3> QED
      BY <3>2, WordsFacts
  <2>3. CASE ~Has(tb, "structs", <<"A">>) /\ ~Has(tb, "enums", <<"A">>)
    <3>1. PlainTarget(tb, on) = {}
      BY <1>2, <2>3 DEF PlainTarget
    <3> QED
      BY <3>1
  <2> QED
    BY <2>1, <2>2, <2>3
<1>3. CASE on \notin {"i32", "A"}
  <2>1. PlainTarget(tb, on) = {}
    BY <1>3 DEF PlainTarget
  <2> QED
    BY <2>1
<1> QED
  BY <1>1, <1>2, <1>3

\* A plain name: constants, functions and perks.
LEMMA PlainAdds ==
  ASSUME NEW tb, NEW d \in UserDecls, NEW by, d.kind \notin {"impl", "extend"}
  PROVE  Adds(tb, d, by) = {Entry(TableOf[d.kind], <<d.name>>, by)}
  BY DeclFacts DEF Adds

LEMMA TemplateAdds ==
  ASSUME NEW tb, NEW d \in UserDecls, NEW by, d.kind = "extend", IsGenericTarget(d.on)
  PROVE  Adds(tb, d, by) = {Entry("templates", <<d.name, TargetKey(tb, d.on)>>, by)}
  BY DEF Adds

LEMMA ExtensionAdds ==
  ASSUME NEW tb, NEW d \in UserDecls, NEW by, d.kind = "extend", ~IsGenericTarget(d.on)
  PROVE  Adds(tb, d, by) = {Entry("extensions", MethodKey(t, d.name), by) : t \in PlainTarget(tb, d.on)}
  BY DEF Adds

LEMMA ImplAdds ==
  ASSUME NEW tb, NEW d \in UserDecls, NEW by, d.kind = "impl"
  PROVE  Adds(tb, d, by) = {Entry("impls", <<d.on, d.name>>, by)}
  BY DEF Adds, TypeName

LEMMA WordTuples ==
  /\ \A a \in Words : <<a>> \in Seq(Words)
  /\ \A a, b \in Words : <<a, b>> \in Seq(Words)
  /\ \A a, b, c \in Words : <<a, b, c>> \in Seq(Words)
  OBVIOUS

\* What a sound declaration adds: one entry at most, without a rival.
LEMMA AddsFacts ==
  ASSUME NEW tb, NEW d \in UserDecls, NEW by, Fault(tb, d) = {}, NEW e \in Adds(tb, d, by)
  PROVE  /\ e.by = by /\ e.in \in TableNames /\ e.key \in Seq(Words) /\ e = Entry(e.in, e.key, by)
         /\ \A f \in Adds(tb, d, by) : f = e
         /\ \A x \in tb : ~Rivals(x, e) /\ ~Rivals(e, x)
         /\ e.in = "impls" => (d.kind = "impl" /\ e.key = <<d.on, "P">>)
         /\ e.in = "templates" => e.key[1] \in Words
         /\ e.in = "extensions" => e.key[2] \in {"i32", "A"}
<1>w. d.name \in Words /\ <<d.name>> \in Seq(Words)
  BY DeclFacts, WordTuples
<1>1. CASE d.kind = "const"
  <2>1. e = Entry("constants", <<d.name>>, by) /\ Adds(tb, d, by) = {e}
    BY <1>1, PlainAdds, TableOfFacts
  <2>2. ~Has(tb, "constants", <<d.name>>)
    BY <1>1 DEF Fault, ConstantFault
  <2>3. e.in = "constants" /\ e.key = <<d.name>>
    BY <2>1, EntryFacts
  <2>4. \A x \in tb : ~Rivals(x, e) /\ ~Rivals(e, x)
    BY <2>2, <2>3 DEF Rivals, Has
  <2>5. e.by = by /\ e.in \in TableNames /\ e.key \in Seq(Words) /\ e = Entry(e.in, e.key, by)
    BY <1>w, <2>1 DEF Entry, TableNames
  <2> QED
    BY <2>1, <2>3, <2>4, <2>5
<1>2. CASE d.kind \in {"struct", "enum"}
  <2>1. PICK t \in {"structs", "enums"} : e = Entry(t, <<d.name>>, by) /\ Adds(tb, d, by) = {e}
    BY <1>2, PlainAdds, TableOfFacts
  <2>3. e.in = t /\ e.key = <<d.name>>
    BY <2>1, EntryFacts
  <2>4. \A x \in tb : ~Rivals(x, e) /\ ~Rivals(e, x)
    BY <2>3 DEF Rivals
  <2>5. e.by = by /\ e.in \in TableNames /\ e.key \in Seq(Words) /\ e = Entry(e.in, e.key, by)
    BY <1>w, <2>1 DEF Entry, TableNames
  <2> QED
    BY <2>1, <2>3, <2>4, <2>5
<1>3. CASE d.kind \in {"fn", "generic"}
  <2>1. PICK t \in {"functions", "generics"} : e = Entry(t, <<d.name>>, by) /\ Adds(tb, d, by) = {e}
    BY <1>3, PlainAdds, TableOfFacts
  <2>2. \A u \in {"functions", "generics"} : ~Has(tb, u, <<d.name>>)
    BY <1>3 DEF Fault, PlainFault, GenericFault, HasAny
  <2>3. e.in = t /\ e.key = <<d.name>>
    BY <2>1, EntryFacts
  <2>4. \A x \in tb : ~Rivals(x, e) /\ ~Rivals(e, x)
    BY <2>2, <2>3 DEF Rivals, Has
  <2>5. e.by = by /\ e.in \in TableNames /\ e.key \in Seq(Words) /\ e = Entry(e.in, e.key, by)
    BY <1>w, <2>1 DEF Entry, TableNames
  <2> QED
    BY <2>1, <2>3, <2>4, <2>5
<1>4. CASE d.kind = "perk"
  <2>1. e = Entry("perks", <<d.name>>, by) /\ Adds(tb, d, by) = {e}
    BY <1>4, PlainAdds, TableOfFacts
  <2>2. ~Has(tb, "perks", <<d.name>>)
    BY <1>4 DEF Fault, PerkFault
  <2>3. e.in = "perks" /\ e.key = <<d.name>>
    BY <2>1, EntryFacts
  <2>4. \A x \in tb : ~Rivals(x, e) /\ ~Rivals(e, x)
    BY <2>2, <2>3 DEF Rivals, Has
  <2>5. e.by = by /\ e.in \in TableNames /\ e.key \in Seq(Words) /\ e = Entry(e.in, e.key, by)
    BY <1>w, <2>1 DEF Entry, TableNames
  <2> QED
    BY <2>1, <2>3, <2>4, <2>5
<1>5. CASE d.kind = "impl"
  <2>0. d.name = "P" /\ d.on \in Targets
    BY <1>5, DeclFacts
  <2>1. e = Entry("impls", <<d.on, "P">>, by) /\ Adds(tb, d, by) = {e}
    BY <1>5, <2>0, ImplAdds
  <2>2. ~Has(tb, "impls", <<d.on, "P">>)
    BY <1>5, <2>0 DEF Fault, ImplFault, TypeName
  <2>3. e.in = "impls" /\ e.key = <<d.on, "P">>
    BY <2>1, EntryFacts
  <2>4. \A x \in tb : ~Rivals(x, e) /\ ~Rivals(e, x)
    BY <2>2, <2>3 DEF Rivals, Has
  <2>5. <<d.on, "P">> \in Seq(Words)
    BY <2>0, WordsFacts, WordTuples
  <2>6. e.by = by /\ e.in \in TableNames /\ e.key \in Seq(Words) /\ e = Entry(e.in, e.key, by)
    BY <2>1, <2>5 DEF Entry, TableNames
  <2> QED
    BY <1>5, <2>1, <2>3, <2>4, <2>6
<1>6. CASE d.kind = "extend" /\ IsGenericTarget(d.on)
  <2> DEFINE k == <<d.name, TargetKey(tb, d.on)>>
  <2>1. e = Entry("templates", k, by) /\ Adds(tb, d, by) = {e}
    BY <1>6, TemplateAdds
  <2>2. \A x \in tb : x.in = "templates" /\ x.key[1] = d.name => ~Overlaps(x.key[2], TargetKey(tb, d.on))
    BY <1>6 DEF Fault, ExtensionFault
  <2>3. e.in = "templates" /\ e.key[1] = d.name /\ e.key[2] = TargetKey(tb, d.on)
    BY <2>1, EntryFacts
  <2>4. \A x \in tb : ~Rivals(x, e) /\ ~Rivals(e, x)
    BY <2>2, <2>3 DEF Rivals, Overlaps
  <2>5. TargetKey(tb, d.on) = "" \/ TargetKey(tb, d.on) = d.on
    BY DEF TargetKey
  <2>6. TargetKey(tb, d.on) \in Words
    BY <1>6, <2>5, DeclFacts, WordsFacts
  <2>7. k \in Seq(Words)
    BY <1>w, <2>6, WordTuples
  <2>8. e.by = by /\ e.in \in TableNames /\ e.key \in Seq(Words) /\ e = Entry(e.in, e.key, by)
    BY <2>1, <2>7 DEF Entry, TableNames
  <2> QED
    BY <1>w, <2>1, <2>3, <2>4, <2>8
<1>7. CASE d.kind = "extend" /\ ~IsGenericTarget(d.on)
  <2>1. PICK t \in PlainTarget(tb, d.on) : e = Entry("extensions", MethodKey(t, d.name), by)
    BY <1>7, ExtensionAdds
  <2>2. t[1] \in Words /\ t[2] \in {"i32", "A"} /\ \A u \in PlainTarget(tb, d.on) : u = t
    BY PlainTargetFacts
  <2>3. \A f \in Adds(tb, d, by) : f = e
    BY <1>7, <2>1, <2>2, ExtensionAdds
  <2>4. ~Has(tb, "extensions", MethodKey(t, d.name))
    BY <1>7 DEF Fault, ExtensionFault
  <2>5. e.in = "extensions" /\ e.key = MethodKey(t, d.name)
    BY <2>1, EntryFacts
  <2>6. \A x \in tb : ~Rivals(x, e) /\ ~Rivals(e, x)
    BY <2>4, <2>5 DEF Rivals, Has
  <2>7. MethodKey(t, d.name)[2] = t[2]
    BY DEF MethodKey
  <2>8. MethodKey(t, d.name) \in Seq(Words)
    BY <1>w, <2>2, WordTuples, WordsFacts DEF MethodKey
  <2>9. e.by = by /\ e.in \in TableNames /\ e.key \in Seq(Words) /\ e = Entry(e.in, e.key, by)
    BY <2>1, <2>8 DEF Entry, TableNames
  <2> QED
    BY <2>2, <2>3, <2>5, <2>6, <2>7, <2>9
<1> QED
  BY <1>1, <1>2, <1>3, <1>4, <1>5, <1>6, <1>7, DeclFacts
-----------------------------------------------------------------------------
(* The program. *)

LEMMA ProgramFacts ==
  ASSUME NamesTypeOK
  PROVE  /\ Units = 1 .. Len(UnitSizes) /\ Len(UnitSizes) \in Nat /\ Len(UnitSizes) >= 1
         /\ \A u \in Units : \A i \in DOMAIN program.units[u] :
               i \in Nat /\ program.units[u][i] \in UserDecls
         /\ \A i \in DOMAIN program.lib : i \in Nat /\ program.lib[i] \in LibraryDecls
<1>1. Units = 1 .. Len(UnitSizes) /\ Len(UnitSizes) \in Nat /\ Len(UnitSizes) >= 1
  BY SizesAssumption DEF Units
<1>2. program \in [units : Programs, lib : Lists(LibraryDecls, FromLibrary)]
  BY DEF NamesTypeOK
<1>3. ASSUME NEW decls, NEW n, NEW s \in Lists(decls, n), NEW i \in DOMAIN s
      PROVE  i \in Nat /\ s[i] \in decls
  <2>1. PICK k \in 0 .. n : s \in [1 .. k -> decls]
    BY DEF Lists
  <2> QED
    BY <2>1
<1>4. \A u \in Units : program.units[u] \in Lists(UserDecls, UnitSizes[u])
  BY <1>2 DEF Programs
<1>5. program.lib \in Lists(LibraryDecls, FromLibrary)
  BY <1>2
<1> QED
  BY <1>1, <1>3, <1>4, <1>5

LEMMA DeclaredFacts ==
  ASSUME NamesTypeOK
  PROVE  /\ \A w \in Declared : /\ w = <<w[1], w[2]>> /\ w[1] \in Units /\ w[2] \in DOMAIN program.units[w[1]]
                               /\ DeclOf(w) \in UserDecls /\ w \in Nat \X Nat /\ w[1] # TheLibrary
         /\ \A u \in Units : \A i \in DOMAIN program.units[u] :
               <<u, i>> \in Declared /\ DeclOf(<<u, i>>) = program.units[u][i]
<1>1. ASSUME NEW w \in Declared
      PROVE  /\ w = <<w[1], w[2]>> /\ w[1] \in Units /\ w[2] \in DOMAIN program.units[w[1]]
             /\ DeclOf(w) \in UserDecls /\ w \in Nat \X Nat /\ w[1] # TheLibrary
  <2>1. PICK u \in Units : w \in {u} \X DOMAIN program.units[u]
    BY DEF Declared
  <2>2. w = <<w[1], w[2]>> /\ w[1] = u /\ w[2] \in DOMAIN program.units[u]
    BY <2>1
  <2>3. u \in Nat /\ u # 0 /\ w[2] \in Nat /\ program.units[u][w[2]] \in UserDecls
    BY <2>2, ProgramFacts
  <2> QED
    BY <2>2, <2>3 DEF DeclOf, TheLibrary
<1>2. ASSUME NEW u \in Units, NEW i \in DOMAIN program.units[u]
      PROVE  <<u, i>> \in Declared /\ DeclOf(<<u, i>>) = program.units[u][i]
  <2>1. <<u, i>> \in {u} \X DOMAIN program.units[u]
    OBVIOUS
  <2> QED
    BY <2>1 DEF Declared, DeclOf
<1> QED
  BY <1>1, <1>2

LEMMA FaultCodes ==
  ASSUME NEW tb, NEW d \in UserDecls
  PROVE  Fault(tb, d) \subseteq Codes
<1>1. CASE d.kind = "const"
  BY <1>1 DEF Fault, ConstantFault, Codes
<1>2. CASE d.kind = "struct"
  BY <1>2 DEF Fault, StructFault, Codes
<1>3. CASE d.kind = "enum"
  BY <1>3 DEF Fault, EnumFault, Codes
<1>4. CASE d.kind = "fn"
  BY <1>4 DEF Fault, PlainFault, Codes
<1>5. CASE d.kind = "generic"
  BY <1>5 DEF Fault, GenericFault, Codes
<1>6. CASE d.kind = "perk"
  BY <1>6 DEF Fault, PerkFault, Codes
<1>7. CASE d.kind = "impl"
  BY <1>7 DEF Fault, ImplFault, Codes
<1>8. CASE d.kind = "extend"
  BY <1>8 DEF Fault, ExtensionFault, Codes
<1> QED
  BY <1>1, <1>2, <1>3, <1>4, <1>5, <1>6, <1>7, <1>8, DeclFacts

LEMMA LibraryDeclFacts ==
  ASSUME NEW d \in LibraryDecls
  PROVE  /\ d.name \in Words
         /\ d.kind \in {"const", "struct", "fn", "private", "generic", "perk", "impl"}
         /\ d.kind = "impl" => d.on \in Words
<1>1. /\ d.name \in {"c", "A", "f", "P"}
      /\ d.kind \in {"const", "struct", "fn", "private", "generic", "perk", "impl"}
      /\ d.kind = "impl" => d.on \in {"i32", "A"}
  BY DEF LibraryDecls, Decl
<1> QED
  BY <1>1, WordsFacts

\* What a record of the manifest adds is neither a template nor an extension.
LEMMA LibraryAdds ==
  ASSUME NEW tb, NEW d \in LibraryDecls, d.kind # "perk", NEW by
  PROVE  /\ LibraryRecord(tb, d, by).errors \subseteq [code : Codes, name : Words]
         /\ \A e \in LibraryRecord(tb, d, by).adds :
               \E t \in TableNames \ {"templates", "extensions"}, k \in Seq(Words) : e = Entry(t, k, by)
<1> DEFINE Sound(r) == /\ r.errors \subseteq [code : Codes, name : Words]
                       /\ \A e \in r.adds : \E t \in TableNames \ {"templates", "extensions"}, k \in Seq(Words) :
                                              e = Entry(t, k, by)
<1>1. Sound(Skip)
  BY DEF Skip
<1>2. ASSUME NEW t \in TableNames \ {"templates", "extensions"}, NEW k \in Seq(Words)
      PROVE  Sound(Add(Entry(t, k, by)))
  BY DEF Add
<1>3. d.name \in Words
  BY LibraryDeclFacts
<1>4. Sound(Clash(d))
  BY <1>3 DEF Clash, Report, Codes
<1>5. <<d.name>> \in Seq(Words)
  BY <1>3, WordTuples
<1>6. \A t \in {"structs", "functions", "constants", "generics", "impls"} :
        t \in TableNames \ {"templates", "extensions"}
  BY DEF TableNames
<1>7. \A t \in {"structs", "functions", "constants", "generics"} : Sound(Add(Entry(t, <<d.name>>, by)))
  BY <1>2, <1>5, <1>6
<1> HIDE DEF Sound
<1>8. Sound(LibraryRecord(tb, d, by))
  <2>1. CASE d.kind = "struct"
    BY <2>1, <1>1, <1>7 DEF LibraryRecord, LibraryStruct
  <2>2. CASE d.kind = "fn"
    BY <2>2, <1>1, <1>7 DEF LibraryRecord, LibraryFunction
  <2>3. CASE d.kind = "private"
    BY <2>3, <1>4, <1>7 DEF LibraryRecord, LibraryPrivate
  <2>4. CASE d.kind = "const"
    BY <2>4, <1>4, <1>7 DEF LibraryRecord, LibraryConstant
  <2>5. CASE d.kind = "generic"
    BY <2>5, <1>1, <1>7 DEF LibraryRecord, LibraryGeneric
  <2>6. CASE d.kind = "impl"
    <3>1. <<TypeName(d.on), d.name>> \in Seq(Words)
      BY <2>6, <1>3, LibraryDeclFacts, WordTuples DEF TypeName
    <3>2. Sound(Add(Entry("impls", <<TypeName(d.on), d.name>>, by)))
      BY <3>1, <1>2, <1>6
    <3> QED
      BY <2>6, <3>2, <1>1 DEF LibraryRecord, LibraryImpl
  <2> QED
    BY <2>1, <2>2, <2>3, <2>4, <2>5, <2>6, LibraryDeclFacts
<1> QED
  BY <1>8 DEF Sound
-----------------------------------------------------------------------------
(* The invariant holds, pass by pass. *)

LEMMA EntryType ==
  ASSUME NEW t \in TableNames, NEW k \in Seq(Words), NEW b \in Nat \X Nat
  PROVE  Entry(t, k, b) \in [in : TableNames, key : Seq(Words), by : Nat \X Nat]
  BY DEF Entry

LEMMA NamesInitInv == NamesInit => NamesInv
<1> SUFFICES ASSUME NamesInit PROVE NamesInv
  OBVIOUS
<1> USE DEF NamesInit
<1> DEFINE g == Entry("structs", <<"G">>, <<TheLibrary, 0>>)
<1>1. g.by[1] = TheLibrary /\ g.in = "structs" /\ found = {g}
  BY EntryFacts
<1>2. FromUnits(found) = {}
  BY <1>1 DEF FromUnits
<1>3. NamesTypeOK
  <2>1. "structs" \in TableNames
    BY DEF TableNames
  <2>2. <<"G">> \in Seq(Words)
    BY WordTuples, WordsFacts
  <2>3. <<TheLibrary, 0>> \in Nat \X Nat
    BY DEF TheLibrary
  <2>4. g \in [in : TableNames, key : Seq(Words), by : Nat \X Nat]
    BY <2>1, <2>2, <2>3, EntryType
  <2>5. unit \in Units
    BY SizesAssumption DEF Units
  <2> QED
    BY <1>1, <2>4, <2>5 DEF NamesTypeOK
<1>4. NoRivals /\ Origins
  BY <1>1, <1>2 DEF NoRivals, Origins
<1>5. Collected = {}
  BY DEF Collected
<1> QED
  BY <1>2, <1>3, <1>4, <1>5 DEF NamesInv, AllKept, Merged, OneExtension, ImplsApart, Later

LEMMA SeedPerksInv ==
  ASSUME NamesInv, SeedPerks
  PROVE  NamesInv'
<1> DEFINE new == {Entry("perks", <<program.lib[i].name>>, <<TheLibrary, i>>) :
                     i \in {j \in DOMAIN program.lib : program.lib[j].kind = "perk"}}
<1> USE DEF NamesInv
<1>0. /\ pass = "seed" /\ pass' = "collect" /\ todo' = DOMAIN program.units[1] /\ found' = found \union new
      /\ program' = program /\ unit' = unit /\ tables' = tables /\ errors' = errors
  BY DEF SeedPerks
<1>1. unit = 1 /\ FromUnits(found) = {} /\ tables \subseteq found
  BY <1>0 DEF Merged
<1>2. ASSUME NEW e \in new
      PROVE  /\ e \in [in : TableNames, key : Seq(Words), by : Nat \X Nat]
             /\ e.in = "perks" /\ e.by[1] = TheLibrary
  <2>1. PICK i \in DOMAIN program.lib : e = Entry("perks", <<program.lib[i].name>>, <<TheLibrary, i>>)
    OBVIOUS
  <2>2. i \in Nat /\ program.lib[i].name \in Words
    BY ProgramFacts, LibraryDeclFacts
  <2>3. PICK k \in Seq(Words) : k = <<program.lib[i].name>>
    BY <2>2, WordTuples
  <2>4. PICK b \in Nat \X Nat : b = <<TheLibrary, i>>
    BY <2>2 DEF TheLibrary
  <2>5. e = Entry("perks", k, b) /\ b[1] = TheLibrary
    BY <2>1, <2>3, <2>4
  <2>6. "perks" \in TableNames
    BY DEF TableNames
  <2> QED
    BY <2>5, <2>6, EntryType, EntryFacts
<1> HIDE DEF new
<1>3. NamesTypeOK'
  BY <1>0, <1>1, <1>2 DEF NamesTypeOK
<1>4. FromUnits(found') = {}
  BY <1>0, <1>1, <1>2 DEF FromUnits
<1>5. NoRivals'
  BY <1>4 DEF NoRivals
<1>6. Origins'
  <2> SUFFICES ASSUME NEW e \in found'
               PROVE  /\ e.by[1] = TheLibrary => e.in \in {"structs", "perks"}
                      /\ e.by[1] # TheLibrary => FALSE
                      /\ e.in \notin {"impls", "templates", "extensions"}
    BY DEF Origins
  <2>1. e.by[1] = TheLibrary
    BY <1>4 DEF FromUnits
  <2>2. CASE e \in new
    BY <2>1, <2>2, <1>2
  <2>3. CASE e \in found
    BY <2>1, <2>3 DEF Origins
  <2> QED
    BY <1>0, <2>2, <2>3
<1>7. Collected' = {}
  <2> SUFFICES ASSUME NEW w \in Declared', w[1] < 1 \/ (w[1] = 1 /\ w[2] \notin DOMAIN program.units[1])
               PROVE  FALSE
    BY <1>0, <1>1 DEF Collected
  <2>1. w \in Declared
    BY <1>0 DEF Declared
  <2> QED
    BY <2>1, DeclaredFacts, ProgramFacts
<1> QED
  BY <1>0, <1>1, <1>3, <1>5, <1>6, <1>7 DEF AllKept, Merged, OneExtension, ImplsApart, Later

LEMMA CollectOneInv ==
  ASSUME NamesInv, CollectOne
  PROVE  NamesInv'
<1> USE DEF NamesInv
<1>1. PICK i \in todo :
        LET d == program.units[unit][i]
            faults == Fault(found, d)
        IN  /\ found' = IF faults = {} THEN found \union Adds(found, d, <<unit, i>>) ELSE found
            /\ errors' = errors \union {Report(c, d) : c \in faults}
            /\ todo' = todo \ {i}
  BY DEF CollectOne
<1>2. /\ pass = "collect" /\ pass' = pass /\ program' = program /\ unit' = unit /\ tables' = tables
  BY DEF CollectOne
<1>3. unit \in Units /\ i \in DOMAIN program.units[unit]
  BY <1>2 DEF NamesTypeOK
<1>4. PICK d : d = program.units[unit][i]
  OBVIOUS
<1>5. PICK by : by = <<unit, i>>
  OBVIOUS
<1>6. d \in UserDecls /\ by \in Declared /\ DeclOf(by) = d /\ by \in Nat \X Nat /\ by[1] # TheLibrary
  BY <1>3, <1>4, <1>5, ProgramFacts, DeclaredFacts
<1>7. /\ Fault(found, d) = {} => found' = found \union Adds(found, d, by)
      /\ Fault(found, d) # {} => found' = found
      /\ errors' = errors \union {Report(c, d) : c \in Fault(found, d)}
      /\ todo' = todo \ {i}
  BY <1>1, <1>4, <1>5
<1>8. ASSUME NEW e \in found', e \notin found
      PROVE  /\ e.by = by /\ e.in \in TableNames /\ e.key \in Seq(Words) /\ e = Entry(e.in, e.key, by)
             /\ \A f \in found' \ found : f = e
             /\ \A x \in found : ~Rivals(x, e) /\ ~Rivals(e, x)
             /\ e.in = "impls" => (d.kind = "impl" /\ e.key = <<d.on, "P">>)
             /\ e.in = "templates" => e.key[1] \in Words
             /\ e.in = "extensions" => e.key[2] \in {"i32", "A"}
  <2>1. Fault(found, d) = {} /\ e \in Adds(found, d, by) /\ found' \ found \subseteq Adds(found, d, by)
    BY <1>7, <1>8
  <2> QED
    BY <2>1, <1>6, AddsFacts
<1>9. found \subseteq found'
  BY <1>7
<1>10. DeclOf(by)' = d /\ Declared' = Declared /\ \A w : DeclOf(w)' = DeclOf(w)
  BY <1>2, <1>6 DEF DeclOf, Declared
<1>11. NamesTypeOK'
  <2>1. ASSUME NEW e \in found'
        PROVE  e \in [in : TableNames, key : Seq(Words), by : Nat \X Nat]
    BY <1>6, <1>8, EntryType DEF NamesTypeOK
  <2>2. errors' \subseteq [code : Codes, name : Words]
    <3>1. Fault(found, d) \subseteq Codes /\ d.name \in Words
      BY <1>6, FaultCodes, DeclFacts
    <3>2. \A c \in Fault(found, d) : Report(c, d) \in [code : Codes, name : Words]
      BY <3>1 DEF Report
    <3> QED
      BY <1>7, <3>2 DEF NamesTypeOK
  <2>3. todo' \subseteq todo
    BY <1>7
  <2> QED
    BY <1>2, <2>1, <2>2, <2>3 DEF NamesTypeOK
<1>12. NoRivals'
  <2> SUFFICES ASSUME NEW x \in found', x.by[1] # TheLibrary, NEW y \in found', Rivals(x, y)
               PROVE  x = y
    BY DEF NoRivals, FromUnits
  <2>1. CASE x \in found /\ y \in found
    BY <2>1 DEF NoRivals, FromUnits
  <2>2. CASE x \notin found \/ y \notin found
    BY <2>2, <1>8
  <2> QED
    BY <2>1, <2>2
<1>13. Origins'
  <2> SUFFICES ASSUME NEW e \in found'
               PROVE  /\ e.by[1] = TheLibrary => e.in \in {"structs", "perks"}
                      /\ e.by[1] # TheLibrary => e.by \in Declared
                      /\ e.in = "impls" => /\ DeclOf(e.by).kind = "impl" /\ DeclOf(e.by).name = "P"
                                           /\ DeclOf(e.by).on \in {"i32", "A", "G<i32>"}
                                           /\ e.key = <<DeclOf(e.by).on, "P">>
                      /\ e.in = "templates" => e.key[1] \in Words
                      /\ e.in = "extensions" => e.key[2] \in {"i32", "A"}
    BY <1>10 DEF Origins
  <2>1. CASE e \in found
    BY <2>1 DEF Origins
  <2>2. CASE e \notin found
    BY <2>2, <1>6, <1>8, DeclFacts
  <2> QED
    BY <2>1, <2>2
<1>14. AllKept'
  <2> SUFFICES ASSUME errors' = {}, NEW w \in Collected', DeclOf(w).kind \in PlainKinds
               PROVE  Entry(TableOf[DeclOf(w).kind], <<DeclOf(w).name>>, w) \in found'
    BY <1>10 DEF AllKept
  <2>1. errors = {} /\ Fault(found, d) = {}
    BY <1>7
  <2>2. CASE w = by
    <3>1. d.kind \notin {"impl", "extend"}
      BY <2>2, <1>6 DEF PlainKinds
    <3> QED
      BY <2>1, <2>2, <3>1, <1>6, <1>7, PlainAdds
  <2>3. CASE w # by
    <3>1. w \in Declared /\ (w[1] < unit \/ (w[1] = unit /\ w[2] \notin todo'))
      BY <1>2, <1>10 DEF Collected
    <3>2. w = <<w[1], w[2]>>
      BY <3>1, DeclaredFacts
    <3>3. w[1] < unit \/ (w[1] = unit /\ w[2] \notin todo)
      BY <3>1, <3>2, <2>3, <1>5, <1>7
    <3>4. w \in Collected
      BY <3>1, <3>3, <1>2 DEF Collected
    <3> QED
      BY <2>1, <3>4, <1>9 DEF AllKept
  <2> QED
    BY <2>2, <2>3
<1> QED
  BY <1>2, <1>9, <1>11, <1>12, <1>13, <1>14 DEF Merged, OneExtension, ImplsApart, Later

\* Entries that units declared keep their place in the first merge that meets them.
LEMMA MergeKeeps ==
  ASSUME NamesInv, tables \subseteq found
  PROVE  /\ Merge(tables, found) \subseteq found
         /\ \A e \in FromUnits(found) : e.in \notin {"structs", "enums"} => e \in Merge(tables, found)
<1>1. ASSUME NEW e \in FromUnits(found), e.in \notin {"structs", "enums"}
      PROVE  e \in Merge(tables, found)
  <2>1. e \in found /\ e.in \in TableNames
    BY DEF FromUnits, NamesInv, NamesTypeOK
  <2>2. e.in \in {"constants", "functions", "generics", "perks", "impls", "templates", "extensions"}
    BY <1>1, <2>1 DEF TableNames
  <2>3. ASSUME NEW x \in tables, x.in = e.in, x.key = e.key
        PROVE  x = e
    <3>1. Rivals(e, x)
      BY <2>2, <2>3 DEF Rivals, Overlaps
    <3> QED
      BY <3>1 DEF NamesInv, NoRivals
  <2> QED
    BY <2>1, <2>3 DEF Merge, Has
<1> QED
  BY <1>1 DEF Merge

LEMMA MergeUnitInv ==
  ASSUME NamesInv, MergeUnit
  PROVE  NamesInv'
<1> USE DEF NamesInv
<1>1. /\ pass = "collect" /\ todo = {} /\ tables' = Merge(tables, found)
      /\ program' = program /\ found' = found /\ errors' = errors
  BY DEF MergeUnit
<1>2. \/ unit < Len(UnitSizes) /\ unit' = unit + 1 /\ todo' = DOMAIN program.units[unit + 1] /\ pass' = pass
      \/ /\ ~(unit < Len(UnitSizes)) /\ unit' = unit /\ pass' = "library"
         /\ todo' = {i \in DOMAIN program.lib : program.lib[i].kind # "perk"}
  BY DEF MergeUnit
<1>3. tables \subseteq found /\ unit \in Units
  BY <1>1 DEF Merged, NamesTypeOK
<1>4. /\ tables' \subseteq found
      /\ \A e \in FromUnits(found) : e.in \notin {"structs", "enums"} => e \in tables'
  BY <1>1, <1>3, MergeKeeps
<1>5. Declared' = Declared /\ \A w : DeclOf(w)' = DeclOf(w)
  BY <1>1 DEF DeclOf, Declared
<1>6. NamesTypeOK'
  <2>1. unit' \in Units
    BY <1>2, <1>3, ProgramFacts
  <2>2. todo' \subseteq IF pass' = "library" THEN DOMAIN program.lib ELSE DOMAIN program.units[unit']
    BY <1>1, <1>2
  <2>3. found' \union tables' \subseteq [in : TableNames, key : Seq(Words), by : Nat \X Nat]
    BY <1>1, <1>4 DEF NamesTypeOK
  <2>4. pass' \in {"seed", "collect", "library", "shadow", "perks", "done"}
    BY <1>1, <1>2
  <2> QED
    BY <1>1, <2>1, <2>2, <2>3, <2>4 DEF NamesTypeOK
<1>7. NoRivals' /\ Origins'
  BY <1>1, <1>5 DEF NoRivals, Origins, FromUnits
<1>8. AllKept'
  <2> SUFFICES ASSUME errors = {}, NEW w \in Collected', DeclOf(w).kind \in PlainKinds
               PROVE  Entry(TableOf[DeclOf(w).kind], <<DeclOf(w).name>>, w) \in found
    BY <1>1, <1>5 DEF AllKept
  <2>1. w \in Declared
    BY <1>5 DEF Collected
  <2>2. w[1] \in Units /\ w[2] \in DOMAIN program.units[w[1]]
    BY <2>1, DeclaredFacts
  <2>3. w[1] <= unit
    <3>1. CASE unit < Len(UnitSizes) /\ unit' = unit + 1 /\ todo' = DOMAIN program.units[unit + 1] /\ pass' = pass
      <4>1. w[1] < unit + 1 \/ (w[1] = unit + 1 /\ w[2] \notin DOMAIN program.units[unit + 1])
        BY <3>1, <1>1 DEF Collected
      <4>2. w[1] < unit + 1
        BY <2>2, <4>1
      <4> QED
        BY <4>2, <2>2, <1>3, ProgramFacts
    <3>2. CASE ~(unit < Len(UnitSizes))
      BY <3>2, <2>2, <1>3, ProgramFacts
    <3> QED
      BY <3>1, <3>2, <1>2
  <2>4. w[1] < unit \/ (w[1] = unit /\ w[2] \notin todo)
    BY <2>2, <2>3, <1>1, <1>3, ProgramFacts
  <2>5. w \in Collected
    BY <2>1, <2>4, <1>1 DEF Collected
  <2> QED
    BY <2>5 DEF AllKept
<1>9. Merged'
  <2>1. FromUnits(found)' = FromUnits(found) /\ \A tb : tb \subseteq found => FromUnits(tb) \subseteq found
    BY <1>1 DEF FromUnits
  <2>2. FromUnits(tables)' \subseteq found
    BY <1>4 DEF FromUnits
  <2> QED
    BY <1>1, <1>2, <1>4, <2>1, <2>2 DEF Merged
<1>10. OneExtension'
  <2> SUFFICES ASSUME NEW x \in found, NEW y \in found,
                      x.in = "extensions", y.in = "extensions", x.key = y.key
               PROVE  x = y
    BY <1>4 DEF OneExtension
  <2>1. Rivals(x, y)
    BY DEF Rivals
  <2>2. x \in FromUnits(found)
    BY DEF Origins, FromUnits
  <2> QED
    BY <2>1, <2>2 DEF NoRivals
<1>11. ImplsApart'
  BY <1>1, <1>2 DEF ImplsApart
<1> QED
  BY <1>6, <1>7, <1>8, <1>9, <1>10, <1>11

LEMMA RegisterOneInv ==
  ASSUME NamesInv, RegisterOne
  PROVE  NamesInv'
<1> USE DEF NamesInv
<1>1. PICK i \in todo :
        LET got == LibraryRecord(tables, program.lib[i], <<TheLibrary, i>>)
        IN  tables' = tables \union got.adds /\ errors' = errors \union got.errors /\ todo' = todo \ {i}
  BY DEF RegisterOne
<1>2. pass = "library" /\ pass' = pass /\ program' = program /\ unit' = unit /\ found' = found
  BY DEF RegisterOne
<1>3. PICK d : d = program.lib[i]
  OBVIOUS
<1>4. PICK by : by = <<TheLibrary, i>>
  OBVIOUS
<1>5. PICK got : got = LibraryRecord(tables, d, by)
  OBVIOUS
<1>6. tables' = tables \union got.adds /\ errors' = errors \union got.errors /\ todo' = todo \ {i}
  BY <1>1, <1>3, <1>4, <1>5
<1>7. d \in LibraryDecls /\ by \in Nat \X Nat /\ by[1] = TheLibrary
  <2>1. i \in DOMAIN program.lib
    BY <1>2 DEF NamesTypeOK
  <2> QED
    BY <2>1, <1>3, <1>4, ProgramFacts DEF TheLibrary
<1>8. /\ got.errors \subseteq [code : Codes, name : Words]
      /\ \A e \in got.adds : \E t \in TableNames \ {"templates", "extensions"}, k \in Seq(Words) : e = Entry(t, k, by)
  <2>1. CASE d.kind # "perk"
    BY <2>1, <1>5, <1>7, LibraryAdds
  <2>2. d.kind # "perk"
    BY <1>2, <1>3 DEF Merged
  <2> QED
    BY <2>1, <2>2
<1>9. ASSUME NEW e \in got.adds
      PROVE  /\ e \in [in : TableNames, key : Seq(Words), by : Nat \X Nat]
             /\ e.in \notin {"templates", "extensions"} /\ e.by[1] = TheLibrary
  BY <1>7, <1>8, EntryType, EntryFacts
<1>10. NamesTypeOK'
  BY <1>2, <1>6, <1>8, <1>9 DEF NamesTypeOK
<1>11. Declared' = Declared /\ \A w : DeclOf(w)' = DeclOf(w)
  BY <1>2 DEF DeclOf, Declared
<1>12. NoRivals' /\ Origins'
  BY <1>2, <1>11 DEF NoRivals, Origins, FromUnits
<1>13. AllKept'
  <2>1. Collected' = Declared /\ Collected = Declared
    BY <1>2, <1>11 DEF Collected
  <2> QED
    BY <2>1, <1>2, <1>6, <1>11 DEF AllKept
<1>14. Merged'
  <2>1. FromUnits(found)' = FromUnits(found)
    BY <1>2 DEF FromUnits
  <2>2. \A e \in tables' : e.in \in {"templates", "extensions"} => e \in tables
    BY <1>6, <1>9
  <2>3. \A e \in FromUnits(tables)' : e \in FromUnits(tables)
    BY <1>6, <1>9 DEF FromUnits
  <2> QED
    BY <1>2, <1>6, <2>1, <2>2, <2>3 DEF Merged, Later
<1>15. OneExtension'
  BY <1>2, <1>6, <1>9 DEF OneExtension, Later
<1>16. ImplsApart'
  BY <1>2 DEF ImplsApart
<1> QED
  BY <1>10, <1>12, <1>13, <1>14, <1>15, <1>16

LEMMA CopyFacts ==
  ASSUME NEW t, NEW m, NEW b, NEW e, e = Entry("extensions", <<"struct", t, m>>, b)
  PROVE  e.key[2] = t /\ e.key[3] = m /\ e.by = b
<1>1. PICK k : k = <<"struct", t, m>>
  OBVIOUS
<1>2. k[2] = t /\ k[3] = m
  BY <1>1
<1>3. e = Entry("extensions", k, b)
  BY <1>1
<1>4. e.key = k /\ e.by = b
  BY <1>3, EntryFacts
<1> QED
  BY <1>2, <1>4

LEMMA CopyExtensionsInv ==
  ASSUME NamesInv, CopyExtensions
  PROVE  NamesInv'
<1> USE DEF NamesInv
<1> DEFINE IsCopy(e, x, t) ==
             /\ x.in = "templates" /\ x.key[2] \in {"", t}
             /\ e = Entry("extensions", <<"struct", t, x.key[1]>>, x.by)
<1>1. /\ pass = "library" /\ todo = {} /\ pass' = "shadow" /\ program' = program /\ unit' = unit
      /\ todo' = todo /\ found' = found /\ errors' = errors
  BY DEF CopyExtensions
<1>2. tables \subseteq tables'
  BY DEF CopyExtensions
<1>3. ASSUME NEW e \in tables', e \notin tables
      PROVE  \E x \in tables, t \in {"G<i32>", "G<A>"} : IsCopy(e, x, t)
  <2>1. PICK p \in {q \in InstancesOf(tables) \X {x \in tables : x.in = "templates"} : q[2].key[2] \in {"", q[1]}} :
          e = Entry("extensions", <<"struct", p[1], p[2].key[1]>>, p[2].by)
    BY <1>3 DEF CopyExtensions
  <2>2. p[1] \in {"G<i32>", "G<A>"} /\ p[2] \in tables /\ p[2].in = "templates" /\ p[2].key[2] \in {"", p[1]}
    BY DEF InstancesOf
  <2> QED
    BY <2>1, <2>2
<1>4. ASSUME NEW x \in tables, x.in = "templates"
      PROVE  x \in FromUnits(found) /\ x \in found /\ x.key[1] \in Words /\ x.by \in Nat \X Nat
  BY <1>1, <1>4 DEF Merged, Later, Origins, FromUnits, NamesTypeOK
<1>5. ASSUME NEW e \in tables', e \notin tables
      PROVE  /\ e \in [in : TableNames, key : Seq(Words), by : Nat \X Nat]
             /\ e.in = "extensions" /\ e.key[2] \in {"G<i32>", "G<A>"}
  <2>1. PICK x \in tables, t \in {"G<i32>", "G<A>"} : IsCopy(e, x, t)
    BY <1>3, <1>5
  <2>2. x.key[1] \in Words /\ x.by \in Nat \X Nat
    BY <2>1, <1>4
  <2>3. PICK k \in Seq(Words) : k = <<"struct", t, x.key[1]>>
    BY <2>2, WordTuples, WordsFacts
  <2>4. "extensions" \in TableNames
    BY DEF TableNames
  <2>5. e = Entry("extensions", k, x.by) /\ k[2] = t
    BY <2>1, <2>3
  <2> QED
    BY <2>2, <2>4, <2>5, EntryType, EntryFacts
<1>6. NamesTypeOK'
  BY <1>1, <1>5 DEF NamesTypeOK
<1>7. Declared' = Declared /\ \A w : DeclOf(w)' = DeclOf(w)
  BY <1>1 DEF DeclOf, Declared
<1>8. NoRivals' /\ Origins'
  BY <1>1, <1>7 DEF NoRivals, Origins, FromUnits
<1>9. AllKept'
  <2>1. Collected' = Declared /\ Collected = Declared
    BY <1>1, <1>7 DEF Collected
  <2> QED
    BY <2>1, <1>1, <1>7 DEF AllKept
<1>10. Merged'
  <2>1. FromUnits(found)' = FromUnits(found)
    BY <1>1 DEF FromUnits
  <2>2. \A e \in tables' : e.in \in {"templates", "impls"} => e \in tables
    BY <1>5
  <2>3. \A e \in FromUnits(tables)' : e.in = "impls" => e \in FromUnits(tables)
    BY <2>2 DEF FromUnits
  <2> QED
    BY <1>1, <1>2, <2>1, <2>2, <2>3 DEF Merged, Later
<1>11. OneExtension'
  <2> SUFFICES ASSUME NEW e \in tables', NEW f \in tables',
                      e.in = "extensions", f.in = "extensions", e.key = f.key
               PROVE  e = f
    BY DEF OneExtension
  <2>1. \A g \in tables : g.in = "extensions" => g.key[2] \in {"i32", "A"}
    BY <1>1 DEF Merged, Origins
  <2>2. CASE e \in tables /\ f \in tables
    BY <2>2, <1>1 DEF OneExtension, Later
  <2>3. CASE e \notin tables /\ f \notin tables
    <3>1. PICK x \in tables, t \in {"G<i32>", "G<A>"} : IsCopy(e, x, t)
      BY <1>3, <2>3
    <3>2. PICK y \in tables, u \in {"G<i32>", "G<A>"} : IsCopy(f, y, u)
      BY <1>3, <2>3
    <3>3. e.key[2] = t /\ e.key[3] = x.key[1] /\ f.key[2] = u /\ f.key[3] = y.key[1]
      <4>1. PICK m : m = x.key[1]
        OBVIOUS
      <4>2. PICK n : n = y.key[1]
        OBVIOUS
      <4>3. e = Entry("extensions", <<"struct", t, m>>, x.by) /\ f = Entry("extensions", <<"struct", u, n>>, y.by)
        BY <3>1, <3>2, <4>1, <4>2
      <4>4. e.key[2] = t /\ e.key[3] = m
        BY <4>3, CopyFacts
      <4>5. f.key[2] = u /\ f.key[3] = n
        BY <4>3, CopyFacts
      <4> QED
        BY <4>1, <4>2, <4>4, <4>5
    <3>4. t = u /\ x.key[1] = y.key[1]
      BY <3>3
    <3>5. Overlaps(x.key[2], y.key[2])
      BY <3>1, <3>2, <3>4 DEF Overlaps
    <3>6. Rivals(x, y)
      BY <3>1, <3>2, <3>4, <3>5 DEF Rivals
    <3>7. x = y
      BY <3>1, <3>2, <3>6, <1>4 DEF NoRivals
    <3> QED
      BY <3>1, <3>2, <3>4, <3>7
  <2>4. CASE (e \in tables) # (f \in tables)
    BY <2>1, <2>4, <1>5
  <2> QED
    BY <2>2, <2>3, <2>4
<1>12. ImplsApart'
  BY <1>1 DEF ImplsApart
<1> QED
  BY <1>6, <1>8, <1>9, <1>10, <1>11, <1>12

\* The two checks add errors only.
LEMMA CheckKeeps ==
  ASSUME NamesInv, pass \in {"shadow", "perks"}, pass' \in {"perks", "done"}, errors \subseteq errors',
         UNCHANGED <<program, todo, found, tables>>
  PROVE  NoRivals' /\ Origins' /\ AllKept' /\ Merged' /\ OneExtension'
<1> USE DEF NamesInv
<1>1. Declared' = Declared /\ \A w : DeclOf(w)' = DeclOf(w)
  BY DEF DeclOf, Declared
<1>2. NoRivals' /\ Origins'
  BY <1>1 DEF NoRivals, Origins, FromUnits
<1>3. AllKept'
  <2>1. Collected' = Declared /\ Collected = Declared
    BY <1>1 DEF Collected
  <2> QED
    BY <2>1, <1>1 DEF AllKept
<1>4. Merged' /\ OneExtension'
  BY DEF Merged, OneExtension, Later, FromUnits
<1> QED
  BY <1>2, <1>3, <1>4

LEMMA CheckShadowsInv ==
  ASSUME NamesInv, CheckShadows
  PROVE  NamesInv'
<1>1. /\ pass = "shadow" /\ pass' = "perks" /\ unit' = 1
      /\ UNCHANGED <<program, todo, found, tables>>
      /\ errors' = errors \union {[code |-> "CE2097", name |-> e.key[3]] :
           e \in {x \in tables : x.in = "extensions" /\ x.key[3] = "hash"}}
  BY DEF CheckShadows
<1>2. errors \subseteq errors'
  BY <1>1
<1>3. NoRivals' /\ Origins' /\ AllKept' /\ Merged' /\ OneExtension'
  BY <1>1, <1>2, CheckKeeps
<1>4. todo' = {}
  BY <1>1 DEF NamesInv, Merged
<1>5. 1 \in Units
  BY SizesAssumption DEF Units
<1>6. errors' \subseteq [code : Codes, name : Words]
  <2>1. "hash" \in Words /\ "CE2097" \in Codes
    BY WordsFacts DEF Codes
  <2> QED
    BY <1>1, <2>1 DEF NamesInv, NamesTypeOK
<1>7. NamesTypeOK'
  BY <1>1, <1>4, <1>5, <1>6 DEF NamesInv, NamesTypeOK
<1>8. ImplsApart'
  <2>1. \A w \in Declared' : ~(w[1] < 1)
    <3>1. Declared' = Declared
      BY <1>1 DEF Declared
    <3> QED
      BY <3>1, DeclaredFacts, ProgramFacts DEF NamesInv
  <2> QED
    BY <1>1, <2>1 DEF ImplsApart
<1> QED
  BY <1>3, <1>7, <1>8 DEF NamesInv

LEMMA CheckPerksInv ==
  ASSUME NamesInv, CheckPerks
  PROVE  NamesInv'
<1> DEFINE bad == {j \in DOMAIN program.units[unit] :
                     /\ program.units[unit][j].kind = "impl"
                     /\ Conflicts(tables, program.units[unit][j])}
<1>1. /\ pass = "perks" /\ UNCHANGED <<program, todo, found, tables>>
      /\ errors' = errors \union {[code |-> "CE4007", name |-> "m"] : i \in bad}
      /\ \/ unit < Len(UnitSizes) /\ unit' = unit + 1 /\ pass' = pass
         \/ ~(unit < Len(UnitSizes)) /\ unit' = unit /\ pass' = "done"
  BY DEF CheckPerks
<1>2. errors \subseteq errors' /\ (errors' = {} => bad = {})
  BY <1>1
<1>3. NoRivals' /\ Origins' /\ AllKept' /\ Merged' /\ OneExtension'
  BY <1>1, <1>2, CheckKeeps
<1>4. todo' = {} /\ unit \in Units
  BY <1>1 DEF NamesInv, Merged, NamesTypeOK
<1>5. unit' \in Units
  BY <1>1, <1>4, ProgramFacts DEF NamesInv
<1>6. errors' \subseteq [code : Codes, name : Words]
  <2>1. "m" \in Words /\ "CE4007" \in Codes
    BY WordsFacts DEF Codes
  <2> QED
    BY <1>1, <2>1 DEF NamesInv, NamesTypeOK
<1>7. NamesTypeOK'
  BY <1>1, <1>4, <1>5, <1>6 DEF NamesInv, NamesTypeOK
<1>8. ImplsApart'
  <2> SUFFICES ASSUME errors' = {}, NEW w \in Declared, DeclOf(w).kind = "impl",
                      pass' = "done" \/ w[1] < unit'
               PROVE  ~Conflicts(tables, DeclOf(w))
    BY <1>1 DEF ImplsApart, Declared, DeclOf, Conflicts, ResolvedType
  <2>1. w[1] \in Units /\ w[2] \in DOMAIN program.units[w[1]]
    BY DeclaredFacts DEF NamesInv
  <2>2. w[1] < unit \/ w[1] = unit
    BY <1>1, <1>4, <2>1, ProgramFacts DEF NamesInv
  <2>3. CASE w[1] < unit
    BY <2>3, <1>1, <1>2 DEF NamesInv, ImplsApart
  <2>4. CASE w[1] = unit
    BY <2>1, <2>4, <1>2 DEF DeclOf
  <2> QED
    BY <2>2, <2>3, <2>4
<1> QED
  BY <1>3, <1>7, <1>8 DEF NamesInv

-----------------------------------------------------------------------------
(* What it says of an accepted program. *)

LEMMA AtMostOne ==
  ASSUME NEW S, \A a, b \in S : a = b
  PROVE  Cardinality(S) <= 1
<1>1. CASE S = {}
  BY <1>1, FS_EmptySet
<1>2. CASE S # {}
  <2>1. PICK a \in S : S = {a}
    BY <1>2
  <2> QED
    BY <2>1, FS_Singleton
<1> QED
  BY <1>1, <1>2

\* Different targets of implementations are different types.
LEMMA ResolvedApart ==
  ASSUME NEW tb, NEW s \in {"i32", "A", "G<i32>"}, NEW t \in {"i32", "A", "G<i32>"},
         ResolvedType(tb, s) = ResolvedType(tb, t)
  PROVE  s = t
<1>1. \A r \in {"i32", "A", "G<i32>"} : ResolvedType(tb, r)[2] = r
  <2>1. ResolvedType(tb, "i32")[2] = "i32"
    BY DEF ResolvedType
  <2>2. ResolvedType(tb, "G<i32>")[2] = "G<i32>"
    BY DEF ResolvedType, IsGenericTarget
  <2>3. ResolvedType(tb, "A")[2] = "A"
    <3>1. CASE Has(tb, "structs", <<"A">>)
      BY <3>1 DEF ResolvedType, IsGenericTarget
    <3>2. CASE ~Has(tb, "structs", <<"A">>) /\ Has(tb, "enums", <<"A">>)
      BY <3>2 DEF ResolvedType, IsGenericTarget
    <3>3. CASE ~Has(tb, "structs", <<"A">>) /\ ~Has(tb, "enums", <<"A">>)
      BY <3>3 DEF ResolvedType, IsGenericTarget
    <3> QED
      BY <3>1, <3>2, <3>3
  <2> QED
    BY <2>1, <2>2, <2>3
<1> QED
  BY <1>1

LEMMA InvOneProvider == NamesInv => OneProvider
<1> SUFFICES ASSUME NamesInv, pass = "done", errors = {}, NEW target, NEW m,
                    NEW a \in Providers(target, m), NEW b \in Providers(target, m)
             PROVE  a = b
  BY AtMostOne DEF OneProvider, Accepted
<1> DEFINE Extends(c) == \E x \in tables : x.in = "extensions" /\ x.key = MethodKey(target, m) /\ c = x.by
           Implements(c) == /\ m = "m"
                            /\ \E x \in tables : /\ x.in = "impls" /\ x.by[1] # TheLibrary
                                                 /\ ResolvedType(tables, x.key[1]) = target /\ c = x.by
<1>1. \A c \in Providers(target, m) : Extends(c) \/ Implements(c)
  BY DEF Providers
<1>2. ASSUME NEW x \in tables, x.in = "impls", x.by[1] # TheLibrary
      PROVE  /\ x \in FromUnits(found) /\ x.by \in Declared
             /\ DeclOf(x.by).kind = "impl" /\ DeclOf(x.by).on \in {"i32", "A", "G<i32>"}
             /\ x.key = <<DeclOf(x.by).on, "P">> /\ x.key[1] = DeclOf(x.by).on
  <2>1. x \in found
    BY <1>2 DEF NamesInv, Merged, Later, FromUnits
  <2>2. x.key = <<DeclOf(x.by).on, "P">>
    BY <1>2, <2>1 DEF NamesInv, Origins
  <2> QED
    BY <1>2, <2>1, <2>2 DEF NamesInv, Origins, FromUnits
<1>3. CASE Extends(a) /\ Extends(b)
  BY <1>3 DEF NamesInv, OneExtension, Later
<1>4. CASE Implements(a) /\ Implements(b)
  <2>1. PICK x \in tables : /\ x.in = "impls" /\ x.by[1] # TheLibrary
                            /\ ResolvedType(tables, x.key[1]) = target /\ a = x.by
    BY <1>4
  <2>2. PICK y \in tables : /\ y.in = "impls" /\ y.by[1] # TheLibrary
                            /\ ResolvedType(tables, y.key[1]) = target /\ b = y.by
    BY <1>4
  <2>3. DeclOf(x.by).on = DeclOf(y.by).on
    BY <2>1, <2>2, <1>2, ResolvedApart
  <2>4. Rivals(x, y)
    BY <2>1, <2>2, <2>3, <1>2 DEF Rivals
  <2>5. x = y
    BY <2>1, <2>2, <2>4, <1>2 DEF NamesInv, NoRivals, FromUnits
  <2> QED
    BY <2>1, <2>2, <2>5
<1>5. ASSUME NEW c, NEW e, Extends(c), Implements(e)
      PROVE  FALSE
  <2>1. PICK x \in tables : /\ x.in = "impls" /\ x.by[1] # TheLibrary
                            /\ ResolvedType(tables, x.key[1]) = target
    BY <1>5
  <2>2. Has(tables, "extensions", MethodKey(target, "m"))
    BY <1>5 DEF Has
  <2>3. Conflicts(tables, DeclOf(x.by))
    BY <2>1, <2>2, <1>2 DEF Conflicts
  <2> QED
    BY <2>1, <2>3, <1>2 DEF NamesInv, ImplsApart
<1> QED
  BY <1>1, <1>3, <1>4, <1>5

LEMMA InvDeclaredOnce == NamesInv => DeclaredOnce
<1> DEFINE Names3 == {<<{"fn", "generic"}, "f">>, <<{"const"}, "c">>, <<{"perk"}, "P">>}
<1> SUFFICES ASSUME NamesInv, pass = "done", errors = {}, NEW k \in Names3
             PROVE  /\ \A v, w \in OfName(k[1], k[2]) : v = w
                    /\ \A w \in OfName(k[1], k[2]) :
                         \E e \in tables : e.by = w /\ e.in = TableOf[DeclOf(w).kind] /\ e.key = <<k[2]>>
  BY AtMostOne DEF DeclaredOnce, Accepted
<1> DEFINE Its(w) == Entry(TableOf[DeclOf(w).kind], <<DeclOf(w).name>>, w)
<1>1. ASSUME NEW w \in OfName(k[1], k[2])
      PROVE  /\ w \in Declared /\ DeclOf(w).kind \in k[1] /\ DeclOf(w).name = k[2]
             /\ DeclOf(w).kind \in PlainKinds
  BY DEF OfName, PlainKinds
<1>2. ASSUME NEW w \in OfName(k[1], k[2])
      PROVE  /\ Its(w) \in found /\ Its(w) \in FromUnits(found)
             /\ Its(w).by = w /\ Its(w).in = TableOf[DeclOf(w).kind] /\ Its(w).key = <<k[2]>>
  <2>1. w \in Collected
    BY <1>1 DEF Collected
  <2>2. Its(w) \in found
    BY <2>1, <1>1 DEF NamesInv, AllKept
  <2>3. w[1] # TheLibrary
    BY <1>1, DeclaredFacts DEF NamesInv
  <2> QED
    BY <1>1, <2>2, <2>3, EntryFacts DEF FromUnits
<1>3. ASSUME NEW w \in OfName(k[1], k[2])
      PROVE  Its(w) \in tables
  <2>1. Its(w).in \notin {"structs", "enums"}
    BY <1>1, <1>2, TableOfFacts DEF PlainKinds
  <2> QED
    BY <2>1, <1>2 DEF NamesInv, Merged, Later
<1>4. ASSUME NEW v \in OfName(k[1], k[2]), NEW w \in OfName(k[1], k[2])
      PROVE  v = w
  <2>1. Rivals(Its(v), Its(w))
    <3>1. CASE k[1] = {"fn", "generic"}
      <4>1. \A z \in OfName(k[1], k[2]) : Its(z).in \in {"functions", "generics"} /\ Its(z).key = <<k[2]>>
        BY <3>1, <1>1, <1>2, TableOfFacts
      <4> HIDE DEF Its
      <4>2. {Its(v).in, Its(w).in} \subseteq {"functions", "generics"} /\ Its(v).key = Its(w).key
        BY <4>1
      <4> QED
        BY <4>2 DEF Rivals
    <3>2. CASE k[1] = {"const"}
      <4>1. \A z \in OfName(k[1], k[2]) : Its(z).in = "constants" /\ Its(z).key = <<k[2]>>
        BY <3>2, <1>1, <1>2, TableOfFacts
      <4> HIDE DEF Its
      <4>2. Its(v).in = "constants" /\ Its(v).in = Its(w).in /\ Its(v).key = Its(w).key
        BY <4>1
      <4> QED
        BY <4>2 DEF Rivals
    <3>3. CASE k[1] = {"perk"}
      <4>1. \A z \in OfName(k[1], k[2]) : Its(z).in = "perks" /\ Its(z).key = <<k[2]>>
        BY <3>3, <1>1, <1>2, TableOfFacts
      <4> HIDE DEF Its
      <4>2. Its(v).in = "perks" /\ Its(v).in = Its(w).in /\ Its(v).key = Its(w).key
        BY <4>1
      <4> QED
        BY <4>2 DEF Rivals
    <3> QED
      BY <3>1, <3>2, <3>3
  <2>2. Its(v) = Its(w)
    BY <2>1, <1>2 DEF NamesInv, NoRivals
  <2> QED
    BY <2>2, <1>2
<1> QED
  BY <1>2, <1>3, <1>4

LEMMA NamesNextInv == NamesInv /\ [NamesNext]_nameVars => NamesInv'
<1> SUFFICES ASSUME NamesInv, [NamesNext]_nameVars PROVE NamesInv'
  OBVIOUS
<1>1. CASE SeedPerks
  BY <1>1, SeedPerksInv
<1>2. CASE CollectOne
  BY <1>2, CollectOneInv
<1>3. CASE MergeUnit
  BY <1>3, MergeUnitInv
<1>4. CASE RegisterOne
  BY <1>4, RegisterOneInv
<1>5. CASE CopyExtensions
  BY <1>5, CopyExtensionsInv
<1>6. CASE CheckShadows
  BY <1>6, CheckShadowsInv
<1>7. CASE CheckPerks
  BY <1>7, CheckPerksInv
<1>8. CASE UNCHANGED nameVars
  <2> USE <1>8 DEF nameVars
  <2>1. Declared' = Declared /\ \A w : DeclOf(w)' = DeclOf(w)
    BY DEF DeclOf, Declared
  <2>2. Collected' = Collected
    BY <2>1 DEF Collected
  <2>3. \A tb, d : Conflicts(tb, d)' = Conflicts(tb, d)
    BY DEF Conflicts, Has, ResolvedType
  <2>4. NamesTypeOK' /\ NoRivals' /\ Origins' /\ AllKept'
    BY <2>1, <2>2 DEF NamesInv, NamesTypeOK, NoRivals, Origins, AllKept, FromUnits
  <2>5. Merged' /\ OneExtension'
    BY DEF NamesInv, Merged, OneExtension, FromUnits
  <2>6. ImplsApart'
    BY <2>1 DEF NamesInv, ImplsApart
  <2> QED
    BY <2>4, <2>5, <2>6 DEF NamesInv
<1> QED
  BY <1>1, <1>2, <1>3, <1>4, <1>5, <1>6, <1>7, <1>8 DEF NamesNext

\* The tables hold what they should, whatever the units and the library declare.
THEOREM NamesTypeCorrect == NamesSpec => []NamesTypeOK
<1>1. NamesInv => NamesTypeOK
  BY DEF NamesInv
<1> QED
  BY <1>1, NamesInitInv, NamesNextInv, PTL DEF NamesSpec

\* Any number of units with any number of declarations each, and any library: an
\* accepted program gives a method of a type one body at most, and what it says
\* of a name is said once and kept in the global tables.
THEOREM NamesAreExact == NamesSpec => []NamesExact
<1>1. NamesInv => NamesExact
  BY InvOneProvider, InvDeclaredOnce DEF NamesExact
<1> QED
  BY <1>1, NamesInitInv, NamesNextInv, PTL DEF NamesSpec

-----------------------------------------------------------------------------
(* The least set that a worklist finds. *)

LEMMA ClosureHolds ==
  ASSUME NEW start, NEW Steps, start \subseteq DOMAIN Steps,
         \A n \in DOMAIN Steps : Steps[n] \subseteq DOMAIN Steps
  PROVE  /\ start \subseteq Closure(start, Steps)
         /\ Closure(start, Steps) \subseteq DOMAIN Steps
         /\ \A n \in Closure(start, Steps) : Steps[n] \subseteq Closure(start, Steps)
<1>1. \A S \in Closed(start, Steps) :
        start \subseteq S /\ \A n \in S : Steps[n] \subseteq S
  BY DEF Closed
<1>2. Closure(start, Steps) = {n \in DOMAIN Steps : \A S \in Closed(start, Steps) : n \in S}
  BY DEF Closure
<1>3. ASSUME NEW n \in Closure(start, Steps), NEW m \in Steps[n]
      PROVE  m \in Closure(start, Steps)
  BY <1>1, <1>2, <1>3
<1> QED
  BY <1>1, <1>2, <1>3

LEMMA ClosureLeast ==
  ASSUME NEW start, NEW Steps, NEW S, S \subseteq DOMAIN Steps,
         start \subseteq S, \A n \in S : Steps[n] \subseteq S
  PROVE  Closure(start, Steps) \subseteq S
BY DEF Closure, Closed

-----------------------------------------------------------------------------
(* What the front end accepted. *)

LEMMA LibraryFacts ==
  ASSUME NEW d \in Library, NEW n \in Symbols
  PROVE  /\ d[n].kind \in {"fn", "generic", "const", "namespace", "absent"}
         /\ d[n].public \in BOOLEAN
         /\ d[n].kind = "const" => ~d[n].public
         /\ d[n].refs \subseteq Symbols
         /\ \A m \in d[n].refs : d[m].kind # "absent"
<1>1. d \in [Symbols -> Decls] /\ d[n].refs \subseteq Symbols \ Named(d, {"absent"})
  BY DEF Library
<1>2. d[n] \in Decls
  BY <1>1
<1>3. /\ d[n].kind \in {"fn", "generic", "const", "namespace", "absent"}
      /\ d[n].public \in BOOLEAN
      /\ d[n].kind = "const" => ~d[n].public
  BY <1>2 DEF Decls
<1> QED
  BY <1>1, <1>3 DEF Named

\* The export closure has the roots, and with a template or a private what it
\* mentions.
LEMMA ReachedFacts ==
  ASSUME lib \in Library
  PROVE  /\ Roots \subseteq Reached
         /\ Reached \subseteq Symbols
         /\ \A n \in Reached : n \in Roots \cup Private => lib[n].refs \ {n} \subseteq Reached
<1> DEFINE Steps == [n \in Symbols |-> Walked(n)]
<1>1. \A n \in Symbols : Walked(n) \subseteq Symbols
  BY LibraryFacts DEF Walked
<1>2. Roots \subseteq Symbols
  BY DEF Roots, Named
<1>3. DOMAIN Steps = Symbols /\ \A n \in Symbols : Steps[n] = Walked(n)
  OBVIOUS
<1>4. Reached = Closure(Roots, Steps)
  BY DEF Reached
<1> HIDE DEF Steps
<1>5. /\ Roots \subseteq Reached
      /\ Reached \subseteq Symbols
      /\ \A n \in Reached : Walked(n) \subseteq Reached
  BY <1>1, <1>2, <1>3, <1>4, ClosureHolds
<1> QED
  BY <1>5 DEF Walked

\* The instances of the program are templates it was shipped, those main
\* mentions and those another instance mentions.
LEMMA InstancesFacts ==
  ASSUME TypeOK
  PROVE  /\ prog.main \cap manifest.generics \subseteq Instances
         /\ Instances \subseteq manifest.generics
         /\ \A g \in Instances : lib[g].refs \cap manifest.generics \subseteq Instances
<1> DEFINE Steps == [n \in Symbols |-> lib[n].refs \cap manifest.generics]
           start == prog.main \cap manifest.generics
<1>1. manifest.generics \subseteq Symbols
  BY DEF TypeOK
<1>2. DOMAIN Steps = Symbols /\ \A n \in Symbols : Steps[n] = lib[n].refs \cap manifest.generics
  OBVIOUS
<1>3. start \subseteq manifest.generics /\ start = prog.main \cap manifest.generics
  OBVIOUS
<1>4. Instances = Closure(start, Steps)
  BY DEF Instances
<1>7. \A n \in Symbols : Steps[n] \subseteq Symbols
  BY <1>1
<1> HIDE DEF Steps, start
<1>5. /\ start \subseteq Instances
      /\ Instances \subseteq Symbols
      /\ \A n \in Instances : Steps[n] \subseteq Instances
  <2>1. start \subseteq DOMAIN Steps /\ \A n \in DOMAIN Steps : Steps[n] \subseteq DOMAIN Steps
    BY <1>1, <1>2, <1>3, <1>7
  <2>2. DOMAIN Steps = Symbols
    BY <1>2
  <2> QED
    BY <2>1, <2>2, <1>4, ClosureHolds
<1>6. Instances \subseteq manifest.generics
  BY <1>1, <1>2, <1>3, <1>4, ClosureLeast
<1> QED
  BY <1>2, <1>3, <1>5, <1>6

\* The bitcode of the library has an instance of every template its functions
\* and its instances mention.
LEMMA LibraryInstancesFacts ==
  ASSUME TypeOK
  PROVE  /\ \A n \in Named(lib, {"fn"}) : lib[n].refs \cap LibraryGenerics \subseteq LibraryInstances
         /\ LibraryInstances \subseteq LibraryGenerics
         /\ \A g \in LibraryInstances : lib[g].refs \cap LibraryGenerics \subseteq LibraryInstances
<1> DEFINE Steps == [n \in Symbols |-> IF n \in LibraryGenerics
                                       THEN lib[n].refs \cap LibraryGenerics ELSE {}]
           start == LibraryGenerics \cap UNION {lib[n].refs : n \in Named(lib, {"fn"})}
<1>1. LibraryGenerics \subseteq Symbols
  BY DEF LibraryGenerics, Named
<1>2. DOMAIN Steps = Symbols /\ \A n \in LibraryGenerics : Steps[n] = lib[n].refs \cap LibraryGenerics
  BY <1>1
<1>3. /\ start \subseteq LibraryGenerics
      /\ \A n \in Named(lib, {"fn"}) : lib[n].refs \cap LibraryGenerics \subseteq start
  OBVIOUS
<1>4. LibraryInstances = Closure(start, Steps)
  BY DEF LibraryInstances
<1>5. \A n \in Symbols : Steps[n] \subseteq LibraryGenerics
  OBVIOUS
<1> HIDE DEF Steps, start
<1>6. /\ start \subseteq LibraryInstances
      /\ LibraryInstances \subseteq Symbols
      /\ \A n \in LibraryInstances : Steps[n] \subseteq LibraryInstances
  BY <1>1, <1>2, <1>3, <1>4, <1>5, ClosureHolds
<1>7. LibraryInstances \subseteq LibraryGenerics
  BY <1>1, <1>2, <1>3, <1>4, <1>5, ClosureLeast
<1> QED
  BY <1>2, <1>3, <1>6, <1>7

-----------------------------------------------------------------------------
(* A library that is written is complete. *)

LEMMA ShippedNames ==
  ASSUME TypeOK, manifest = Shipped
  PROVE  /\ manifest.public = {n \in Named(lib, {"fn"}) : lib[n].public}
         /\ manifest.generics = Reached \cap Named(lib, {"generic"})
         /\ manifest.helpers = Reached \cap Private \cap Named(lib, {"fn"})
         /\ manifest.constants = Reached \cap Named(lib, {"const"})
BY DEF Shipped

\* Every name a shipped template mentions was shipped, or is of the table of
\* public functions.
LEMMA TemplatesComplete ==
  ASSUME TypeOK, manifest = Shipped, Unshippable = {},
         NEW g \in manifest.generics, NEW n \in lib[g].refs
  PROVE  n \in manifest.generics \cup manifest.public \cup manifest.helpers \cup manifest.constants
<1>1. lib \in Library /\ g \in Symbols /\ g \in Reached /\ lib[g].kind = "generic"
  BY ShippedNames DEF TypeOK, Named
<1>2. lib[g].public \in BOOLEAN /\ n \in Symbols /\ lib[n].kind # "absent"
  BY <1>1, LibraryFacts
<1>3. lib[n].kind \in {"fn", "generic", "const", "namespace"} /\ lib[n].public \in BOOLEAN
      /\ (lib[n].kind = "const" => ~lib[n].public)
  BY <1>1, <1>2, LibraryFacts
<1>4. CASE n = g
  BY <1>4
<1>5. CASE n # g
  <2>1. g \in Roots \cup Private
    BY <1>1, <1>2 DEF Roots, Private, Named
  <2>2. n \in Reached
    BY <2>1, <1>1, <1>5, ReachedFacts
  <2>3. lib[n].kind # "namespace"
    <3>1. SUFFICES ASSUME lib[n].kind = "namespace" PROVE FALSE
      OBVIOUS
    <3>2. "CE5006" \in Unshippable
      BY <2>2, <3>1 DEF Unshippable
    <3> QED
      BY <3>2
  <2>4. CASE lib[n].kind = "generic"
    BY <2>2, <2>4, <1>2, ShippedNames DEF Named
  <2>5. CASE lib[n].kind = "const"
    BY <2>2, <2>5, <1>2, ShippedNames DEF Named
  <2>6. CASE lib[n].kind = "fn"
    <3>1. CASE lib[n].public
      BY <3>1, <2>6, <1>2, ShippedNames DEF Named
    <3>2. CASE ~lib[n].public
      BY <3>2, <2>2, <2>6, <1>2, ShippedNames DEF Named, Private
    <3> QED
      BY <3>1, <3>2
  <2> QED
    BY <2>3, <2>4, <2>5, <2>6, <1>3
<1> QED
  BY <1>4, <1>5

LEMMA NothingUnknown ==
  ASSUME TypeOK, manifest = Shipped, Unshippable = {}
  PROVE  Unknown = {}
<1>1. \A g \in Instances : \A n \in lib[g].refs : n \in Known
  <2> SUFFICES ASSUME NEW g \in Instances, NEW n \in lib[g].refs PROVE n \in Known
    OBVIOUS
  <2>1. g \in manifest.generics
    BY InstancesFacts
  <2>2. n \in manifest.generics \cup manifest.public \cup manifest.helpers \cup manifest.constants
    BY <2>1, TemplatesComplete
  <2> QED
    BY <2>2 DEF Known, Functions, Constants
<1> SUFFICES ASSUME NEW n \in Unknown PROVE FALSE
  OBVIOUS
<1>2. PICK g \in Instances : n \in lib[g].refs
  BY DEF Unknown
<1>3. n \notin Known
  BY DEF Unknown
<1> QED
  BY <1>1, <1>2, <1>3
-----------------------------------------------------------------------------
(* The two modules define every symbol they mention. *)

Provided(r) == \E t \in Defined : t.name = r

LEMMA Provides ==
  /\ Provided(Main)
  /\ \A n \in Local("fn") \cup Local("const") \cup manifest.constants : Provided(Own(n))
  /\ \A g \in Instances : Provided(Instance(g))
  /\ \A n \in Named(lib, {"fn"}) \cup Named(lib, {"const"}) : Provided(Own(n))
  /\ \A g \in LibraryInstances : Provided(Instance(g))
<1>1. Provided(Main)
  <2> DEFINE t == Symbol(Main, "program", 1, Mentions(prog.main, manifest.generics))
  <2>1. t \in Defined
    BY DEF Defined, MainModule
  <2>2. t.name = Main
    BY DEF Symbol
  <2> QED
    BY <2>1, <2>2 DEF Provided
<1>2. ASSUME NEW n \in Local("fn") \cup Local("const") PROVE Provided(Own(n))
  <2> DEFINE t == Symbol(Own(n), "program", 1, {})
  <2>1. t \in Defined
    BY <1>2 DEF Defined, MainModule
  <2>2. t.name = Own(n)
    BY DEF Symbol
  <2> QED
    BY <2>1, <2>2 DEF Provided
<1>3. ASSUME NEW n \in manifest.constants PROVE Provided(Own(n))
  <2> DEFINE t == Symbol(Own(n), "library", 1, {})
  <2>1. t \in Defined
    BY <1>3 DEF Defined, MainModule
  <2>2. t.name = Own(n)
    BY DEF Symbol
  <2> QED
    BY <2>1, <2>2 DEF Provided
<1>4. ASSUME NEW g \in Instances PROVE Provided(Instance(g))
  <2> DEFINE t == Symbol(Instance(g), "library", 1, Mentions(lib[g].refs, manifest.generics))
  <2>1. t \in Defined
    BY <1>4 DEF Defined, MainModule
  <2>2. t.name = Instance(g)
    BY DEF Symbol
  <2> QED
    BY <2>1, <2>2 DEF Provided
<1>5. ASSUME NEW n \in Named(lib, {"fn"}) PROVE Provided(Own(n))
  <2> DEFINE t == Symbol(Own(n), "library", 2, Mentions(lib[n].refs, LibraryGenerics))
  <2>1. t \in Defined
    BY <1>5 DEF Defined, LibraryModule
  <2>2. t.name = Own(n)
    BY DEF Symbol
  <2> QED
    BY <2>1, <2>2 DEF Provided
<1>6. ASSUME NEW n \in Named(lib, {"const"}) PROVE Provided(Own(n))
  <2> DEFINE t == Symbol(Own(n), "library", 2, {})
  <2>1. t \in Defined
    BY <1>6 DEF Defined, LibraryModule
  <2>2. t.name = Own(n)
    BY DEF Symbol
  <2> QED
    BY <2>1, <2>2 DEF Provided
<1>7. ASSUME NEW g \in LibraryInstances PROVE Provided(Instance(g))
  <2> DEFINE t == Symbol(Instance(g), "library", 2, Mentions(lib[g].refs, LibraryGenerics))
  <2>1. t \in Defined
    BY <1>7 DEF Defined, LibraryModule
  <2>2. t.name = Instance(g)
    BY DEF Symbol
  <2> QED
    BY <2>1, <2>2 DEF Provided
<1> QED
  BY <1>1, <1>2, <1>3, <1>4, <1>5, <1>6, <1>7

LEMMA MentionsFacts ==
  ASSUME NEW refs, NEW generics, NEW r \in Mentions(refs, generics)
  PROVE  \/ \E n \in refs \cap generics : r = Instance(n)
         \/ \E n \in refs : n \notin generics /\ n \notin Named(lib, {"namespace"}) /\ r = Own(n)
BY DEF Mentions

\* What main may mention: the program's own, and what the manifest offers.
Offered == Local("fn") \cup Local("const") \cup manifest.public \cup manifest.generics
             \cup manifest.helpers \cup manifest.constants

LEMMA MainMentions ==
  ASSUME TypeOK, manifest = Shipped, prog.main \subseteq Offered,
         NEW r \in Mentions(prog.main, manifest.generics)
  PROVE  Provided(r)
<1>1. CASE \E n \in prog.main \cap manifest.generics : r = Instance(n)
  BY <1>1, InstancesFacts, Provides
<1>2. CASE \E n \in prog.main : n \notin manifest.generics /\ n \notin Named(lib, {"namespace"}) /\ r = Own(n)
  <2>1. PICK n \in prog.main : n \notin manifest.generics /\ r = Own(n)
    BY <1>2
  <2>2. n \in Local("fn") \cup Local("const") \cup manifest.constants \cup manifest.public \cup manifest.helpers
    BY <2>1 DEF Offered
  <2>3. manifest.public \cup manifest.helpers \subseteq Named(lib, {"fn"})
    BY ShippedNames
  <2> QED
    BY <2>1, <2>2, <2>3, Provides
<1> QED
  BY <1>1, <1>2, MentionsFacts

\* What a body of the library mentions: a template it has an instance of, or a
\* function or a constant.
LEMMA BodyMentions ==
  ASSUME TypeOK, NEW n \in Symbols, NEW generics, NEW instances,
         lib[n].refs \cap Named(lib, {"generic"}) \subseteq generics,
         lib[n].refs \cap generics \subseteq instances,
         \A g \in instances : Provided(Instance(g)),
         NEW r \in Mentions(lib[n].refs, generics)
  PROVE  Provided(r)
<1>1. CASE \E m \in lib[n].refs \cap generics : r = Instance(m)
  BY <1>1
<1>2. CASE \E m \in lib[n].refs : m \notin generics /\ m \notin Named(lib, {"namespace"}) /\ r = Own(m)
  <2>1. PICK m \in lib[n].refs : m \notin generics /\ m \notin Named(lib, {"namespace"}) /\ r = Own(m)
    BY <1>2
  <2>2. lib \in Library
    BY DEF TypeOK
  <2>3. m \in Symbols /\ lib[m].kind # "absent"
    BY <2>2, LibraryFacts
  <2>4. lib[m].kind \in {"fn", "generic", "const", "namespace", "absent"}
    BY <2>2, <2>3, LibraryFacts
  <2>5. lib[m].kind # "generic" /\ lib[m].kind # "namespace"
    BY <2>1, <2>3 DEF Named
  <2>6. m \in Named(lib, {"fn"}) \cup Named(lib, {"const"})
    BY <2>3, <2>4, <2>5 DEF Named
  <2> QED
    BY <2>1, <2>6, Provides
<1> QED
  BY <1>1, <1>2, MentionsFacts

\* Every symbol of the two modules, with what it mentions.
LEMMA DefinedCases ==
  ASSUME NEW s \in Defined
  PROVE  \/ s = Symbol(Main, "program", 1, Mentions(prog.main, manifest.generics))
         \/ \E n \in Local("fn") \cup Local("const") : s = Symbol(Own(n), "program", 1, {})
         \/ \E n \in manifest.constants : s = Symbol(Own(n), "library", 1, {})
         \/ \E g \in Instances :
              s = Symbol(Instance(g), "library", 1, Mentions(lib[g].refs, manifest.generics))
         \/ \E n \in Named(lib, {"fn"}) :
              s = Symbol(Own(n), "library", 2, Mentions(lib[n].refs, LibraryGenerics))
         \/ \E n \in Named(lib, {"const"}) : s = Symbol(Own(n), "library", 2, {})
         \/ \E g \in LibraryInstances :
              s = Symbol(Instance(g), "library", 2, Mentions(lib[g].refs, LibraryGenerics))
<1>1. CASE s \in MainModule
  BY <1>1 DEF MainModule
<1>2. CASE s \in LibraryModule
  BY <1>2 DEF LibraryModule
<1> QED
  BY <1>1, <1>2 DEF Defined

LEMMA DefinedClosed ==
  ASSUME TypeOK, manifest = Shipped, Unshippable = {}, prog.main \subseteq Offered,
         NEW s \in Defined, NEW r \in s.refs
  PROVE  Provided(r)
<1>1. CASE s = Symbol(Main, "program", 1, Mentions(prog.main, manifest.generics))
  BY <1>1, MainMentions DEF Symbol
<1>2. CASE \E n \in Local("fn") \cup Local("const") : s = Symbol(Own(n), "program", 1, {})
  BY <1>2 DEF Symbol
<1>3. CASE \E n \in manifest.constants : s = Symbol(Own(n), "library", 1, {})
  BY <1>3 DEF Symbol
<1>4. CASE \E g \in Instances :
             s = Symbol(Instance(g), "library", 1, Mentions(lib[g].refs, manifest.generics))
  <2>1. PICK g \in Instances :
          s = Symbol(Instance(g), "library", 1, Mentions(lib[g].refs, manifest.generics))
    BY <1>4
  <2>2. r \in Mentions(lib[g].refs, manifest.generics)
    BY <2>1 DEF Symbol
  <2>3. g \in manifest.generics /\ g \in Symbols
    BY InstancesFacts DEF TypeOK
  <2>4. lib[g].refs \cap Named(lib, {"generic"}) \subseteq manifest.generics
    <3> SUFFICES ASSUME NEW n \in lib[g].refs, n \in Named(lib, {"generic"})
                 PROVE  n \in manifest.generics
      OBVIOUS
    <3>1. n \in manifest.generics \cup manifest.public \cup manifest.helpers \cup manifest.constants
      BY <2>3, TemplatesComplete
    <3>2. lib[n].kind = "generic"
      BY DEF Named
    <3> QED
      BY <3>1, <3>2, ShippedNames DEF Named
  <2>5. lib[g].refs \cap manifest.generics \subseteq Instances
    BY InstancesFacts
  <2>6. \A i \in Instances : Provided(Instance(i))
    BY Provides
  <2> QED
    BY <2>2, <2>3, <2>4, <2>5, <2>6, BodyMentions
<1>5. CASE \E n \in Named(lib, {"fn"}) :
             s = Symbol(Own(n), "library", 2, Mentions(lib[n].refs, LibraryGenerics))
  <2>1. PICK n \in Named(lib, {"fn"}) :
          s = Symbol(Own(n), "library", 2, Mentions(lib[n].refs, LibraryGenerics))
    BY <1>5
  <2>2. r \in Mentions(lib[n].refs, LibraryGenerics)
    BY <2>1 DEF Symbol
  <2>3. n \in Symbols /\ lib[n].refs \cap Named(lib, {"generic"}) \subseteq LibraryGenerics
    BY DEF Named, LibraryGenerics
  <2>4. lib[n].refs \cap LibraryGenerics \subseteq LibraryInstances
    BY LibraryInstancesFacts
  <2>5. \A i \in LibraryInstances : Provided(Instance(i))
    BY Provides
  <2> QED
    BY <2>2, <2>3, <2>4, <2>5, BodyMentions
<1>6. CASE \E n \in Named(lib, {"const"}) : s = Symbol(Own(n), "library", 2, {})
  BY <1>6 DEF Symbol
<1>7. CASE \E g \in LibraryInstances :
             s = Symbol(Instance(g), "library", 2, Mentions(lib[g].refs, LibraryGenerics))
  <2>1. PICK n \in LibraryInstances :
          s = Symbol(Instance(n), "library", 2, Mentions(lib[n].refs, LibraryGenerics))
    BY <1>7
  <2>2. r \in Mentions(lib[n].refs, LibraryGenerics)
    BY <2>1 DEF Symbol
  <2>3. n \in Symbols /\ lib[n].refs \cap Named(lib, {"generic"}) \subseteq LibraryGenerics
    BY LibraryInstancesFacts DEF Named, LibraryGenerics
  <2>4. lib[n].refs \cap LibraryGenerics \subseteq LibraryInstances
    BY LibraryInstancesFacts
  <2>5. \A i \in LibraryInstances : Provided(Instance(i))
    BY Provides
  <2> QED
    BY <2>2, <2>3, <2>4, <2>5, BodyMentions
<1> QED
  BY <1>1, <1>2, <1>3, <1>4, <1>5, <1>6, <1>7, DefinedCases
-----------------------------------------------------------------------------
(* What the linker keeps. *)

LEMMA DefinedFields ==
  ASSUME NEW s \in Defined
  PROVE  s.rank \in {1, 2} /\ s.by \in {"program", "library"}
BY DefinedCases DEF Symbol

\* The definition that is chosen is one of the candidates, and the one whose
\* mentions the graph has.
LEMMA ChosenFacts ==
  ASSUME NEW name, Provided(name)
  PROVE  /\ Definitions(Defined, name) # {}
         /\ Resolved(Defined, name) \in Defined
         /\ Resolved(Defined, name).name = name
         /\ FirstMet(Definitions(Defined, name)) = Resolved(Defined, name)
<1> DEFINE candidates == Definitions(Defined, name)
<1>1. candidates \subseteq Defined /\ candidates # {} /\ \A s \in candidates : s.name = name
  BY DEF Definitions, Provided
<1>2. Resolved(Defined, name) = Choose(candidates)
  BY <1>1 DEF Resolved
<1>3. FirstMet(candidates) = Choose(candidates)
  BY DEF FirstMet, Choose
<1> HIDE DEF candidates
<1>4. \E s \in candidates : \A t \in candidates : s.rank <= t.rank
  <2>1. \A s \in candidates : s.rank \in {1, 2}
    BY <1>1, DefinedFields
  <2>2. CASE \E s \in candidates : s.rank = 1
    BY <2>1, <2>2
  <2>3. CASE \A s \in candidates : s.rank # 1
    <3>1. \A s \in candidates : s.rank = 2
      BY <2>1, <2>3
    <3> QED
      BY <3>1, <1>1
  <2> QED
    BY <2>2, <2>3
<1>5. Choose(candidates) \in candidates
  BY <1>4 DEF Choose
<1> QED
  BY <1>1, <1>2, <1>3, <1>5 DEF candidates

LEMMA UndefinedFacts ==
  ASSUME NEW name, ~Provided(name)
  PROVE  Resolved(Defined, name) = Symbol(name, "nobody", 1, {})
<1>1. Definitions(Defined, name) = {}
  BY DEF Definitions, Provided
<1> QED
  BY <1>1 DEF Resolved

LEMMA ProvidedNames ==
  ASSUME NEW name, Provided(name)
  PROVE  name \in AllNames(Defined)
BY DEF Provided, AllNames

LEMMA ReachableFacts ==
  /\ Main \in Reachable(Defined)
  /\ Reachable(Defined) \subseteq AllNames(Defined)
  /\ \A name \in Reachable(Defined) :
       Provided(name) => Resolved(Defined, name).refs \cap AllNames(Defined) \subseteq Reachable(Defined)
<1> DEFINE names == AllNames(Defined)
           graph == Depends(Defined)
<1>1. /\ DOMAIN graph = names
      /\ \A name \in names : graph[name] \subseteq names
  BY DEF Depends
<1>2. \A name \in names : Provided(name) => graph[name] = Resolved(Defined, name).refs \cap names
  <2> SUFFICES ASSUME NEW name \in names, Provided(name)
               PROVE  graph[name] = Resolved(Defined, name).refs \cap names
    OBVIOUS
  <2>1. /\ Definitions(Defined, name) # {}
        /\ FirstMet(Definitions(Defined, name)) = Resolved(Defined, name)
    BY ChosenFacts
  <2>2. graph[name] = FirstMet(Definitions(Defined, name)).refs \cap names
    BY <2>1 DEF Depends
  <2> QED
    BY <2>1, <2>2
<1>3. Reachable(Defined) = Closure({Main}, graph)
  BY DEF Reachable
<1>4. Main \in names
  BY Provides, ProvidedNames
<1> HIDE DEF names, graph
<1>5. /\ {Main} \subseteq Closure({Main}, graph)
      /\ Closure({Main}, graph) \subseteq DOMAIN graph
      /\ \A n \in Closure({Main}, graph) : graph[n] \subseteq Closure({Main}, graph)
  BY <1>1, <1>4, ClosureHolds
<1> QED
  BY <1>1, <1>2, <1>3, <1>5 DEF names

Linked == {Resolved(Defined, name) : name \in Reachable(Defined)}

LEMMA LinkedClosed ==
  ASSUME TypeOK, manifest = Shipped, Unshippable = {}, prog.main \subseteq Offered,
         image = Linked
  PROVE  LET defined == {t.name : t \in {s \in image : s.by # "nobody"}}
         IN  Main \in defined /\ \A s \in image : s.refs \subseteq defined
<1> DEFINE defined == {t.name : t \in {s \in image : s.by # "nobody"}}
<1>1. ASSUME NEW name \in Reachable(Defined), Provided(name)
      PROVE  name \in defined
  <2>1. Resolved(Defined, name) \in image
    BY DEF Linked
  <2>2. Resolved(Defined, name) \in Defined /\ Resolved(Defined, name).name = name
    BY <1>1, ChosenFacts
  <2>3. Resolved(Defined, name).by # "nobody"
    BY <2>2, DefinedFields
  <2> QED
    BY <2>1, <2>2, <2>3
<1>2. Main \in defined
  BY <1>1, ReachableFacts, Provides
<1>3. ASSUME NEW s \in image, NEW r \in s.refs PROVE r \in defined
  <2>1. PICK name \in Reachable(Defined) : s = Resolved(Defined, name)
    BY DEF Linked
  <2>2. CASE Provided(name)
    <3>1. s \in Defined
      BY <2>1, <2>2, ChosenFacts
    <3>2. Provided(r)
      BY <3>1, DefinedClosed
    <3>3. r \in AllNames(Defined)
      BY <3>2, ProvidedNames
    <3>4. r \in Reachable(Defined)
      BY <2>1, <2>2, <3>3, ReachableFacts
    <3> QED
      BY <3>2, <3>4, <1>1
  <2>3. CASE ~Provided(name)
    BY <2>1, <2>3, UndefinedFacts DEF Symbol
  <2> QED
    BY <2>2, <2>3
<1> QED
  BY <1>2, <1>3

\* A symbol of the name of a private the library ships is the library's: the
\* program declares nothing of that name.
LEMMA PrivatesOfTheLibrary ==
  ASSUME MainAssumption, TypeOK, Clashes = {}, TwoThings = {},
         NEW n \in manifest.helpers \cup manifest.constants,
         NEW t \in Defined, t.name = Own(n)
  PROVE  t.by = "library"
<1>1. n \in Symbols
  BY DEF TypeOK
<1>2. Own(n) # Main
  BY <1>1 DEF MainAssumption, Own, Main
<1>3. \A m : Own(m) = Own(n) => m = n
  BY DEF Own
<1>4. n \notin Local("fn") \cup Local("const")
  <2>1. CASE n \in manifest.helpers
    <3>1. n \notin Local("fn")
      BY <2>1 DEF Clashes
    <3>2. n \notin Local("const")
      BY <2>1 DEF TwoThings
    <3> QED
      BY <3>1, <3>2
  <2>2. CASE n \in manifest.constants
    <3>1. n \notin Local("const")
      BY <2>2 DEF Clashes
    <3>2. n \notin Local("fn")
      BY <2>2 DEF TwoThings
    <3> QED
      BY <3>1, <3>2
  <2> QED
    BY <2>1, <2>2
<1>5. t # Symbol(Main, "program", 1, Mentions(prog.main, manifest.generics))
  BY <1>2 DEF Symbol
<1>6. ~\E m \in Local("fn") \cup Local("const") : t = Symbol(Own(m), "program", 1, {})
  BY <1>3, <1>4 DEF Symbol
<1> QED
  BY <1>5, <1>6, DefinedCases DEF Symbol

LEMMA LinkedKept ==
  ASSUME MainAssumption, TypeOK, manifest = Shipped, Unshippable = {},
         Clashes = {}, TwoThings = {}, prog.main \subseteq Offered, image = Linked,
         NEW s \in image, NEW n \in manifest.helpers \cup manifest.constants,
         NEW t \in image, t.name \in s.refs, t.name = Own(n)
  PROVE  t.by = "library"
<1>1. PICK name \in Reachable(Defined) : t = Resolved(Defined, name)
  BY DEF Linked
<1>2. Provided(Own(n))
  <2>1. CASE n \in manifest.constants
    BY <2>1, Provides
  <2>2. CASE n \in manifest.helpers
    BY <2>2, ShippedNames, Provides
  <2> QED
    BY <2>1, <2>2
<1>3. name = Own(n)
  <2>1. CASE Provided(name)
    BY <2>1, <1>1, ChosenFacts
  <2>2. CASE ~Provided(name)
    BY <2>2, <1>1, UndefinedFacts DEF Symbol
  <2> QED
    BY <2>1, <2>2
<1>4. t \in Defined
  BY <1>1, <1>2, <1>3, ChosenFacts
<1> QED
  BY <1>4, PrivatesOfTheLibrary
-----------------------------------------------------------------------------
(* The types of the symbols. *)

SymbolRecords ==
  [name : SymbolNames, by : {"program", "library", "nobody"}, rank : {1, 2}, refs : SUBSET SymbolNames]

LEMMA SymbolType ==
  ASSUME NEW name \in SymbolNames, NEW by \in {"program", "library", "nobody"},
         NEW rank \in {1, 2}, NEW refs \in SUBSET SymbolNames
  PROVE  Symbol(name, by, rank, refs) \in SymbolRecords
BY DEF Symbol, SymbolRecords

LEMMA NameTypes ==
  /\ \A n \in Symbols : Own(n) \in SymbolNames /\ Instance(n) \in SymbolNames
  /\ Main \in SymbolNames
BY DEF Own, Instance, Main, SymbolNames

LEMMA MentionsType ==
  ASSUME NEW refs \in SUBSET Symbols, NEW generics
  PROVE  Mentions(refs, generics) \in SUBSET SymbolNames
<1> SUFFICES ASSUME NEW r \in Mentions(refs, generics) PROVE r \in SymbolNames
  OBVIOUS
<1> QED
  BY MentionsFacts, NameTypes

LEMMA DefinedType ==
  ASSUME TypeOK, NEW s \in Defined
  PROVE  s \in SymbolRecords
<1>1. lib \in Library /\ prog.main \in SUBSET Symbols
  BY DEF TypeOK
<1>2. manifest.generics \subseteq Symbols /\ manifest.constants \subseteq Symbols
  BY DEF TypeOK
<1>3. /\ Local("fn") \cup Local("const") \subseteq Symbols
      /\ Named(lib, {"fn"}) \cup Named(lib, {"const"}) \subseteq Symbols
      /\ Instances \subseteq Symbols
      /\ LibraryInstances \subseteq Symbols
  BY <1>2, InstancesFacts, LibraryInstancesFacts DEF Local, Named, LibraryGenerics
<1>4. \A n \in Symbols : \A generics : Mentions(lib[n].refs, generics) \in SUBSET SymbolNames
  BY <1>1, LibraryFacts, MentionsType
<1>5. CASE s = Symbol(Main, "program", 1, Mentions(prog.main, manifest.generics))
  BY <1>1, <1>5, NameTypes, MentionsType, SymbolType
<1>6. CASE \E n \in Local("fn") \cup Local("const") : s = Symbol(Own(n), "program", 1, {})
  BY <1>3, <1>6, NameTypes, SymbolType
<1>7. CASE \E n \in manifest.constants : s = Symbol(Own(n), "library", 1, {})
  BY <1>2, <1>7, NameTypes, SymbolType
<1>8. CASE \E g \in Instances :
             s = Symbol(Instance(g), "library", 1, Mentions(lib[g].refs, manifest.generics))
  BY <1>3, <1>4, <1>8, NameTypes, SymbolType
<1>9. CASE \E n \in Named(lib, {"fn"}) :
             s = Symbol(Own(n), "library", 2, Mentions(lib[n].refs, LibraryGenerics))
  BY <1>3, <1>4, <1>9, NameTypes, SymbolType
<1>10. CASE \E n \in Named(lib, {"const"}) : s = Symbol(Own(n), "library", 2, {})
  BY <1>3, <1>10, NameTypes, SymbolType
<1>11. CASE \E g \in LibraryInstances :
             s = Symbol(Instance(g), "library", 2, Mentions(lib[g].refs, LibraryGenerics))
  BY <1>3, <1>4, <1>11, NameTypes, SymbolType
<1> QED
  BY <1>5, <1>6, <1>7, <1>8, <1>9, <1>10, <1>11, DefinedCases

LEMMA LinkedType ==
  ASSUME TypeOK
  PROVE  Linked \subseteq SymbolRecords
<1> SUFFICES ASSUME NEW name \in Reachable(Defined)
             PROVE  Resolved(Defined, name) \in SymbolRecords
  BY DEF Linked
<1>1. CASE Provided(name)
  BY <1>1, ChosenFacts, DefinedType
<1>2. CASE ~Provided(name)
  <2>1. name \in AllNames(Defined)
    BY ReachableFacts
  <2>2. name \in MainDeclares
    BY <2>1, <1>2 DEF AllNames, Provided
  <2>3. manifest.public \subseteq Symbols /\ manifest.helpers \subseteq Symbols
    BY DEF TypeOK
  <2>4. name \in SymbolNames
    BY <2>2, <2>3, NameTypes DEF MainDeclares
  <2> QED
    BY <2>4, <1>2, UndefinedFacts, SymbolType
<1> QED
  BY <1>1, <1>2

-----------------------------------------------------------------------------
(* The inductive invariant: the manifest is the closure of a library that   *)
(* can be shipped, main mentions what it was offered, a program that was    *)
(* compiled has no name of a shipped private, and the image is what the     *)
(* linker makes of the two modules.                                         *)

WrittenOut == phase \in {"shipped", "compiled", "linked"}

IndInv ==
  /\ TypeOK
  /\ reason # "unknown name"
  /\ WrittenOut => Unshippable = {} /\ manifest = Shipped
  /\ phase = "library" => prog.main = {}
  /\ prog.main \subseteq Offered
  /\ phase \in {"compiled", "linked"} => Clashes = {} /\ TwoThings = {}
  /\ phase = "linked" => image = Linked
\* What depends on the library alone, on what the program and the manifest
\* name, and on all three.
LEMMA SameLibrary ==
  ASSUME lib' = lib
  PROVE  Unshippable' = Unshippable /\ Shipped' = Shipped
<1>1. Roots' = Roots /\ Private' = Private
  BY DEF Roots, Private, Named
<1>2. \A n : Walked(n)' = Walked(n)
  BY <1>1 DEF Walked
<1>3. [n \in Symbols |-> Walked(n)]' = [n \in Symbols |-> Walked(n)]
  BY <1>2
<1>4. Reached' = Reached
  BY <1>1, <1>3 DEF Reached, Closure, Closed
<1>5. Unshippable' = Unshippable
  BY <1>1, <1>4 DEF Unshippable, Named
<1>6. Shipped' = Shipped
  BY <1>1, <1>4 DEF Shipped, Named
<1> QED
  BY <1>5, <1>6

LEMMA SameOffer ==
  ASSUME manifest' = manifest, prog' = prog
  PROVE  Offered' = Offered /\ Clashes' = Clashes /\ TwoThings' = TwoThings
<1>1. \A kind : Local(kind)' = Local(kind)
  BY DEF Local
<1> QED
  BY <1>1 DEF Offered, Clashes, TwoThings

LEMMA SameLinked ==
  ASSUME lib' = lib, manifest' = manifest, prog' = prog
  PROVE  Linked' = Linked
<1>1. \A kind : Local(kind)' = Local(kind)
  BY DEF Local
<1>2. [n \in Symbols |-> lib[n].refs \cap manifest.generics]'
        = [n \in Symbols |-> lib[n].refs \cap manifest.generics]
  OBVIOUS
<1>3. Instances' = Instances
  BY <1>2 DEF Instances, Closure, Closed
<1>4. LibraryGenerics' = LibraryGenerics
  BY DEF LibraryGenerics, Named
<1>5. LibraryInstances' = LibraryInstances
  BY <1>4 DEF LibraryInstances, Closure, Closed, Named
<1>6. \A refs, generics : Mentions(refs, generics)' = Mentions(refs, generics)
  BY DEF Mentions, Named
<1>7. MainModule' = MainModule
  BY <1>1, <1>3, <1>6 DEF MainModule
<1>8. LibraryModule' = LibraryModule
  BY <1>4, <1>5, <1>6 DEF LibraryModule, Named
<1>9. Defined' = Defined
  BY <1>7, <1>8 DEF Defined
<1>10. MainDeclares' = MainDeclares
  BY <1>1 DEF MainDeclares
<1>11. AllNames(Defined)' = AllNames(Defined)
  BY <1>9, <1>10 DEF AllNames
<1>12. Depends(Defined)' = Depends(Defined)
  BY <1>9, <1>11 DEF Depends, Definitions
<1>13. Reachable(Defined)' = Reachable(Defined)
  BY <1>12 DEF Reachable, Closure, Closed
<1>14. \A name : Resolved(Defined, name)' = Resolved(Defined, name)
  BY <1>9 DEF Resolved, Definitions
<1> QED
  BY <1>13, <1>14 DEF Linked
LEMMA InitHolds == Init => IndInv
<1> SUFFICES ASSUME Init PROVE IndInv
  OBVIOUS
<1>1. lib \in Library /\ phase = "library" /\ reason = "none" /\ image = {}
  BY DEF Init
<1>2. /\ manifest = [public |-> {}, generics |-> {}, helpers |-> {}, constants |-> {}]
      /\ prog = [locals |-> [n \in Symbols |-> "absent"], main |-> {}]
  BY DEF Init, NoManifest, NoProgram
<1>3. manifest \in [public : SUBSET Symbols, generics : SUBSET Symbols,
                    helpers : SUBSET Symbols, constants : SUBSET Symbols]
  BY <1>2
<1>4. prog \in [locals : [Symbols -> {"fn", "const", "absent"}], main : SUBSET Symbols]
  BY <1>2
<1>5. TypeOK
  BY <1>1, <1>3, <1>4 DEF TypeOK
<1>6. prog.main = {} /\ prog.main \subseteq Offered
  BY <1>2
<1> QED
  BY <1>1, <1>5, <1>6 DEF IndInv, WrittenOut

LEMMA RefuseKeeps ==
  ASSUME IndInv, NEW why \in {"CE5002", "CE5006", "CE5007", "duplicate global"}, Refuse(why)
  PROVE  IndInv'
<1>1. phase' = "refused" /\ reason' = why /\ UNCHANGED <<lib, manifest, prog, image>>
  BY DEF Refuse
<1>2. Offered' = Offered
  BY <1>1, SameOffer
<1>3. TypeOK'
  BY <1>1 DEF IndInv, TypeOK
<1> QED
  BY <1>1, <1>2, <1>3 DEF IndInv, WrittenOut

LEMMA ExportKeeps == ASSUME IndInv, Export PROVE IndInv'
<1>1. CASE \E why \in Unshippable : Refuse(why)
  <2>1. PICK why \in Unshippable : Refuse(why)
    BY <1>1
  <2>2. why \in {"CE5002", "CE5006"}
    BY DEF Unshippable
  <2> QED
    BY <2>1, <2>2, RefuseKeeps
<1>2. CASE Unshippable = {} /\ phase' = "shipped" /\ manifest' = Shipped
           /\ UNCHANGED <<lib, reason, prog, image>>
  <2>1. phase = "library"
    BY DEF Export
  <2>2. Unshippable' = {} /\ manifest' = Shipped'
    BY <1>2, SameLibrary
  <2>3. lib \in Library
    BY DEF IndInv, TypeOK
  <2>4. Shipped \in [public : SUBSET Symbols, generics : SUBSET Symbols,
                     helpers : SUBSET Symbols, constants : SUBSET Symbols]
    <3>1. \A kinds : Named(lib, kinds) \subseteq Symbols
      BY DEF Named
    <3> QED
      BY <3>1 DEF Shipped
  <2>5. TypeOK'
    BY <1>2, <2>4 DEF IndInv, TypeOK
  <2>6. prog'.main \subseteq Offered'
    <3>1. prog.main = {}
      BY <2>1 DEF IndInv
    <3> QED
      BY <1>2, <3>1
  <2> QED
    BY <1>2, <2>2, <2>5, <2>6 DEF IndInv, WrittenOut
<1> QED
  BY <1>1, <1>2 DEF Export

LEMMA WriteKeeps == ASSUME IndInv, WriteProgram PROVE IndInv'
<1>1. phase = "shipped" /\ UNCHANGED <<lib, phase, reason, manifest, image>>
  BY DEF WriteProgram
<1>2. PICK some \in Few(MaxLocals), used \in Few(2) :
        \E locals \in [some -> {"fn", "const"}] :
          /\ used \subseteq some \cup UNION {manifest[part] : part \in DOMAIN manifest}
          /\ prog' = [locals |-> [n \in Symbols |-> IF n \in some THEN locals[n] ELSE "absent"],
                      main   |-> used]
  BY DEF WriteProgram
<1>3. PICK locals \in [some -> {"fn", "const"}] :
        /\ used \subseteq some \cup UNION {manifest[part] : part \in DOMAIN manifest}
        /\ prog' = [locals |-> [n \in Symbols |-> IF n \in some THEN locals[n] ELSE "absent"],
                    main   |-> used]
  BY <1>2
<1>4. some \subseteq Symbols /\ used \subseteq Symbols
  BY DEF Few
<1>5. \A n \in some : locals[n] \in {"fn", "const"}
  OBVIOUS
<1>6. prog' \in [locals : [Symbols -> {"fn", "const", "absent"}], main : SUBSET Symbols]
  <2> DEFINE all == [n \in Symbols |-> IF n \in some THEN locals[n] ELSE "absent"]
  <2>1. all \in [Symbols -> {"fn", "const", "absent"}]
    BY <1>5
  <2> HIDE DEF all
  <2> QED
    BY <1>3, <1>4, <2>1
<1>7. prog'.main = used
  BY <1>3
<1>8. \A n \in some : n \in Local("fn")' \cup Local("const")'
  BY <1>3, <1>4, <1>5 DEF Local
<1>9. UNION {manifest[part] : part \in DOMAIN manifest}
        = manifest.public \cup manifest.generics \cup manifest.helpers \cup manifest.constants
  <2>1. manifest \in [public : SUBSET Symbols, generics : SUBSET Symbols,
                      helpers : SUBSET Symbols, constants : SUBSET Symbols]
    BY DEF IndInv, TypeOK
  <2>2. DOMAIN manifest = {"public", "generics", "helpers", "constants"}
    BY <2>1
  <2> QED
    BY <2>2
<1>10. prog'.main \subseteq Offered'
  <2>1. \A n \in used : n \in some \/ n \in manifest.public \cup manifest.generics \cup manifest.helpers \cup manifest.constants
    BY <1>3, <1>9
  <2> QED
    BY <1>1, <1>7, <1>8, <2>1 DEF Offered
<1>11. Unshippable' = Unshippable /\ Shipped' = Shipped
  BY <1>1, SameLibrary
<1>12. TypeOK'
  BY <1>1, <1>6 DEF IndInv, TypeOK
<1> QED
  BY <1>1, <1>10, <1>11, <1>12 DEF IndInv, WrittenOut

\* The one step that could report an unknown name finds none.
LEMMA CompileKeeps == ASSUME IndInv, CompileProgram PROVE IndInv'
<1>1. phase = "shipped" /\ Unshippable = {} /\ manifest = Shipped /\ TypeOK
  BY DEF CompileProgram, IndInv, WrittenOut
<1>2. Unknown = {}
  BY <1>1, NothingUnknown
<1>3. CASE Refuse("CE5007")
  BY <1>3, RefuseKeeps
<1>4. CASE Refuse("duplicate global")
  BY <1>4, RefuseKeeps
<1>5. CASE Clashes = {} /\ TwoThings = {} /\ phase' = "compiled"
           /\ UNCHANGED <<lib, reason, manifest, prog, image>>
  <2>1. Unshippable' = Unshippable /\ Shipped' = Shipped
    BY <1>5, SameLibrary
  <2>2. Offered' = Offered /\ Clashes' = Clashes /\ TwoThings' = TwoThings
    BY <1>5, SameOffer
  <2>3. TypeOK'
    BY <1>1, <1>5 DEF TypeOK
  <2> QED
    BY <1>1, <1>5, <2>1, <2>2, <2>3 DEF IndInv, WrittenOut
<1> QED
  BY <1>2, <1>3, <1>4, <1>5 DEF CompileProgram

LEMMA LinkKeeps == ASSUME IndInv, Link PROVE IndInv'
<1>1. phase = "compiled" /\ phase' = "linked" /\ UNCHANGED <<lib, reason, manifest, prog>>
  BY DEF Link
<1>2. image' = Linked
  BY DEF Link, Linked
<1>3. Unshippable' = Unshippable /\ Shipped' = Shipped
  BY <1>1, SameLibrary
<1>4. Offered' = Offered /\ Clashes' = Clashes /\ TwoThings' = TwoThings
  BY <1>1, SameOffer
<1>5. Linked' = Linked
  BY <1>1, SameLinked
<1>6. TypeOK
  BY DEF IndInv
<1>7. image' \subseteq SymbolRecords
  BY <1>2, <1>6, LinkedType
<1>8. TypeOK'
  BY <1>1, <1>6, <1>7 DEF TypeOK, SymbolRecords
<1> QED
  BY <1>1, <1>2, <1>3, <1>4, <1>5, <1>8 DEF IndInv, WrittenOut

LEMMA StutterKeeps == ASSUME IndInv, UNCHANGED vars PROVE IndInv'
<1>1. UNCHANGED <<lib, phase, reason, manifest, prog, image>>
  BY DEF vars
<1>2. Unshippable' = Unshippable /\ Shipped' = Shipped
  BY <1>1, SameLibrary
<1>3. Offered' = Offered /\ Clashes' = Clashes /\ TwoThings' = TwoThings
  BY <1>1, SameOffer
<1>4. Linked' = Linked
  BY <1>1, SameLinked
<1>5. TypeOK'
  BY <1>1 DEF IndInv, TypeOK
<1> QED
  BY <1>1, <1>2, <1>3, <1>4, <1>5 DEF IndInv, WrittenOut

LEMMA Inductive == Spec => []IndInv
<1>1. IndInv /\ [Next]_vars => IndInv'
  BY ExportKeeps, WriteKeeps, CompileKeeps, LinkKeeps, StutterKeeps DEF Next
<1> QED
  BY <1>1, InitHolds, PTL DEF Spec

-----------------------------------------------------------------------------
(* The theorems. *)

\* Every variable keeps its kind: a library the front end accepted, a manifest
\* and a program of declared names, an image of symbols of the two modules.
THEOREM TypeCorrect == Spec => []TypeOK
BY Inductive, PTL DEF IndInv

\* Library export is complete (library_manifest.py, _compute_export_closure):
\* whatever generics a library exports, and whatever a program instantiates of
\* them, the program never meets a name the library did not ship.
THEOREM ExportsAreComplete == Spec => []ExportComplete
<1>1. IndInv => ExportComplete
  BY DEF IndInv, ExportComplete
<1> QED
  BY <1>1, Inductive, PTL

\* The linked module is closed (module_linker.py): the graph is built from the
\* definition met first and the image from the one the resolver chooses, and
\* still every symbol that was kept mentions only symbols that have a
\* definition in the image.
THEOREM ImagesAreClosed == Spec => []ImageClosed
<1>1. IndInv => ImageClosed
  <2> SUFFICES ASSUME IndInv, phase = "linked" PROVE ImageClosed
    BY DEF ImageClosed
  <2>1. TypeOK /\ manifest = Shipped /\ Unshippable = {} /\ prog.main \subseteq Offered /\ image = Linked
    BY DEF IndInv, WrittenOut
  <2> QED
    BY <2>1, LinkedClosed DEF ImageClosed
<1> QED
  BY <1>1, Inductive, PTL

\* CE5007 is enough (library_registry.py): in a program that compiled, code of
\* the library that mentions a private it ships is linked with the library's
\* own definition, in the bitcode and in the instances the program compiles.
THEOREM HelpersAreKept ==
  ASSUME MainAssumption
  PROVE  Spec => []HelpersKept
<1>1. IndInv => HelpersKept
  <2> SUFFICES ASSUME IndInv, phase = "linked",
                      NEW s \in image, NEW t \in image,
                      t.name \in s.refs \cap {Own(n) : n \in manifest.helpers \cup manifest.constants}
               PROVE  t.by = "library"
    BY DEF HelpersKept, Kept
  <2>1. /\ TypeOK /\ manifest = Shipped /\ Unshippable = {} /\ Clashes = {} /\ TwoThings = {}
        /\ prog.main \subseteq Offered /\ image = Linked
    BY DEF IndInv, WrittenOut
  <2>2. PICK n \in manifest.helpers \cup manifest.constants : t.name = Own(n)
    OBVIOUS
  <2> QED
    BY <2>1, <2>2, MainAssumption, LinkedKept
<1> QED
  BY <1>1, Inductive, PTL

-----------------------------------------------------------------------------
(* Calls: the three layers. *)

IsMethod == call.ask = "method"

\* What the compiler's tables promise, and all that the three layers need of them to agree:
\* the kinds with a family are those the dispatcher asks for, a method derived for a type is
\* not a primitive's, and a container has nothing derived but its hash.
LEMMA TablesFacts ==
  /\ \A k, m : m \in Family(k) => k \in {"array", "string", "Result", "Maybe", "file"} \cup Containers
  /\ \A k, m : m \in Derived(k) => m \notin Primitive(k) /\ k # "fn"
  /\ \A k, m : m \in Derived(k) /\ k \in Containers => m = "hash"
  /\ \A k, m : m \in Primitive(k) => k \notin Containers /\ k # "fn"
  /\ \A k, m : m \in FunctionNames(k) => k = "fn"
BY DEF Family, FamilyNames, Derived, Primitive, FunctionNames, Containers

CallsTypeOK ==
  /\ call \in MethodCalls \cup NameCalls
  /\ IsMethod => Sensible(call)
  /\ progress \in {"declared", "accepted", "checked", "inferred", "emitted", "rejected"}

\* What each layer has answered so far.
Answered ==
  /\ progress \notin {"declared", "rejected"} /\ IsMethod => ~Shadows(call) /\ ~RivalPerk(call)
  /\ progress \in {"checked", "inferred", "emitted"} =>
       checked = (IF IsMethod THEN Check(call) ELSE CheckName(call)) /\ checked # "error"
  /\ progress \in {"inferred", "emitted"} => inferred = IF IsMethod THEN Infer(call) ELSE InferName(call)
  /\ progress = "emitted" => emitted = IF IsMethod THEN Emit(call) ELSE EmitName(call)

CallsInv == CallsTypeOK /\ Answered

\* On a local the three precedences pick one provider.
LEMMA MethodsAgree ==
  ASSUME NEW c \in MethodCalls, Sensible(c), ~Shadows(c), ~RivalPerk(c), ~Differ(c), Check(c) # "error"
  PROVE  Infer(c) = Check(c) /\ Emit(c) = Check(c)
<1> DEFINE k == c.kind
           m == c.method
<1>1. c.form = "local" /\ k # "fn" /\ ~(k \in Containers /\ m = "hash")
  BY DEF Differ, MethodCalls
<1>2. CASE FieldWins(c)
  BY <1>2 DEF Check, Infer, Emit
<1>3. CASE ~FieldWins(c) /\ m \in Family(k)
  <2>1. Check(c) = k
    BY <1>3 DEF Check
  <2>2. Claims(c) = k
    BY <1>3 DEF Claims, ValueFamily, ContainerFamily
  <2>3. k # "none"
    BY <1>3, TablesFacts DEF Containers
  <2>4. Infer(c) = k
    BY <1>1, <1>3, <2>2, <2>3 DEF Infer
  <2>5. ResultOrMaybe(c) = {p \in {"Result", "Maybe"} : p = k}
    BY <1>1, <1>3 DEF ResultOrMaybe, TakenFor
  <2>6. Emit(c) = k
    <3>1. CASE k = "file"
      BY <1>1, <1>3, <3>1 DEF Emit, FileMethod
    <3>2. CASE k \in {"Result", "Maybe"}
      <4>1. ~FileMethod(c) /\ ResultOrMaybe(c) = {k}
        BY <2>5, <3>2 DEF FileMethod
      <4> QED BY <1>3, <4>1 DEF Emit
    <3>3. CASE k \in Containers
      <4>1. ~FileMethod(c) /\ ResultOrMaybe(c) = {} /\ ContainerMethod(c)
        BY <1>3, <2>5, <3>3 DEF FileMethod, ContainerMethod, Containers
      <4> QED BY <1>3, <4>1 DEF Emit
    <3>4. CASE k \in {"array", "string"}
      <4>1. ~FileMethod(c) /\ ResultOrMaybe(c) = {} /\ ~ContainerMethod(c) /\ ValueMethod(c)
        BY <1>3, <2>5, <3>4 DEF FileMethod, ContainerMethod, Containers, ValueMethod
      <4> QED BY <1>3, <4>1 DEF Emit
    <3> QED BY <1>3, <3>1, <3>2, <3>3, <3>4, TablesFacts
  <2> QED BY <2>1, <2>4, <2>6
<1>4. CASE ~FieldWins(c) /\ m \notin Family(k)
  <2>1. ~ValueFamily(c) /\ ~ContainerFamily(c)
    BY <1>4 DEF ValueFamily, ContainerFamily
  <2>2. ~FileMethod(c) /\ ResultOrMaybe(c) = {} /\ ~ContainerMethod(c) /\ ~ValueMethod(c)
    BY <1>1, <1>4 DEF FileMethod, ResultOrMaybe, TakenFor, ContainerMethod, ValueMethod
  <2>3. PerkMethod(c) = c.perk
    BY <1>1 DEF PerkMethod, MethodCalls
  <2>4. CASE c.perk
    <3>1. Check(c) = "perk" /\ Emit(c) = "perk"
      BY <1>4, <2>2, <2>3, <2>4 DEF Check, Emit
    <3>2. Claims(c) = "none"
      BY <2>1, <2>4 DEF Claims
    <3>3. Infer(c) = "perk"
      BY <1>1, <1>4, <2>4, <3>2 DEF Infer
    <3> QED BY <3>1, <3>3
  <2>5. CASE ~c.perk /\ m \in Derived(k)
    <3>1. Check(c) = "derived" /\ Emit(c) = "derived"
      BY <1>4, <2>2, <2>3, <2>5 DEF Check, Emit
    <3>2. Claims(c) = "derived"
      BY <1>1, <2>1, <2>5, TablesFacts DEF Claims
    <3>3. Infer(c) = "derived"
      BY <1>1, <1>4, <3>2 DEF Infer
    <3> QED BY <3>1, <3>3
  <2>6. CASE ~c.perk /\ m \notin Derived(k) /\ m \in Primitive(k)
    <3>1. m \notin FunctionNames(k)
      BY <1>1, TablesFacts
    <3>2. Check(c) = "primitive" /\ Emit(c) = "primitive"
      BY <1>4, <2>2, <2>3, <2>6, <3>1 DEF Check, Emit
    <3>3. Claims(c) = "primitive"
      BY <2>1, <2>6 DEF Claims
    <3>4. Infer(c) = "primitive"
      BY <1>1, <1>4, <3>3 DEF Infer
    <3> QED BY <3>2, <3>4
  <2>7. CASE ~c.perk /\ m \notin Derived(k) /\ m \notin Primitive(k)
    <3>1. m \notin FunctionNames(k)
      BY <1>1, TablesFacts
    <3>2. c.ext /\ Check(c) = "extension"
      BY <1>4, <2>7, <3>1 DEF Check
    <3>3. Emit(c) = "extension"
      BY <1>4, <2>2, <2>3, <2>7, <3>1, <3>2 DEF Emit, BySymbol
    <3>4. Claims(c) = "none"
      BY <2>1, <2>7 DEF Claims
    <3>5. Infer(c) = "extension"
      BY <1>1, <1>4, <2>7, <3>2, <3>4 DEF Infer
    <3> QED BY <3>2, <3>3, <3>5
  <2> QED BY <2>4, <2>5, <2>6, <2>7
<1> QED
  BY <1>2, <1>3, <1>4

\* The first of the meanings a name has, in the order the checker asks and in the order the
\* others do.
LEMMA Orders ==
  ASSUME NEW means
  PROVE  LET six  == First(<<"local", "generic", "struct", "open", "stdlib", "function">>, means)
             five == First(<<"local", "struct", "open", "stdlib", "function">>, means)
         IN  six # "generic" => six = five
<1> DEFINE s6 == <<"local", "generic", "struct", "open", "stdlib", "function">>
           s5 == <<"local", "struct", "open", "stdlib", "function">>
<1>1. DOMAIN s6 = {1, 2, 3, 4, 5, 6} /\ DOMAIN s5 = {1, 2, 3, 4, 5}
  OBVIOUS
<1>2. First(s6, means) = IF "local" \in means THEN "local" ELSE IF "generic" \in means THEN "generic"
                         ELSE IF "struct" \in means THEN "struct" ELSE IF "open" \in means THEN "open"
                         ELSE IF "stdlib" \in means THEN "stdlib" ELSE IF "function" \in means THEN "function"
                         ELSE "error"
  BY <1>1 DEF First
<1>3. First(s5, means) = IF "local" \in means THEN "local"
                         ELSE IF "struct" \in means THEN "struct" ELSE IF "open" \in means THEN "open"
                         ELSE IF "stdlib" \in means THEN "stdlib" ELSE IF "function" \in means THEN "function"
                         ELSE "error"
  BY <1>1 DEF First
<1> QED
  BY <1>2, <1>3

LEMMA CallsInvInit == CallsInit => CallsInv
BY DEF CallsInit, CallsInv, CallsTypeOK, Answered, IsMethod, MethodCalls, NameCalls

LEMMA CallsInvNext == CallsInv /\ [CallsNext]_callVars => CallsInv'
<1> SUFFICES ASSUME CallsInv, [CallsNext]_callVars PROVE CallsInv'
  OBVIOUS
<1>1. call' = call
  BY DEF CallsNext, callVars, Declare, ValidateCall, InferCall, EmitCall
<1>2. CASE UNCHANGED callVars
  BY <1>2 DEF CallsInv, CallsTypeOK, Answered, IsMethod, callVars, InferName, EmitName
<1>3. CASE Declare
  BY <1>3 DEF Declare, CallsInv, CallsTypeOK, Answered, IsMethod, InferName, EmitName
<1>4. CASE ValidateCall
  BY <1>4 DEF ValidateCall, CallsInv, CallsTypeOK, Answered, IsMethod, InferName, EmitName
<1>5. CASE InferCall
  BY <1>5 DEF InferCall, CallsInv, CallsTypeOK, Answered, IsMethod, InferName, EmitName
<1>6. CASE EmitCall
  BY <1>6 DEF EmitCall, CallsInv, CallsTypeOK, Answered, IsMethod, InferName, EmitName
<1> QED
  BY <1>2, <1>3, <1>4, <1>5, <1>6 DEF CallsNext

LEMMA InvLayersAgree == CallsInv => LayersAgree
<1> SUFFICES ASSUME CallsInv, progress = "emitted", ~Differ(call) PROVE inferred = checked /\ emitted = checked
  BY DEF LayersAgree
<1>1. CASE IsMethod
  <2>1. call \in MethodCalls
    BY <1>1 DEF CallsInv, CallsTypeOK, IsMethod, MethodCalls, NameCalls
  <2>2. Sensible(call) /\ ~Shadows(call) /\ ~RivalPerk(call) /\ Check(call) # "error"
    BY <1>1 DEF CallsInv, CallsTypeOK, Answered
  <2> QED BY <1>1, <2>1, <2>2, MethodsAgree DEF CallsInv, Answered
<1>2. CASE ~IsMethod
  <2>1. ~call.mathName
    BY <1>2 DEF CallsInv, CallsTypeOK, IsMethod, MethodCalls, NameCalls, Differ
  <2>2. checked = CheckName(call) /\ inferred = InferName(call) /\ emitted = EmitName(call)
    BY <1>2 DEF CallsInv, Answered
  <2> QED BY <2>1, <2>2, Orders DEF CheckName, InferName, EmitName
<1> QED
  BY <1>1, <1>2

LEMMA InvNoDeadExtension == CallsInv => NoDeadExtension
<1> SUFFICES ASSUME CallsInv, progress = "emitted", IsMethod, ~Differ(call), call.ext PROVE emitted = "extension"
  BY DEF NoDeadExtension, IsMethod
<1>1. call.method \notin Family(call.kind) \cup Primitive(call.kind) \cup Derived(call.kind) \cup FunctionNames(call.kind)
  BY DEF CallsInv, Answered, Shadows, BuiltinExists
<1>2. ~call.perk /\ ~FieldWins(call)
  BY DEF CallsInv, Answered, RivalPerk, FieldWins
<1>3. checked = Check(call) /\ Check(call) = "extension"
  BY <1>1, <1>2 DEF CallsInv, Answered, Check
<1>4. emitted = checked
  BY InvLayersAgree DEF LayersAgree
<1> QED
  BY <1>3, <1>4

\* The precedence of methods is written three times (validate_method_call of the typecheck
\* pass, METHOD_TYPE_REGISTRY of the inference, emit_method_call of the dispatcher), and that
\* of names too; whatever kinds and names a program uses, an accepted call is emitted as what
\* it was validated against and has the type of it.
THEOREM LayersAlwaysMeet == CallsSpec => []LayersAgree
  BY CallsInvInit, CallsInvNext, InvLayersAgree, PTL DEF CallsSpec

\* CE2097 leaves no extension dead: an accepted one with the name that is called is what runs
\* (_check_extension_shadows_builtin in semantics/semantic_analyzer.py).
THEOREM ExtensionsLive == CallsSpec => []NoDeadExtension
  BY CallsInvInit, CallsInvNext, InvNoDeadExtension, PTL DEF CallsSpec

-----------------------------------------------------------------------------
(* Matching: the functions on nested patterns, level by level. *)

Less == {p \in Nat \X Nat : p[1] < p[2]}

LEMMA LessWellFounded == IsWellFoundedOn(Less, Nat)
BY NatLessThanWellFounded DEF OpToRel, Less

\* A set of numbers that has 0, and with a number the next one, has them all.
LEMMA AllNumbers ==
  ASSUME NEW T, 0 \in T, \A k \in Nat : k \in T => k + 1 \in T
  PROVE  Nat \subseteq T
<1> SUFFICES ASSUME Nat \ T # {} PROVE FALSE
  OBVIOUS
<1>1. PICK m \in Nat \ T : \A k \in Nat \ T : ~(<<k, m>> \in Less)
  BY LessWellFounded, WFMin
<1>2. m # 0 /\ m - 1 \in Nat /\ m - 1 < m
  BY <1>1
<1>3. <<m - 1, m>> \in Less
  BY <1>1, <1>2 DEF Less
<1>4. m - 1 \in T
  BY <1>1, <1>2, <1>3
<1>5. (m - 1) + 1 = m
  BY <1>1
<1> QED
  BY <1>1, <1>2, <1>4, <1>5

LEMMA LeastNumber ==
  ASSUME NEW S, S \subseteq Nat, S # {}
  PROVE  Min(S) \in S /\ \A y \in S : Min(S) <= y
<1>1. PICK m \in S : \A k \in S : ~(<<k, m>> \in Less)
  BY LessWellFounded, WFMin
<1>2. ASSUME NEW y \in S PROVE m <= y
  <2>1. <<y, m>> \notin Less /\ y \in Nat /\ m \in Nat
    BY <1>1
  <2> QED BY <2>1 DEF Less
<1> QED
  BY <1>2 DEF Min

LEMMA ElementOf ==
  ASSUME NEW R, NEW s \in Seq(R), NEW k \in DOMAIN s
  PROVE  s[k] \in R
OBVIOUS

NestedUpToAt(n, f) ==
  [e \in EnumNames |-> IF n = 0 THEN {} ELSE PatternsOver(e, TRUE, f[n - 1])]

LEMMA NestedUpToExists == \E f : f = [n \in 0..MaxNested |-> NestedUpToAt(n, f)]
<1> DEFINE Upto(k, f) == /\ f = [n \in 0..MaxNested |-> f[n]]
                         /\ \A n \in 0..MaxNested : n <= k => f[n] = NestedUpToAt(n, f)
           T == {k \in Nat : \E f : Upto(k, f)}
<1>1. 0 \in T
  <2>1. PICK f : f = [n \in 0..MaxNested |-> NestedUpToAt(0, <<>>)]
    OBVIOUS
  <2>2. NestedUpToAt(0, f) = NestedUpToAt(0, <<>>)
    BY DEF NestedUpToAt
  <2>3. \A n \in 0..MaxNested : n <= 0 => n = 0
    BY MatchingAssumption
  <2>4. Upto(0, f)
    BY <2>1, <2>2, <2>3
  <2> HIDE DEF Upto
  <2> QED BY <2>4
<1>2. ASSUME NEW k \in Nat, k \in T PROVE k + 1 \in T
  <2>1. PICK f : Upto(k, f)
    BY <1>2
  <2>2. PICK g : g = [n \in 0..MaxNested |-> NestedUpToAt(n, f)]
    OBVIOUS
  <2>3. \A n \in 0..MaxNested : n <= k => g[n] = f[n]
    BY <2>1, <2>2
  <2>4. ASSUME NEW n \in 0..MaxNested, n <= k + 1
        PROVE  NestedUpToAt(n, g) = NestedUpToAt(n, f)
    <3>1. n = 0 \/ (n - 1 \in 0..MaxNested /\ n - 1 <= k)
      BY <2>4, MatchingAssumption
    <3>2. n = 0 \/ g[n - 1] = f[n - 1]
      BY <2>3, <3>1
    <3> QED BY <3>2 DEF NestedUpToAt
  <2>5. Upto(k + 1, g)
    BY <2>2, <2>4
  <2> HIDE DEF Upto
  <2> QED BY <2>5
<1>3. Nat \subseteq T
  <2> HIDE DEF T
  <2> QED BY <1>1, <1>2, AllNumbers
<1>4. PICK f : Upto(MaxNested, f)
  BY <1>3, MatchingAssumption
<1>5. \A n \in 0..MaxNested : f[n] = NestedUpToAt(n, f)
  BY <1>4, MatchingAssumption
<1> QED
  BY <1>4, <1>5

LEMMA NestedUpToLevels == \A n \in 0..MaxNested : NestedUpTo[n] = NestedUpToAt(n, NestedUpTo)
<1> DEFINE As(f) == f = [n \in 0..MaxNested |-> NestedUpToAt(n, f)]
<1>1. NestedUpTo = CHOOSE f : As(f)
  BY Zenon DEF NestedUpTo, NestedUpToAt
<1>2. As(NestedUpTo)
  BY <1>1, NestedUpToExists
<1> QED
  BY <1>2

ExtractedAt(n, f) ==
  IF n = 0 THEN <<>>
  ELSE [x \in Inner \X EnumNames \X PartValues |-> ExtractOver(x[1], x[2], x[3], 0, f[n - 1])]

LEMMA ExtractedExists == \E f : f = [n \in 0..MaxNested |-> ExtractedAt(n, f)]
<1> DEFINE Upto(k, f) == /\ f = [n \in 0..MaxNested |-> f[n]]
                         /\ \A n \in 0..MaxNested : n <= k => f[n] = ExtractedAt(n, f)
           T == {k \in Nat : \E f : Upto(k, f)}
<1>1. 0 \in T
  <2>1. PICK f : f = [n \in 0..MaxNested |-> ExtractedAt(0, <<>>)]
    OBVIOUS
  <2>2. ExtractedAt(0, f) = ExtractedAt(0, <<>>)
    BY DEF ExtractedAt
  <2>3. \A n \in 0..MaxNested : n <= 0 => n = 0
    BY MatchingAssumption
  <2>4. Upto(0, f)
    BY <2>1, <2>2, <2>3
  <2> HIDE DEF Upto
  <2> QED BY <2>4
<1>2. ASSUME NEW k \in Nat, k \in T PROVE k + 1 \in T
  <2>1. PICK f : Upto(k, f)
    BY <1>2
  <2>2. PICK g : g = [n \in 0..MaxNested |-> ExtractedAt(n, f)]
    OBVIOUS
  <2>3. \A n \in 0..MaxNested : n <= k => g[n] = f[n]
    BY <2>1, <2>2
  <2>4. ASSUME NEW n \in 0..MaxNested, n <= k + 1
        PROVE  ExtractedAt(n, g) = ExtractedAt(n, f)
    <3>1. n = 0 \/ (n - 1 \in 0..MaxNested /\ n - 1 <= k)
      BY <2>4, MatchingAssumption
    <3>2. n = 0 \/ g[n - 1] = f[n - 1]
      BY <2>3, <3>1
    <3> QED BY <3>2 DEF ExtractedAt
  <2>5. Upto(k + 1, g)
    BY <2>2, <2>4
  <2> HIDE DEF Upto
  <2> QED BY <2>5
<1>3. Nat \subseteq T
  <2> HIDE DEF T
  <2> QED BY <1>1, <1>2, AllNumbers
<1>4. PICK f : Upto(MaxNested, f)
  BY <1>3, MatchingAssumption
<1>5. \A n \in 0..MaxNested : f[n] = ExtractedAt(n, f)
  BY <1>4, MatchingAssumption
<1> QED
  BY <1>4, <1>5

LEMMA ExtractedLevels == \A n \in 0..MaxNested : Extracted[n] = ExtractedAt(n, Extracted)
<1> DEFINE As(f) == f = [n \in 0..MaxNested |-> ExtractedAt(n, f)]
<1>1. Extracted = CHOOSE f : As(f)
  BY Zenon DEF Extracted, ExtractedAt
<1>2. As(Extracted)
  BY <1>1, ExtractedExists
<1> QED
  BY <1>2

NestedMatchesAt(n, f) ==
  IF n = 0 THEN <<>>
  ELSE [x \in Inner \X EnumNames \X PartValues |-> MatchesOver(x[1], x[2], x[3], f[n - 1])]

LEMMA NestedMatchesExists == \E f : f = [n \in 0..MaxNested |-> NestedMatchesAt(n, f)]
<1> DEFINE Upto(k, f) == /\ f = [n \in 0..MaxNested |-> f[n]]
                         /\ \A n \in 0..MaxNested : n <= k => f[n] = NestedMatchesAt(n, f)
           T == {k \in Nat : \E f : Upto(k, f)}
<1>1. 0 \in T
  <2>1. PICK f : f = [n \in 0..MaxNested |-> NestedMatchesAt(0, <<>>)]
    OBVIOUS
  <2>2. NestedMatchesAt(0, f) = NestedMatchesAt(0, <<>>)
    BY DEF NestedMatchesAt
  <2>3. \A n \in 0..MaxNested : n <= 0 => n = 0
    BY MatchingAssumption
  <2>4. Upto(0, f)
    BY <2>1, <2>2, <2>3
  <2> HIDE DEF Upto
  <2> QED BY <2>4
<1>2. ASSUME NEW k \in Nat, k \in T PROVE k + 1 \in T
  <2>1. PICK f : Upto(k, f)
    BY <1>2
  <2>2. PICK g : g = [n \in 0..MaxNested |-> NestedMatchesAt(n, f)]
    OBVIOUS
  <2>3. \A n \in 0..MaxNested : n <= k => g[n] = f[n]
    BY <2>1, <2>2
  <2>4. ASSUME NEW n \in 0..MaxNested, n <= k + 1
        PROVE  NestedMatchesAt(n, g) = NestedMatchesAt(n, f)
    <3>1. n = 0 \/ (n - 1 \in 0..MaxNested /\ n - 1 <= k)
      BY <2>4, MatchingAssumption
    <3>2. n = 0 \/ g[n - 1] = f[n - 1]
      BY <2>3, <3>1
    <3> QED BY <3>2 DEF NestedMatchesAt
  <2>5. Upto(k + 1, g)
    BY <2>2, <2>4
  <2> HIDE DEF Upto
  <2> QED BY <2>5
<1>3. Nat \subseteq T
  <2> HIDE DEF T
  <2> QED BY <1>1, <1>2, AllNumbers
<1>4. PICK f : Upto(MaxNested, f)
  BY <1>3, MatchingAssumption
<1>5. \A n \in 0..MaxNested : f[n] = NestedMatchesAt(n, f)
  BY <1>4, MatchingAssumption
<1> QED
  BY <1>4, <1>5

LEMMA NestedMatchesLevels == \A n \in 0..MaxNested : NestedMatches[n] = NestedMatchesAt(n, NestedMatches)
<1> DEFINE As(f) == f = [n \in 0..MaxNested |-> NestedMatchesAt(n, f)]
<1>1. NestedMatches = CHOOSE f : As(f)
  BY Zenon DEF NestedMatches, NestedMatchesAt
<1>2. As(NestedMatches)
  BY <1>1, NestedMatchesExists
<1> QED
  BY <1>2

NestedScopesAt(n, f) ==
  IF n = 0 THEN <<>> ELSE [x \in Inner \X EnumNames |-> ScopeOver(x[1], x[2], f[n - 1])]

LEMMA NestedScopesExists == \E f : f = [n \in 0..MaxNested |-> NestedScopesAt(n, f)]
<1> DEFINE Upto(k, f) == /\ f = [n \in 0..MaxNested |-> f[n]]
                         /\ \A n \in 0..MaxNested : n <= k => f[n] = NestedScopesAt(n, f)
           T == {k \in Nat : \E f : Upto(k, f)}
<1>1. 0 \in T
  <2>1. PICK f : f = [n \in 0..MaxNested |-> NestedScopesAt(0, <<>>)]
    OBVIOUS
  <2>2. NestedScopesAt(0, f) = NestedScopesAt(0, <<>>)
    BY DEF NestedScopesAt
  <2>3. \A n \in 0..MaxNested : n <= 0 => n = 0
    BY MatchingAssumption
  <2>4. Upto(0, f)
    BY <2>1, <2>2, <2>3
  <2> HIDE DEF Upto
  <2> QED BY <2>4
<1>2. ASSUME NEW k \in Nat, k \in T PROVE k + 1 \in T
  <2>1. PICK f : Upto(k, f)
    BY <1>2
  <2>2. PICK g : g = [n \in 0..MaxNested |-> NestedScopesAt(n, f)]
    OBVIOUS
  <2>3. \A n \in 0..MaxNested : n <= k => g[n] = f[n]
    BY <2>1, <2>2
  <2>4. ASSUME NEW n \in 0..MaxNested, n <= k + 1
        PROVE  NestedScopesAt(n, g) = NestedScopesAt(n, f)
    <3>1. n = 0 \/ (n - 1 \in 0..MaxNested /\ n - 1 <= k)
      BY <2>4, MatchingAssumption
    <3>2. n = 0 \/ g[n - 1] = f[n - 1]
      BY <2>3, <3>1
    <3> QED BY <3>2 DEF NestedScopesAt
  <2>5. Upto(k + 1, g)
    BY <2>2, <2>4
  <2> HIDE DEF Upto
  <2> QED BY <2>5
<1>3. Nat \subseteq T
  <2> HIDE DEF T
  <2> QED BY <1>1, <1>2, AllNumbers
<1>4. PICK f : Upto(MaxNested, f)
  BY <1>3, MatchingAssumption
<1>5. \A n \in 0..MaxNested : f[n] = NestedScopesAt(n, f)
  BY <1>4, MatchingAssumption
<1> QED
  BY <1>4, <1>5

LEMMA NestedScopesLevels == \A n \in 0..MaxNested : NestedScopes[n] = NestedScopesAt(n, NestedScopes)
<1> DEFINE As(f) == f = [n \in 0..MaxNested |-> NestedScopesAt(n, f)]
<1>1. NestedScopes = CHOOSE f : As(f)
  BY Zenon DEF NestedScopes, NestedScopesAt
<1>2. As(NestedScopes)
  BY <1>1, NestedScopesExists
<1> QED
  BY <1>2

LEMMA AtTop ==
  /\ MaxNested \in 0..MaxNested /\ MaxNested # 0
  /\ NestedUpTo[MaxNested] = [e \in EnumNames |-> PatternsOver(e, TRUE, NestedUpTo[MaxNested - 1])]
  /\ Extracted[MaxNested] = [x \in Inner \X EnumNames \X PartValues |->
                               ExtractOver(x[1], x[2], x[3], 0, Extracted[MaxNested - 1])]
  /\ NestedMatches[MaxNested] = [x \in Inner \X EnumNames \X PartValues |->
                                   MatchesOver(x[1], x[2], x[3], NestedMatches[MaxNested - 1])]
  /\ NestedScopes[MaxNested] = [x \in Inner \X EnumNames |-> ScopeOver(x[1], x[2], NestedScopes[MaxNested - 1])]
<1>1. MaxNested \in 0..MaxNested /\ MaxNested # 0
  BY MatchingAssumption
<1>2. NestedUpTo[MaxNested] = [e \in EnumNames |-> PatternsOver(e, TRUE, NestedUpTo[MaxNested - 1])]
  BY <1>1, NestedUpToLevels DEF NestedUpToAt
<1>3. Extracted[MaxNested] = [x \in Inner \X EnumNames \X PartValues |->
                               ExtractOver(x[1], x[2], x[3], 0, Extracted[MaxNested - 1])]
  BY <1>1, ExtractedLevels DEF ExtractedAt
<1>4. NestedMatches[MaxNested] = [x \in Inner \X EnumNames \X PartValues |->
                                   MatchesOver(x[1], x[2], x[3], NestedMatches[MaxNested - 1])]
  BY <1>1, NestedMatchesLevels DEF NestedMatchesAt
<1>5. NestedScopes[MaxNested] = [x \in Inner \X EnumNames |-> ScopeOver(x[1], x[2], NestedScopes[MaxNested - 1])]
  BY <1>1, NestedScopesLevels DEF NestedScopesAt
<1> QED
  BY <1>1, <1>2, <1>3, <1>4, <1>5

-----------------------------------------------------------------------------
(* Values and patterns. *)

LEMMA VariantFacts ==
  ASSUME NEW e \in EnumNames
  PROVE  /\ \A i \in DOMAIN Enums[e] : /\ IndexOf(e, Enums[e][i].name) = i
                                      /\ Enums[e][i].name \in Variants(e)
                                      /\ Enums[e][i].parts \in Seq([own : BOOLEAN, of : Kinded])
         /\ \A name : HasVariant(e, name) =>
              /\ IndexOf(e, name) \in DOMAIN Enums[e] /\ Enums[e][IndexOf(e, name)].name = name
              /\ PartsOf(e, name) \in Seq([own : BOOLEAN, of : Kinded])
<1>1. \A i \in DOMAIN Enums[e] :
        /\ Enums[e][i].parts \in Seq([own : BOOLEAN, of : Kinded])
        /\ \A j \in DOMAIN Enums[e] : Enums[e][i].name = Enums[e][j].name => i = j
  BY MatchingAssumption
<1>2. ASSUME NEW name, HasVariant(e, name)
      PROVE  IndexOf(e, name) \in DOMAIN Enums[e] /\ Enums[e][IndexOf(e, name)].name = name
  BY <1>2 DEF HasVariant, Variants, IndexOf
<1>3. ASSUME NEW i \in DOMAIN Enums[e]
      PROVE  IndexOf(e, Enums[e][i].name) = i /\ Enums[e][i].name \in Variants(e)
  <2>1. HasVariant(e, Enums[e][i].name)
    BY DEF HasVariant, Variants
  <2> QED BY <1>1, <1>2, <2>1 DEF HasVariant
<1> QED
  BY <1>1, <1>2, <1>3 DEF PartsOf

LEMMA RowFacts ==
  ASSUME NEW sets, NEW c \in Rows(sets)
  PROVE  DOMAIN c = DOMAIN sets /\ \A i \in DOMAIN sets : c[i] \in sets[i]
BY DEF Rows

LEMMA ScrutineeFacts ==
  ASSUME NEW v \in Scrutinees
  PROVE  /\ v.tag \in DOMAIN Enums[Scrutinee]
         /\ \A k \in DOMAIN Enums[Scrutinee][v.tag].parts : v.parts[k] \in PartValues
<1>1. PICK i \in DOMAIN Enums[Scrutinee] :
        \E c \in Rows([k \in DOMAIN Enums[Scrutinee][i].parts |->
                          ValuesUpTo[MaxNested][Enums[Scrutinee][i].parts[k].of]]) :
          v = [tag |-> i, parts |-> c]
  BY DEF Scrutinees, ValuesOver
<1>2. v.tag = i
  BY <1>1
<1>3. ASSUME NEW k \in DOMAIN Enums[Scrutinee][i].parts
      PROVE  v.parts[k] \in PartValues
  <2>1. v.parts[k] \in ValuesUpTo[MaxNested][Enums[Scrutinee][i].parts[k].of]
    BY <1>1, RowFacts
  <2>2. Scrutinee \in EnumNames
    BY MatchingAssumption
  <2>3. Enums[Scrutinee][i].parts \in Seq([own : BOOLEAN, of : Kinded])
    BY <2>2, VariantFacts
  <2>4. Enums[Scrutinee][i].parts[k] \in [own : BOOLEAN, of : Kinded]
    BY <2>3, ElementOf
  <2>5. Enums[Scrutinee][i].parts[k].of \in Kinded
    BY <2>4
  <2> QED BY <2>1, <2>5 DEF PartValues
<1> QED
  BY <1>2, <1>3

LEMMA InnerFacts ==
  /\ \A n \in 0..MaxNested : \A e \in EnumNames : NestedUpTo[n][e] \subseteq Inner
  /\ \A p \in Strange : NestedIn(p) \subseteq Inner
<1> DEFINE levels == UNION {UNION {NestedUpTo[n][e] : e \in EnumNames} : n \in 0..MaxNested}
           strange == UNION {NestedIn(p) : p \in Strange}
<1>1. Inner = levels \cup strange
  BY Zenon DEF Inner
<1>2. ASSUME NEW n \in 0..MaxNested, NEW e \in EnumNames PROVE NestedUpTo[n][e] \subseteq levels
  <2> DEFINE level == UNION {NestedUpTo[n][d] : d \in EnumNames}
  <2>1. NestedUpTo[n][e] \subseteq level
    OBVIOUS
  <2>2. level \in {UNION {NestedUpTo[m][d] : d \in EnumNames} : m \in 0..MaxNested}
    BY Zenon
  <2> HIDE DEF level
  <2>3. level \subseteq levels
    BY <2>2, Zenon
  <2> HIDE DEF levels
  <2> QED BY <2>1, <2>3
<1>3. ASSUME NEW p \in Strange PROVE NestedIn(p) \subseteq strange
  OBVIOUS
<1> HIDE DEF levels, strange
<1> QED
  BY <1>1, <1>2, <1>3

LEMMA NestedFacts ==
  ASSUME NEW e \in EnumNames, NEW q \in NestedUpTo[MaxNested][e]
  PROVE  q.kind = "variant" /\ q \in Inner
<1>1. q \in PatternsOver(e, TRUE, NestedUpTo[MaxNested - 1])
  BY AtTop
<1>2. PICK v \in Variants(e) :
        \E c \in Rows([i \in DOMAIN PartsOf(e, v) |->
                         BindingsFor(PartsOf(e, v)[i], i, TRUE, NestedUpTo[MaxNested - 1])]) :
          q = [kind |-> "variant", enum |-> Base[e], variant |-> v, bindings |-> c]
  BY <1>1, Zenon DEF PatternsOver
<1>4. q \in Inner
  BY AtTop, InnerFacts
<1>5. q.kind = "variant"
  BY <1>2
<1> QED
  BY <1>4, <1>5

\* The binding of a part, as the parser may have written it.
LEMMA BindingFacts ==
  ASSUME NEW part \in [own : BOOLEAN, of : Kinded], NEW i, NEW b \in BindingsFor(part, i, FALSE, NestedUpTo[MaxNested]),
         IsPattern(b)
  PROVE  Within(b) \in Inner
<1>1. part.of = Leaf \/ part.of \in EnumNames
  BY DEF Kinded
<1> DEFINE inner == IF part.of = Leaf THEN {} ELSE NestedUpTo[MaxNested][part.of]
           own == {[kind |-> "own", inner |-> x] : x \in inner \cup {Bind(k, i) : k \in {"name", "ref"}}}
<1>2. \A q \in inner : q.kind = "variant" /\ q \in Inner
  BY <1>1, NestedFacts
<1>3. b \in {Bind(k, i) : k \in {"name", "ref"}} \/ b \in own \/ b \in inner
  BY DEF BindingsFor
<1> HIDE DEF inner
<1>4. CASE b \in {Bind(k, i) : k \in {"name", "ref"}}
  BY <1>4 DEF Bind, IsPattern, Within
<1>5. CASE b \in inner
  BY <1>2, <1>5 DEF Within
<1>6. CASE b \in own
  <2>1. PICK x \in inner \cup {Bind(k, i) : k \in {"name", "ref"}} : b = [kind |-> "own", inner |-> x]
    BY <1>6
  <2>2. Within(b) = x
    BY <2>1 DEF Within
  <2>3. x.kind = "variant"
    BY <2>2 DEF IsPattern
  <2>4. x \in inner
    BY <2>1, <2>3 DEF Bind
  <2> QED BY <1>2, <2>2, <2>4
<1> QED
  BY <1>3, <1>4, <1>5, <1>6

Fitting(p) ==
  HasVariant(Scrutinee, p.variant) /\ BindingsFit(p.bindings, PartsOf(Scrutinee, p.variant))

LEMMA WrittenFacts ==
  ASSUME NEW p \in Written
  PROVE  /\ p.kind = "variant"
         /\ Fitting(p) =>
              /\ DOMAIN p.bindings = DOMAIN PartsOf(Scrutinee, p.variant)
              /\ \A i \in DOMAIN p.bindings :
                   IsPattern(p.bindings[i]) =>
                     /\ Within(p.bindings[i]) \in Inner
                     /\ PartsOf(Scrutinee, p.variant)[i].of \in EnumNames
<1> DEFINE parts == PartsOf(Scrutinee, p.variant)
<1>1. Scrutinee \in EnumNames
  BY MatchingAssumption
<1>2. Fitting(p) => parts \in Seq([own : BOOLEAN, of : Kinded])
  BY <1>1, VariantFacts DEF Fitting
<1>3. ASSUME Fitting(p), NEW i \in DOMAIN parts, IsPattern(p.bindings[i])
      PROVE  parts[i].of \in EnumNames
  <2>1. parts[i].of # Leaf
    BY <1>3, Zenon DEF Fitting, BindingsFit, FitOver
  <2>2. parts[i] \in [own : BOOLEAN, of : Kinded]
    BY <1>2, <1>3, ElementOf
  <2> QED BY <2>1, <2>2 DEF Kinded
<1>4. CASE p \in PatternsOver(Scrutinee, FALSE, NestedUpTo[MaxNested])
  <2>1. PICK v \in Variants(Scrutinee) :
          \E c \in Rows([i \in DOMAIN PartsOf(Scrutinee, v) |->
                           BindingsFor(PartsOf(Scrutinee, v)[i], i, FALSE, NestedUpTo[MaxNested])]) :
            p = [kind |-> "variant", enum |-> Base[Scrutinee], variant |-> v, bindings |-> c]
    BY <1>4, Zenon DEF PatternsOver
  <2> DEFINE sets == [i \in DOMAIN PartsOf(Scrutinee, v) |->
                       BindingsFor(PartsOf(Scrutinee, v)[i], i, FALSE, NestedUpTo[MaxNested])]
  <2>2. p.kind = "variant" /\ p.variant = v /\ p.bindings \in Rows(sets)
    BY <2>1
  <2>3. /\ DOMAIN p.bindings = DOMAIN parts
        /\ \A i \in DOMAIN parts : p.bindings[i] \in BindingsFor(parts[i], i, FALSE, NestedUpTo[MaxNested])
    <3>1. DOMAIN p.bindings = DOMAIN sets /\ \A i \in DOMAIN sets : p.bindings[i] \in sets[i]
      <4> HIDE DEF sets
      <4> QED BY <2>2, RowFacts
    <3> QED BY <2>2, <3>1
  <2>4. ASSUME Fitting(p), NEW i \in DOMAIN parts, IsPattern(p.bindings[i])
        PROVE  Within(p.bindings[i]) \in Inner
    <3>1. parts[i] \in [own : BOOLEAN, of : Kinded]
      BY <1>2, <2>4, ElementOf
    <3> HIDE DEF parts
    <3> QED BY <2>3, <2>4, <3>1, BindingFacts
  <2> QED BY <1>3, <2>2, <2>3, <2>4
<1>5. CASE p \in Strange
  <2>1. p.kind = "variant" /\ p.bindings \in Seq(Range(p.bindings))
    BY <1>5, MatchingAssumption
  <2>2. Fitting(p) => Len(p.bindings) = Len(parts)
    BY DEF Fitting, BindingsFit, FitOver
  <2>3. Fitting(p) => DOMAIN p.bindings = DOMAIN parts
    BY <1>2, <2>1, <2>2
  <2>4. ASSUME NEW i \in DOMAIN p.bindings, IsPattern(p.bindings[i])
        PROVE  Within(p.bindings[i]) \in Inner
    <3>1. Within(p.bindings[i]) \in NestedIn(p)
      BY <2>4, Zenon DEF NestedIn
    <3> QED BY <1>5, <3>1, InnerFacts
  <2> QED BY <1>3, <2>1, <2>3, <2>4
<1> QED
  BY <1>4, <1>5 DEF Written
-----------------------------------------------------------------------------
(* What an arm extracts, and what it matches. *)

Triples(S) == {<<b.name, b.type, b.ref>> : b \in S}

OneAt(p, e, v, next, extracted, i) ==
  IF IsPattern(p.bindings[i])
  THEN ExtractNested(Within(p.bindings[i]), PartsOf(e, p.variant)[i].of, v.parts[i], next, extracted)
  ELSE [go |-> "on", names |-> Bound(Within(p.bindings[i]), Opened(p.bindings[i], PartsOf(e, p.variant)[i]), v.parts[i])]

Stops(p, e, v, next, extracted) ==
  {i \in DOMAIN p.bindings : OneAt(p, e, v, next, extracted, i).go # "on"}

LEMMA ExtractShape ==
  ASSUME NEW p, NEW e, NEW v, NEW next, NEW extracted
  PROVE  ExtractOver(p, e, v, next, extracted) =
           IF Stops(p, e, v, next, extracted) = {}
           THEN [go |-> "on", names |-> UNION {OneAt(p, e, v, next, extracted, i).names : i \in DOMAIN p.bindings}]
           ELSE OneAt(p, e, v, next, extracted, Min(Stops(p, e, v, next, extracted)))
BY Zenon DEF ExtractOver, Stops, OneAt

ScopeAt(p, e, scopes, i) ==
  IF IsPattern(p.bindings[i]) THEN scopes[<<Within(p.bindings[i]), PartsOf(e, p.variant)[i].of>>]
  ELSE IF Within(p.bindings[i]).kind = "skip" THEN {}
  ELSE {<<Within(p.bindings[i]).name, Opened(p.bindings[i], PartsOf(e, p.variant)[i]),
          Within(p.bindings[i]).kind = "ref">>}

LEMMA ScopeShape ==
  ASSUME NEW p, NEW e, NEW scopes
  PROVE  ScopeOver(p, e, scopes) = UNION {ScopeAt(p, e, scopes, i) : i \in DOMAIN p.bindings}
BY Zenon DEF ScopeOver, ScopeAt

LEMMA SimpleNames ==
  ASSUME NEW w, NEW part, NEW x
  PROVE  Triples(Bound(w, part, x)) = IF w.kind = "skip" THEN {} ELSE {<<w.name, part, w.kind = "ref">>}
<1>1. CASE w.kind = "skip"
  BY <1>1 DEF Triples, Bound
<1>2. CASE w.kind # "skip"
  <2> DEFINE b == [name |-> w.name, type |-> part, ref |-> w.kind = "ref", value |-> x]
  <2>1. Bound(w, part, x) = {b}
    BY <1>2 DEF Bound
  <2>2. Triples({b}) = {<<b.name, b.type, b.ref>>}
    BY Zenon DEF Triples
  <2>3. b.name = w.name /\ b.type = part /\ b.ref = (w.kind = "ref")
    BY Zenon
  <2> HIDE DEF b
  <2> QED BY <1>2, <2>1, <2>2, <2>3
<1> QED
  BY <1>1, <1>2

LEMMA UnionTriples ==
  ASSUME NEW I, NEW N, NEW S, \A i \in I : Triples(N[i]) = S[i]
  PROVE  Triples(UNION {N[i] : i \in I}) = UNION {S[i] : i \in I}
<1>1. ASSUME NEW t \in Triples(UNION {N[i] : i \in I})
      PROVE  t \in UNION {S[i] : i \in I}
  <2>1. PICK b \in UNION {N[i] : i \in I} : t = <<b.name, b.type, b.ref>>
    BY Zenon DEF Triples
  <2>2. PICK i \in I : b \in N[i]
    OBVIOUS
  <2>3. t \in Triples(N[i])
    BY <2>1, <2>2, Zenon DEF Triples
  <2> QED BY <2>3
<1>2. ASSUME NEW t \in UNION {S[i] : i \in I}
      PROVE  t \in Triples(UNION {N[i] : i \in I})
  <2>1. PICK i \in I : t \in Triples(N[i])
    OBVIOUS
  <2>2. PICK b \in N[i] : t = <<b.name, b.type, b.ref>>
    BY <2>1, Zenon DEF Triples
  <2>3. b \in UNION {N[j] : j \in I}
    OBVIOUS
  <2> QED BY <2>2, <2>3, Zenon DEF Triples
<1> QED
  BY <1>1, <1>2

\* When no binding stops, an extraction binds the names in scope.
LEMMA NamesAgree ==
  ASSUME NEW p, NEW e, NEW v, NEW next, NEW extracted, NEW scopes,
         Stops(p, e, v, next, extracted) = {},
         \A i \in DOMAIN p.bindings :
           IsPattern(p.bindings[i]) =>
             Triples(OneAt(p, e, v, next, extracted, i).names) = ScopeAt(p, e, scopes, i)
  PROVE  LET r == ExtractOver(p, e, v, next, extracted)
         IN  r.go = "on" /\ Triples(r.names) = ScopeOver(p, e, scopes)
<1> DEFINE I == DOMAIN p.bindings
           N == [i \in I |-> OneAt(p, e, v, next, extracted, i).names]
           S == [i \in I |-> ScopeAt(p, e, scopes, i)]
<1>1. ASSUME NEW i \in I PROVE Triples(N[i]) = S[i]
  <2>1. CASE IsPattern(p.bindings[i])
    BY <2>1
  <2>2. CASE ~IsPattern(p.bindings[i])
    <3> DEFINE w == Within(p.bindings[i])
               part == Opened(p.bindings[i], PartsOf(e, p.variant)[i])
    <3>1. OneAt(p, e, v, next, extracted, i).names = Bound(w, part, v.parts[i])
      BY <2>2 DEF OneAt
    <3>2. S[i] = IF w.kind = "skip" THEN {} ELSE {<<w.name, part, w.kind = "ref">>}
      BY <2>2 DEF ScopeAt
    <3> QED BY <3>1, <3>2, SimpleNames
  <2> QED BY <2>1, <2>2
<1>2. ExtractOver(p, e, v, next, extracted) = [go |-> "on", names |-> UNION {N[i] : i \in I}]
  <2>1. UNION {N[i] : i \in I} = UNION {OneAt(p, e, v, next, extracted, i).names : i \in I}
    OBVIOUS
  <2> QED BY <2>1, ExtractShape
<1>3. ScopeOver(p, e, scopes) = UNION {S[i] : i \in I}
  BY ScopeShape
<1> HIDE DEF N, S, I
<1>4. Triples(UNION {N[i] : i \in I}) = UNION {S[i] : i \in I}
  BY <1>1, UnionTriples
<1> QED
  BY <1>2, <1>3, <1>4

\* A nested pattern without patterns in it binds its names and takes what has its tag.
LEMMA FlatFacts ==
  ASSUME NEW q \in Inner, NestedIn(q) = {}, NEW e \in EnumNames, NEW x \in PartValues
  PROVE  /\ Extracted[MaxNested][<<q, e, x>>].go = "on"
         /\ Triples(Extracted[MaxNested][<<q, e, x>>].names) = NestedScopes[MaxNested][<<q, e>>]
         /\ NestedMatches[MaxNested][<<q, e, x>>] <=> x.tag = IndexOf(e, q.variant)
<1>1. \A i \in DOMAIN q.bindings : ~IsPattern(q.bindings[i])
  BY Zenon DEF NestedIn
<1>2. Stops(q, e, x, 0, Extracted[MaxNested - 1]) = {}
  BY <1>1 DEF Stops, OneAt
<1> DEFINE r == ExtractOver(q, e, x, 0, Extracted[MaxNested - 1])
<1>3. r.go = "on" /\ Triples(r.names) = ScopeOver(q, e, NestedScopes[MaxNested - 1])
  BY <1>1, <1>2, NamesAgree
<1>4. MatchesOver(q, e, x, NestedMatches[MaxNested - 1]) <=> x.tag = IndexOf(e, q.variant)
  BY <1>1 DEF MatchesOver
<1> HIDE DEF r
<1> DEFINE y == <<q, e, x>>
<1>5. y \in Inner \X EnumNames \X PartValues /\ y[1] = q /\ y[2] = e /\ y[3] = x
  OBVIOUS
<1> HIDE DEF y
<1>6. Extracted[MaxNested][y] = r
  BY <1>5, AtTop DEF r
<1>7. NestedMatches[MaxNested][y] = MatchesOver(q, e, x, NestedMatches[MaxNested - 1])
  BY <1>5, AtTop, Zenon
<1>8. NestedScopes[MaxNested][<<q, e>>] = ScopeOver(q, e, NestedScopes[MaxNested - 1])
  BY AtTop
<1> QED
  BY <1>3, <1>4, <1>6, <1>7, <1>8 DEF y
LEMMA OneFacts ==
  ASSUME NEW p \in Written, Fitting(p), Shallow(p), NEW v \in Scrutinees, v.tag = IndexOf(Scrutinee, p.variant),
         NEW next, NEW i \in DOMAIN p.bindings
  PROVE  LET one == OneAt(p, Scrutinee, v, next, Extracted[MaxNested], i)
             y == <<Within(p.bindings[i]), PartsOf(Scrutinee, p.variant)[i].of, v.parts[i]>>
         IN  /\ ~IsPattern(p.bindings[i]) => one.go = "on"
             /\ IsPattern(p.bindings[i]) =>
                  /\ one.go = "on" <=> NestedMatches[MaxNested][y]
                  /\ one.go = "on" => Triples(one.names) = ScopeAt(p, Scrutinee, NestedScopes[MaxNested], i)
             /\ one.go # "on" => one.go = IF next = 0 THEN "RE2023" ELSE "next"
<1> DEFINE b == p.bindings[i]
           q == Within(b)
           e == PartsOf(Scrutinee, p.variant)[i].of
           x == v.parts[i]
           one == OneAt(p, Scrutinee, v, next, Extracted[MaxNested], i)
<1>1. CASE ~IsPattern(b)
  BY <1>1 DEF OneAt
<1>2. CASE IsPattern(b)
  <2>1. q \in Inner /\ e \in EnumNames /\ i \in DOMAIN PartsOf(Scrutinee, p.variant)
    BY <1>2, WrittenFacts
  <2>2. x \in PartValues
    BY <2>1, ScrutineeFacts DEF PartsOf
  <2>3. NestedIn(q) = {}
    <3>1. q \in NestedIn(p)
      BY <1>2, Zenon DEF NestedIn
    <3>2. p.kind = "variant"
      BY WrittenFacts
    <3> QED BY <3>1, <3>2 DEF Shallow
  <2>4. one = IF x.tag = IndexOf(e, q.variant) THEN Extracted[MaxNested][<<q, e, x>>]
              ELSE [go |-> IF next = 0 THEN "RE2023" ELSE "next", names |-> {}]
    BY <1>2 DEF OneAt, ExtractNested
  <2>5. ScopeAt(p, Scrutinee, NestedScopes[MaxNested], i) = NestedScopes[MaxNested][<<q, e>>]
    BY <1>2 DEF ScopeAt
  <2> HIDE DEF one, b, q, e, x
  <2>6. /\ Extracted[MaxNested][<<q, e, x>>].go = "on"
        /\ Triples(Extracted[MaxNested][<<q, e, x>>].names) = NestedScopes[MaxNested][<<q, e>>]
        /\ NestedMatches[MaxNested][<<q, e, x>>] <=> x.tag = IndexOf(e, q.variant)
    BY <2>1, <2>2, <2>3, FlatFacts
  <2>7. CASE x.tag = IndexOf(e, q.variant)
    <3>1. one = Extracted[MaxNested][<<q, e, x>>]
      BY <2>4, <2>7
    <3>2. one.go = "on" /\ Triples(one.names) = ScopeAt(p, Scrutinee, NestedScopes[MaxNested], i)
      BY <2>5, <2>6, <3>1
    <3>3. NestedMatches[MaxNested][<<q, e, x>>]
      BY <2>6, <2>7
    <3> QED BY <1>2, <3>2, <3>3 DEF one, b, q, e, x
  <2>8. CASE x.tag # IndexOf(e, q.variant)
    <3>1. one.go = IF next = 0 THEN "RE2023" ELSE "next"
      BY <2>4, <2>8
    <3>2. ~NestedMatches[MaxNested][<<q, e, x>>]
      BY <2>6, <2>8
    <3>3. one.go # "on"
      BY <3>1
    <3> QED BY <1>2, <3>1, <3>2, <3>3 DEF one, b, q, e, x
  <2> QED BY <2>7, <2>8
<1> QED
  BY <1>1, <1>2

LEMMA ExtractFacts ==
  ASSUME NEW p \in Written, Fitting(p), Shallow(p), NEW v \in Scrutinees, v.tag = IndexOf(Scrutinee, p.variant),
         NEW next
  PROVE  LET r == Extract(p, v, next)
         IN  /\ r.go \in {"on", "next", "RE2023"}
             /\ r.go = "on" => Matches(p, v) /\ Triples(r.names) = InScope(p)
             /\ r.go = "next" => ~Matches(p, v) /\ next # 0
             /\ r.go = "RE2023" => ~Matches(p, v) /\ next = 0
<1> DEFINE one(i) == OneAt(p, Scrutinee, v, next, Extracted[MaxNested], i)
           taken(i) == NestedMatches[MaxNested][<<Within(p.bindings[i]), PartsOf(Scrutinee, p.variant)[i].of, v.parts[i]>>]
           stops == Stops(p, Scrutinee, v, next, Extracted[MaxNested])
           r == Extract(p, v, next)
<1>1. Matches(p, v) <=> \A i \in DOMAIN p.bindings : IsPattern(p.bindings[i]) => taken(i)
  BY DEF Matches, MatchesOver
<1>2. r = ExtractOver(p, Scrutinee, v, next, Extracted[MaxNested])
  BY DEF Extract
<1>3. ASSUME NEW i \in DOMAIN p.bindings
      PROVE  /\ ~IsPattern(p.bindings[i]) => one(i).go = "on"
             /\ IsPattern(p.bindings[i]) =>
                  /\ one(i).go = "on" <=> taken(i)
                  /\ one(i).go = "on" => Triples(one(i).names) = ScopeAt(p, Scrutinee, NestedScopes[MaxNested], i)
             /\ one(i).go # "on" => one(i).go = IF next = 0 THEN "RE2023" ELSE "next"
  BY OneFacts
<1>4. stops = {i \in DOMAIN p.bindings : one(i).go # "on"}
  BY DEF Stops
<1>5. CASE stops = {}
  <2>1. \A i \in DOMAIN p.bindings : one(i).go = "on"
    BY <1>4, <1>5
  <2>2. Matches(p, v)
    BY <1>1, <1>3, <2>1
  <2>3. r.go = "on" /\ Triples(r.names) = ScopeOver(p, Scrutinee, NestedScopes[MaxNested])
    <3> DEFINE x == ExtractOver(p, Scrutinee, v, next, Extracted[MaxNested])
    <3>1. Stops(p, Scrutinee, v, next, Extracted[MaxNested]) = {}
      BY <1>5
    <3>2. \A i \in DOMAIN p.bindings :
            IsPattern(p.bindings[i]) =>
              Triples(OneAt(p, Scrutinee, v, next, Extracted[MaxNested], i).names)
                = ScopeAt(p, Scrutinee, NestedScopes[MaxNested], i)
      BY <1>3, <2>1
    <3>3. x.go = "on" /\ Triples(x.names) = ScopeOver(p, Scrutinee, NestedScopes[MaxNested])
      <4> HIDE DEF one, taken, stops, r
      <4> QED BY <3>1, <3>2, NamesAgree
    <3> QED BY <1>2, <3>3
  <2> QED BY <2>2, <2>3 DEF InScope
<1>6. CASE stops # {}
  <2>1. stops \subseteq Nat
    <3>1. Scrutinee \in EnumNames
      BY MatchingAssumption
    <3>2. PartsOf(Scrutinee, p.variant) \in Seq([own : BOOLEAN, of : Kinded])
      BY <3>1, VariantFacts DEF Fitting
    <3>3. DOMAIN p.bindings \subseteq Nat
      BY <3>2, WrittenFacts
    <3> QED BY <1>4, <3>3
  <2>2. Min(stops) \in stops
    BY <1>6, <2>1, LeastNumber
  <2> DEFINE m == Min(stops)
  <2>3. r = one(m)
    BY <1>2, <1>6, ExtractShape
  <2> HIDE DEF stops, m, r, one, taken
  <2>4. m \in DOMAIN p.bindings /\ one(m).go # "on"
    BY <1>4, <2>2 DEF m
  <2>5. IsPattern(p.bindings[m]) /\ ~taken(m)
    BY <1>3, <2>4
  <2>6. ~Matches(p, v)
    BY <1>1, <2>4, <2>5
  <2>7. r.go = IF next = 0 THEN "RE2023" ELSE "next"
    BY <1>3, <2>3, <2>4
  <2> QED BY <2>6, <2>7 DEF r
<1> QED
  BY <1>5, <1>6
-----------------------------------------------------------------------------
(* The invariant of a match: what was checked, and the way to the arm that runs. *)

Possible == IF IsEnum THEN Written ELSE Literals(type)

MatchShape ==
  /\ type \in {[enum |-> Scrutinee]} \cup IntTypes
  /\ arms \in Seq({Wildcard} \cup Possible)
  /\ rejected \in BOOLEAN

\* The wildcard is the last arm; the arms of an enum fit it and are what covered tells, the
\* literals fit their type and differ.
WildLast == \A i \in DOMAIN arms : ~Tested(i) => i = Len(arms)
PatternsChecked ==
  /\ \A i \in DOMAIN arms : Tested(i) => Fitting(arms[i])
  /\ \A s \in covered : \E i \in DOMAIN arms : Tested(i) /\ s = Signature(arms[i])
LiteralsChecked ==
  /\ \A i \in DOMAIN arms : Tested(i) => LiteralFits(arms[i]) /\ arms[i].value \in covered
  /\ \A i, j \in DOMAIN arms : Tested(i) /\ Tested(j) /\ i # j => arms[i].value # arms[j].value
ArmsChecked ==
  ~rejected => WildLast /\ (IsEnum => PatternsChecked) /\ (~IsEnum => LiteralsChecked)

Exhaustive == Wild \/ (IsEnum /\ Variants(Scrutinee) \subseteq {s[1] : s \in covered})
Compilable == stage # "checking" => ~rejected /\ Exhaustive

\* The arm whose block runs has the value's tag, or its number, and none before it takes it.
ValuesOfType == IF IsEnum THEN Scrutinees ELSE {[bits |-> b] : b \in 0..(type.size - 1)}
Goes(i, v) == ~Tested(i) \/ IF IsEnum THEN TagOf(i) = v.tag ELSE CaseOf(i) = v.bits
TakesValue(i, v) ==
  \/ arms[i].kind = "wild"
  \/ arms[i].kind = "variant" /\ Matches(arms[i], v)
  \/ arms[i].kind = "literal" /\ CaseOf(i) = v.bits
Ready(i, v) ==
  /\ v \in ValuesOfType
  /\ i \in DOMAIN arms /\ Goes(i, v)
  /\ \A j \in 1..(i - 1) : ~TakesValue(j, v)
AllShallow == \A i \in DOMAIN arms : Shallow(arms[i])
OnTheWay == stage = "running" /\ AllShallow => Ready(at, value)

MatchInv == MatchShape /\ ArmsChecked /\ Compilable /\ OnTheWay /\ ShallowMatchExact

LEMMA TypeFacts ==
  ASSUME MatchShape
  PROVE  /\ IsEnum => type = [enum |-> Scrutinee]
         /\ ~IsEnum => type \in [size : Nat \ {0}, signed : BOOLEAN]
<1>1. CASE type \in IntTypes
  <2>1. type \in [size : Nat \ {0}, signed : BOOLEAN]
    BY <1>1, MatchingAssumption
  <2>2. DOMAIN type = {"size", "signed"}
    BY <2>1
  <2> QED BY <2>1, <2>2 DEF IsEnum
<1>2. CASE type = [enum |-> Scrutinee]
  <2>1. DOMAIN type = {"enum"}
    BY <1>2
  <2> QED BY <1>2, <2>1 DEF IsEnum
<1> QED
  BY <1>1, <1>2 DEF MatchShape

LEMMA ArmKinds ==
  ASSUME MatchShape, NEW i \in DOMAIN arms
  PROVE  /\ ~Tested(i) => arms[i].kind = "wild"
         /\ Tested(i) /\ IsEnum => arms[i] \in Written /\ arms[i].kind = "variant"
         /\ Tested(i) /\ ~IsEnum => /\ arms[i].kind = "literal" /\ arms[i].value \in Int
                                   /\ arms[i].decimal \in BOOLEAN
<1>1. arms[i] \in {Wildcard} \cup Possible
  BY ElementOf DEF MatchShape
<1>2. ~Tested(i) => arms[i].kind = "wild"
  BY DEF Tested, Wildcard
<1>3. ASSUME Tested(i) PROVE arms[i] \in Possible
  BY <1>1, <1>3 DEF Tested
<1>4. ASSUME Tested(i), IsEnum PROVE arms[i] \in Written /\ arms[i].kind = "variant"
  <2>1. arms[i] \in Written
    BY <1>3, <1>4 DEF Possible
  <2> QED BY <2>1, WrittenFacts
<1>5. ASSUME Tested(i), ~IsEnum
      PROVE  arms[i].kind = "literal" /\ arms[i].value \in Int /\ arms[i].decimal \in BOOLEAN
  <2>1. type.size \in Nat
    BY <1>5, TypeFacts
  <2>2. arms[i] \in Literals(type)
    BY <1>3, <1>5 DEF Possible
  <2> DEFINE least == -(type.size \div 2)
  <2>3. least \in Int
    BY <2>1
  <2> HIDE DEF least
  <2>4. \/ arms[i] \in [kind : {"literal"}, value : least..type.size, decimal : {TRUE}]
        \/ arms[i] \in [kind : {"literal"}, value : 0..type.size, decimal : {FALSE}]
    BY <2>2 DEF Literals, least
  <2>5. \A x \in least..type.size : x \in Int
    BY <2>1, <2>3
  <2>6. \A x \in 0..type.size : x \in Int
    BY <2>1
  <2> QED BY <2>4, <2>5, <2>6
<1> QED
  BY <1>2, <1>4, <1>5
\* Numbers of one range of the type are different cases.
LEMMA ModuloKeeps ==
  ASSUME NEW n \in Nat \ {0}, NEW x \in 0..(n - 1)
  PROVE  x % n = x
OBVIOUS

LEMMA ModuloLifts ==
  ASSUME NEW n \in Nat \ {0}, NEW x \in (-n)..(-1)
  PROVE  x % n = x + n
OBVIOUS

LEMMA CasesDiffer ==
  ASSUME MatchShape, ~IsEnum, NEW i \in DOMAIN arms, NEW j \in DOMAIN arms, Tested(i), Tested(j),
         LiteralFits(arms[i]), LiteralFits(arms[j]), arms[i].decimal = arms[j].decimal,
         arms[i].value # arms[j].value
  PROVE  CaseOf(i) # CaseOf(j)
<1> DEFINE n == type.size  x == arms[i].value  y == arms[j].value  h == n \div 2
<1>1. n \in Nat \ {0} /\ type.signed \in BOOLEAN /\ x \in Int /\ y \in Int /\ x # y
  BY TypeFacts, ArmKinds
<1>2. CaseOf(i) = x % n /\ CaseOf(j) = y % n
  BY DEF CaseOf
<1>3. (x \in 0..(n - 1) /\ y \in 0..(n - 1)) \/ (x \in (-h)..(h - 1) /\ y \in (-h)..(h - 1))
  BY DEF LiteralFits
<1>4. h \in Nat /\ 2 * h <= n
  BY <1>1
<1> HIDE DEF n, x, y, h
<1>5. CASE x \in 0..(n - 1) /\ y \in 0..(n - 1)
  <2>1. x % n = x /\ y % n = y
    BY <1>1, <1>5, ModuloKeeps
  <2> QED BY <1>1, <1>2, <2>1
<1>6. CASE x \in (-h)..(h - 1) /\ y \in (-h)..(h - 1)
  <2>1. ASSUME NEW z \in (-h)..(h - 1) PROVE z % n = IF z >= 0 THEN z ELSE z + n
    <3>1. CASE z >= 0
      <4>1. z \in 0..(n - 1)
        BY <1>1, <1>4, <3>1
      <4> QED BY <1>1, <3>1, <4>1, ModuloKeeps
    <3>2. CASE z < 0
      <4>1. z \in (-n)..(-1) /\ ~(z >= 0)
        BY <1>1, <1>4, <3>2
      <4> QED BY <1>1, <4>1, ModuloLifts
    <3> QED BY <1>4, <3>1, <3>2
  <2>2. x % n = (IF x >= 0 THEN x ELSE x + n) /\ y % n = (IF y >= 0 THEN y ELSE y + n)
    BY <1>6, <2>1
  <2> QED BY <1>1, <1>2, <1>4, <1>6, <2>2
<1> QED
  BY <1>3, <1>5, <1>6

LEMMA InvMeansDistinct == MatchInv => CasesDistinct
<1> SUFFICES ASSUME MatchInv, stage # "checking", ~IsEnum, NEW i \in DOMAIN arms, NEW j \in DOMAIN arms, i # j,
                    arms[i].kind = "literal", arms[j].kind = "literal", arms[i].decimal = arms[j].decimal
             PROVE  CaseOf(i) # CaseOf(j)
  BY Zenon DEF CasesDistinct
<1>1. MatchShape /\ LiteralsChecked
  BY DEF MatchInv, Compilable, ArmsChecked
<1>2. Tested(i) /\ Tested(j)
  BY <1>1, ArmKinds
<1>3. LiteralFits(arms[i]) /\ LiteralFits(arms[j]) /\ arms[i].value # arms[j].value
  BY <1>1, <1>2 DEF LiteralsChecked
<1> QED
  BY <1>1, <1>2, <1>3, CasesDiffer
LEMMA MatchStarts == MatchInit => MatchInv
<1> SUFFICES ASSUME MatchInit PROVE MatchInv
  OBVIOUS
<1>1. /\ arms = <<>> /\ covered = {} /\ rejected = FALSE /\ stage = "checking"
      /\ type \in {[enum |-> Scrutinee]} \cup IntTypes
  BY Zenon DEF MatchInit
<1>2. \A i \in DOMAIN arms : FALSE
  BY <1>1
<1>3. arms \in Seq({Wildcard} \cup Possible)
  BY <1>1
<1>4. MatchShape
  BY <1>1, <1>3 DEF MatchShape
<1>5. WildLast /\ PatternsChecked /\ LiteralsChecked
  BY <1>1, <1>2, Zenon DEF WildLast, PatternsChecked, LiteralsChecked
<1>6. stage # "running" /\ stage # "done"
  BY <1>1
<1> QED
  BY <1>1, <1>4, <1>5, <1>6, Zenon DEF MatchInv, ArmsChecked, Compilable, OnTheWay, ShallowMatchExact, FirstArmRuns

\* One more arm.
LEMMA Appended ==
  ASSUME NEW X, arms \in Seq(X), NEW p, arms' = Append(arms, p), NEW n, n = Len(arms) + 1
  PROVE  /\ DOMAIN arms' = DOMAIN arms \cup {n} /\ Len(arms') = n
         /\ arms'[n] = p
         /\ \A i \in DOMAIN arms : arms'[i] = arms[i] /\ i # n /\ (Tested(i)' <=> Tested(i))
         /\ Tested(n)' <=> p # Wildcard
<1>1. DOMAIN arms' = DOMAIN arms \cup {n} /\ Len(arms') = n /\ arms'[n] = p
  OBVIOUS
<1>2. \A i \in DOMAIN arms : arms'[i] = arms[i] /\ i # n
  OBVIOUS
<1>3. \A i \in DOMAIN arms : Tested(i)' <=> Tested(i)
  BY <1>2 DEF Tested
<1>4. Tested(n)' <=> p # Wildcard
  BY <1>1 DEF Tested
<1> QED
  BY <1>1, <1>2, <1>3, <1>4

LEMMA AppendKeepsShape ==
  ASSUME MatchShape, NEW p, arms' = Append(arms, p), p = Wildcard \/ p \in Possible, type' = type, rejected' \in BOOLEAN
  PROVE  MatchShape'
<1>1. Possible' = Possible
  BY DEF Possible, IsEnum
<1>2. arms' \in Seq({Wildcard} \cup Possible)
  BY DEF MatchShape
<1> QED
  BY <1>1, <1>2 DEF MatchShape

\* What every new arm has in common.
LEMMA ArmStep ==
  ASSUME MatchInv, NEW p, p = Wildcard \/ p \in Possible, arms' = Append(arms, p), type' = type,
         stage = "checking", stage' = stage, rejected' \in BOOLEAN, rejected' = FALSE => ~Wild,
         rejected' = FALSE => (IsEnum => PatternsChecked') /\ (~IsEnum => LiteralsChecked')
  PROVE  MatchInv'
<1>1. stage' = "checking" /\ arms' = Append(arms, p) /\ type' = type /\ (rejected' = FALSE => ~Wild)
  OBVIOUS
<1>2. MatchShape /\ IsEnum' = IsEnum
  BY <1>1 DEF MatchInv, IsEnum
<1>3. MatchShape'
  BY <1>1, <1>2, AppendKeepsShape
<1>4. ASSUME rejected' = FALSE PROVE WildLast'
  <2>1. \A i \in DOMAIN arms : Tested(i)
    BY <1>1, <1>4 DEF Wild, Tested
  <2>2. arms \in Seq({Wildcard} \cup Possible)
    BY <1>2 DEF MatchShape
  <2>3. \A i \in DOMAIN arms' : ~Tested(i)' => i = Len(arms')
    BY <1>1, <2>1, <2>2, Appended
  <2> QED BY <2>3 DEF WildLast
<1>5. ArmsChecked'
  BY <1>1, <1>2, <1>4 DEF ArmsChecked
<1> QED
  BY <1>1, <1>3, <1>5 DEF MatchInv, Compilable, OnTheWay, ShallowMatchExact, FirstArmRuns

LEMMA PatternStep == MatchInv /\ PatternArm => MatchInv'
<1> SUFFICES ASSUME MatchInv, IsEnum, NEW p \in Written, Arm(p, MaxArms, ArmFits(p), {Signature(p)})
             PROVE  MatchInv'
  BY Zenon DEF PatternArm
<1>1. arms' = Append(arms, p) /\ type' = type /\ covered' = covered \cup {Signature(p)}
  BY DEF Arm
<1>2. ASSUME rejected' = FALSE PROVE PatternsChecked'
  <2>1. ~rejected /\ ArmFits(p)
    BY <1>2 DEF Arm
  <2>2. PatternsChecked /\ arms \in Seq({Wildcard} \cup Possible)
    BY <2>1 DEF MatchInv, ArmsChecked, MatchShape
  <2>3. Fitting(p)
    BY <2>1, Zenon DEF ArmFits, Fitting
  <2>4. PICK new : new = Len(arms) + 1
    OBVIOUS
  <2>5. p # Wildcard
    <3>1. p.kind = "variant"
      BY WrittenFacts
    <3> QED BY <3>1 DEF Wildcard
  <2>6. /\ DOMAIN arms' = DOMAIN arms \cup {new} /\ arms'[new] = p /\ Tested(new)'
        /\ \A i \in DOMAIN arms : arms'[i] = arms[i] /\ (Tested(i)' <=> Tested(i))
    BY <1>1, <2>2, <2>4, <2>5, Appended
  <2>7. ASSUME NEW i \in DOMAIN arms', Tested(i)' PROVE Fitting(arms'[i])
    <3>1. CASE i \in DOMAIN arms
      BY <2>2, <2>6, <2>7, <3>1, Zenon DEF PatternsChecked
    <3>2. CASE i = new
      BY <2>3, <2>6, <3>2
    <3> QED BY <2>6, <3>1, <3>2
  <2>8. ASSUME NEW s \in covered' PROVE \E i \in DOMAIN arms' : Tested(i)' /\ s = Signature(arms'[i])
    <3>1. CASE s \in covered
      <4>1. PICK i \in DOMAIN arms : Tested(i) /\ s = Signature(arms[i])
        BY <2>2, <3>1 DEF PatternsChecked
      <4>2. i \in DOMAIN arms' /\ Tested(i)' /\ arms'[i] = arms[i]
        BY <2>6, <4>1
      <4> QED BY <4>1, <4>2
    <3>2. CASE s = Signature(p)
      <4>1. new \in DOMAIN arms'
        BY <2>6
      <4> QED BY <2>6, <3>2, <4>1
    <3> QED BY <1>1, <3>1, <3>2
  <2> QED BY <2>7, <2>8 DEF PatternsChecked, Fitting
<1>3. p \in Possible
  BY DEF Possible
<1>4. /\ arms' = Append(arms, p) /\ type' = type /\ stage = "checking" /\ stage' = stage
      /\ rejected' \in BOOLEAN /\ (rejected' = FALSE => ~Wild)
  BY Zenon DEF Arm
<1>5. rejected' = FALSE => (IsEnum => PatternsChecked') /\ (~IsEnum => LiteralsChecked')
  BY <1>2
<1>6. p = Wildcard \/ p \in Possible
  BY <1>3
<1> QED
  BY <1>4, <1>5, <1>6, ArmStep

LEMMA LiteralStep == MatchInv /\ LiteralArm => MatchInv'
<1> SUFFICES ASSUME MatchInv, ~IsEnum, NEW p \in Literals(type),
                    Arm(p, MaxCases, LiteralFits(p) /\ p.value \notin covered, {p.value})
             PROVE  MatchInv'
  BY Zenon DEF LiteralArm
<1>1. arms' = Append(arms, p) /\ type' = type /\ covered' = covered \cup {p.value}
  BY DEF Arm
<1>2. ASSUME rejected' = FALSE PROVE LiteralsChecked'
  <2>1. ~rejected /\ LiteralFits(p) /\ p.value \notin covered
    BY <1>2 DEF Arm
  <2>2. LiteralsChecked /\ arms \in Seq({Wildcard} \cup Possible)
    BY <2>1 DEF MatchInv, ArmsChecked, MatchShape
  <2>3. PICK new : new = Len(arms) + 1
    OBVIOUS
  <2>4. /\ DOMAIN arms' = DOMAIN arms \cup {new} /\ arms'[new] = p
        /\ \A i \in DOMAIN arms : arms'[i] = arms[i] /\ i # new /\ (Tested(i)' <=> Tested(i))
    BY <1>1, <2>2, <2>3, Appended
  <2>5. ASSUME NEW i \in DOMAIN arms', Tested(i)'
        PROVE  LiteralFits(arms[i])' /\ arms'[i].value \in covered'
    <3>1. CASE i \in DOMAIN arms
      <4>1. LiteralFits(arms[i]) /\ arms[i].value \in covered
        BY <2>2, <2>4, <2>5, <3>1 DEF LiteralsChecked
      <4> QED BY <1>1, <2>4, <3>1, <4>1 DEF LiteralFits
    <3>2. CASE i = new
      BY <1>1, <2>1, <2>4, <3>2 DEF LiteralFits
    <3> QED BY <2>4, <3>1, <3>2
  <2>6. ASSUME NEW i \in DOMAIN arms', NEW j \in DOMAIN arms', Tested(i)', Tested(j)', i # j
        PROVE  arms'[i].value # arms'[j].value
    <3>1. \A k \in DOMAIN arms : Tested(k) => arms[k].value # p.value
      BY <2>1, <2>2 DEF LiteralsChecked
    <3>2. CASE i \in DOMAIN arms /\ j \in DOMAIN arms
      BY <2>2, <2>4, <2>6, <3>2 DEF LiteralsChecked
    <3>3. CASE i = new /\ j \in DOMAIN arms
      BY <2>4, <2>6, <3>1, <3>3
    <3>4. CASE j = new /\ i \in DOMAIN arms
      BY <2>4, <2>6, <3>1, <3>4
    <3> QED BY <2>4, <2>6, <3>2, <3>3, <3>4
  <2> QED BY <2>5, <2>6, Zenon DEF LiteralsChecked
<1>3. p = Wildcard \/ p \in Possible
  BY DEF Possible
<1>5. /\ arms' = Append(arms, p) /\ type' = type /\ stage = "checking" /\ stage' = stage
      /\ rejected' \in BOOLEAN /\ (rejected' = FALSE => ~Wild)
  BY Zenon DEF Arm
<1>6. rejected' = FALSE => (IsEnum => PatternsChecked') /\ (~IsEnum => LiteralsChecked')
  BY <1>2
<1> QED
  BY <1>3, <1>5, <1>6, ArmStep

LEMMA WildcardStep == MatchInv /\ WildcardArm => MatchInv'
<1> SUFFICES ASSUME MatchInv, WildcardArm PROVE MatchInv'
  OBVIOUS
<1> DEFINE limit == IF IsEnum THEN MaxArms ELSE MaxCases
<1>1. Arm(Wildcard, limit, TRUE, {})
  BY DEF WildcardArm
<1> HIDE DEF limit
<1>2. arms' = Append(arms, Wildcard) /\ type' = type /\ covered' = covered
  BY <1>1 DEF Arm
<1>3. ASSUME rejected' = FALSE PROVE (IsEnum => PatternsChecked') /\ (~IsEnum => LiteralsChecked')
  <2>1. ~rejected
    BY <1>1 DEF Arm
  <2>2. (IsEnum => PatternsChecked) /\ (~IsEnum => LiteralsChecked) /\ arms \in Seq({Wildcard} \cup Possible)
    BY <2>1 DEF MatchInv, ArmsChecked, MatchShape
  <2>3. PICK new : new = Len(arms) + 1
    OBVIOUS
  <2>4. /\ DOMAIN arms' = DOMAIN arms \cup {new} /\ ~Tested(new)'
        /\ \A i \in DOMAIN arms : arms'[i] = arms[i] /\ (Tested(i)' <=> Tested(i))
    BY <1>2, <2>2, <2>3, Appended
  <2>5. \A i \in DOMAIN arms' : Tested(i)' => i \in DOMAIN arms /\ Tested(i) /\ arms'[i] = arms[i]
    BY <2>4
  <2>6. ASSUME IsEnum PROVE PatternsChecked'
    <3>1. \A i \in DOMAIN arms' : Tested(i)' => Fitting(arms'[i])
      BY <2>2, <2>5, <2>6 DEF PatternsChecked
    <3>2. ASSUME NEW s \in covered' PROVE \E i \in DOMAIN arms' : Tested(i)' /\ s = Signature(arms'[i])
      <4>1. PICK i \in DOMAIN arms : Tested(i) /\ s = Signature(arms[i])
        BY <1>2, <2>2, <2>6 DEF PatternsChecked
      <4>2. i \in DOMAIN arms' /\ Tested(i)' /\ arms'[i] = arms[i]
        BY <2>4, <4>1
      <4> QED BY <4>1, <4>2
    <3> QED BY <3>1, <3>2 DEF PatternsChecked, Fitting
  <2>7. ASSUME ~IsEnum PROVE LiteralsChecked'
    <3>1. ASSUME NEW i \in DOMAIN arms', Tested(i)'
          PROVE  LiteralFits(arms[i])' /\ arms'[i].value \in covered'
      <4>1. i \in DOMAIN arms /\ Tested(i) /\ arms'[i] = arms[i]
        BY <2>5, <3>1
      <4>2. LiteralFits(arms[i]) /\ arms[i].value \in covered
        BY <2>2, <2>7, <4>1 DEF LiteralsChecked
      <4> QED BY <1>2, <4>1, <4>2 DEF LiteralFits
    <3>2. ASSUME NEW i \in DOMAIN arms', NEW j \in DOMAIN arms', Tested(i)', Tested(j)', i # j
          PROVE  arms'[i].value # arms'[j].value
      BY <2>2, <2>5, <2>7, <3>2 DEF LiteralsChecked
    <3> QED BY <3>1, <3>2, Zenon DEF LiteralsChecked
  <2> QED BY <2>6, <2>7
<1>4. rejected' = FALSE => (IsEnum => PatternsChecked') /\ (~IsEnum => LiteralsChecked')
  BY <1>3
<1>5. /\ arms' = Append(arms, Wildcard) /\ type' = type /\ stage = "checking" /\ stage' = stage
      /\ rejected' \in BOOLEAN /\ (rejected' = FALSE => ~Wild)
  BY <1>1, Zenon DEF Arm
<1> QED
  BY <1>4, <1>5, ArmStep


\* What the steps after the checks keep.
LEMMA ChecksKept ==
  ASSUME checks' = checks
  PROVE  /\ MatchShape => MatchShape'
         /\ ArmsChecked => ArmsChecked'
         /\ Exhaustive => Exhaustive'
         /\ AllShallow' => AllShallow
<1>1. type' = type /\ arms' = arms /\ covered' = covered /\ rejected' = rejected
  BY DEF checks
<1>2. IsEnum' = IsEnum
  BY <1>1 DEF IsEnum
<1>3. MatchShape => MatchShape'
  BY <1>1, <1>2 DEF MatchShape, Possible
<1>4. Exhaustive => Exhaustive'
  BY <1>1, <1>2 DEF Exhaustive, Wild
<1>5. AllShallow' => AllShallow
  BY <1>1 DEF AllShallow
<1>6. WildLast => WildLast'
  BY <1>1 DEF WildLast, Tested
<1>7. PatternsChecked => PatternsChecked'
  BY <1>1 DEF PatternsChecked, Tested
<1>8. LiteralsChecked => LiteralsChecked'
  <2>1. \A x : LiteralFits(x)' <=> LiteralFits(x)
    BY <1>1 DEF LiteralFits
  <2> QED BY <1>1 DEF LiteralsChecked, Tested, LiteralFits
<1>9. ArmsChecked => ArmsChecked'
  BY <1>1, <1>2, <1>6, <1>7, <1>8 DEF ArmsChecked
<1> QED
  BY <1>3, <1>4, <1>5, <1>9

LEMMA ReadyKept ==
  ASSUME checks' = checks, NEW i, NEW v, at' = i, value' = v, Ready(i, v)
  PROVE  Ready(at, value)'
<1>1. type' = type /\ arms' = arms
  BY DEF checks
<1>2. IsEnum' = IsEnum
  BY <1>1 DEF IsEnum
<1>3. v \in ValuesOfType'
  BY <1>1, <1>2 DEF ValuesOfType, Ready
<1>4. Goes(at, value)'
  BY <1>1, <1>2 DEF Ready, Goes, Tested, TagOf, CaseOf
<1>5. \A j \in 1..(i - 1) : ~TakesValue(j, value)'
  BY <1>1 DEF Ready, TakesValue, CaseOf
<1> QED
  BY <1>1, <1>3, <1>4, <1>5 DEF Ready

\* How a match on v should end.
EndsRight(i, v, names, how) ==
  IF \E k \in DOMAIN arms : TakesValue(k, v)
  THEN /\ how = "arm"
       /\ TakesValue(i, v) /\ \A j \in 1..(i - 1) : ~TakesValue(j, v)
       /\ arms[i].kind = "variant" => InScope(arms[i]) = Triples(names)
  ELSE how = "RE2023"

LEMMA EndsKept ==
  ASSUME checks' = checks, NEW i, NEW v, NEW names, NEW how, at' = i, value' = v, bound' = names, end' = how,
         EndsRight(i, v, names, how)
  PROVE  FirstArmRuns'
<1>1. type' = type /\ arms' = arms
  BY DEF checks
<1>2. \A k : Takes(k)' <=> TakesValue(k, v)
  BY <1>1 DEF Takes, TakesValue, CaseOf
<1> QED
  BY <1>1, <1>2 DEF EndsRight, FirstArmRuns, Triples, Takes, TakesValue, CaseOf

LEMMA EndStep == MatchInv /\ EndOfArms => MatchInv'
<1> SUFFICES ASSUME MatchInv, EndOfArms PROVE MatchInv'
  OBVIOUS
<1>1. /\ stage = "checking" /\ ~rejected /\ type' = type /\ arms' = arms /\ covered' = covered
      /\ \/ Exhaustive /\ stage' = "compiled" /\ rejected' = rejected
         \/ rejected' = TRUE /\ stage' = stage
  BY Zenon DEF EndOfArms, Exhaustive
<1>2. stage' # "running" /\ stage' # "done"
  BY <1>1
<1>3. CASE rejected' = TRUE
  <2>1. IsEnum' = IsEnum /\ stage' = "checking"
    BY <1>1, <1>3 DEF IsEnum, MatchInv, MatchShape
  <2>2. MatchShape'
    BY <1>1, <1>3, <2>1 DEF MatchInv, MatchShape, Possible
  <2> QED BY <1>2, <1>3, <2>1, <2>2 DEF MatchInv, ArmsChecked, Compilable, OnTheWay, ShallowMatchExact, FirstArmRuns
<1>4. CASE rejected' # TRUE
  <2>1. checks' = checks /\ Exhaustive
    BY <1>1, <1>4 DEF checks
  <2>2. MatchShape' /\ ArmsChecked' /\ Exhaustive' /\ ~rejected'
    BY <1>1, <2>1, ChecksKept DEF MatchInv, checks
  <2> QED BY <1>2, <2>2 DEF MatchInv, Compilable, OnTheWay, ShallowMatchExact, FirstArmRuns
<1> QED
  BY <1>3, <1>4

\* The arm an arm's own tag or number excludes does not take the value.
LEMMA NotTaken ==
  ASSUME MatchShape, NEW j \in DOMAIN arms, NEW v, ~Goes(j, v)
  PROVE  ~TakesValue(j, v)
<1>1. CASE IsEnum
  <2>1. arms[j].kind = "variant" /\ TagOf(j) # v.tag
    BY <1>1, ArmKinds DEF Goes
  <2>2. ~Matches(arms[j], v)
    BY <2>1, Zenon DEF Matches, MatchesOver, TagOf
  <2> QED BY <2>1, <2>2 DEF TakesValue
<1>2. CASE ~IsEnum
  <2>1. arms[j].kind = "literal" /\ CaseOf(j) # v.bits
    BY <1>2, ArmKinds DEF Goes
  <2> QED BY <2>1 DEF TakesValue
<1> QED
  BY <1>1, <1>2

LEMMA ArmNumbers ==
  ASSUME MatchShape
  PROVE  DOMAIN arms = 1..Len(arms) /\ Len(arms) \in Nat
BY DEF MatchShape

LEMMA BeforeArm ==
  ASSUME MatchShape, NEW m \in DOMAIN arms, NEW j \in 1..(m - 1)
  PROVE  j \in DOMAIN arms /\ j # Len(arms) /\ j # m /\ j < m
<1>1. DOMAIN arms = 1..Len(arms) /\ Len(arms) \in Nat
  BY ArmNumbers
<1> DEFINE n == Len(arms)
<1> HIDE DEF n
<1>2. m \in 1..n /\ n \in Nat
  BY <1>1 DEF n
<1>3. m \in Nat /\ m <= n /\ j \in Nat /\ j <= m - 1 /\ j >= 1
  BY <1>2
<1>4. j \in 1..n /\ j # n /\ j # m /\ j < m
  BY <1>2, <1>3
<1> QED
  BY <1>1, <1>4 DEF n

\* The first arm of a set, where all arms outside it are excluded, is ready.
LEMMA FirstIsReady ==
  ASSUME MatchShape, NEW v \in ValuesOfType, NEW i \in DOMAIN arms, Goes(i, v),
         \A j \in 1..(i - 1) : ~Goes(j, v)
  PROVE  Ready(i, v)
<1>1. \A j \in 1..(i - 1) : j \in DOMAIN arms
  BY ArmNumbers
<1> QED
  BY <1>1, NotTaken DEF Ready

LEMMA DefaultFacts ==
  ASSUME MatchShape, Wild
  PROVE  /\ Default \in DOMAIN arms /\ ~Tested(Default)
         /\ \A j \in 1..(Default - 1) : j \in DOMAIN arms /\ Tested(j)
<1> DEFINE S == {i \in DOMAIN arms : ~Tested(i)}
<1>1. S \subseteq Nat /\ S # {}
  BY ArmNumbers DEF Wild, Tested
<1>2. Min(S) \in S /\ \A y \in S : Min(S) <= y
  <2> HIDE DEF S
  <2> QED BY <1>1, LeastNumber
<1>3. Default = Min(S)
  BY DEF Default
<1> HIDE DEF S
<1> DEFINE m == Min(S)
<1>4. m \in DOMAIN arms /\ ~Tested(m)
  BY <1>2 DEF S
<1> HIDE DEF m
<1>5. ASSUME NEW j \in 1..(m - 1) PROVE j \in DOMAIN arms /\ Tested(j)
  <2>1. j \in DOMAIN arms
    BY <1>4, ArmNumbers
  <2>2. j \notin S
    BY <1>2, <1>4, ArmNumbers DEF m
  <2> QED BY <2>1, <2>2 DEF S
<1> QED
  BY <1>3, <1>4, <1>5 DEF m

LEMMA SwitchFacts ==
  ASSUME MatchShape, WildLast, PatternsChecked, Exhaustive, IsEnum, NEW v \in Scrutinees
  PROVE  Ready(Switch(v), v)
<1> DEFINE cases == {i \in DOMAIN arms : Tested(i) /\ TagOf(i) = v.tag}
<1>1. v \in ValuesOfType
  BY DEF ValuesOfType
<1>2. CASE cases = {}
  <2>1. Switch(v) = Default
    BY <1>2 DEF Switch
  <2>2. Wild
    <3>1. SUFFICES ASSUME ~Wild PROVE FALSE
      OBVIOUS
    <3>2. Scrutinee \in EnumNames /\ v.tag \in DOMAIN Enums[Scrutinee]
      BY MatchingAssumption, ScrutineeFacts
    <3> DEFINE name == Enums[Scrutinee][v.tag].name
    <3>3. name \in Variants(Scrutinee) /\ IndexOf(Scrutinee, name) = v.tag
      BY <3>2, VariantFacts
    <3> HIDE DEF name
    <3>4. PICK s \in covered : s[1] = name
      BY <3>1, <3>3 DEF Exhaustive
    <3>5. PICK i \in DOMAIN arms : Tested(i) /\ s = Signature(arms[i])
      BY DEF PatternsChecked
    <3>6. s[1] = arms[i].variant
      BY <3>5 DEF Signature, SignatureOver
    <3>7. TagOf(i) = v.tag
      BY <3>3, <3>4, <3>6 DEF TagOf
    <3> QED BY <1>2, <3>5, <3>7
  <2>3. Default \in DOMAIN arms /\ ~Tested(Default)
    BY <2>2, DefaultFacts
  <2>4. \A j \in 1..(Default - 1) : ~Goes(j, v)
    <3>1. \A j \in 1..(Default - 1) : j \in DOMAIN arms /\ Tested(j)
      BY <2>2, DefaultFacts
    <3> QED BY <1>2, <3>1 DEF Goes
  <2> QED BY <1>1, <2>1, <2>3, <2>4, FirstIsReady DEF Goes
<1>3. CASE cases # {}
  <2>1. cases \subseteq Nat
    BY ArmNumbers
  <2>2. Switch(v) = Min(cases)
    BY <1>3 DEF Switch
  <2> HIDE DEF cases
  <2>3. Min(cases) \in cases /\ \A y \in cases : Min(cases) <= y
    BY <1>3, <2>1, LeastNumber
  <2> DEFINE m == Min(cases)
  <2>4. m \in DOMAIN arms /\ Tested(m) /\ TagOf(m) = v.tag
    BY <2>3 DEF cases
  <2> HIDE DEF m
  <2>5. ASSUME NEW j \in 1..(m - 1) PROVE ~Goes(j, v)
    <3>1. j \in DOMAIN arms /\ j # Len(arms)
      BY <2>4, BeforeArm
    <3>2. Tested(j)
      BY <3>1 DEF WildLast
    <3>3. j \notin cases
      BY <2>3, <2>4, ArmNumbers DEF m
    <3> QED BY <3>1, <3>2, <3>3 DEF Goes, cases
  <2>6. Ready(m, v)
    BY <1>1, <2>4, <2>5, FirstIsReady DEF Goes
  <2> QED BY <2>2, <2>6 DEF m
<1> QED
  BY <1>2, <1>3

LEMMA SwitchIntFacts ==
  ASSUME MatchShape, WildLast, Exhaustive, Verified, ~IsEnum, NEW v \in ValuesOfType
  PROVE  Ready(SwitchInt(v), v)
<1> DEFINE cases == {i \in DOMAIN arms : Tested(i) /\ CaseOf(i) = v.bits}
<1>1. CASE cases = {}
  <2>1. SwitchInt(v) = Default
    BY <1>1 DEF SwitchInt
  <2>2. Wild
    BY DEF Exhaustive
  <2>3. Default \in DOMAIN arms /\ ~Tested(Default)
    BY <2>2, DefaultFacts
  <2>4. \A j \in 1..(Default - 1) : ~Goes(j, v)
    <3>1. \A j \in 1..(Default - 1) : j \in DOMAIN arms /\ Tested(j)
      BY <2>2, DefaultFacts
    <3> QED BY <1>1, <3>1 DEF Goes
  <2> QED BY <2>1, <2>3, <2>4, FirstIsReady DEF Goes
<1>2. CASE cases # {}
  <2>1. PICK m : m = SwitchInt(v)
    OBVIOUS
  <2>2. m \in DOMAIN arms /\ Tested(m) /\ CaseOf(m) = v.bits
    BY <1>2, <2>1 DEF SwitchInt
  <2>3. ASSUME NEW j \in 1..(m - 1) PROVE ~Goes(j, v)
    <3>1. j \in DOMAIN arms /\ j # Len(arms) /\ j # m
      BY <2>2, BeforeArm
    <3>2. Tested(j)
      BY <3>1 DEF WildLast
    <3>3. CaseOf(j) # CaseOf(m)
      BY <2>2, <3>1, <3>2, Zenon DEF Verified
    <3> QED BY <2>2, <3>2, <3>3 DEF Goes
  <2> QED BY <2>1, <2>2, <2>3, FirstIsReady DEF Goes
<1> QED
  BY <1>1, <1>2

LEMMA DispatchStep == MatchInv /\ Dispatch => MatchInv'
<1> SUFFICES ASSUME MatchInv, Dispatch PROVE MatchInv'
  OBVIOUS
<1>1. stage = "compiled" /\ Verified /\ checks' = checks
  BY Zenon DEF Dispatch
<1>2. MatchShape /\ ArmsChecked /\ ~rejected /\ Exhaustive
  BY <1>1 DEF MatchInv, Compilable
<1>3. PICK v \in ValuesOfType :
        LET target == IF IsEnum THEN Switch(v) ELSE SwitchInt(v)
        IN  /\ value' = v /\ at' = target
            /\ IF target = 0 THEN Finish("unreachable") ELSE stage' = "running" /\ end' = end
  BY Zenon DEF Dispatch, ValuesOfType
<1>4. PICK i : i = IF IsEnum THEN Switch(v) ELSE SwitchInt(v)
  OBVIOUS
<1>5. Ready(i, v)
  <2>1. CASE IsEnum
    <3>1. v \in Scrutinees
      BY <2>1 DEF ValuesOfType
    <3> QED BY <1>2, <1>4, <2>1, <3>1, SwitchFacts DEF ArmsChecked
  <2>2. CASE ~IsEnum
    BY <1>1, <1>2, <1>4, <2>2, SwitchIntFacts DEF ArmsChecked
  <2> QED BY <2>1, <2>2
<1>6. i # 0
  BY <1>2, <1>5, ArmNumbers DEF Ready
<1>7. value' = v /\ at' = i /\ stage' = "running"
  BY <1>3, <1>4, <1>6
<1>8. Ready(at, value)'
  BY <1>1, <1>5, <1>7, ReadyKept
<1>9. MatchShape' /\ ArmsChecked' /\ Exhaustive' /\ ~rejected'
  BY <1>1, <1>2, ChecksKept DEF checks
<1> QED
  BY <1>7, <1>8, <1>9 DEF MatchInv, Compilable, OnTheWay, ShallowMatchExact, FirstArmRuns


\* The arm a failed test goes on to: the next one with the tag, or the wildcard.
LEMMA NextArmFacts ==
  ASSUME MatchShape, IsEnum, NEW i \in DOMAIN arms, NEW v, TagOf(i) = v.tag
  PROVE  /\ NextArm(i) = 0 => \A j \in DOMAIN arms : j > i => ~Goes(j, v)
         /\ NextArm(i) # 0 =>
              /\ NextArm(i) \in DOMAIN arms /\ NextArm(i) > i /\ Goes(NextArm(i), v)
              /\ \A j \in DOMAIN arms : j > i /\ j < NextArm(i) => ~Goes(j, v)
<1> DEFINE later == {j \in (i + 1)..Len(arms) : ~Tested(j) \/ TagOf(j) = TagOf(i)}
<1>1. DOMAIN arms = 1..Len(arms) /\ Len(arms) \in Nat
  BY ArmNumbers
<1>2. \A j \in DOMAIN arms : j > i => (j \in later <=> Goes(j, v))
  BY <1>1 DEF Goes
<1>3. \A j \in later : j \in DOMAIN arms /\ j > i /\ j \in Nat /\ j # 0
  BY <1>1
<1>4. NextArm(i) = IF later = {} THEN 0 ELSE Min(later)
  BY DEF NextArm
<1> HIDE DEF later
<1>5. CASE later = {}
  BY <1>2, <1>4, <1>5
<1>6. CASE later # {}
  <2>1. Min(later) \in later /\ \A y \in later : Min(later) <= y
    BY <1>3, <1>6, LeastNumber
  <2> DEFINE m == Min(later)
  <2>2. NextArm(i) = m /\ m \in later /\ \A y \in later : m <= y
    BY <1>4, <1>6, <2>1
  <2> HIDE DEF m
  <2>3. m \in DOMAIN arms /\ m > i /\ m \in Nat /\ m # 0 /\ Goes(m, v)
    BY <1>2, <1>3, <2>2
  <2>4. ASSUME NEW j \in DOMAIN arms, j > i, j < m PROVE ~Goes(j, v)
    <3>1. j \notin later
      BY <1>1, <2>2, <2>3, <2>4
    <3> QED BY <1>2, <2>4, <3>1
  <2> QED BY <2>2, <2>3, <2>4
<1> QED
  BY <1>5, <1>6

LEMMA ArmEndsRight ==
  ASSUME MatchShape, NEW v, NEW i, NEW names, Ready(i, v), TakesValue(i, v),
         arms[i].kind = "variant" => InScope(arms[i]) = Triples(names)
  PROVE  EndsRight(i, v, names, "arm")
BY Zenon DEF Ready, EndsRight

LEMMA RunStep == MatchInv /\ RunArm => MatchInv'
<1> SUFFICES ASSUME MatchInv, RunArm PROVE MatchInv'
  OBVIOUS
<1>1. stage = "running" /\ checks' = checks /\ value' = value
  BY Zenon DEF RunArm
<1>2. MatchShape /\ ArmsChecked /\ ~rejected /\ Exhaustive
  BY <1>1 DEF MatchInv, Compilable
<1>3. MatchShape' /\ ArmsChecked' /\ Exhaustive' /\ ~rejected'
  BY <1>1, <1>2, ChecksKept DEF checks
<1>4. CASE ~AllShallow
  <2>1. ~AllShallow'
    BY <1>1, <1>4, ChecksKept
  <2>2. OnTheWay' /\ ShallowMatchExact'
    BY <2>1, Zenon DEF OnTheWay, ShallowMatchExact, AllShallow
  <2> QED BY <1>3, <2>2 DEF MatchInv, Compilable
<1>5. CASE AllShallow
  <2>1. Ready(at, value)
    BY <1>1, <1>5 DEF MatchInv, OnTheWay
  <2>2. at \in DOMAIN arms /\ value \in ValuesOfType /\ Goes(at, value)
    BY <2>1 DEF Ready
  <2>3. CASE arms[at].kind # "variant"
    <3>1. at' = at /\ bound' = bound /\ end' = "arm" /\ stage' = "done"
      BY <2>3, Zenon DEF RunArm, Finish
    <3>2. TakesValue(at, value)
      BY <1>2, <2>2, <2>3, ArmKinds DEF Goes, TakesValue
    <3>3. EndsRight(at, value, bound, "arm")
      BY <1>2, <2>1, <2>3, <3>2, ArmEndsRight
    <3>4. FirstArmRuns'
      BY <1>1, <3>1, <3>3, EndsKept
    <3> QED BY <1>3, <3>1, <3>4 DEF MatchInv, Compilable, OnTheWay, ShallowMatchExact
  <2>4. CASE arms[at].kind = "variant"
    <3> DEFINE p == arms[at]  next == NextArm(at)
    <3>1. Tested(at) /\ IsEnum
      BY <1>2, <2>2, <2>4, ArmKinds
    <3>2. p \in Written /\ Fitting(p) /\ Shallow(p)
      BY <1>2, <1>5, <2>2, <3>1, ArmKinds DEF ArmsChecked, PatternsChecked, AllShallow
    <3>3. value \in Scrutinees /\ TagOf(at) = value.tag /\ value.tag = IndexOf(Scrutinee, p.variant)
      BY <2>2, <3>1 DEF ValuesOfType, Goes, TagOf
    <3>4. PICK r : r = Extract(p, value, next)
      OBVIOUS
    <3>5. /\ r.go \in {"on", "next", "RE2023"}
          /\ r.go = "on" => Matches(p, value) /\ Triples(r.names) = InScope(p)
          /\ r.go = "next" => ~Matches(p, value) /\ next # 0
          /\ r.go = "RE2023" => ~Matches(p, value) /\ next = 0
      <4> HIDE DEF p, next
      <4> QED BY <3>2, <3>3, <3>4, ExtractFacts
    <3>6. \/ r.go = "on" /\ Finish("arm") /\ bound' = r.names /\ at' = at
          \/ r.go = "RE2023" /\ Finish("RE2023") /\ at' = at /\ bound' = bound
          \/ r.go = "next" /\ at' = next /\ stage' = stage /\ end' = end /\ bound' = bound
      BY <2>4, <3>4 DEF RunArm
    <3>7. DOMAIN arms = 1..Len(arms) /\ Len(arms) \in Nat /\ \A j \in 1..(at - 1) : ~TakesValue(j, value)
      BY <1>2, <2>1, ArmNumbers DEF Ready
    <3>8. ~Matches(p, value) => ~TakesValue(at, value)
      BY <2>4 DEF TakesValue
    <3>9. \A j \in DOMAIN arms : ~Goes(j, value) => ~TakesValue(j, value)
      BY <1>2, NotTaken
    <3>10. /\ next = 0 => \A j \in DOMAIN arms : j > at => ~Goes(j, value)
           /\ next # 0 =>
                /\ next \in DOMAIN arms /\ next > at /\ Goes(next, value)
                /\ \A j \in DOMAIN arms : j > at /\ j < next => ~Goes(j, value)
      BY <1>2, <2>2, <3>1, <3>3, NextArmFacts
    <3> HIDE DEF p, next
    <3>11. CASE r.go = "on"
      <4>1. at' = at /\ bound' = r.names /\ end' = "arm" /\ stage' = "done"
        BY <3>6, <3>11 DEF Finish
      <4>2. TakesValue(at, value)
        BY <2>4, <3>5, <3>11 DEF TakesValue, p
      <4>3. EndsRight(at, value, r.names, "arm")
        BY <1>2, <2>1, <3>5, <3>11, <4>2, ArmEndsRight DEF p
      <4>4. FirstArmRuns'
        BY <1>1, <4>1, <4>3, EndsKept
      <4> QED BY <1>3, <4>1, <4>4 DEF MatchInv, Compilable, OnTheWay, ShallowMatchExact
    <3>12. CASE r.go = "RE2023"
      <4>1. at' = at /\ bound' = bound /\ end' = "RE2023" /\ stage' = "done"
        BY <3>6, <3>12 DEF Finish
      <4>2. ASSUME NEW k \in DOMAIN arms PROVE ~TakesValue(k, value)
        <5>1. k \in 1..(at - 1) \/ k = at \/ k > at
          BY <2>2, <3>7
        <5> QED BY <3>5, <3>7, <3>8, <3>9, <3>10, <3>12, <5>1
      <4>3. EndsRight(at, value, bound, "RE2023")
        BY <4>2 DEF EndsRight
      <4>4. FirstArmRuns'
        BY <1>1, <4>1, <4>3, EndsKept
      <4> QED BY <1>3, <4>1, <4>4 DEF MatchInv, Compilable, OnTheWay, ShallowMatchExact
    <3>13. CASE r.go = "next"
      <4>1. at' = next /\ stage' = "running"
        BY <1>1, <3>6, <3>13
      <4>2. next \in DOMAIN arms /\ next > at /\ Goes(next, value)
        BY <3>5, <3>10, <3>13
      <4>3. ASSUME NEW j \in 1..(next - 1) PROVE ~TakesValue(j, value)
        <5>1. j \in DOMAIN arms /\ j < next
          BY <1>2, <4>2, BeforeArm
        <5>2. j \in 1..(at - 1) \/ j = at \/ j > at
          BY <2>2, <3>7, <5>1
        <5> QED BY <3>5, <3>7, <3>8, <3>9, <3>10, <3>13, <5>1, <5>2
      <4>4. Ready(next, value)
        BY <2>2, <4>2, <4>3 DEF Ready
      <4>5. Ready(at, value)'
        BY <1>1, <4>1, <4>4, ReadyKept
      <4> QED BY <1>3, <4>1, <4>5 DEF MatchInv, Compilable, OnTheWay, ShallowMatchExact, FirstArmRuns
    <3> QED BY <3>5, <3>11, <3>12, <3>13
  <2> QED BY <2>3, <2>4
<1> QED
  BY <1>4, <1>5

LEMMA MatchKept == MatchInv /\ UNCHANGED matchVars => MatchInv'
<1> SUFFICES ASSUME MatchInv, UNCHANGED matchVars PROVE MatchInv'
  OBVIOUS
<1>1. checks' = checks /\ stage' = stage /\ rejected' = rejected
  BY DEF matchVars, checks
<1>2. MatchShape' /\ ArmsChecked' /\ (Exhaustive => Exhaustive') /\ (AllShallow' => AllShallow)
  BY <1>1, ChecksKept DEF MatchInv
<1>3. Compilable'
  BY <1>1, <1>2 DEF MatchInv, Compilable
<1>4. OnTheWay'
  <2>1. SUFFICES ASSUME stage' = "running", AllShallow' PROVE Ready(at, value)'
    BY DEF OnTheWay
  <2>2. Ready(at, value)
    BY <1>1, <1>2, <2>1 DEF MatchInv, OnTheWay
  <2> QED BY <1>1, <2>2, ReadyKept DEF matchVars
<1>5. ShallowMatchExact'
  <2>1. type' = type /\ arms' = arms /\ stage' = stage /\ value' = value /\ at' = at /\ bound' = bound /\ end' = end
    BY DEF matchVars
  <2>2. \A k : Takes(k)' <=> Takes(k)
    BY <2>1 DEF Takes, CaseOf
  <2> QED BY <2>1, <2>2 DEF MatchInv, ShallowMatchExact, FirstArmRuns, Takes, CaseOf
<1> QED
  BY <1>2, <1>3, <1>4, <1>5 DEF MatchInv

LEMMA MatchHolds == MatchSpec => []MatchInv
<1>1. MatchInv /\ [MatchNext]_matchVars => MatchInv'
  BY PatternStep, LiteralStep, WildcardStep, EndStep, DispatchStep, RunStep, MatchKept DEF MatchNext, Done
<1> QED
  BY <1>1, MatchStarts, PTL DEF MatchSpec

\* A match the type pass accepts, with patterns at most two variants deep, runs the first arm
\* its value matches, with the names and types of that pass, for every family of enums, every
\* list of arms and every value.
THEOREM MatchesRunTheFirstArm == MatchSpec => []ShallowMatchExact
<1>1. MatchInv => ShallowMatchExact
  BY DEF MatchInv
<1> QED
  BY <1>1, MatchHolds, PTL

\* The constants of the switch of an accepted integer match differ, for every width, if one
\* radix is used.
THEOREM SwitchCasesDiffer == MatchSpec => []CasesDistinct
BY InvMeansDistinct, MatchHolds, PTL
=============================================================================
