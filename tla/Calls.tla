------------------------------- MODULE Calls -------------------------------
(***************************************************************************)
(* What a call runs.  The same question is answered three times: by the    *)
(* typecheck pass that validates the call                                  *)
(* (semantics/passes/types/calls/methods.py, user_defined.py), by the      *)
(* inference of its type (types/method_registry.py, types/visitor.py) and  *)
(* by the dispatcher that emits it (backend/expressions/calls/).  The      *)
(* module gives each layer its own definition, in its own order, and asks  *)
(* them in the order the compiler does.                                    *)
(*                                                                         *)
(* A program declares at most one method for the receiver's type, as an    *)
(* extension or by implementing a perk, and makes one call: a method call  *)
(* on a local, on a borrowed parameter or on a struct's field, or a plain  *)
(* call of a name that a local, a struct, a generic or plain function and  *)
(* the standard library may all define.                                    *)
(***************************************************************************)
EXTENDS Naturals, FiniteSets

CONSTANTS
  Kinds,     \* the kinds of type a receiver may have
  Methods    \* the names a method call may use

VARIABLES
  call,      \* the call and what the program declares around it
  progress,  \* "declared", "accepted", "checked", "inferred", "emitted", "rejected"
  checked,   \* the provider the typecheck pass validated the call against
  inferred,  \* the provider whose return type the call got
  emitted,   \* the provider whose body the emitted call runs
  argument   \* an owning argument after the call: "caller", "callee", "parked",
             \*   or "both" when the caller still frees what the callee consumed

callVars == <<call, progress, checked, inferred, emitted, argument>>

Containers == {"Own", "HashMap", "List"}

-----------------------------------------------------------------------------
(* the methods the compiler defines *)

\* is_builtin_array_method, is_builtin_string_method, is_builtin_result_method
\* and the others: the names each family of types knows
FamilyNames ==
  [array |-> {"len", "get", "clone", "hash", "destroy"}, string |-> {"len", "clone"},
   Result |-> {"is_ok", "realise"}, Maybe |-> {"realise"},
   Own |-> {"get", "destroy", "clone"}, HashMap |-> {"len", "get", "destroy", "clone"},
   List |-> {"len", "get", "destroy", "clone"}, file |-> {"read"}]
Family(kind) == IF kind \in DOMAIN FamilyNames THEN FamilyNames[kind] ELSE {}

\* has_primitive_method: to_bits is of the floats, and a string has its own clone
Primitive(kind) ==
  CASE kind = "i32" -> {"to_str", "hash", "clone"}
    [] kind = "f64" -> {"to_str", "hash", "clone", "to_bits"}
    [] kind = "string" -> {"to_str", "hash"}
    [] OTHER -> {}

\* get_builtin_method on a struct or an enum: what the derive pass registered.
\* The field of an opaque struct cannot be hashed; a container is hashed as
\* the struct it is, but cloned by its own method.
Derived(kind) ==
  CASE kind \in {"struct", "enum", "Result", "Maybe"} -> {"hash", "clone"}
    [] kind = "opaque" -> {"clone"}
    [] kind \in Containers -> {"hash"}
    [] OTHER -> {}

FunctionNames(kind) == IF kind = "fn" THEN {"clone"} ELSE {}

\* builtin_method_exists, the seam CE2097 asks
BuiltinExists(kind, m) ==
  \/ m \in Family(kind)
  \/ m \in Primitive(kind)
  \/ m \in Derived(kind)
  \/ m \in FunctionNames(kind)

-----------------------------------------------------------------------------
(* the typecheck pass *)

\* resolve_fn_field_call: a field that holds a function is called, unless the
\* name is hash or an extension has it
FieldWins(c) == c.field /\ c.method # "hash" /\ ~c.ext

\* validate_method_call, from the container families to the extension
Check(c) ==
  LET k == c.kind  m == c.method
  IN IF FieldWins(c) THEN "field"
     ELSE IF m \in Family(k) THEN k
     ELSE IF c.perk THEN "perk"
     ELSE IF m \in Derived(k) THEN "derived"
     ELSE IF m \in FunctionNames(k) THEN "function"
     ELSE IF m \in Primitive(k) THEN "primitive"
     ELSE IF c.ext THEN "extension"
     ELSE "error"

-----------------------------------------------------------------------------
(* inference *)

\* the inferrers of the built-in families, by value and by container
ValueFamily(c) == c.kind \notin Containers /\ c.method \in Family(c.kind)
ContainerFamily(c) == c.kind \in Containers /\ c.method \in Family(c.kind)

\* a mutant: the primitive checker claims its names before asking for a perk
ClaimsEagerly(c) ==
  IF ValueFamily(c) \/ ContainerFamily(c) THEN c.kind
  ELSE IF c.method \in Primitive(c.kind) THEN "primitive"
  ELSE IF c.method \in Derived(c.kind) /\ c.kind \notin Containers /\ ~c.perk THEN "derived"
  ELSE "none"

\* METHOD_TYPE_REGISTRY.infer_method_type: the checkers of the registry, of
\* which at most one claims a receiver's type and name
Claims(c) ==
  IF ValueFamily(c) \/ ContainerFamily(c) THEN c.kind
  ELSE IF c.method \in Primitive(c.kind) /\ ~c.perk THEN "primitive"
  ELSE IF c.method \in Derived(c.kind) /\ c.kind \notin Containers /\ ~c.perk THEN "derived"
  ELSE "none"

\* visit_methodcall after the registry; a function value is none of the types
\* it lists
Infer(c) ==
  IF FieldWins(c) THEN "field"
  ELSE IF c.kind = "fn" THEN "none"
  ELSE IF Claims(c) # "none" THEN Claims(c)
  ELSE IF c.perk THEN "perk"
  ELSE IF c.ext THEN "extension"
  ELSE "none"

-----------------------------------------------------------------------------
(* the dispatcher *)

\* infer_generic_enum_type: what the receiver is taken for.  A local's enum is
\* authoritative, a field of enum type is matched by its layout.
TakenFor(c, prefix) ==
  \/ c.kind = prefix
  \/ c.kind = "enum" /\ c.form = "field" /\ c.likeResult /\ prefix = "Result"

\* try_emit_result_or_maybe_method
ResultOrMaybe(c) ==
  {p \in {"Result", "Maybe"} : c.method \in Family(p) /\ TakenFor(c, p)}

\* try_emit_file_method wants a local whose type is FILE itself
FileMethod(c) == c.kind = "file" /\ c.form = "local" /\ c.method \in Family("file")

\* the families asked before the receiver is emitted and those asked after
ContainerMethod(c) == c.kind \in Containers /\ c.method \in Family(c.kind)
ValueMethod(c) == c.kind \in {"array", "string"} /\ c.method \in Family(c.kind)

\* try_emit_perk_method: the implementation of the receiver's type as it is
\* declared, so `peek Point` has none
PerkMethod(c) == c.perk /\ c.form # "borrow"

\* the user's method under its symbol, which an extension's and a perk's body
\* share; a string's is declared if the standard library knows it
BySymbol(c) ==
  IF c.ext THEN "extension" ELSE IF c.perk THEN "perk" ELSE "error"

\* emit_method_call, in its order
Emit(c) ==
  IF FieldWins(c) THEN "field"
  ELSE IF FileMethod(c) THEN "file"
  ELSE IF ResultOrMaybe(c) # {} THEN CHOOSE p \in ResultOrMaybe(c) : TRUE
  ELSE IF ContainerMethod(c) THEN c.kind
  ELSE IF ValueMethod(c) THEN c.kind
  ELSE IF PerkMethod(c) THEN "perk"
  ELSE IF c.method \in Derived(c.kind) THEN "derived"
  ELSE IF c.method \in FunctionNames(c.kind) THEN "function"
  ELSE IF c.method \in Primitive(c.kind) THEN "primitive"
  ELSE BySymbol(c)

-----------------------------------------------------------------------------
(* plain calls: the meanings a name may have are in c.means *)

First(seq, means) ==
  LET found == {i \in DOMAIN seq : seq[i] \in means}
  IN IF found = {} THEN "error" ELSE seq[CHOOSE i \in found : \A j \in found : i <= j]

\* validate_function_call
CheckName(c) ==
  First(<<"local", "generic", "struct", "open", "stdlib", "function">>, c.means)

\* InferenceVisitor.visit_call, after the check has put the instance's name in
\* the place of a generic one; the nine names of math are the library's here
\* whether or not a unit says `use <math>`
InferName(c) ==
  IF checked = "generic" THEN "generic"
  ELSE IF c.mathName /\ c.means \cap {"local", "struct", "open"} = {} THEN "stdlib"
  ELSE First(<<"local", "struct", "open", "stdlib", "function">>, c.means)

\* emit_function_call, on the same tree
EmitName(c) ==
  IF checked = "generic" THEN "generic"
  ELSE First(<<"local", "struct", "open", "stdlib", "function">>, c.means)

-----------------------------------------------------------------------------
(* arguments *)

\* settle_call_arguments: a `nom` argument is consumed, and any other that
\* nobody owns is parked for the caller to free
Settle(mode, temporary) ==
  IF mode = "nom" THEN "callee" ELSE IF temporary THEN "parked" ELSE "caller"

\* the callee's body consumes what the parameter's mode says, whatever the
\* call did about it
Unsettled(mode, temporary) ==
  IF mode = "nom" THEN (IF temporary THEN "callee" ELSE "both")
  ELSE IF temporary THEN "nobody" ELSE "caller"

\* every arm but try_emit_perk_method settles the arguments it passes
ArgumentAfter(c, provider) ==
  IF provider = "perk" /\ PerkMethod(c)
  THEN Unsettled(c.mode, c.temporary)
  ELSE Settle(c.mode, c.temporary)

-----------------------------------------------------------------------------
(* one call through the compiler *)

\* a perk may be implemented by any type; an extension is collected for a
\* builtin type, a fixed array, a struct or an enum, and a function cannot be
\* extended at all
MethodCalls ==
  [ask : {"method"}, kind : Kinds, method : Methods, form : {"local", "borrow", "field"},
   perk : BOOLEAN, ext : BOOLEAN, field : BOOLEAN, likeResult : BOOLEAN,
   mode : {"plain", "nom"}, temporary : BOOLEAN]
Sensible(c) ==
  /\ c.field => c.kind \in {"struct", "opaque"}
  /\ c.likeResult => c.kind = "enum"
  /\ c.kind = "fn" => ~c.ext /\ ~c.perk
  /\ (c.mode = "nom" \/ c.temporary) => (c.perk \/ c.ext)

Meanings == {"local", "generic", "struct", "open", "stdlib", "function"}
NameCalls == [ask : {"name"}, means : SUBSET Meanings, mathName : BOOLEAN,
              mode : {"plain", "nom"}, temporary : BOOLEAN]

CallsInit ==
  /\ \/ \E c \in MethodCalls : Sensible(c) /\ call = c
     \/ \E c \in NameCalls :
          /\ c.mathName => "open" \notin c.means
          /\ ~({"generic", "function"} \subseteq c.means)
          /\ call = c
  /\ progress = "declared"
  /\ checked = "-" /\ inferred = "-" /\ emitted = "-" /\ argument = "-"

\* _check_extension_shadows_builtin
Shadows(c) == c.ext /\ BuiltinExists(c.kind, c.method)

\* check_no_conflicts_with_regular_methods
RivalPerk(c) == c.ext /\ c.perk

\* CE2097 and CE4007 stop the compile before any code is emitted
Declare ==
  /\ progress = "declared"
  /\ progress' = IF call.ask = "method" /\ (Shadows(call) \/ RivalPerk(call))
                 THEN "rejected" ELSE "accepted"
  /\ UNCHANGED <<call, checked, inferred, emitted, argument>>

ValidateCall ==
  /\ progress = "accepted"
  /\ checked' = IF call.ask = "method" THEN Check(call) ELSE CheckName(call)
  /\ progress' = IF checked' = "error" THEN "rejected" ELSE "checked"
  /\ UNCHANGED <<call, inferred, emitted, argument>>

InferCall ==
  /\ progress = "checked"
  /\ inferred' = IF call.ask = "method" THEN Infer(call) ELSE InferName(call)
  /\ progress' = "inferred"
  /\ UNCHANGED <<call, checked, emitted, argument>>

EmitCall ==
  /\ progress = "inferred"
  /\ emitted' = IF call.ask = "method" THEN Emit(call) ELSE EmitName(call)
  /\ argument' = IF call.ask = "method" THEN ArgumentAfter(call, emitted')
                 ELSE Settle(call.mode, call.temporary)
  /\ progress' = "emitted"
  /\ UNCHANGED <<call, checked, inferred>>

CallsNext == Declare \/ ValidateCall \/ InferCall \/ EmitCall

CallsSpec == CallsInit /\ [][CallsNext]_callVars

-----------------------------------------------------------------------------
(* properties *)

\* the calls whose answers are known to differ, which LayersAgree leaves out
\* and the README lists: a borrowed or field receiver, a method of a function
\* value, the hash of a container, and a user's function with a name of math
Differ(c) ==
  IF c.ask = "name" THEN c.mathName
  ELSE \/ c.form # "local"
       \/ c.kind = "fn"
       \/ c.kind \in Containers /\ c.method = "hash"

\* The three layers agree: an accepted call on a local is emitted as the method
\* or function it was validated against, and has that one's type.  The
\* precedence is written three times
\* (docs/design/method-resolution.md, methods.py, method_registry.py,
\* dispatcher.py), and a family that answers early in one of them gives a call
\* the type of one method and the body of another.
LayersAgree ==
  (progress = "emitted" /\ ~Differ(call)) => (inferred = checked /\ emitted = checked)

\* No accepted extension is dead: if the program gave the receiver's type an
\* extension with the called name, that extension is what runs.  CE2097 exists
\* for this, and asks a fourth list of the compiler's methods.
NoDeadExtension ==
  (progress = "emitted" /\ call.ask = "method" /\ ~Differ(call) /\ call.ext)
    => emitted = "extension"

\* An argument has one owner after the call: what a `nom` parameter consumed is
\* not freed by the caller, and a temporary is freed by somebody.  Broken by a
\* perk's method, whose arm of the dispatcher settles nothing.
ArgumentsSettled == progress = "emitted" => argument \notin {"both", "nobody"}

\* The layers agree for every receiver.  Broken by a perk that replaces a
\* built-in on a type whose value is borrowed: the body that runs is the
\* built-in one.
LayersAlwaysAgree ==
  (progress = "emitted" /\ call.ask = "method" /\ call.kind # "fn")
    => emitted = checked
=============================================================================
