----------------------------- MODULE TypeGraph -----------------------------
(***************************************************************************)
(* The passes that run on the declared types once every name is in the     *)
(* tables: resolve, finite-types and derive (SemanticAnalyzer calls them   *)
(* in this order).                                                         *)
(*                                                                         *)
(* A program declares structs and enums, in any order; a body is a         *)
(* sequence of groups of parts: one group (the fields) for a struct, one   *)
(* group per variant for an enum.  A part holds a leaf or a named type:    *)
(* "plain" (by value), "fixed" (T[2]), "dyn" (T[]) or "own" (Own<T>, which *)
(* monomorphization has turned into a struct around one pointer).          *)
(* The search for infinite types is modelled step by step, on its explicit *)
(* stack; the sorts and the registrations are one action each.             *)
(***************************************************************************)
EXTENDS Integers, FiniteSets, SequencesExt

CONSTANTS NameList,  \* names a program may declare, in this order
          NameWraps, \* the ways a part may hold a named type, of Wraps
          LeafWraps, \* and a built-in type
          Leaves,    \* the built-in types used, of {"i8", "i32", "string"}
          MaxParts   \* bound: parts in all bodies together

ASSUME DeclarationsAssumption ==
  /\ NameList \in Seq(ToSet(NameList)) /\ IsInjective(NameList)
  /\ NameWraps \cup LeafWraps \subseteq {"plain", "fixed", "dyn", "own"}
  /\ Leaves \cap ToSet(NameList) = {}

VARIABLES order,     \* struct_table.order and enum_table.order: the declared names
          kind,      \* [Names -> {"none", "struct", "enum"}]
          body,      \* [Names -> Seq(Seq(Part))]
          phase,     \* the pass that runs
          mark,      \* state: [Names -> {"new", "path", "done"}]
          stack,     \* the nodes on the path, each with the places already taken
          reported,  \* the cycles reported as CE2095, as sets of nodes
          errors,    \* the enums reported as CE2052
          hashed     \* the types a hash() method is registered for

vars == <<order, kind, body, phase, mark, stack, reported, errors, hashed>>
decls == <<order, kind, body>>

Names == ToSet(NameList)
Wraps == {"plain", "fixed", "dyn", "own"}
Part == [wrap: Wraps, of: Names \cup Leaves, known: BOOLEAN]

Declared == ToSet(order)
OfKind(k) == {n \in Declared: kind[n] = k}
PartsOf(n) == UNION {ToSet(body[n][g]): g \in DOMAIN body[n]}

\* A part whose type is a struct or enum of the tables, and not an UnknownType.
Named(p) == p.of \in Names /\ p.known

---------------------------------------------------------------------------
(* The program: declarations as the collect pass left them.                *)

Total == FoldSeq(LAMBDA n, t: t + Len(FlattenSeq(body[n])), 0, order)

Declare(k) ==
    /\ phase = "declaring" /\ Total = 0
    /\ Len(order) < Len(NameList)
    /\ LET n == NameList[Len(order) + 1]
       IN  /\ order' = Append(order, n)
           /\ kind' = [kind EXCEPT ![n] = k]
           /\ body' = [body EXCEPT ![n] = << <<>> >>]
    /\ UNCHANGED <<phase, mark, stack, reported, errors, hashed>>

\* The bodies are written one after the other: nothing after the i-th has a part yet.
Writing(i) == \A j \in (i + 1)..Len(order): body[order[j]] = << <<>> >>

AddPart ==
    /\ phase = "declaring" /\ Total < MaxParts
    /\ \E i \in DOMAIN order:
          /\ Writing(i)
          /\ \E part \in [wrap: NameWraps, of: Declared, known: {FALSE}]
                          \cup [wrap: LeafWraps, of: Leaves, known: {TRUE}]:
                body' = [body EXCEPT ![order[i]][Len(body[order[i]])] = Append(@, part)]
    /\ UNCHANGED <<order, kind, phase, mark, stack, reported, errors, hashed>>

AddVariant ==
    /\ phase = "declaring" /\ Total < MaxParts
    /\ \E i \in DOMAIN order:
          /\ Writing(i)
          /\ kind[order[i]] = "enum" /\ Last(body[order[i]]) # <<>>
          /\ body' = [body EXCEPT ![order[i]] = Append(@, <<>>)]
    /\ UNCHANGED <<order, kind, phase, mark, stack, reported, errors, hashed>>

\* A struct has at least one field.
EndOfProgram ==
    /\ phase = "declaring"
    /\ \A n \in Declared: kind[n] = "struct" => PartsOf(n) # {}
    /\ phase' = "resolve structs"
    /\ UNCHANGED <<decls, mark, stack, reported, errors, hashed>>

---------------------------------------------------------------------------
(* resolve: an UnknownType of the tables becomes the type, also inside an  *)
(* array; a name the tables do not have stays unknown.                     *)

\* What _resolve_type would be without its array cases.
ResolveTypePlainOnly(p) ==
    [p EXCEPT !.known = @ \/ (p.of \in Declared /\ p.wrap \in {"plain", "own"})]

ResolveType(p) == [p EXCEPT !.known = @ \/ p.of \in Declared]

ResolveBodies(k) ==
    body' = [n \in Names |->
                IF kind[n] = k
                THEN [g \in DOMAIN body[n] |->
                         [i \in DOMAIN body[n][g] |-> ResolveType(body[n][g][i])]]
                ELSE body[n]]

ResolveStructs ==
    /\ phase = "resolve structs"
    /\ ResolveBodies("struct")
    /\ phase' = "resolve enums"
    /\ UNCHANGED <<order, kind, mark, stack, reported, errors, hashed>>

ResolveEnums ==
    /\ phase = "resolve enums"
    /\ ResolveBodies("enum")
    /\ phase' = "finite"
    /\ UNCHANGED <<order, kind, mark, stack, reported, errors, hashed>>

---------------------------------------------------------------------------
(* finite-types: an iterative depth-first search with an explicit path.    *)

\* _inline_targets: the part is stored inline, so its type is a successor.
Inline(p) == Named(p) /\ p.wrap \in {"plain", "fixed"}

\* _successors, in declaration order: <<g, i>> is the i-th part of the g-th group.
InlinePlaces(n) ==
    UNION {{<<g, i>>: i \in {j \in DOMAIN body[n][g]: Inline(body[n][g][j])}}: g \in DOMAIN body[n]}
TargetOf(n, place) == body[n][place[1]][place[2]].of
PlaceBefore(p, q) == p[1] < q[1] \/ (p[1] = q[1] /\ p[2] < q[2])

IsOurs(cycle) == \E n \in cycle: kind[n] = "struct"

\* The roots: the structs and then the enums, each in the order of its table.
RootBefore(i, j) ==
    IF kind[order[i]] = kind[order[j]] THEN i < j ELSE kind[order[i]] = "struct"

\* The next root that no search has reached.
StartRoot ==
    /\ phase = "finite"
    /\ stack = <<>>
    /\ \E i \in DOMAIN order:
          /\ mark[order[i]] = "new"
          /\ \A j \in DOMAIN order: RootBefore(j, i) => mark[order[j]] # "new"
          /\ stack' = <<[node |-> order[i], taken |-> {}]>>
          /\ mark' = [mark EXCEPT ![order[i]] = "path"]
    /\ UNCHANGED <<decls, phase, reported, errors, hashed>>

\* All successors seen: the node leaves the path.
LeaveNode ==
    /\ phase = "finite"
    /\ stack # <<>>
    /\ InlinePlaces(Last(stack).node) \subseteq Last(stack).taken
    /\ mark' = [mark EXCEPT ![Last(stack).node] = "done"]
    /\ stack' = Front(stack)
    /\ UNCHANGED <<decls, phase, reported, errors, hashed>>

\* The nodes of the path from `s` on.
CycleTo(s) == {stack[i].node: i \in {k \in DOMAIN stack: \E j \in 1..k: stack[j].node = s}}

\* The next successor: on the path it closes a cycle, unseen it is entered, explored it is
\* skipped.  A node already on the path is not entered again, whoever reports the cycle.
NextSuccessor ==
    /\ phase = "finite"
    /\ stack # <<>>
    /\ LET top == Last(stack)
       IN  \E place \in InlinePlaces(top.node) \ top.taken:
             /\ \A other \in InlinePlaces(top.node) \ top.taken: ~PlaceBefore(other, place)
             /\ LET s == TargetOf(top.node, place)
                    advanced == Append(Front(stack), [top EXCEPT !.taken = @ \cup {place}])
                IN  \/ /\ mark[s] = "path"
                       /\ stack' = advanced
                       /\ reported' = IF IsOurs(CycleTo(s))
                                      THEN reported \cup {CycleTo(s)} ELSE reported
                       /\ UNCHANGED mark
                    \/ /\ mark[s] = "new"
                       /\ stack' = Append(advanced, [node |-> s, taken |-> {}])
                       /\ mark' = [mark EXCEPT ![s] = "path"]
                       /\ UNCHANGED reported
                    \/ /\ mark[s] = "done"
                       /\ stack' = advanced
                       /\ UNCHANGED <<mark, reported>>
    /\ UNCHANGED <<decls, phase, errors, hashed>>

\* Nothing unseen is left; a report stops the analysis here.
EndOfSearch ==
    /\ phase = "finite"
    /\ stack = <<>>
    /\ \A n \in Declared: mark[n] # "new"
    /\ phase' = IF reported = {} THEN "derive structs" ELSE "stopped"
    /\ UNCHANGED <<decls, mark, stack, reported, errors, hashed>>

---------------------------------------------------------------------------
(* derive: sort, then register hash() for every type that can have one.    *)

\* The names Kahn's algorithm takes out of the graph `deps` over `nodes`: the least set
\* that has every name whose dependencies it has.
Sorted(nodes, deps) ==
    {n \in nodes: \A S \in SUBSET nodes: (\A m \in nodes: deps[m] \subseteq S => m \in S) => n \in S}

\* dependencies: the names of `k` held directly; arrays are not looked into.
Dependencies(k) ==
    [n \in OfKind(k) |->
        {p.of: p \in {q \in PartsOf(n): Named(q) /\ q.wrap = "plain" /\ kind[q.of] = k}}]

\* can_struct_be_hashed, can_enum_be_hashed and can_array_be_hashed forgetting the path they
\* came along: an array element starts a search of its own.
CanHashForgetful(n) ==
    LET can[m \in Names, visited \in SUBSET Names] ==
          /\ m \notin visited
          /\ \A p \in PartsOf(m):
                /\ p.of \in Leaves \/ Named(p)
                /\ (Named(p) /\ p.wrap = "plain") => can[p.of, visited \cup {m}]
    IN  can[n, {}]

\* The types that can be hashed when the search has come through those of a path: every part
\* hashable, and no type inside itself; the pointer inside Own<T> is a field of a kind no
\* case rejects.
Hashable(held) ==
    LET after[path \in SUBSET Names] ==
          {m \in Names \ path:
             \A p \in held[m]:
                \/ p.of \in Leaves
                \/ p.wrap = "own"
                \/ Named(p) /\ p.of \in after[path \cup {m}]}
    IN  after

CanHash(n) == n \in Hashable([m \in Names |-> PartsOf(m)])[{}]

RegisterStructHashes ==
    /\ phase = "derive structs"
    /\ LET structs == OfKind("struct")
           sorted == Sorted(structs, Dependencies("struct"))
       IN  IF sorted = structs
           THEN /\ hashed' = {n \in structs: CanHash(n)}
                /\ phase' = "derive enums"
           ELSE /\ phase' = "CE0128"
                /\ UNCHANGED hashed
    /\ UNCHANGED <<decls, mark, stack, reported, errors>>

\* has_own_indirection: some variant holds Own of the enum itself.
HasOwnIndirection(n) == \E p \in PartsOf(n): p.wrap = "own" /\ p.of = n

RegisterEnumHashes ==
    /\ phase = "derive enums"
    /\ LET enums == OfKind("enum")
           sorted == Sorted(enums, Dependencies("enum"))
           own == {n \in enums \ sorted: HasOwnIndirection(n)}
       IN  /\ errors' = (enums \ sorted) \ own
           /\ hashed' = hashed \cup {n \in sorted \cup own: CanHash(n)}
    /\ phase' = "derived"
    /\ UNCHANGED <<decls, mark, stack, reported>>

---------------------------------------------------------------------------
(* What hash() of a registered type emits.  An enum, an array and a type   *)
(* inside one are looked up; a struct held by a struct is expanded.        *)

Accepted == phase = "derived" /\ errors = {}

\* The array type of a field gets a method when its element type can be hashed.
ArrayHashed(p) == p.of \in Leaves \/ (Named(p) /\ CanHash(p.of))

\* The internal errors emitting the hash of a type runs into: CE0051 for a method that is
\* not registered, CE0052 for the pointer inside Own<T>.
LookUp(m, errorsOf) == IF m \in hashed THEN errorsOf ELSE {"CE0051"}

Fuel == Cardinality(Names)

BodyErrors[fuel \in 0..Fuel] ==
    [m \in Names |->
       UNION {
         IF p.wrap = "own" THEN {"CE0052"}
         ELSE IF p.of \in Leaves THEN {}
         ELSE LET inside == IF fuel = 0 THEN {"endless"} ELSE BodyErrors[fuel - 1][p.of]
              IN  IF p.wrap = "plain"
                  THEN IF kind[m] = "struct" /\ kind[p.of] = "struct"
                       THEN inside ELSE LookUp(p.of, inside)
                  ELSE (IF ArrayHashed(p) THEN {} ELSE {"CE0051"}) \cup LookUp(p.of, inside)
         : p \in PartsOf(m)}]

HashErrors(n) == LookUp(n, BodyErrors[Fuel][n])

---------------------------------------------------------------------------
Init ==
    /\ order = <<>>
    /\ kind = [n \in Names |-> "none"]
    /\ body = [n \in Names |-> <<>>]
    /\ phase = "declaring"
    /\ mark = [n \in Names |-> "new"]
    /\ stack = <<>>
    /\ reported = {} /\ errors = {} /\ hashed = {}

Done == phase \in {"stopped", "derived", "CE0128"} /\ UNCHANGED vars

Next ==
    \/ \E k \in {"struct", "enum"}: Declare(k)
    \/ AddPart
    \/ AddVariant
    \/ EndOfProgram
    \/ ResolveStructs
    \/ ResolveEnums
    \/ StartRoot
    \/ LeaveNode
    \/ NextSuccessor
    \/ EndOfSearch
    \/ RegisterStructHashes
    \/ RegisterEnumHashes
    \/ Done

Spec == Init /\ [][Next]_vars

---------------------------------------------------------------------------
(* What a by-value cycle is, without a search.                             *)

Holds(n) == {p.of: p \in {q \in PartsOf(n): q.of \in Names /\ q.wrap \in {"plain", "fixed"}}}

\* The names a walk along `next` from `n` comes to.
Reach(next, n) ==
    {m \in Names: \A S \in SUBSET Names:
                     (next[n] \subseteq S /\ \A k \in S: next[k] \subseteq S) => m \in S}

\* The names `n` contains by value, at any depth of at least one; and through `k`s only.
Within(n) == Reach([m \in Names |-> Holds(m)], n)
WithinOnly(k, n) == Reach([m \in Names |-> {h \in Holds(m): kind[h] = k}], n)

Infinite(n) == n \in Within(n)

\* The names reached from `n` by value or through an array.
ReachedFrom(n) ==
    Reach([m \in Names |-> {p.of: p \in {q \in PartsOf(m): Named(q) /\ q.wrap # "own"}}], n)

\* The shape: the path is the stack, and a name is on it once.
TypeOK ==
    /\ order \in Seq(Names) /\ IsInjective(order)
    /\ kind \in [Names -> {"none", "struct", "enum"}]
    /\ body \in [Names -> Seq(Seq(Part))]
    /\ mark \in [Names -> {"new", "path", "done"}]
    /\ \A n \in Names: mark[n] = "path" <=> \E i \in DOMAIN stack: stack[i].node = n
    /\ \A i, j \in DOMAIN stack: stack[i].node = stack[j].node => i = j
    /\ hashed \cup errors \subseteq Declared

(***************************************************************************)
(* Every cycle the finite-types pass reports is one, with a struct on it.  *)
(* The search misses cycles through types it has done with, but no knot:   *)
(* a struct that contains itself through structs is tied to one on a       *)
(* reported cycle, and any type that contains itself is tied to one on a   *)
(* reported cycle or to an enum that contains itself through enums, which  *)
(* is not this pass's to report.  And the sort of the structs, which would *)
(* be the internal error CE0128, gets every struct out ("unreachable by    *)
(* construction" in topological_sort_structs).                             *)
(***************************************************************************)
OnReported(n) == \E c \in reported: n \in c

CyclesReported ==
    /\ \A c \in reported: IsOurs(c) /\ \A n \in c: c \subseteq Within(n)
    /\ phase \in {"stopped", "derive structs", "derive enums", "derived", "CE0128"} =>
          \A n \in Declared:
            /\ n \in WithinOnly("struct", n) =>
                 \E m \in WithinOnly("struct", n): n \in WithinOnly("struct", m) /\ OnReported(m)
            /\ Infinite(n) =>
                 \E m \in Within(n):
                    n \in Within(m) /\ (OnReported(m) \/ m \in WithinOnly("enum", m))
    /\ phase # "CE0128"

(***************************************************************************)
(* hash() is registered for a type only where emitting it finds every      *)
(* method it looks up and comes to an end, and every type that reaches no  *)
(* type inside itself (by value or through an array) has it; the one gap of the *)
(* derive pass is the pointer inside Own<T>, an internal error (CE0052).   *)
(***************************************************************************)
HashesEmit ==
    Accepted =>
      /\ \A n \in hashed:
            HashErrors(n) \subseteq
              (IF \E m \in Declared, p \in Part: p.wrap = "own" /\ p \in PartsOf(m)
               THEN {"CE0052"} ELSE {})
      /\ \A n \in Declared: (\A m \in {n} \cup ReachedFrom(n): m \notin ReachedFrom(m)) => n \in hashed

(***************************************************************************)
(* derive.py takes finite-types to report "any by-value containment cycle  *)
(* as CE2095" and to stop the analysis: a program the passes accept has no *)
(* type inside itself by value.                                            *)
(***************************************************************************)
AcceptedIsFinite == Accepted => \A n \in Declared: ~Infinite(n)
=============================================================================
