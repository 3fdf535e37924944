------------------------------- MODULE Values -------------------------------
(***************************************************************************)
(* Values of composite types at run time and what the back end emits for   *)
(* them: the deep clone, the destructor, hash() and the equality of keys,  *)
(* each a recursion over the type, and the owner a value gets: a binding,  *)
(* or the slot a temporary is parked in until the scope ends.              *)
(*                                                                         *)
(* A type is a name of the constant table Types; its descriptor gives the  *)
(* kind and the types inside.  A value is what the LLVM aggregate holds: a *)
(* pointer is the number of a heap block (0 is null), a block holds values.*)
(* The text of a string is one value; capacities are the lengths.          *)
(***************************************************************************)
EXTENDS Integers, FiniteSets, SequencesExt

CONSTANTS Types,      \* [type name -> descriptor]
          Roots,      \* the types a binding may have
          Texts,      \* the strings of the program
          Places,      \* bindings and parked temporaries of one scope
          MaxDepth,   \* bound: depth of a value built by one expression
          MaxParts,     \* bound: elements of an array
          MaxBlocks,  \* bound: heap blocks
          MaxSteps    \* bound: statements of a scope

VARIABLES heap,   \* [1..MaxBlocks -> the values in the block, or Free]
          slot,   \* [Places -> [type, value], or Empty]
          owner,  \* the slots registered for cleanup and not moved out of
          means,  \* [Places -> the value the program text gives the slot]
          steps,  \* statements so far
          wrong   \* "", "double free"

vars == <<heap, slot, owner, means, steps, wrong>>

Free == <<>>
Empty == [type |-> "none", value |-> [n |-> 0]]
Kind(t) == Types[t].kind

Floats == {"0.0", "-0.0", "1.0", "nan"}

---------------------------------------------------------------------------
(* The values an expression may build, as trees that do not mention the    *)
(* heap: a string is its text, an Own a 1-tuple, an array the sequence of  *)
(* its elements, an enum its tag and payload.                              *)

RECURSIVE Trees(_, _)
Trees(t, depth) ==
    LET product(ts) == {f \in [DOMAIN ts -> UNION {Trees(ts[i], depth - 1): i \in DOMAIN ts}]:
                          \A i \in DOMAIN ts: f[i] \in Trees(ts[i], depth - 1)}
    IN  CASE depth = 0 -> {}
          [] Kind(t) = "int" -> {0, 1}
          [] Kind(t) = "float" -> Floats
          [] Kind(t) = "string" -> Texts
          [] Kind(t) = "fn" -> {<<>>} \cup {<<x>>: x \in Texts}
          [] Kind(t) \in {"own"} -> {<<x>>: x \in Trees(Types[t].of, depth - 1)}
          [] Kind(t) = "dyn" ->
               UNION {[1..n -> Trees(Types[t].of, depth - 1)]: n \in 0..MaxParts}
          [] Kind(t) = "fixed" -> [1..2 -> Trees(Types[t].of, depth - 1)]
          [] Kind(t) = "struct" -> product(Types[t].parts)
          [] Kind(t) = "enum" ->
               UNION {{<<i, p>>: p \in product(Types[t].variants[i])}:
                        i \in DOMAIN Types[t].variants}

---------------------------------------------------------------------------
(* Allocation.  `r` is the result so far: the value built and the heap.    *)

NewBlock(h) == CHOOSE b \in DOMAIN h: h[b] = Free /\ \A c \in DOMAIN h: h[c] = Free => b <= c
Room(h) == Cardinality({b \in DOMAIN h: h[b] = Free})

Put(h, cells) == [value |-> NewBlock(h), heap |-> [h EXCEPT ![NewBlock(h)] = cells]]

\* A sequence of values, each made by Make from one item with the heap the previous left.
Each(Make(_, _, _), items, types, h) ==
    LET step(r, i) == LET one == Make(items[i], types[i], r.heap)
                      IN  [value |-> Append(r.value, one.value), heap |-> one.heap]
    IN  FoldLeftDomain(LAMBDA r, i: step(r, i), [value |-> <<>>, heap |-> h], items)

All(t, items) == [i \in DOMAIN items |-> t]

Str(lit, data, owned) == [lit |-> lit, data |-> data, owned |-> owned]

\* The value of an expression: a literal string is borrowed, any other text is on the heap.
RECURSIVE Build(_, _, _)
Build(tree, t, h) ==
    LET wrap(r, v) == [value |-> v, heap |-> r.heap]
    IN  CASE Kind(t) = "int" -> [value |-> [n |-> tree], heap |-> h]
          [] Kind(t) = "float" -> [value |-> [f |-> tree], heap |-> h]
          [] Kind(t) = "string" ->
               IF tree = "literal" THEN [value |-> Str(tree, 0, 0), heap |-> h]
               ELSE LET r == Put(h, <<tree>>) IN wrap(r, Str("", r.value, 1))
          [] Kind(t) = "fn" ->
               IF tree = <<>> THEN [value |-> [env |-> 0], heap |-> h]
               ELSE LET text == Put(h, <<tree[1]>>)
                        r == Put(text.heap, <<Str("", text.value, 1)>>)
                    IN  wrap(r, [env |-> r.value])
          [] Kind(t) = "own" ->
               LET r == Build(tree[1], Types[t].of, h)
                   b == Put(r.heap, <<r.value>>)
               IN  wrap(b, [ptr |-> b.value])
          [] Kind(t) = "dyn" ->
               IF tree = <<>> THEN [value |-> [len |-> 0, data |-> 0], heap |-> h]
               ELSE LET r == Each(Build, tree, All(Types[t].of, tree), h)
                        b == Put(r.heap, r.value)
                    IN  wrap(b, [len |-> Len(tree), data |-> b.value])
          [] Kind(t) = "fixed" ->
               LET r == Each(Build, tree, All(Types[t].of, tree), h) IN wrap(r, [parts |-> r.value])
          [] Kind(t) = "struct" ->
               LET r == Each(Build, tree, Types[t].parts, h) IN wrap(r, [parts |-> r.value])
          [] Kind(t) = "enum" ->
               LET r == Each(Build, tree[2], Types[t].variants[tree[1]], h)
               IN  wrap(r, [tag |-> tree[1], payload |-> r.value])

\* What a value stands for.
RECURSIVE Tree(_, _, _)
Tree(v, t, h) ==
    LET trees(vs, ts) == [i \in DOMAIN vs |-> Tree(vs[i], ts[i], h)]
    IN  CASE Kind(t) = "int" -> v.n
          [] Kind(t) = "float" -> v.f
          [] Kind(t) = "string" -> IF v.data = 0 THEN v.lit ELSE h[v.data][1]
          [] Kind(t) = "fn" ->
               IF v.env = 0 THEN <<>> ELSE <<h[h[v.env][1].data][1]>>
          [] Kind(t) = "own" -> <<Tree(h[v.ptr][1], Types[t].of, h)>>
          [] Kind(t) = "dyn" ->
               IF v.len = 0 THEN <<>> ELSE trees(h[v.data], All(Types[t].of, h[v.data]))
          [] Kind(t) = "fixed" -> trees(v.parts, All(Types[t].of, v.parts))
          [] Kind(t) = "struct" -> trees(v.parts, Types[t].parts)
          [] Kind(t) = "enum" -> <<v.tag, trees(v.payload, Types[t].variants[v.tag])>>

\* The fields, the elements or the pointee of a value.
Inside(v, t, h) ==
    LET ts == CASE Kind(t) = "own" -> <<Types[t].of>>
                [] Kind(t) = "dyn" -> [i \in 1..v.len |-> Types[t].of]
                [] Kind(t) = "struct" -> Types[t].parts
                [] OTHER -> <<>>
        vs == IF ts = <<>> THEN <<>> ELSE
              CASE Kind(t) = "own" -> h[v.ptr]
                [] Kind(t) = "dyn" -> h[v.data]
                [] OTHER -> v.parts
    IN  [types |-> ts, values |-> vs, trees |-> [i \in DOMAIN vs |-> Tree(vs[i], ts[i], h)]]

---------------------------------------------------------------------------
(* owns_heap: a type met before, on this walk, adds nothing.               *)

RECURSIVE OwnsHeap(_, _)
OwnsHeap(t, visited) ==
    CASE Kind(t) \in {"int", "float"} -> FALSE
      [] Kind(t) \in {"string", "fn", "own", "dyn"} -> TRUE
      [] Kind(t) = "fixed" -> OwnsHeap(Types[t].of, visited)
      [] Kind(t) = "struct" ->
           t \notin visited /\ \E p \in ToSet(Types[t].parts): OwnsHeap(p, visited \cup {t})
      [] Kind(t) = "enum" ->
           /\ t \notin visited
           /\ \E g \in ToSet(Types[t].variants): \E p \in ToSet(g): OwnsHeap(p, visited \cup {t})

NeedsCleanup(t) == OwnsHeap(t, {})

---------------------------------------------------------------------------
(* emit_value_clone: a deep copy that owns blocks of its own.              *)

RECURSIVE Clone(_, _, _)

\* As ClonePart, asking the part's own kind and not what is inside it.
ClonePartShallow(v, t, h) ==
    IF Kind(t) \in {"string", "fn", "own", "dyn"} THEN Clone(v, t, h)
    ELSE [value |-> v, heap |-> h]

\* Fields and elements of a type that owns no heap are copied bit for bit.
ClonePart(v, t, h) == IF NeedsCleanup(t) THEN Clone(v, t, h) ELSE [value |-> v, heap |-> h]

\* _clone_string_value: always a new buffer, and owned, whatever the source was.
CloneString(v, h) ==
    LET r == Put(h, <<IF v.data = 0 THEN v.lit ELSE h[v.data][1]>>)
    IN  [value |-> Str("", r.value, 1), heap |-> r.heap]

\* _clone_function_value, through the environment's own clone function.
CloneFunction(v, h) ==
    IF v.env = 0 THEN [value |-> v, heap |-> h]
    ELSE LET text == CloneString(h[v.env][1], h)
             r == Put(text.heap, <<text.value>>)
         IN  [value |-> [env |-> r.value], heap |-> r.heap]

\* _clone_own_value: the pointee first, then the block for it.
CloneOwn(v, t, h) ==
    IF v.ptr = 0 THEN [value |-> v, heap |-> h]
    ELSE LET pointee == Clone(h[v.ptr][1], Types[t].of, h)
             r == Put(pointee.heap, <<pointee.value>>)
         IN  [value |-> [ptr |-> r.value], heap |-> r.heap]

\* As CloneArray, the last element left out.
CloneArrayOneShort(v, t, h) ==
    IF v.len = 0 THEN [value |-> [len |-> 0, data |-> 0], heap |-> h]
    ELSE LET r == Each(ClonePart, Front(h[v.data]), All(Types[t].of, h[v.data]), h)
             b == Put(r.heap, r.value)
         IN  [value |-> [len |-> v.len, data |-> b.value], heap |-> b.heap]

\* clone_dynamic_array_value and _clone_list_value: a new buffer, then every live element.
CloneArray(v, t, h) ==
    IF v.len = 0 THEN [value |-> [len |-> 0, data |-> 0], heap |-> h]
    ELSE LET r == Each(ClonePart, h[v.data], All(Types[t].of, h[v.data]), h)
             b == Put(r.heap, r.value)
         IN  [value |-> [len |-> v.len, data |-> b.value], heap |-> b.heap]

\* A function value is cloned through its type-erased slot, any other by its kind.
Clone(v, t, h) ==
    LET wrap(r, w) == [value |-> w, heap |-> r.heap]
    IN  CASE Kind(t) \in {"int", "float"} -> [value |-> v, heap |-> h]
          [] Kind(t) = "string" -> CloneString(v, h)
          [] Kind(t) = "fn" -> CloneFunction(v, h)
          [] Kind(t) = "own" -> CloneOwn(v, t, h)
          [] Kind(t) = "dyn" -> CloneArray(v, t, h)
          [] Kind(t) = "fixed" ->
               LET r == Each(ClonePart, v.parts, All(Types[t].of, v.parts), h)
               IN  wrap(r, [parts |-> r.value])
          [] Kind(t) = "struct" ->
               LET r == Each(ClonePart, v.parts, Types[t].parts, h) IN wrap(r, [parts |-> r.value])
          [] Kind(t) = "enum" ->
               LET r == Each(ClonePart, v.payload, Types[t].variants[v.tag], h)
               IN  wrap(r, [v EXCEPT !.payload = r.value])

---------------------------------------------------------------------------
(* emit_value_destructor: `m` is the heap and the wrong so far.            *)

Release(b, m) ==
    IF m.heap[b] = Free THEN [m EXCEPT !.wrong = "double free"]
    ELSE [m EXCEPT !.heap[b] = Free]

RECURSIVE Destroy(_, _, _)
DestroyPart(v, t, m) == IF NeedsCleanup(t) THEN Destroy(v, t, m) ELSE m

DestroyEach(vs, ts, m) == FoldLeftDomain(LAMBDA n, i: DestroyPart(vs[i], ts[i], n), m, vs)

\* The elements of a block, then the block; a block freed before holds nothing to destroy.
DestroyBuffer(b, ts, m) ==
    IF m.heap[b] = Free THEN Release(b, m)
    ELSE Release(b, DestroyEach(m.heap[b], [i \in DOMAIN m.heap[b] |-> ts], m))

\* A string is freed when its owned bit says so, a closure when it has an environment.
DestroyString(v, m) == IF v.owned = 1 THEN Release(v.data, m) ELSE m

DestroyFunction(v, m) ==
    IF v.env = 0 THEN m
    ELSE IF m.heap[v.env] = Free THEN Release(v.env, m)
    ELSE Release(v.env, DestroyString(m.heap[v.env][1], m))

Destroy(v, t, m) ==
    CASE Kind(t) \in {"int", "float"} -> m
      [] Kind(t) = "string" -> DestroyString(v, m)
      [] Kind(t) = "fn" -> DestroyFunction(v, m)
      [] Kind(t) = "own" -> IF v.ptr = 0 THEN m ELSE DestroyBuffer(v.ptr, Types[t].of, m)
      [] Kind(t) = "dyn" -> IF v.data = 0 THEN m ELSE DestroyBuffer(v.data, Types[t].of, m)
      [] Kind(t) = "fixed" -> DestroyEach(v.parts, All(Types[t].of, v.parts), m)
      [] Kind(t) = "struct" -> DestroyEach(v.parts, Types[t].parts, m)
      [] Kind(t) = "enum" -> DestroyEach(v.payload, Types[t].variants[v.tag], m)

---------------------------------------------------------------------------
(* hash() and emit_key_equality_check of the key types.                    *)

RECURSIVE IsKey(_)
IsKey(t) ==
    CASE Kind(t) \in {"int", "float", "string"} -> TRUE
      [] Kind(t) \in {"own", "fn"} -> FALSE
      [] Kind(t) \in {"dyn", "fixed"} -> IsKey(Types[t].of)
      [] Kind(t) = "struct" -> \A p \in ToSet(Types[t].parts): IsKey(p)
      [] Kind(t) = "enum" -> \A g \in ToSet(Types[t].variants): \A p \in ToSet(g): IsKey(p)

\* Both zeros are hashed as the bits of one.
FloatBits(f) == IF f \in {"0.0", "-0.0"} THEN "0" ELSE f

\* What is mixed into the hash, in order; two values with the same mix have the same hash.
RECURSIVE Mix(_, _, _)
Mix(v, t, h) ==
    LET mixes(vs, ts) == [i \in DOMAIN vs |-> Mix(vs[i], ts[i], h)]
    IN  CASE Kind(t) = "int" -> v.n
          [] Kind(t) = "float" -> FloatBits(v.f)
          [] Kind(t) = "string" -> IF v.data = 0 THEN v.lit ELSE h[v.data][1]
          [] Kind(t) = "fixed" -> <<mixes(v.parts, All(Types[t].of, v.parts)), 2>>
          [] Kind(t) = "dyn" ->
               <<IF v.len = 0 THEN <<>> ELSE mixes(h[v.data], All(Types[t].of, h[v.data])), v.len>>
          [] Kind(t) = "struct" -> mixes(v.parts, Types[t].parts)
          [] Kind(t) = "enum" -> <<v.tag, mixes(v.payload, Types[t].variants[v.tag])>>

\* Comparing through a pointer needs both payloads to hold one of this type.
Dereferences(t) == Kind(t) \in {"string", "dyn"}

\* "wild": a payload is read through the types of another variant, as a pointer.
Both(results) ==
    IF "wild" \in results THEN "wild" ELSE IF "no" \in results THEN "no" ELSE "yes"

YesIf(b) == IF b THEN "yes" ELSE "no"

RECURSIVE Equal(_, _, _, _)

\* The comparison of the tags left out.
EqualPayloads(v, w, t, h) ==
    LET ts == Types[t].variants[v.tag]
    IN  Both({IF i \in DOMAIN w.payload /\ v.tag = w.tag
              THEN Equal(v.payload[i], w.payload[i], ts[i], h) ELSE "yes": i \in DOMAIN ts})

\* emit_enum_equality switches on the tag of the first value alone: with another tag on the
\* second, its payload is read with the first one's types and the answer is thrown away.
EqualEnums(v, w, t, h) ==
    LET ts == Types[t].variants[v.tag]
    IN  IF v.tag = w.tag
        THEN Both({Equal(v.payload[i], w.payload[i], ts[i], h): i \in DOMAIN ts})
        ELSE IF \E i \in DOMAIN ts: Dereferences(ts[i]) THEN "wild" ELSE "no"

Equal(v, w, t, h) ==
    LET each(vs, ws, ts) == Both({Equal(vs[i], ws[i], ts[i], h): i \in DOMAIN vs})
    IN  CASE Kind(t) = "int" -> YesIf(v.n = w.n)
          [] Kind(t) = "float" ->
               YesIf(v.f # "nan" /\ (v.f = w.f \/ {v.f, w.f} = {"0.0", "-0.0"}))
          [] Kind(t) = "string" -> YesIf(Tree(v, t, h) = Tree(w, t, h))
          [] Kind(t) = "fixed" -> each(v.parts, w.parts, All(Types[t].of, v.parts))
          [] Kind(t) = "dyn" ->
               IF v.len # w.len THEN "no" ELSE IF v.len = 0 THEN "yes"
               ELSE each(h[v.data], h[w.data], All(Types[t].of, h[v.data]))
          [] Kind(t) = "struct" -> each(v.parts, w.parts, Types[t].parts)
          [] Kind(t) = "enum" -> EqualEnums(v, w, t, h)

---------------------------------------------------------------------------
(* The statements of one scope.                                            *)

Init ==
    /\ heap = [b \in 1..MaxBlocks |-> Free]
    /\ slot = [s \in Places |-> Empty]
    /\ owner = {}
    /\ means = [s \in Places |-> <<>>]
    /\ steps = 0
    /\ wrong = ""

\* A slot takes the value of `r`, which stands for `tree`; register_owning_value makes the
\* scope its owner if it has anything to free.  The slots in `moved` give up theirs.
Bind(d, t, tree, r, moved) ==
    /\ steps < MaxSteps
    /\ steps' = steps + 1
    /\ heap' = r.heap
    /\ slot' = [s \in Places |-> IF s = d THEN [type |-> t, value |-> r.value]
                                ELSE IF s \in moved THEN Empty ELSE slot[s]]
    /\ owner' = (owner \ moved) \cup (IF NeedsCleanup(t) THEN {d} ELSE {})
    /\ means' = [s \in Places |-> IF s = d THEN tree
                                 ELSE IF s \in moved THEN <<>> ELSE means[s]]

\* let d = <expression>: nothing owned the value before; or own_temporary, for a value no
\* binding names.
Let(d) ==
    /\ slot[d] = Empty
    /\ \E t \in Roots: \E tree \in Trees(t, MaxDepth): Bind(d, t, tree, Build(tree, t, heap), {})
    /\ UNCHANGED wrong

\* let d = s.clone(), or of a field, an element or the pointee of s.
LetClone(s, d) ==
    /\ slot[s] # Empty /\ slot[d] = Empty
    /\ \/ Bind(d, slot[s].type, means[s], ClonePart(slot[s].value, slot[s].type, heap), {})
       \/ LET in == Inside(slot[s].value, slot[s].type, heap)
          IN  \E i \in DOMAIN in.values:
                Bind(d, in.types[i], in.trees[i], ClonePart(in.values[i], in.types[i], heap), {})
    /\ UNCHANGED wrong

\* let d = s: the source owned it, and is marked moved; of a plain type it is a copy.
LetMove(s, d) ==
    /\ slot[s] # Empty /\ slot[d] = Empty
    /\ Bind(d, slot[s].type, means[s], [value |-> slot[s].value, heap |-> heap],
            IF NeedsCleanup(slot[s].type) THEN {s} ELSE {})
    /\ UNCHANGED wrong

\* let d = Own.alloc(s): the value moves into a block of its own.
LetOwn(s, d) ==
    /\ slot[s] # Empty /\ slot[d] = Empty
    /\ \E t \in DOMAIN Types:
         /\ Kind(t) = "own"
         /\ Types[t].of = slot[s].type
         /\ LET b == Put(heap, <<slot[s].value>>)
            IN  Bind(d, t, <<means[s]>>, [value |-> [ptr |-> b.value], heap |-> b.heap],
                     IF NeedsCleanup(slot[s].type) THEN {s} ELSE {})
    /\ UNCHANGED wrong

\* s := d or s := d.clone(): the new value first, then the old one destroyed and overwritten.
Rebind(s, d) ==
    /\ s # d /\ slot[s] # Empty
    /\ slot[d].type = slot[s].type
    /\ \E moves \in BOOLEAN:
         LET t == slot[s].type
             r == IF moves THEN [value |-> slot[d].value, heap |-> heap]
                  ELSE ClonePart(slot[d].value, t, heap)
             m == DestroyPart(slot[s].value, t, [heap |-> r.heap, wrong |-> wrong])
         IN  /\ Bind(s, t, means[d], [value |-> r.value, heap |-> m.heap],
                     IF moves /\ NeedsCleanup(t) THEN {d} ELSE {})
             /\ wrong' = m.wrong

\* The scope ends: every value it owns is destroyed, the last registered first.
RECURSIVE DestroyAll(_, _)
DestroyAll(ss, m) ==
    IF ss = {} THEN m
    ELSE LET s == CHOOSE x \in ss: TRUE
         IN  DestroyAll(ss \ {s}, Destroy(slot[s].value, slot[s].type, m))

ExitScope ==
    LET m == DestroyAll(owner, [heap |-> heap, wrong |-> wrong])
    IN  /\ \E s \in Places: slot[s] # Empty
        /\ heap' = m.heap
        /\ wrong' = m.wrong
        /\ slot' = [s \in Places |-> Empty]
        /\ owner' = {}
        /\ steps' = 0
        /\ means' = [s \in Places |-> <<>>]

Next ==
    \/ \E d \in Places: Let(d)
    \/ \E s, d \in Places: LetClone(s, d) \/ LetMove(s, d) \/ LetOwn(s, d) \/ Rebind(s, d)
    \/ ExitScope

Spec == Init /\ [][Next]_vars

---------------------------------------------------------------------------

\* The blocks a value owns, with repetitions.
RECURSIVE Owned(_, _, _)
Owned(v, t, h) ==
    LET all(vs, ts) == FlattenSeq([i \in DOMAIN vs |-> Owned(vs[i], ts[i], h)])
    IN  CASE Kind(t) \in {"int", "float"} -> <<>>
          [] Kind(t) = "string" -> IF v.owned = 1 THEN <<v.data>> ELSE <<>>
          [] Kind(t) = "fn" ->
               IF v.env = 0 THEN <<>> ELSE <<v.env, h[v.env][1].data>>
          [] Kind(t) = "own" -> <<v.ptr>> \o Owned(h[v.ptr][1], Types[t].of, h)
          [] Kind(t) = "dyn" ->
               IF v.data = 0 THEN <<>>
               ELSE <<v.data>> \o all(h[v.data], All(Types[t].of, h[v.data]))
          [] Kind(t) = "fixed" -> all(v.parts, All(Types[t].of, v.parts))
          [] Kind(t) = "struct" -> all(v.parts, Types[t].parts)
          [] Kind(t) = "enum" -> all(v.payload, Types[t].variants[v.tag])

\* Every block in use belongs to exactly one value the scope will destroy, and to it once:
\* the destructors free what the clones and moves leave, no block twice and none never.  A
\* clone one level short shares a block; a destructor one level short loses it; a type whose
\* owns_heap is wrong is never registered.
OwnersExact ==
    LET names == SetToSeq(owner)
        used == FlattenSeq([i \in DOMAIN names |->
                   Owned(slot[names[i]].value, slot[names[i]].type, heap)])
    IN  /\ wrong = ""
        /\ IsInjective(used)
        /\ Range(used) = {b \in DOMAIN heap: heap[b] # Free}

\* A binding reads as the value the program gave it, whatever was cloned, moved, overwritten
\* or freed since: a clone equals its source and shares nothing with it.
ValuesExact ==
    \A s \in Places: slot[s] # Empty =>
        Tree(slot[s].value, slot[s].type, heap) = means[s]

\* The value with both zeros the same, and whether it can equal anything at all.
RECURSIVE KeyOf(_, _), Comparable(_, _)
KeyOf(tree, t) ==
    CASE Kind(t) = "float" -> IF tree = "-0.0" THEN "0.0" ELSE tree
      [] Kind(t) \in {"fixed", "dyn"} -> [i \in DOMAIN tree |-> KeyOf(tree[i], Types[t].of)]
      [] Kind(t) = "struct" -> [i \in DOMAIN tree |-> KeyOf(tree[i], Types[t].parts[i])]
      [] Kind(t) = "enum" ->
           <<tree[1], [i \in DOMAIN tree[2] |-> KeyOf(tree[2][i], Types[t].variants[tree[1]][i])]>>
      [] OTHER -> tree
Comparable(tree, t) ==
    CASE Kind(t) = "float" -> tree # "nan"
      [] Kind(t) \in {"fixed", "dyn"} -> \A i \in DOMAIN tree: Comparable(tree[i], Types[t].of)
      [] Kind(t) = "struct" -> \A i \in DOMAIN tree: Comparable(tree[i], Types[t].parts[i])
      [] Kind(t) = "enum" ->
           \A i \in DOMAIN tree[2]: Comparable(tree[2][i], Types[t].variants[tree[1]][i])
      [] OTHER -> TRUE

\* The pairs of bindings whose type may be a key.
KeyPairs ==
    {p \in Places \X Places:
       /\ slot[p[1]] # Empty /\ slot[p[2]] # Empty
       /\ slot[p[1]].type = slot[p[2]].type
       /\ IsKey(slot[p[1]].type)}

EqualSlots(p) == Equal(slot[p[1]].value, slot[p[2]].value, slot[p[1]].type, heap)

\* The equality and the hash of a key type agree, as a hash table needs: two keys are equal
\* exactly when their values are (0.0 is -0.0, nothing is equal to a NaN), and equal keys
\* have equal hashes.
KeysAgree ==
    \A p \in KeyPairs:
      LET t == slot[p[1]].type
          mix(s) == Mix(slot[s].value, t, heap)
      IN  EqualSlots(p) # "wild" =>
            /\ EqualSlots(p) = "yes" <=> /\ Comparable(means[p[1]], t)
                                         /\ KeyOf(means[p[1]], t) = KeyOf(means[p[2]], t)
            /\ EqualSlots(p) = "yes" => mix(p[1]) = mix(p[2])

\* The comparison of two enums reads the payload of a variant only if both values are of it,
\* as the comment in emit_enum_equality has it ("switch on the (equal) tag").
NeverWild == \A p \in KeyPairs: EqualSlots(p) # "wild"

=============================================================================
