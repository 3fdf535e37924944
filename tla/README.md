# A verification model of the Sushi compiler and its runtime

Sushi Lang is a compiler written in Python (`sushi_lang/`) for a language with
move semantics, references and scope-bound cleanup; it emits LLVM IR, and with
it the runtime of its containers. The TLA+ modules here model the parts of that
system where order, state and failure decide whether it is right. TLC checks
them on small instances, and TLAPS proves the properties of eight modules for every
instance. Every definition is translated from the source;
`PROJECT.json` gives the lines of each in its `map`.

## 1. The system

    files --loader--> units --passes--> typed AST --backend--> objects --link--> executable
                        |    collect, instantiate, monomorphize,        |
                        |    resolve, finite types, derive, effects,    cache
                        |    scope, types, lift, borrow
                   bundled modules, libraries (.slib)

Paths below are relative to `sushi_lang/`.

| Component | State it keeps | Operations | What is hard | What makes it correct |
|---|---|---|---|---|
| HashMap runtime (`backend/generics/hashmap`) | buckets, `size`, `capacity`, `tombstones` in the map's struct | new, get, contains_key, insert, remove, rehash, free, destroy, resize | tombstone reuse, growth in the middle of an insert, a resize half done | it is a map; counters exact; every probe ends |
| Ownership of entries (same, `backend/destructors.py`) | which entry or variable owns a heap object | the same calls and the scope exit | an argument consumed but not stored; destroy, then scope exit | each object freed by one owner, once |
| Borrow checker (`semantics/passes/borrow`) | facts per name: moved, destroyed, declared depth | one walk over each body, joins at branches and loops | paths the walk does not follow: break, a loop's second lap, short-circuit operands | no accepted body uses what it gave away |
| Backend memory (`backend/memory`, `backend/statements`) | per-scope registries, a static move set, run-time drop flags | let, rebind, consume, scope end, early exits | decisions in emission order about events in execution order | each object is freed exactly once on every path |
| foreach (`backend/statements/loops.py`) | the iterator: index, bound, buffer | one loop per kind of iterable | continue targets, direction, integer edges, growth under the loop | each item that is due once, in order, while the container keeps its buffer; the loop ends |
| Unit graph (`compiler/loader.py`, `semantics/units.py`) | loaded set, unit table, in-degrees, queue | recursive load, injection of bundled modules, sort, cycle report | cycles, repeated and self imports, the passes that read the order | the right units, once each; cycles and only cycles rejected; importers first, which is the code's order and not its docstring's |
| Object cache (`compiler/cache.py`, `fingerprint.py`, `pipeline.py`) | a directory of objects | fingerprint, look up, write, publish, link | several compilers, edits meanwhile, kills, deletion | what is linked is what would have been generated |
| Two-phase linker (`backend/module_linker.py`) | symbol tables, reachability | collect, reach, choose, merge | edges are computed before definitions are chosen | every symbol mentioned is defined, by the right source |
| List and dynamic arrays (`backend/generics/list`, `backend/types/arrays`) | data, len, capacity | push, pop, insert, remove, reserve, shrink, fill, destroy | shifts at the ends, growth, a header read before the arguments | it is a sequence |
| Values (`backend/expressions/memory.py`, `destructors.py`, hash and equality) | heap blocks of a scope | clone, move, rebind, destroy, hash, compare | a recursion over the type per operation, all of which must agree | one owner per block; clones equal and separate; equal keys hash alike |
| Strings, files, integers (`sushi_stdlib/src`, `const_eval.py`) | bytes; a FILE and the disk; bit patterns | string methods; read, write, seek, copy; operators, casts, folding | characters against bytes, buffer edges, failing calls, two arithmetics | methods work on characters; lines that fit the buffer and copies whole; a constant is what the run computes |
| Closures (`semantics/passes/lift.py`, `backend/runtime/closures.py`) | environments | capture, call, drop | who owns a captured value | environment freed once, after its last use |
| Names (`semantics/passes/collect`, `symbol_merger.py`, library registration) | tables per kind of declaration | collect a unit, merge, register a library, check overlaps | what is known depends on the order of units | one provider per method, or an error |
| Calls (`semantics/passes/types/calls`, `backend/expressions/calls`) | none | check, infer, emit | the same question answered three times | the same answer |
| match (`types/matching.py`, `statements/matching.py`) | arms and covered variants; blocks and a switch | check arms, emit, run | nested patterns that go on to a later arm | the first arm that fits runs |
| Monomorphization (`semantics/generics`) | worklist, instance tables | request, instantiate, unroll packs | requests found late, renaming of copies | exactly the instances asked for |
| Derive, finite types, resolve, layout | dependency graphs of types | search, topological sorts, sizes | by-value cycles, hash of what has none, two computations of one layout | finite layout; hash only where it can be emitted; sizes are LLVM's |
| Libraries (`backend/library_*`, `semantics/library_*`) | manifests, templates | export, register, link | the closure of private functions under export | a consumer sees what the library compiled |
| Package manager (`packager/`) | store, links, archives on disk | install, uninstall, store, link, restore | a crash between two file operations, two packages with one executable | an install that ends is whole; a restore links what was recorded; directories and links of others are untouched |
| Parser, remaining type checks, remaining code generation, diagnostics | tables only | syntax-directed translation | size, not state | out of scope |

Components interact by calls within one thread: the passes hand over the unit
list and symbol tables, the borrow pass stamps conditional moves on each body
and the backend reads the stamps. Two things are shared between processes: the
cache directory and the package store. The emitted code runs later, in another
process: HashMap, HashMapOwnership, Foreach, SeqRuntime, Values, Text, Files and
the run phases of DropFlags and Matching model that process, Packager the package
manager, the rest the compiler.

## 2. The modules

| Module | Models | Reads |
|---|---|---|
| `MapSpec` | what the documentation promises of a map | - |
| `HashMap` | the table | refines `MapSpec` |
| `HashMapProofs` | theorems about `HashMap` | extends it |
| `HashMapOwnership` | the heap objects in a map's entries | - |
| `BorrowFlow` | the verdict of the borrow pass on a body | - |
| `DropFlags` | the body's run as emitted | extends `BorrowFlow` |
| `Foreach`, `ForeachProofs` | the four loops | - |
| `UnitGraph`, `UnitGraphProofs` | loading, ordering, first reader of the order | - |
| `Incremental`, `ArtifactsProofs` | the object cache | - |
| `SeqSpec` | a growable sequence as the documentation has it | - |
| `SeqRuntime` | `List` and `T[]`: header, buffer, growth, shifting | refines `SeqSpec` |
| `RuntimeProofs` | theorems about `HashMapOwnership`, `SeqRuntime` and `Files` | extends them |
| `Values` | clone, destroy, hash and equality of values by type, and their owners | - |
| `Strings`, `Text` | the string methods on bytes; a program that edits a string | `Text` extends `Strings` |
| `Files` | a file handle, its buffers, and the functions on paths | - |
| `Numbers`, `ConstExpr` | integer operations of the evaluator, the folding and the machine; an expression | `ConstExpr` extends `Numbers` |
| `TypeGraph`, `TypeGraphProofs` | resolve, finite types, derive; theorems about both | the proofs extend `Layout` |
| `Layout` | sizes, alignments and offsets of the types, and those of LLVM | `TypeGraph` |
| `Generics`, `GenericsProofs` | collection of instantiations, worklists, binding of calls | - |
| `Unroll` | `expand` over a parameter pack | - |
| `Matching` | match: checks, blocks, run; proved in `FrontProofs` | - |
| `Names` | the collect pass, the merge, libraries, the overlap checks; proved in `FrontProofs` | - |
| `Calls` | who provides a call, in each of three layers; proved in `FrontProofs` | - |
| `Libraries`, `FrontProofs` | export closure, registration, two-phase link | - |
| `Packager`, `ArtifactsProofs` | the files of nori, one operation at a time | - |

`MC...` modules give the constants values. Five of them are sums: `MCEndings`,
`MCRuntime`, `MCArtifacts`, `MCTypes` and `MCFront` let a behaviour choose one of
several independent parts, run that part's Init and Next, and keep the variables
of the others at rest. The parts share no state in the program either, or one
ends before the other begins, so nothing is lost by not interleaving them. A
component with theorems is extended by its sum, not instantiated: what a run
checks there is the very definition that a theorem states, and its names are
chosen so that two such components can be extended together (`LoopInit`,
`PackInit`, `SequenceInit`). Operators whose comment starts with "Mutant" or "A
mutant" are plausible bugs; each property of each run is checked to fail when one
of them replaces the definition it varies.

**HashMap.** `buckets`, `size`, `capacity`, `tombstones` are the struct's fields.
A call is one action, except that a resize is the loop the code runs: `StartMove`
(allocation), `MoveOne` (one old bucket), `FinishMove` (the swap), and
`PlacePending`, the rest of the insert that grew the table. That is where a
half-done state could differ from the counters. The probe is given by its
first stop (`ProbeEnd`) instead of a loop; `Trap` is RE2022. Lookups change
nothing and are the operator `Lookup`.

**HashMapOwnership.** Objects are numbers. The position of an entry does not
matter here; who will free it does. `Update` is kept apart from `Insert` because
the code consumes both arguments and stores one.

**BorrowFlow and DropFlags.** A body is a sequence of tokens. `BorrowFlow` is the
pass as operators over it: `CheckIf`, `CheckLoopBody`, `Consume` with the branch
depth that decides the stamp. A behaviour of `DropFlags` writes a body (`Write`),
compiles it (`Compile`; a body with an error ends there) and runs it with every
condition going either way. `Frees` is the gate at every free: the flag for a
stamped name, otherwise the static set in the order the text is emitted.
`PopScope` frees by slot; `EarlyExit` (return, break, continue) frees by name, as
the code does.

**Foreach.** One iterator. `ContinueTo` is the block each loop pushes on the loop
stack. Ranges compute modulo `2 * Half` (4 bits in the run), and start and end at
every integer, the extreme ones too: an inclusive end there wraps (`EndWrapped`)
and the loop has no laps. `Grow` is a body that makes its array or map move to
a new buffer. The iterator keeps the pointer to the old one, which is freed, so
what a lap loads afterwards is `Stale`, a value that is no item, and a map may take
any bucket for occupied or free (`Loaded`, `VisitBucket`). `Due` are the items the loop must
give: lines up to the first blank one, where the code takes the input to end.
What the body writes into a container in place is left out: an item is a position.

**UnitGraph.** A file's text is chosen when it is read. The loader's recursion is a
`stack` of frames, a unit and its next use statement: `Read`, `Skip` and `Return`
are what a call does with one. `Inject` is a lap of the injection of bundled
modules. `Symbols`, `TakeNext` and `Release` are Kahn's algorithm a unit at a time,
counting statements (`Importers`) rather than units, and `StartSearch`, `Descend`,
`PassBy`, `Leave` and `Close` the depth-first search behind CE3001, on the same
frames. `Collect` is the perk half of the collect pass, which looks back over the
units collected so far. The order has importers before what they import, as
`topological_sort` computes it; that a docstring has it the other way round is
`DependenciesFirst` in section 3.

**Incremental.** A file is the versions of its aspects (body, signatures,
constants, layouts, generics, extensions); a digest is the value it digests,
so it never collides. `Inputs` is what an object is generated from, `Fingerprint`
what its name depends on; the module is about the gap between the two.
`Write`, `Fill`, `Publish` are the temporary file and the rename.

**SeqRuntime.** `hdr` is the header {len, cap, data}, `mem` the heap. A list method
reads the header before it evaluates its arguments, so a call with an argument is
`ListBegin` and then the call itself, which works with what it saw. An array
method is one step. `Shifted` is the memmove, counted in slots; `Moved` the
realloc. `Word` is the width of size arithmetic. `held` is what the caller owns,
`lost` what exists and nobody will free: an insert out of bounds stores nothing,
and if its argument is a name that is moved on every path, the compiler has
marked the name moved for good, so that its scope does not free it either.
`ListInsertRefused` either leaves the caller's elements alone (a fresh value is not
evaluated, a flagged name keeps its flag) or loses one. `SeqSpec` allows a refused
insert the same; that nothing is lost is `NoElementLost`, which fails.

**Values.** A value is what the LLVM aggregate holds; a pointer is a block number.
`Clone`, `Destroy`, `Mix` (hash) and `Equal` are recursions over the descriptor of
the type, arm by arm as the code's. `ExitScope` drains the registries. An enum has
its tag and the payload of its variant as words over which another variant's
payload would be read.

**Strings, Text, Files, Numbers.** `Strings` has one operator per method, on bytes
and 0-based offsets as in the code; `Text` applies the same call to a sequence of
characters, with the meaning the manual gives it, except for `ss`: the manual has
it count bytes, the code and its tests count characters (`SubstringByBytes`). `Files` has a handle with a
position, the line and read buffers shrunk to 3 and 2 bytes, and a copy in its
blocks; every libc call may fail. `Numbers` computes each operation three times,
`ConstExpr` builds an expression with it one operation at a time.

**TypeGraph and Layout.** The program is declared by actions, then each pass is a
phase. The search for infinite types is stepped on its explicit stack (`StartRoot`,
`NextSuccessor`, `LeaveNode`), where a frame has the places of the body already
taken; `Sorted` is the set Kahn's algorithm of the derive pass takes out,
`CanHash` what may have a hash(), `HashErrors` what emitting it would run into; its
`Fuel`, the number of names, makes an endless expansion visible as an error.
In `Layout`, `Sizing` is the compiler's layout and `LLVMTypes` that of the
mapped types, each a recursive function of the fuel and the name; `Ends` says where
parts end that are laid out one after the other. `RoundedUp` and `ElementsEnd` are
LLVM's own rules and are defined independently: the next multiple, found by search,
where the compiler divides.

**Generics and Unroll.** A type is the sequence of names in prefix order, a symbol
the same after mangling; `Spelling` says what the name of a declared type reads as
there, and `Packs` with what the program calls its pack function. `SeenByCollector` and `SeenInInstance` say which sites
the two collectors visit. `Pop` takes any element of the worklist, as a Python set
gives it. `Unrolled` and `Rename` are the rewriting of an `expand` body; `Run` is
what statements mean, so that the rewritten body can be compared with a loop.

**Matching.** `PatternArm`, `LiteralArm`, `WildcardArm` and `EndOfArms` are the
checks; `Dispatch` and `RunArm` the switch and the tests in the arm's block, with
`NextArm` where a nested pattern goes on. Patterns, values and what the code does
with them are functions of the depth: `NestedUpTo[n]` are the patterns n variants
deep, and each recursive function of the code (signature, check of the bindings,
extraction, names in scope) is one operator for a level, `...Over`, and a function
that applies it `MaxNested` times. `Verified` is LLVM's refusal of a switch that
names a constant twice, before anything runs.

**Names and Calls.** In `Names` a table entry is [in, key, by]. `SeedPerks` takes the
library's perks; `CollectOne` collects one declaration of a unit, kind by kind
(`IsNext`), and `MergeUnit` ends the unit; `RegisterOne` takes one record of the
manifest, `CopyExtensions` makes the copies of templates, and `CheckShadows` and
`CheckPerks` are the two checks that keep methods apart. In `Calls` each of `Check`, `Infer` and
`Emit` is the order in which that layer asks: fields, containers, perks,
extensions, derived methods; `ArgumentAfter` is who owns an argument afterwards.

**Libraries.** `Reached` is the export closure with its refusals, `Known` what the
consumer registers, then the linker: `Defined`, `Depends`, `Reachable`, `Choose`,
`Link`. `Closure` is the least set closed under the steps, which is where both
worklists (of the export and of the graph) end. Edges are taken from the first definition met (`FirstMet`), before
`Choose`, as in the code.

**Packager.** `pc`, `cmd`, `todo` and `done` are the running command; `fs`, `bin`,
`archives`, `link` and `deps` what is on disk. One action per file operation, and
`Abort` between any two. `unfinished` remembers which versions in the store an install has begun
to clear or write and not ended: the code has no such record, and takes any
directory for an installed package (`Present`, `is_in_store`).

## 3. The runs

| Run | Bounds | What it shows |
|---|---|---|
| `endings` | 3 keys colliding at the last of 8 buckets, 2 values, one doubling; 5 elements, all ranges of 4-bit integers, 2 growths; 3 files, 2 bundled modules, up to 2 use statements each | the table is the abstract map, its lookups exact, `IndInv` (the invariant of the proofs) holds; while its container keeps its buffer, a loop gives each item that is due once, in order; an array that grows keeps the number of laps; the right units are loaded, cycles and only cycles reported, importers first; resizes, loops and loading end |
| `hashmap_grow` | 8 keys in 8 buckets, 1 value | at every fill level an EMPTY bucket remains, and only a destroyed map raises RE2022 |
| `runtime` | entries: 2 keys, 7 objects; sequences: 3 elements, capacity 8, 2 blocks; values: 11 types, 2 slots, 4 steps, depth 4; text: 3 characters of 1 and 2 bytes; files: 2 paths, 3 bytes, line buffer 3; numbers: 3- and 4-bit integers, 2 operations, 3 named constants | one owner per entry and block; buffers cover what headers count; lists and arrays are sequences, but a refused insert may lose its argument; clones are equal and separate; keys agree; string methods work on characters; lines that fit the buffer and copies are whole; constants equal what runs |
| `dropflags` | bodies of 7, 8 and 6 tokens in three styles, 2 laps | accepted bodies free each object once on every path; gates agree with the facts at every point |
| `artifacts` | 2 compilers, 2 settings, 3 compiles, 1 edit, any kill or deletion; 2 packages, 2 versions, 4 sources, 1 crash between any two file operations | links are whole and current, a name never changes its object, for edits that the digest covers; an install that ends is whole; a restore that reports success has linked what was recorded, whole unless an install into it was cut short; a removal leaves the directories and links of other packages alone |
| `types` | 3 named types with 3 parts, fixed arrays of 2, all declaration orders; 2 units, 2 generic functions, a pack function, an extension, types of 3 names | cycles reported, hash derived only where it can be emitted, sizes those of LLVM; the instances asked for and no others in any order of the worklist |
| `front` | 2 + 1 declarations and 1 of a library; one call of every kind on every receiver; expands nested once; 3 arms, 3 nested enums (patterns 3 variants deep), 3-bit literals; libraries of 3 symbols with up to 2 references each | one provider per method and one declaration per name, or an error; three layers agree; unrolling is looping; an export holds what it needs, the image is closed and the library keeps its helpers; a match runs the first arm that fits |
| `hashmap_update_leak` | as `runtime`'s entries | an insert of a present key leaks the old value and the passed key |
| `dropflags_break` | 8 tokens | a move carried out of a loop by break is forgotten |
| `foreach_map_continue` | 4 buckets | continue in a loop over a map never ends it |
| `units_perk` | 2 files | a perk of an imported unit is "not defined" |
| `incremental_const` | 1 compiler, 1 edit | an edited constant leaves importers stale |

The last five show disagreements between the code and what the repository says
of it; `PROJECT.json` quotes both sides.

**Why the bounds are enough.** Two keys of one home bucket give a chain, a third
in the next bucket gives two chains that meet, and the last bucket makes them
wrap; one doubling and a same-size rehash exercise both masks. To overload 8
buckets takes 7 used slots, so `hashmap_grow` has 8 keys, enough to fill the table
if the load factor let them. Capacities start at 8, the smallest for which 3/4
plus one entry still leaves a free bucket; the code starts at 16. A body of 7
tokens holds an if/else with a move and a rebind, or a loop with a branch and an
exit; a second lap is where a loop differs from a branch. Three files are the
least that make a cycle not through the main unit, and two statements the least
that repeat an import. Two compilers and one edit make every race on one name;
a third compile comes after both.

Sequences of three elements have a first, a middle and a last slot for a shift;
two blocks are what a realloc moves between, and lengths 0 to 3 with reserves
of up to 2 pass the first two capacities at which `List` and `T[]` grow. Four
statements make two values, clone or move one into the other, and end one
early. Characters of one and two bytes tell an offset in characters from one in
bytes. A line buffer of 3 bytes holds two and the terminator, so lines are
shorter, equal and longer than it. 3- and 4-bit
integers have every pair of operands, both signs, the one overflow of division,
and a cast each way. Three types make a cycle of one, two or three, entered
from inside or outside, and each declaration order is tried. Three arms let a
nested pattern pass an arm of another tag to one of its own, or to a wildcard;
three symbols give a chain of one private name behind another. One crash and
2 versions of a package reach every half-done directory; a second crash could
only undo part of the repair.

**What the passing runs leave out, and why.** Each is a disagreement met while
modelling, seen with TLC when the constant is changed; apart from those in the
table above they are described here only.

- `Shadows = FALSE`: a nested let of an outer name overwrites the outer facts
  (`borrow/statements.py:107`), and an early exit under a shadowing array frees
  the inner buffer once per scope (`statements/utils.py:97`).
- `DeepRebinds = FALSE`: a rebind inside a branch after an unconditional move
  clears the static mark for the path that skips it (`memory/moves.py:78`).
- Moves in while conditions are not in the alphabets: the condition is checked
  once (`borrow/statements.py:78`). One in an if condition is forgotten on the
  path that skips the arm (`:211`), which matters in an else and when the arm
  returns; `ifTake` is checked in loops, without else and return.
- `OperandMove`: a move in the right operand of and/or counts as unconditional
  (`borrow/consume.py:149`) and leaks when skipped; `NoLeak` and `GatesExact`
  speak of bodies without one.
- `ContinueIn` omits maps (`foreach_map_continue`).
- `Editable` omits constants, layouts and generics: the fingerprint does not
  cover the values of constants (`fingerprint.py:215`), imported layouts (`:35`),
  or the functions synthesized into the first unit (`generics/synthesis.py:35`).
  `EditsRace = FALSE` keeps edits out of the window between parsing a file and
  reading it again for the digest (`:19`), and `Refers` equals `Imports`
  because signatures behind two imports are not digested (`:32`).
- `Nested = FALSE`, `FillOwned = FALSE` and a `Word` above every size
  (`SeqRuntime`): an argument that calls its own receiver, `fill()` on elements
  that own storage, and sizes that wrap in i32.
- Dynamic arrays of named types in `TypeGraph`'s run (`NameWraps`), for its length
  alone: with two parts in all it passes with them.
- `ShallowMatchExact` speaks of patterns at most two variants deep, and
  `UnrollsToTheLoop` of bodies whose inner expands have no locals (`InnerLocals`)
  and that have no lambda with a parameter of a renamed name (`Captures`: the
  renaming goes into the lambda's body and not to its parameter, `unroll.py:155`).
- `LayersAgree` leaves out the calls in `Differ`: on a receiver that is borrowed or
  a field, on a function value, the hash of a container, and a plain call
  of a user's function that has the name of a mathematical one.
- `Libraries` lets the manifest list symbols in one canonical order.

**Fairness.** `HashMap!FairSpec`: weak fairness of the resize steps, which are a
loop inside one call of one thread. `LoopSpec` of `Foreach`: weak fairness of the loop's
steps together; the body finishes each lap but chooses freely how.
`GraphSpec` of `UnitGraph`: one thread runs the compile to its end. `EndingsSpec` has the
same three conditions, each about a single thread that nothing preempts for
ever. The other specifications state safety only and have no fairness. Deadlock
is unchecked in `artifacts`, `runtime`, `types`, `front` and the violation run of
`HashMapOwnership`: there the scope has ended, the compiles are over or the
command is done, and the programs really stop.

**Statements the code does not meet.** The modules also state what a doc or
comment promises and TLC refutes, beyond the five runs above. Each can be checked by
naming it, under the module's topic, as an INVARIANT of the module's run (a
PROPERTY for `PushAppends`, `ReserveMakesRoom`, `EmptyAtEnd` and
`OthersArchivesKept`, which speak of steps).

| Definition | Module | The code | What it says |
|---|---|---|---|
| `NeverWild` | `Values` | `backend/generics/hashmap/utils.py:108` | "switch on the (equal) tag": the switch is on the first tag, before the tags are compared, so a payload of another variant is read (and ignored) |
| `NoStaleRead` | `Foreach` | `backend/statements/loops.py:232` | `memory-management.md:941`: "No use-after-free"; an array or map that grows in the body of a loop that binds its items by value is read on through the pointer to the freed buffer |
| `AllVisited` | `Foreach` | `backend/statements/loops.py:453`, `:172` | `tutorial/03-control-flow.md:60`: "`start..=end` is inclusive - it includes `end`"; one that ends at the greatest integer has no laps. The loop over lines ends at the first blank one |
| `NoElementLost` | `SeqRuntime` | `backend/generics/list/methods_modify.py:248` | `language-guide.md:951`: "No memory leaks"; an insert out of bounds stores its argument nowhere, and the argument's owner was marked moved when the program was compiled (`borrow/consume.py:144`) |
| `PushAppends` | `SeqRuntime` | `backend/generics/list/methods_modify.py:26` | `list.md`: push appends; with `Nested`, the header is older than the argument's own calls |
| `ReserveMakesRoom` | `SeqRuntime` | `backend/generics/list/methods_capacity.py:35` | `list.md`: "Ensure capacity is at least `len() + additional`"; with a small `Word` the sum wraps and nothing grows |
| `EmptyAtEnd` | `Files` | `sushi_stdlib/src/io/files/common.py:29` | `io/files.md`: "Read until empty line (EOF)": the result of fgets is not looked at, and the buffer is what malloc gave |
| `SubstringByBytes` | `Text` | `sushi_stdlib/src/collections/strings/methods/slice.py:37` | `stdlib/collections/strings.md:176`, `:422`: `ss` is a substring "by byte offset and length"; it counts characters |
| `DependenciesFirst` | `UnitGraph` | `semantics/units.py:155` | `semantics/units.py:226`: "with dependencies compiled first"; the sort puts importers first, which is why a perk of an imported unit is not known yet (`units_perk`) |
| `AcceptedIsFinite` | `TypeGraph` | `semantics/passes/finite_types.py:57` | "Report CE2095 for every by-value containment cycle": a cycle of enums through a fixed array (`enum A: X(A[2])`) is left to a check that does not look inside arrays; and of two cycles that share a part, as in `A {B; C}`, `B {A}`, `C {B}`, one may be left out: the search does not come back to a type it has done with (`CyclesReported` says what remains true) |
| `EveryCallFound` | `Generics` | `semantics/generics/monomorphize/functions.py:286` | `generics.md`: instantiations are detected from call sites; a println in a generic body is not among the statements walked |
| `CopiesAlwaysApart` | `Unroll` | `semantics/generics/monomorphize/unroll.py:98` | `design/variadics.md:177`: locals of an expand are scoped to each copy; those of an inner expand take the outer copy's suffix |
| `MatchExact` | `Matching` | `backend/statements/matching.py:464` | RE2023 is a pattern that "reached the end of its arms"; a pattern three deep traps there with arms left |
| `AnyRadixDistinct` | `Matching` | `semantics/ast_builder/statements/matching.py:108` | `language-reference.md:624`: duplicates are found "whatever their radix"; a hexadecimal pattern and the negative decimal of the same bits are told apart |
| `TypeOnce` | `Names` | `semantics/passes/collect/structs.py:91` | a type is declared once; a struct whose name an enum of an earlier unit has is accepted |
| `LocalWins` | `Names` | `semantics/semantic_analyzer.py:703` | "A local definition wins"; the test looks at generic functions only, and a library's template takes the calls of a plain one |
| `NothingDropped` | `Names` | `semantics/passes/collect/functions.py:717` | an accepted extension exists; one of a `T[]`, or of a type a later unit declares, enters no table and raises no error |
| `ArgumentsSettled` | `Calls` | `backend/expressions/calls/intrinsics.py:379` | "A method's arguments follow the declared modes exactly like a plain call's" (`dispatcher.py:354`); those of a perk's method are not settled |
| `LayersAlwaysAgree` | `Calls` | `backend/expressions/calls/dispatcher.py:212` | `design/method-resolution.md:113`: a perk wins in all three layers; not for a receiver whose value is borrowed |
| `PrivatesKept` | `Libraries` | `backend/symbol_resolver.py:53` | a private function is "only accessible within this module" (`backend/functions/declarations.py:73`); a program function of the same name replaces one that was not shipped |
| `RestoredWhole` | `Packager` | `packager/installer.py:277`, `packager/commands/install.py:125` | `package-manager.md:209`: the store holds "versioned, immutable copies", from which install restores (`:252`); a directory that a killed install left behind is linked, and the restore reports success |
| `OthersArchivesKept` | `Packager` | `packager/installer.py:124` | `package-manager.md:338`: a global removal takes the package's cached archives; the pattern `foo-*.nori` takes those of `foo-bar` too |
| `ReinstallReplaces` | `Packager` | `packager/installer.py:46` | `package-manager.md:195`: "Re-installing a package replaces the existing installation"; what an interrupted extraction left is extracted over, and files the new archive lacks are installed with it |

Smaller observations, without a definition of their own: an install by name
takes the last cached archive in string order, not the newest version
(`packager/commands/install.py:153`, where the pattern also matches archives of
longer names); a symbol mangled from two types may be that of another pair
(`Generics!Mangle` is not injective, hence `Spelling`); the
evaluator floors `/` and `%` where the machine truncates, so `NumbersAgree`
speaks of divisions without negative operands; copying a
file onto itself empties it, which `CopyExact` excepts.

**Abstracted.** Allocation failure; widths of sizes and capacities
(`MaskAssumption` bounds the initial capacity; the byte and load-factor products
wrap in i32 from about 2^28 entries on); the stack; the text of diagnostics.
Statements after a jump in the same block are not written, as the backend emits
none of them (`statements/__init__.py:103`). Deleting the cache is modelled one
file at a time, which covers every order of a deletion in progress.

## 4. The proofs

`HashMapProofs` (constants arbitrary under `HashAssumption`, `CapAssumption`,
`MaskAssumption`, `NilAssumption`): `TypeCorrect`, `CountersStayExact`,
`TableWellFormed` (unique keys, unbroken chains), `LookupsExact`, `ProbesEnd`,
`TrapsOnlyWhenDestroyed`, `Refinement`. None of the properties is inductive
alone. That a probe ends needs the load bound, which needs exact counters, which
need unique keys and unbroken chains; and all of them must survive a resize,
whose end replaces the table at once. Hence `IndInv`:

- `LiveTable`: the properties of the table in use;
- `LoadBound`: at most one entry over 3/4, so `EMPTY` is never used up;
- `Quiet`: what the resize variables are when no resize runs, and that an insert
  about to be placed meets a table that is not overloaded;
- `HalfMoved`: the new table is well formed, has no tombstones, and holds
  exactly the entries of old buckets `0 .. oldI - 1`, as many as there are.

The proof has a lemma on the table for each way it changes (fill a slot, update a
value, bury an entry), one per action, and the refinement maps a resize to
`BeginPut`/`EndPut` or `BeginRebuild`/`EndRebuild` of `MapSpec` and its
loop to stutters.

`RuntimeProofs`, for `HashMapOwnership`: `OwnershipTypes` (with it, that nothing is freed twice),
`SingleOwner`, `NoDangling`, for any keys and any number of objects. The
strengthening is `Unmade`: an object not made yet was never freed and belongs to
nobody. `PutOwn` covers insert and update together, `EmptiedOwn` the three ways
a map is emptied.

The runs check `IndInv` with `LookupExact`, the abstract map and the endings; the
conjuncts `TypeOK`, `CountersExact`, `UniqueKeys` and `ChainsUnbroken`, which theorems
state one by one, are part of it and are not run again.

`ArtifactsProofs` has the theorems of the two components that keep files.

For `Incremental` (any units, settings, number of compilers, edits and builds;
`Order` a sequence without repetition, `Imports` within it): `TypeCorrect`,
`NothingTruncated` (`LinksWhole`), `ReuseIsGeneration` (`LinksCurrent`) and
`LastOneNeverMatters` (`SameNameSameObject`). What a compile links was put there by
any compiler at any time, so the invariants speak of the directory and of every
compiler at once: a published object is whole, its name determines what it was
generated from, a temporary file belongs to one compile, and between its steps
a compile keeps the version it read of each unit. `ReuseIsGeneration` and
`LastOneNeverMatters` assume `DigestCovers`: code refers to direct imports only,
edits touch bodies, signatures and extensions, and none falls between parsing and
digesting. The code ensures none of this. Section 3 says what happens without:
two different objects may then have one name, and which of them is linked
depends on who published last. `NothingTruncated` needs none of it.

For `Packager` (any packages, versions, sources and projects; `NamesAssumption`:
the two markers of the model are no tree and no executable): `PackTypeCorrect`,
`InstallsAreWhole`, `RestoresAgree`, and the action property `RemovalsAreLocal`.
`InstalledWhole` speaks of the end of a command and any crash may precede it, so
the invariant says for each command what each `pc` guarantees
(`StoreSoFar`, `GlobalSoFar`, `RestoreSoFar`, `RemoveSoFar`): which steps are done, that
the staged tree is the source's, and that what was linked is in the store. That it is
whole there needs a fact about all directories of the store, also while other
commands run: one that no unfinished install has touched holds the files of one source
(`StoreWhole`). A step that touches no directory of the store, or only that of a version already
unfinished, keeps it (`StoreKept`), since no two versions share a place
(`StorePlaces`), and the end of an install adds its own version. `RemovalsAreLocal` is about directories and executables' links, not
about archives.

`ForeachProofs` (any bound on sizes, any width, any range, lines with blank ones, any
growth; `BoundsSuffice`: sizes stay below the width and every lap of a loop that
repeats nothing is recorded): `TypeCorrect`, `VisitsAreExact`. The invariant ties the
index to the log for as long as the loop is `Fresh`, that is, reads its container's
own buffer and comes back to no bucket: what was visited are the due items behind the
index (`Behind`), and what lies ahead, up to the bound, is due (`Between`). A growth
ends that; what stays true is that no counter wraps (`InRange`) and that an array
has had as many laps as its index says (`LapsSoFar`). A range whose end wrapped has nothing
due and no lap.

`RuntimeProofs`, for `SeqRuntime` (any elements, addresses, lengths and reserves; `RoomAssumption`: byte
counts stay below the word; `NamesAssumption`: null is no address; `WellBehaved`: no
argument calls its own receiver, no `fill()` on owning elements; the compiler accepts
programs that do both, and the theorems are silent about them): `TypeCorrect`,
`BuffersCover` (`BufferExact`: the buffer covers the header, and each element that no
refused insert lost has one owner), and `Implements`, the refinement of `SeqSpec`. Between the halves of an insert the buffer has a hole, so the invariant
is about `View`, the sequence without it: the header covers it, every slot of it is
an element, owning elements are in it once and neither with the caller nor lost, and the
call in progress has seen the header there is. A lemma per memory primitive
(write, shift, realloc, free) says what it does to the view, and each action of
the runtime is one step of `SeqSpec` or a stutter. That the doubling from 1 ends
between n and 2n (`PowerForBounds`) is induction over numbers, done through a
least counterexample: the numbers are well founded, which the library states
without an operator parameter (`LessWellFounded`, `AllNumbers`).

`RuntimeProofs`, for `Files` (any paths, letters, sizes and buffers, and any text a
fresh allocation may hold; `FilesAssumption`: the two bytes that end a line and a
string are no letters, what a path names is told apart, and a buffer holds a byte):
`FilesTypeCorrect`, `LinesRoundTrip` (`LinesComeBack`) and the action property
`CopiesAreWhole` (`CopyExact`). What was written must survive every call in between:

- `LinesOnDisk`: a file whose lines are known holds them and nothing else. A witness
  says where each line ends (`Cuts`), so that no recursion over the lines is
  needed. A path that names no file has no known lines, or a directory made in its
  place would inherit them.
- `HeardSoFar`: what was heard is the first lines of the file, and the position is
  where the last of them ends; `LineIs` shows that fgets then takes exactly the next
  one, which takes that a line that is known fits the buffer.
- `CopySoFar`: a copy has moved to the target what it has read but the chunk it
  holds, has both descriptors, and the lines of its target are not known. It runs
  alone, since no function on paths is called while a file is open or a copy runs.

That `read` always has room (`CapacitySuffices`) is induction over the bytes, and
the growing capacity is first shown to be a function (`CapacityDefined`).

`GenericsProofs` (any declared types, spellings, packs and bounds on the length of a
type and on the rounds): `InstancesTypeCorrect` and `InstancesAreExact`. They assume
`SymbolsAssumption`, that no two instances have one symbol. The compiler does not
enforce it, see section 3; where two symbols meet, the second instance is not
registered and its calls reach the first, so nothing could be proved. `InstancesExact`
says that the functions registered are a least complete set: they contain what is
asked for and what their bodies ask for, and no smaller set does. It holds when the
worklist is empty; between, registered and waiting instances together do
(`Frontier`), in both directions: what a registered body asks for is registered or
waits, and every complete set contains both. That a set hands out its elements in
any order does not matter then. What waits a second time was taken before
(`Tables`), since a body may call its own instance; nothing is ever set aside in
`pending`, because an instance that is not in the cache has a symbol that is free.
The typecheck pass sees three kinds of calls (`CallsKnown`), and those in
a `let` ask for registered instances: of a unit because every unit was collected
(`UnitsCollected`), of a body by `Frontier`, of a copy because the second round
starts from what the copies ask for.

`TypeGraphProofs` (any list of distinct names, any ways of holding a type, any number
of parts; `DeclarationsAssumption`: no built-in type has the name of a declared one):
`TypesTypeCorrect`, `KnotsAreReported`, `RegisteredHashesEmit` and `LayoutsAreLLVMs`. A depth-first search that never returns to
a node does not find every cycle, and with four parts TLC shows one that is left out,
which the bound of three of the run hides. What holds for every program is said of
knots, sets of types in which each holds another of the set by value. The invariant
`TypesInv` has these parts:

- `PathIsWalk`, with the type invariant: the stack is a path along what the types
  hold, each name on it once, so that a closed cycle is a ring
  (`RingReaches`: from every place of a ring one comes to every place of it).
- `TakenSeen`: behind a place of the body already taken is a type that is done, is
  the next of the path, or is caught, that is, on a reported cycle or inside itself
  through enums only.
- `KnotsCaught`: a knot one of whose types is done has a type that is caught. When a
  type leaves the path, the other type of the knot it holds was taken; it is done
  already, or caught.
- `Declarations`: after resolve a part that has the name of a type of the tables is
  known, and without this the search would not look behind it.

What contains itself is in a knot (`TiedAreKnot`), and what the sort of the structs
leaves over is one (`StructsSort`), which is why CE0128 cannot be raised: at that
point nothing is reported and no struct is inside itself through enums only.

`RegisteredHashesEmit` needs one more fact, that what is registered is what can be
hashed (`HashedExact`), which in turn rests on `StructsSort` and, for the enums, on
the analysis having no errors. The search for what can be hashed is a recursive
function of the path it came along. Such a function is proved to be its own unfolding
by growing it a path at a time (`StepsExist`), and then inductions on the number of
names not on the path show that a shorter path allows more (`ShorterPaths`), that
what can be hashed after a path emits its body with as much fuel as the path leaves
names (`BodiesEmit`), and that a type behind which nothing is inside itself can be
hashed after any path of types around it (`SoundAreHashed`).

`LayoutsAreLLVMs`, for any length of a fixed array and leaves of 1, 2, 4, 8 or 16
bytes (`LayoutAssumption`), goes from the inside of a finite type to the outside: what
a type holds by value has fewer types within it (`FiniteFacts`), so with fuel for as
many levels as there are types within it a type has its final size and LLVM type
(`TypesSettle`). What agrees at each step is more than the two sizes: every alignment
is 1, 2, 4 or 8, and every size is a multiple of its alignment (`SizedAs`). This is
what makes the rounding of a field's own size in `_calculate_struct_size` idle, and
that loop the one LLVM runs (`StructsAlike`); it is kept by fixed arrays, structs and
enums (`PartsAlike`, `EnumsAlike`). For the payload, the running offset of the stores
is the one of `payload_field_offsets` (`EndsUnique`), and the widest variant ends
within the words of the enum (`WordsCounted`, `StoresFit`).

`FrontProofs` has the theorems of four components, each of which speaks of what a
name stands for.

For `Names` (any number of units in any order with any number of declarations, any
library; `SizesAssumption`: there is a unit): `NamesTypeCorrect` and `NamesAreExact`.
The names are the model's, one or two of each kind, which is what its declarations can
mean to one another.
`NamesExact` speaks of the end of the analysis and of tables that three passes have
filled, so `NamesInv` says of each pass what it leaves to the next:

- `NoRivals`: what a unit declares has no rival in the collector's tables, where two
  templates are rivals when their targets can be the same type, before any instance
  of it exists; `Origins`: an entry tells what its declaration was.
- `AllKept`: while there is no error, every declaration collected has its entry.
- `Merged`: the units' entries are in the global tables before the library's, which
  give way; it takes that an extension or template never comes from a library.
- `OneExtension`: the copies of the templates are apart from one another, because
  the templates were no rivals, and from the concrete extensions, whose types are
  no instances.
- `ImplsApart`: no implementation that was looked at meets an extension; this is
  CE4007, and without it the two ways to provide a method are not compared.

For `Calls` (any kinds of types and any names of methods): `LayersAlwaysMeet`, the
property `LayersAgree`, and `ExtensionsLive`, which is `NoDeadExtension`. `CallsInv`
says what each layer has answered when its step is over; the rest is about the three
orders (`MethodsAgree`, `Orders`). Of the compiler's tables only `TablesFacts` is used:
a kind with a family of methods is one the dispatcher asks for, nothing derived is
a primitive's, a container has nothing derived but its hash. An entry that breaks one
of these, or an arm that moves in one of the layers, leaves the proof with a case in
which two layers answer differently.

For `Libraries` (any names and bounds): `TypeCorrect`, `ExportsAreComplete`,
`ImagesAreClosed`, and, when no library declares `main` (`MainAssumption`),
`HelpersAreKept`. Closed sets of names have a least one (`ClosureHolds`,
`ClosureLeast`). A template of the manifest is in the export closure, so what it
mentions is too, and each kind of name has its part of the manifest
(`TemplatesComplete`). For the linker, `Provides` lists what the two modules
define, `DefinedClosed` shows that they define what they mention, and
`ChosenFacts` that the definition kept is the one whose mentions the graph had:
`FirstMet` and `Choose` agree because both go by rank. The invariant records that
the manifest is the closure, that main mentions what was offered, and that no
name of a shipped private was taken.

For `Matching` (any enums, also those that hold themselves, any patterns over them up
to `MaxNested` deep, any arms, widths and values; `MatchingAssumption`: an enum has one
variant of a name, and the extra patterns of `Strange` have one level of patterns in them):
`MatchesRunTheFirstArm`, the property `ShallowMatchExact`, and `SwitchCasesDiffer`,
which is `CasesDistinct`. `MatchInv` goes from the checks to the run:

- `ArmsChecked`: while nothing is rejected, only the last arm is a wildcard, each
  pattern fits the scrutinee (`PatternsChecked`), what is covered are the signatures
  of the arms, and literals fit the type and differ (`LiteralsChecked`).
- `Compilable`: what is compiled has a wildcard or covers each variant. Hence the switch
  has a block for each tag (`SwitchFacts`), and the block marked unreachable is not
  one that `Dispatch` can choose.
- `OnTheWay`: the arm whose block runs has the tag of the value, or its number, and no
  arm before it takes the value. `NextArm` keeps this because it skips only arms of
  another tag (`NextArmFacts`).

In the block, `ExtractFacts` compares three recursions at their top two levels: the
extraction goes on exactly if the pattern matches, stops at the first test that
fails, and binds the names that the type pass put in scope. Deeper the first part
is false, as the violated `MatchExact` shows: a test within a nested pattern traps
instead of going on. That the cases differ is that numbers of one range of the
type are different modulo its size (`CasesDiffer`); with two radixes there are two
ranges, and `AnyRadixDistinct` fails.

`UnitGraphProofs` (any finite set of bundled modules, any units, any lists of use
statements; `MainAssumption`: the main unit is a unit): `TypeCorrect` and
`GraphIsExact`, that is, the units loaded are those the main unit reaches, a
rejection for a cycle comes with a cycle and every cycle is rejected, and the order
has each unit once, importers first. Nothing inductive is said by these alone,
because each speaks of the end of a phase. `GraphInv` has a conjunct for each phase.

- Loading (`Untouched`, `Rooted`, `WhileLoading`, `OnceRead`, `OnceInjected`): a set
  closed under the use statements that has the main unit has every unit in the
  table, and what a unit in the table imports is in the table too, or lies ahead in
  its frame (`Ahead`). At the end the table is the least closed set.
- Sorting (`WhileSorting`, `OnceSorted`): a degree is the number of `Pending`
  statements, those of units not in the order yet, and the queue and the order have
  what has none. If the order is short, the units outside it are a set in which
  each is imported by another (`Knotted`), and if it is not, cardinalities show that
  it has all of them. The main unit leads, since none after it can import it.
- Searching (`WhileSearching`, `OnceFound`): the stack is a path of use statements,
  finished units import only finished ones, and no knotted set lies within them. A
  short order leaves a knotted set, so the search cannot end without a cycle.

Each of these invariants was checked with TLC on the run's instance before it
was proved. The hypotheses of the theorems are named definitions that the MC
modules assume too (`WellBehaved`, `RoomAssumption`, ...), so TLC evaluates them
for the constants of the run.

**Model-checked only.** Liveness (`ResizeEnds`, `LoopsAndLoadingEnd`), which the
prover does not handle; everything about `BorrowFlow`, `DropFlags`, `Values`,
`Unroll`, `Numbers`, `ConstExpr`, `Strings` and `Text`, whose recursive operators follow the recursion and the
loops of the code, and which the prover cannot use.

## 5. Plan

Modelled and checked: everything in section 2. Proved: what section 4 lists.
Next, in this order:

1. `NumbersAgree`: the integer operators in a module without the recursive
   evaluator, where truncation and wrapping can be proved for every width.
2. `DropFlags`: its reader of bodies is recursive, and a proof needs an induction
   over bodies that the prover cannot do; a smaller language of moves and branches,
   without loops, could be proved step by step.

**Not modelled, and why.**

- The parser and the AST builder: a grammar for an external library and a
  translation without state.
- Of the type checks: operators, assignments, visibility and reference types.
  Each is a function of one node; no order or shared state decides them.
- Of the borrow pass: exclusivity of references, partial moves of struct fields,
  captures, and the fixpoint of destroy effects over the call graph.
- Lambda lifting and capture by mode. A closure is a value with an environment in
  `Values`; how the environment is filled is not modelled.
- Temporaries of string expressions, registered and freed within a statement.
- Modules random, time, env and process of the standard library, and
  floating point: they pass through to libc, and TLA+ has no floats to compare.
- Bytes of the library format and of archives; the network and the console of nori.
- Diagnostics, the command line, editor support, documentation and tests: text.
- The self-hosted toolchain under `toolchain/`: Sushi programs, inputs to this
  system and not parts of it.

## 6. Running

    tlc -workers 2 -config MCEndings.cfg MCEndings
    tlapm RuntimeProofs.tla

The proofs of the other `...Proofs` modules are checked the same way. The other
runs are the same command with the module and configuration that `PROJECT.json`
lists. The longest take about three minutes on two cores.
