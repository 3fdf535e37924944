------------------------------ MODULE UnitGraph ------------------------------
(***************************************************************************)
(* Loading the units of a program and putting them in compilation order:   *)
(* load_unit_recursively (compiler/loader.py), the injection of bundled    *)
(* Sushi-source modules and the driver's checks (compiler/pipeline.py),    *)
(* the global symbol table, Kahn's algorithm and the search for the cycle  *)
(* that stopped it (semantics/units.py), and the perk half of the collect  *)
(* pass, the first reader of the order.                                    *)
(*                                                                         *)
(* What a file says is chosen when the compiler reads it, so a behaviour   *)
(* is one program text and one compile of it.  The loops over the          *)
(* dependencies of a unit (loading, the release of what waits for it,      *)
(* the search) take a step for each of them.                               *)
(***************************************************************************)
EXTENDS Naturals, FiniteSets, Sequences, SequencesExt

CONSTANTS
    Units,      \* the names a use statement with a quoted path can give
    Main,       \* the unit named on the command line
    Modules,    \* the modules SOURCE_STDLIB_MODULES lists
    UseLists    \* what the use statements of a file can say: [imports, modules]

MainAssumption == Main \in Units
UseListsAssumption == UseLists \subseteq [imports : Seq(Units), modules : SUBSET Modules]
ModulesAssumption == IsFiniteSet(Modules)

VARIABLES
    phase,      \* where compile_multi_file is, or the diagnostic it ended with
    uses,       \* the use statements of every unit read so far
    stack,      \* the loops over dependencies in progress: [unit, next dependency]
    loaded,     \* the loaded set load_unit_recursively is given
    units,      \* UnitManager.units, in insertion order
    degree,     \* in_degree of topological_sort
    queue,      \* queue of topological_sort
    order,      \* result of topological_sort
    marked,     \* the visited set of _find_cycle
    cycle,      \* the path CE3001 prints
    perk        \* the units that define and implement the perk, once collected

graphVars ==
    <<phase, uses, stack, loaded, units, degree, queue, order, marked, cycle, perk>>

Names == Units \cup Modules
Nowhere == [definer |-> Main, implementer |-> Main]
Rejected == {"CE3001", "CE3002", "CE3003", "CE4003"}
Known == Range(units)

\* Unit._extract_dependencies: a use of a module or library is not a dependency.
Dependencies(u) == uses[u].imports

Frame(u) == [unit |-> u, next |-> 1]
Top == Last(stack)
Advanced == [stack EXCEPT ![Len(stack)].next = @ + 1]
Waiting == stack # <<>> /\ Top.next <= Len(Dependencies(Top.unit))
Wanted == Dependencies(Top.unit)[Top.next]

-----------------------------------------------------------------------------
(* Loading. *)

GraphInit ==
    /\ phase = "load"
    /\ \E l \in UseLists : uses = [u \in {Main} |-> l]
    /\ stack = <<Frame(Main)>>
    /\ loaded = {Main}
    /\ units = <<Main>>
    /\ degree = <<>> /\ queue = <<>> /\ order = <<>> /\ marked = {} /\ cycle = <<>>
    /\ perk = Nowhere

Skip ==
    /\ phase = "load" /\ Waiting
    /\ Wanted \in loaded
    /\ stack' = Advanced
    /\ UNCHANGED <<phase, uses, loaded, units, degree, queue, order, marked, cycle, perk>>

Read ==
    /\ phase = "load" /\ Waiting
    /\ Wanted \notin loaded
    /\ loaded' = loaded \cup {Wanted}
    /\ \E l \in UseLists : uses' = [u \in Known \cup {Wanted} |-> IF u \in Known THEN uses[u] ELSE l]
    /\ units' = Append(units, Wanted)
    /\ stack' = Append(Advanced, Frame(Wanted))
    /\ UNCHANGED <<phase, degree, queue, order, marked, cycle, perk>>

\* No file of that name: False travels up through every frame.
Missing ==
    /\ phase = "load" /\ Waiting
    /\ Wanted \notin loaded
    /\ loaded' = loaded \cup {Wanted}
    /\ phase' = "CE3002"
    /\ stack' = <<>>
    /\ UNCHANGED <<uses, units, degree, queue, order, marked, cycle, perk>>

Return ==
    /\ phase = "load" /\ ~Waiting
    /\ stack' = Front(stack)
    /\ phase' = IF Len(stack) = 1 THEN "inject" ELSE phase
    /\ UNCHANGED <<uses, loaded, units, degree, queue, order, marked, cycle, perk>>

\* The bundled modules some unit uses.
Needed == UNION {uses[u].modules : u \in Known}

Todo == Needed \ Known

\* A mutant of Inject: rounds go on while some module is used, there or not.
InjectAgain ==
    /\ phase = "inject"
    /\ IF Needed = {}
       THEN phase' = "symbols" /\ UNCHANGED <<uses, units>>
       ELSE /\ \E listed \in SetToSeqs(Todo) : units' = units \o listed
            /\ \E text \in [Todo -> {l \in UseLists : l.imports = <<>>}] :
                  uses' = [u \in Known \cup Todo |-> IF u \in Known THEN uses[u] ELSE text[u]]
            /\ UNCHANGED phase
    /\ UNCHANGED <<stack, loaded, degree, queue, order, marked, cycle, perk>>

\* One round of _inject_source_stdlib_units: it adds the modules of Todo, in the
\* order of their names, whatever these are; what they use is seen by the next
\* round.  A bundled module uses bundled modules only.
Inject ==
    /\ phase = "inject"
    /\ IF Todo = {}
       THEN phase' = "symbols" /\ UNCHANGED <<uses, units>>
       ELSE /\ \E listed \in SetToSeqs(Todo) : units' = units \o listed
            /\ \E text \in [Todo -> {l \in UseLists : l.imports = <<>>}] :
                  uses' = [u \in Known \cup Todo |-> IF u \in Known THEN uses[u] ELSE text[u]]
            /\ UNCHANGED phase
    /\ UNCHANGED <<stack, loaded, degree, queue, order, marked, cycle, perk>>

-----------------------------------------------------------------------------
(* Ordering. *)

\* The use statements that name u, each with the unit it stands in: in_degree
\* counts statements, so one unit may count twice.
Statements(u) ==
    UNION {{<<v, i>> : i \in {k \in DOMAIN Dependencies(v) : Dependencies(v)[k] = u}} : v \in Known}
Importers(u) == Cardinality(Statements(u))

Place(u) == CHOOSE i \in DOMAIN units : units[i] = u

\* The units of a set in the order of the dictionary of units.
Listed(us) == {s \in SetToSeqs(us) : \A i, j \in DOMAIN s : i < j => Place(s[i]) < Place(s[j])}

\* build_global_symbol_table: two units may not export one name.  Then
\* topological_sort counts, and queues what nothing imports.
Symbols ==
    /\ phase = "symbols"
    /\ \E exporters \in SUBSET Known :
         IF Cardinality(exporters) > 1
         THEN phase' = "CE3003" /\ UNCHANGED <<degree, queue>>
         ELSE /\ phase' = "sort"
              /\ degree' = [u \in Known |-> Importers(u)]
              /\ queue' \in Listed({u \in Known : Importers(u) = 0})
    /\ UNCHANGED <<uses, stack, loaded, units, order, marked, cycle, perk>>

TakeNext ==
    /\ phase = "sort" /\ ~Waiting /\ queue # <<>>
    /\ order' = Append(order, Head(queue))
    /\ queue' = Tail(queue)
    /\ stack' = <<Frame(Head(queue))>>
    /\ UNCHANGED <<phase, uses, loaded, units, degree, marked, cycle, perk>>

\* A mutant of Release: the dependency is queued on its first importer.
ReleaseEarly ==
    /\ phase = "sort" /\ Waiting
    /\ degree' = [degree EXCEPT ![Wanted] = IF @ = 0 THEN 0 ELSE @ - 1]
    /\ queue' = IF degree[Wanted] = Importers(Wanted) THEN Append(queue, Wanted) ELSE queue
    /\ stack' = Advanced
    /\ UNCHANGED <<phase, uses, loaded, units, order, marked, cycle, perk>>

\* One turn of the loop over the dependencies of the unit just taken.
Release ==
    /\ phase = "sort" /\ Waiting
    /\ degree' = [degree EXCEPT ![Wanted] = @ - 1]
    /\ queue' = IF degree[Wanted] = 1 THEN Append(queue, Wanted) ELSE queue
    /\ stack' = Advanced
    /\ UNCHANGED <<phase, uses, loaded, units, order, marked, cycle, perk>>

Sorted ==
    /\ phase = "sort" /\ ~Waiting /\ queue = <<>>
    /\ phase' = IF Len(order) = Len(units) THEN "collect" ELSE "search"
    /\ stack' = <<>>
    /\ UNCHANGED <<uses, loaded, units, degree, queue, order, marked, cycle, perk>>

-----------------------------------------------------------------------------
(* The search for the cycle: a depth-first search whose path and rec_stack  *)
(* are the units of the frames.                                             *)

OnPath == {stack[i].unit : i \in DOMAIN stack}
Searching == phase = "search" /\ UNCHANGED <<uses, loaded, units, degree, queue, order, perk>>

\* for node in graph: the first that was not visited; when all were,
\* `return []  # No cycle found`, and the report fails on cycle[0].
StartSearch ==
    /\ Searching /\ stack = <<>>
    /\ IF Known \subseteq marked
       THEN phase' = "CE3001" /\ UNCHANGED <<stack, marked>>
       ELSE /\ phase' = phase
            /\ \E i \in DOMAIN units :
                  /\ units[i] \notin marked /\ \A j \in 1 .. i - 1 : units[j] \in marked
                  /\ marked' = marked \cup {units[i]}
                  /\ stack' = <<Frame(units[i])>>
    /\ UNCHANGED cycle

Descend ==
    /\ Searching /\ Waiting /\ Wanted \notin marked
    /\ marked' = marked \cup {Wanted}
    /\ stack' = Append(Advanced, Frame(Wanted))
    /\ UNCHANGED <<phase, cycle>>

PassBy ==
    /\ Searching /\ Waiting /\ Wanted \in marked /\ Wanted \notin OnPath
    /\ stack' = Advanced
    /\ UNCHANGED <<phase, marked, cycle>>

Leave ==
    /\ Searching /\ stack # <<>> /\ ~Waiting
    /\ stack' = Front(stack)
    /\ UNCHANGED <<phase, marked, cycle>>

\* The path from the unit that was met again on is the cycle.
Close ==
    /\ Searching /\ Waiting /\ Wanted \in marked
    /\ \E j \in DOMAIN stack :
         /\ stack[j].unit = Wanted
         /\ cycle' = [i \in 1 .. Len(stack) - j + 1 |-> stack[j + i - 1].unit]
    /\ phase' = "CE3001" /\ stack' = <<>>
    /\ UNCHANGED marked

-----------------------------------------------------------------------------
(* Collecting. *)

Position(u) == CHOOSE i \in DOMAIN order : order[i] = u

\* The collect pass reads the units in order; an implementation of a perk that
\* no unit read so far defines is CE4003. In one unit definitions come first.
Collect ==
    /\ phase = "collect"
    /\ \E d, i \in Known :
          /\ perk' = [definer |-> d, implementer |-> i]
          /\ phase' = IF Position(d) <= Position(i) THEN "done" ELSE "CE4003"
    /\ UNCHANGED <<uses, stack, loaded, units, degree, queue, order, marked, cycle>>

Stop == phase \in Rejected \cup {"done"} /\ UNCHANGED graphVars

GraphNext ==
    \/ Skip \/ Read \/ Missing \/ Return \/ Inject
    \/ Symbols \/ TakeNext \/ Release \/ Sorted
    \/ StartSearch \/ Descend \/ PassBy \/ Leave \/ Close
    \/ Collect \/ Stop

\* One thread runs the compile from end to end.
GraphSpec == GraphInit /\ [][GraphNext]_graphVars /\ WF_graphVars(GraphNext)

-----------------------------------------------------------------------------
(* Properties. *)

AfterLoading ==
    {"symbols", "sort", "search", "collect", "done", "CE3001", "CE3003", "CE4003"}

GraphTypeOK ==
    /\ phase \in {"load", "inject", "CE3002"} \cup AfterLoading
    /\ units \in Seq(Names) /\ uses \in [Known -> UseLists]
    /\ loaded \subseteq Units
    /\ stack \in Seq([unit : Known, next : Nat \ {0}])
    /\ degree \in [DOMAIN degree -> Nat] /\ DOMAIN degree \in {{}, Known}
    /\ queue \in Seq(Known) /\ order \in Seq(Known) /\ cycle \in Seq(Known)
    /\ marked \subseteq Known
    /\ perk \in [definer : Names, implementer : Names]

\* What a set of names leads to: the least set that has them and is closed.
Reach(start, next) ==
    LET closed == {S \in SUBSET Names :
                     start \subseteq S /\ \A n \in S \cap DOMAIN next : next[n] \subseteq S}
    IN  {n \in Names : \A S \in closed : n \in S}

\* The units and modules u uses, directly or not; and the units it imports.
Below(u) == Reach({u}, [v \in Known |-> Range(uses[v].imports) \cup uses[v].modules])
Imports(u) == Reach(Range(Dependencies(u)), [v \in Known |-> Range(Dependencies(v))])

\* Once loading is over the program holds exactly the units and modules its
\* main unit reaches, each once, and the loaded set is the main unit and what
\* is imported, as the assertion of the driver needs.
LoadedExactly ==
    phase \in AfterLoading =>
        /\ Known = Below(Main)
        /\ Len(units) = Cardinality(Known)
        /\ loaded = {Main} \cup UNION {Range(Dependencies(u)) : u \in Known}

\* CE3001 is raised for the programs with an import cycle and no others, and
\* the path it prints is such a cycle.
CyclesExact ==
    /\ phase \in {"collect", "done"} => \A u \in Known : u \notin Imports(u)
    /\ phase = "CE3001" =>
         /\ cycle # <<>>
         /\ \A i \in DOMAIN cycle :
               cycle[(i % Len(cycle)) + 1] \in Range(Dependencies(cycle[i]))

\* The order names every unit once, each before the units it imports, and the
\* main unit, which receives the synthesized functions, first.  This is the order
\* the code computes; its docstring promises the opposite one (DependenciesFirst).
ImportersFirst ==
    phase \in {"collect", "done"} =>
        /\ IsInjective(order) /\ Range(order) = Known
        /\ order[1] = Main
        /\ \A u \in Known : \A v \in Range(Dependencies(u)) : Position(u) < Position(v)

\* The units loaded are those the main unit reaches, an import cycle is reported
\* exactly when there is one, with its path, and otherwise the order has every
\* unit once, each importer before what it imports, whatever the shape of the
\* imports: Kahn's algorithm on the counts of importers leaves none out.
GraphExact == LoadedExactly /\ CyclesExact /\ ImportersFirst

\* Loading, injection and sorting come to an end, whatever imports whatever.
LoadingEnds == <>(phase \in Rejected \cup {"done"})

\* get_compilation_order: "Get units in compilation order, with dependencies
\* compiled first."  The code counts the importers of a unit and not what it
\* imports, so the order is the reverse; the collect pass, which reads a unit's
\* perks before those of what it imports, is where it shows (ImportedPerkFound).
DependenciesFirst ==
    phase \in {"collect", "done"} =>
        \A u \in Known : \A v \in Range(Dependencies(u)) : Position(v) < Position(u)

\* CE4003 says that the perk has not been defined: never of one that a unit the
\* implementing unit imports defines.
ImportedPerkFound ==
    phase = "CE4003" => perk.definer \notin Imports(perk.implementer)
=============================================================================
