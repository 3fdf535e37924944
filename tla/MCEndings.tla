------------------------------ MODULE MCEndings ------------------------------
(***************************************************************************)
(* What must come to an end: a resize of a map, a loop of the program, the *)
(* loading of its units.  A behaviour is about one of the three; the other *)
(* two rest.  What is said of each is said by HashMap, Foreach and         *)
(* UnitGraph, and true while it rests.                                     *)
(***************************************************************************)
EXTENDS MCHashMap, Foreach, MCUnitGraph

VARIABLE topic    \* "map", "loop" or "units"

allVars == <<topic, vars, loopVars, graphVars>>

\* A range may start and end at any integer.
AllEnds == -Half .. Half - 1

ASSUME KindsAssumption /\ HalfAssumption /\ BoundsAssumption /\ BoundsSuffice
ASSUME MainAssumption /\ UseListsAssumption /\ ModulesAssumption

LoopRests ==
    /\ kind = "rest" /\ at = "rest" /\ index = <<>> /\ bound = <<>> /\ up = <<>>
    /\ items = {} /\ visited = <<>> /\ buffer = 0 /\ broke = <<>>

UnitsRest ==
    /\ phase = "rest" /\ uses = <<>> /\ stack = <<>> /\ loaded = <<>> /\ units = <<>>
    /\ degree = <<>> /\ queue = <<>> /\ order = <<>> /\ marked = {} /\ cycle = <<>> /\ perk = <<>>

EndingsInit ==
    /\ Init
    /\ \/ topic = "map" /\ LoopRests /\ UnitsRest
       \/ topic = "loop" /\ LoopInit /\ UnitsRest
       \/ topic = "units" /\ GraphInit /\ LoopRests

MapResizes == topic = "map" /\ Resize /\ UNCHANGED <<topic, loopVars, graphVars>>
MapStep    == topic = "map" /\ Next /\ UNCHANGED <<topic, loopVars, graphVars>>
LoopStep   == topic = "loop" /\ LoopNext /\ UNCHANGED <<topic, vars, graphVars>>
UnitsStep  == topic = "units" /\ GraphNext /\ UNCHANGED <<topic, vars, loopVars>>

\* One thread runs the program, or the compiler: a resize, a loop and a compile
\* go on; the program need not call the map again.
EndingsSpec ==
    /\ EndingsInit
    /\ [][MapStep \/ LoopStep \/ UnitsStep]_allVars
    /\ WF_allVars(MapResizes \/ LoopStep \/ UnitsStep)

\* A foreach ends, however its body chooses between finishing and continue; and
\* loading, injection and sorting end, whatever imports whatever.
LoopsAndLoadingEnd == topic # "map" => <>(at = "end" \/ phase \in Rejected \cup {"done"})
=============================================================================
