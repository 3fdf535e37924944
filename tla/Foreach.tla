-------------------------------- MODULE Foreach --------------------------------
(***************************************************************************)
(* The four loops a foreach is compiled to (backend/statements/loops.py):  *)
(*   array  - over arr.iter() and list.iter(): index, length and buffer    *)
(*            copied when the iterator is made;                            *)
(*   map    - over m.keys(), m.values() and m.entries(): index, capacity   *)
(*            and buffer copied when the iterator is made;                 *)
(*   range  - over a..b and a..=b, counting up or down in 32 bits;         *)
(*   lines  - over stdin.lines() and file.lines(): one readln per lap.     *)
(* The body of the loop finishes, continues or breaks as it pleases, and,  *)
(* when the item is bound by value, may write to the container, whose      *)
(* buffer is then replaced if it must grow: the loop keeps its copies, and  *)
(* from then on loads from memory that was freed.                          *)
(* An item is a position: what the body writes in place, which changes     *)
(* what a position holds and no bound, is left out.                        *)
(***************************************************************************)
EXTENDS Integers, Sequences, Functions

CONSTANTS Kinds,         \* the loops to run
          ContinueIn,    \* the kinds whose body may continue
          MaxSize,       \* bound on the elements, buckets or lines iterated over
          Half,          \* stands for 2^31: an i32 is in -Half .. Half - 1
          Ends,          \* the range ends to try
          MaxLog,        \* bound on the laps recorded in visited
          Blanks,        \* whether the input may hold a blank line
          GrowIn,        \* the kinds whose body may grow the container: the item
                         \* is bound by value, a reference freezes its owner
          MaxGrowths,    \* bound on the buffer replacements by the body
          Stale          \* whatever a load from a freed buffer gives

KindsAssumption == ContinueIn \subseteq Kinds /\ GrowIn \subseteq Kinds \cap {"array", "map"}
HalfAssumption  == Half \in Nat \ {0} /\ Ends \subseteq -Half .. Half - 1
BoundsAssumption == MaxSize \in Nat /\ MaxLog \in Nat /\ MaxGrowths \in Nat

MinInt  == -Half
MaxInt  == Half - 1
Wrap(n) == ((n - MinInt) % (2 * Half)) + MinInt

(* The bounds cut nothing off: every lap of a loop that does not repeat an  *)
(* item is recorded.                                                        *)
BoundsSuffice == MaxSize < Half /\ MaxLog >= 2 * Half

VARIABLES kind,      \* the loop
          at,        \* its block: "cond", "body", "incr" or "end"
          index,     \* array, map: next index; range: counter; lines: lines read
          bound,     \* array: length; map: capacity; range: adjusted end
          up,        \* range: ascending
          items,     \* what there is to visit: positions, numbers or line numbers
          visited,   \* the sequence of items the body has been given, or Stale
          buffer,    \* the buffer the container owns now; the iterator holds buffer 0
          broke      \* the body has broken out

loopVars == <<kind, at, index, bound, up, items, visited, buffer, broke>>

-----------------------------------------------------------------------------
\* emit_dynamic_array_iter: n elements.
StartArray(n) ==
    /\ kind = "array" /\ index = 0 /\ bound = n /\ items = 0 .. n - 1 /\ up = TRUE

\* emit_hashmap_keys: c buckets, of which some are occupied.
StartMap(c, occupied) ==
    /\ kind = "map" /\ index = 0 /\ bound = c /\ items = occupied /\ up = TRUE

\* The numbers a range stands for: from a towards b, b included if inclusive.
RangeItems(a, b, inclusive) ==
    IF a < b THEN {n \in a .. b : n # b \/ inclusive}
             ELSE {n \in b .. a : n # b \/ inclusive}

\* The end a range's counter is compared with, strictly.
AdjustedEnd(a, b, inclusive) ==
    IF ~inclusive THEN b ELSE IF a < b THEN Wrap(b + 1) ELSE Wrap(b - 1)

\* _emit_range_foreach, and the first lines of _emit_range_loop_path.
StartRange(a, b, inclusive) ==
    /\ kind = "range"
    /\ index = a
    /\ bound = AdjustedEnd(a, b, inclusive)
    /\ up = (a < b)
    /\ items = RangeItems(a, b, inclusive)

\* n lines of input, counted from 0; line k is the first blank one, and k = n when
\* none is.
StartLines(n, k) ==
    /\ kind = "lines" /\ index = 0 /\ bound = k /\ items = 0 .. n - 1 /\ up = TRUE

LoopInit ==
    /\ \/ "array" \in Kinds /\ \E n \in 0 .. MaxSize : StartArray(n)
       \/ "map" \in Kinds /\ \E c \in 1 .. MaxSize, o \in SUBSET (0 .. MaxSize - 1) :
              o \subseteq 0 .. c - 1 /\ StartMap(c, o)
       \/ "range" \in Kinds /\ \E a \in MinInt .. MaxInt, b \in Ends, inclusive \in BOOLEAN :
              StartRange(a, b, inclusive)
       \/ "lines" \in Kinds /\ \E n \in 0 .. MaxSize :
              \E k \in (IF Blanks THEN 0 .. n ELSE {n}) : StartLines(n, k)
    /\ at = "cond" /\ visited = <<>> /\ buffer = 0 /\ broke = FALSE

-----------------------------------------------------------------------------
(* The condition block.                                                    *)

\* The item is given to the body.
Log(item) == IF Len(visited) < MaxLog THEN Append(visited, item) ELSE visited

HasNext == IF up THEN index < bound ELSE index > bound

\* What a load at the index from the iterator's copy of the pointer gives: the
\* item, as long as the container still owns buffer 0.
Loaded == IF buffer = 0 THEN index ELSE Stale

\* The array loop loads the element and steps the index before the body.
VisitElement ==
    /\ kind = "array" /\ at = "cond" /\ HasNext
    /\ visited' = Log(Loaded)
    /\ index' = index + 1
    /\ at' = "body"
    /\ UNCHANGED <<kind, bound, up, items, buffer, broke>>

\* The map loop looks at one bucket: an occupied one goes to the body, another
\* is stepped over.  In a freed buffer the state it reads may be anything.
VisitBucket ==
    /\ kind = "map" /\ at = "cond" /\ HasNext
    /\ \E occupied \in (IF buffer = 0 THEN {index \in items} ELSE BOOLEAN) :
       IF occupied
       THEN visited' = Log(Loaded) /\ at' = "body"
       ELSE visited' = visited /\ at' = "incr"
    /\ UNCHANGED <<kind, index, bound, up, items, buffer, broke>>

VisitNumber ==
    /\ kind = "range" /\ at = "cond" /\ HasNext
    /\ visited' = Log(index)
    /\ at' = "body"
    /\ UNCHANGED <<kind, index, bound, up, items, buffer, broke>>

\* The lines loop reads a line; an empty one, which is also what readln returns
\* at the end of the input, ends the loop.
VisitLine ==
    /\ kind = "lines" /\ at = "cond" /\ HasNext
    /\ visited' = Log(index)
    /\ index' = index + 1
    /\ at' = "body"
    /\ UNCHANGED <<kind, bound, up, items, buffer, broke>>

RunsOut ==
    /\ at = "cond" /\ ~HasNext
    /\ at' = "end"
    /\ UNCHANGED <<kind, index, bound, up, items, visited, buffer, broke>>

-----------------------------------------------------------------------------
(* The body.                                                               *)

\* The body falls through: to the increment block where there is one.
Finish ==
    /\ at = "body"
    /\ at' = IF kind \in {"map", "range"} THEN "incr" ELSE "cond"
    /\ UNCHANGED <<kind, index, bound, up, items, visited, buffer, broke>>

\* A mutant: continue in a range returns to the condition.
ContinueSkipsIncrement == [array |-> "cond", map |-> "cond", range |-> "cond", lines |-> "cond"]

\* loop_stack[-1][0]: where continue branches to in each loop.
ContinueTo == [array |-> "cond", map |-> "cond", range |-> "incr", lines |-> "cond"]

Continue ==
    /\ at = "body" /\ kind \in ContinueIn
    /\ at' = ContinueTo[kind]
    /\ UNCHANGED <<kind, index, bound, up, items, visited, buffer, broke>>

Break ==
    /\ at = "body"
    /\ at' = "end" /\ broke' = TRUE
    /\ UNCHANGED <<kind, index, bound, up, items, visited, buffer>>

\* The increment block of the map and range loops.
Increment ==
    /\ at = "incr"
    /\ index' = IF up THEN Wrap(index + 1) ELSE Wrap(index - 1)
    /\ at' = "cond"
    /\ UNCHANGED <<kind, bound, up, items, visited, buffer, broke>>

\* The body pushes to the array or inserts into the map until it moves to a new
\* buffer and frees the old one.  An item bound by reference freezes its owner
\* (bind_ref, CE2412); one bound by value does not (bind_value).
Grow ==
    /\ at = "body" /\ kind \in GrowIn
    /\ buffer < MaxGrowths
    /\ buffer' = buffer + 1
    /\ UNCHANGED <<kind, at, index, bound, up, items, visited, broke>>

Stopped == at = "end" /\ UNCHANGED loopVars

Step ==
    \/ VisitElement \/ VisitBucket \/ VisitNumber \/ VisitLine \/ RunsOut
    \/ Finish \/ Continue \/ Break \/ Increment \/ Grow

LoopNext == Step \/ Stopped

\* The body of a lap finishes: WF on the steps of the loop, not on their choice.
LoopSpec == LoopInit /\ [][LoopNext]_loopVars /\ WF_loopVars(Step)

-----------------------------------------------------------------------------
(* Properties.                                                             *)

\* The control state and the iterator keep their types.
LoopTypeOK ==
    /\ kind \in Kinds
    /\ at \in {"cond", "body", "incr", "end"}
    /\ index \in Int /\ bound \in Int /\ up \in BOOLEAN
    /\ visited \in Seq(items \cup {Stale})
    /\ buffer \in 0 .. MaxGrowths
    /\ broke \in BOOLEAN

\* The inclusive end of the range is the last integer there is, and was wrapped.
EndWrapped == kind = "range" /\ bound = IF up THEN MinInt ELSE MaxInt

\* The items the body is due: all there are, but for the lines from the first blank
\* one on, and a range whose end wrapped, which is left before its first number.
Due == {x \in items : (kind = "lines" => x < bound) /\ ~EndWrapped}

\* A continue over a map comes back to the same bucket.
Repeats == kind = "map" /\ "map" \in ContinueIn

\* The body is given each item at most once and in order: ascending indices for
\* an array, a map and lines, from the start towards the end for a range.  A
\* continue neither repeats an item nor skips one.
InOrder ==
    \A i, j \in DOMAIN visited : i < j => IF up THEN visited[i] < visited[j]
                                                ELSE visited[i] > visited[j]

\* A loop that no break has left has been through every element, every
\* occupied bucket, every number of its range or every line that is due.
Complete == at = "end" /\ ~broke => Range(visited) = Due

\* An array has one lap per element there was, and a lap that loads the element at
\* all loads the one its number says, whatever the body does to the array.
LapsExact ==
    kind = "array" =>
        /\ \A i \in DOMAIN visited : visited[i] \in {i - 1, Stale}
        /\ at = "end" /\ ~broke => Len(visited) = bound

\* While the container keeps the buffer the loop began with, a foreach visits each
\* item at most once and in order, whatever mix of finishing, continue and break
\* its body is, and all that are due unless the body broke out; and a body that
\* grows its array changes neither the number of laps nor their places.
VisitsExactly == (buffer = 0 /\ ~Repeats => InOrder /\ Complete) /\ LapsExact

\* "No use-after-free (move checking)" (docs/memory-management.md:941): the loop
\* gives its body nothing that was loaded from a freed buffer.  It does, with an item
\* bound by value and a body that makes its container grow (loops.py:232-245): the
\* pointer in the iterator is the old one.  FAILS.
NoStaleRead == Stale \notin Range(visited)

\* "start..=end is inclusive - it includes end" (docs/tutorial/03-control-flow.md:60),
\* and the lines of an input are all its lines.  An inclusive range to the greatest
\* integer has no laps, its end wraps (loops.py:453), and a blank line ends the loop
\* over the lines (loops.py:172).  FAILS.
AllVisited == at = "end" /\ ~broke /\ buffer = 0 => Range(visited) = items

\* The loop ends, however its body chooses between finishing and continue.
LoopEnds == <>(at = "end")
=============================================================================
