---------------------------- MODULE ForeachProofs ----------------------------
(***************************************************************************)
(* TLAPS proofs about Foreach: for every container, range and input, a      *)
(* foreach gives its body each item that is due once and in order, and all  *)
(* of them unless the body broke out, until the body makes the container    *)
(* give up the buffer the loop reads.                                       *)
(***************************************************************************)
EXTENDS Foreach, TLAPS

\* The first position that is not behind the loop: a map and a range stay at
\* the item while the body has it.
Ahead ==
    IF at \in {"body", "incr"} /\ kind \in {"map", "range"}
    THEN IF up THEN index + 1 ELSE index - 1
    ELSE index

\* The loop still reads its container, and comes back to no bucket.
Fresh == buffer = 0 /\ ~Repeats

\* The body has been given what is behind, and no more laps than there are numbers.
Behind ==
    /\ Range(visited) \subseteq Due
    /\ \A x \in Due : x \in Range(visited) <=> IF up THEN x < Ahead ELSE x > Ahead
    /\ Len(visited) <= IF up THEN Ahead - MinInt ELSE MaxInt - Ahead

\* What is ahead is short of the bound; only a map has gaps in it.
Between ==
    /\ \A x \in Due : IF up THEN x < bound ELSE x > bound
    /\ kind # "map" =>
         \A x \in Int : IF up THEN Ahead <= x /\ x < bound => x \in Due
                              ELSE bound < x /\ x <= Ahead => x \in Due

\* The counters stay where they cannot wrap, in a freed buffer too.
InRange ==
    /\ index \in MinInt .. MaxInt /\ bound \in MinInt .. MaxInt /\ items \subseteq Int
    /\ kind # "range" => up
    /\ kind \in {"range", "lines"} => buffer = 0
    /\ at = "incr" => kind \in {"map", "range"}
    /\ at \in {"body", "incr"} /\ kind \in {"map", "range"} => HasNext

\* The loop over an array has had as many laps as its index says.
LapsSoFar ==
    /\ LapsExact
    /\ kind = "array" /\ at # "end" => Len(visited) = index /\ index <= bound

IndInv ==
    /\ LoopTypeOK /\ kind \in {"array", "map", "range", "lines"}
    /\ InRange /\ LapsSoFar
    /\ Fresh => InOrder /\ Complete
    /\ at # "end" => ~broke /\ (Fresh => Behind /\ Between)

-----------------------------------------------------------------------------
(* Arithmetic and the log. *)

LEMMA WrapSmall ==
  ASSUME HalfAssumption, NEW n \in MinInt .. MaxInt
  PROVE  Wrap(n) = n
<1>1. Half \in Nat /\ n \in Int /\ n + Half >= 0 /\ n + Half < 2 * Half
  BY DEF HalfAssumption, MinInt, MaxInt
<1>2. (n + Half) % (2 * Half) = n + Half
  BY <1>1
<1> QED BY <1>1, <1>2 DEF Wrap, MinInt

LEMMA Limits ==
  ASSUME HalfAssumption
  PROVE  MinInt \in Int /\ MaxInt \in Int /\ MinInt <= -1 /\ MaxInt >= 0 /\ MaxInt - MinInt = 2 * Half - 1
           /\ MaxInt = Half - 1
  BY DEF HalfAssumption, MinInt, MaxInt

\* The ends that wrap: one past the greatest, one before the least.
LEMMA WrapEnds ==
  ASSUME HalfAssumption
  PROVE  Wrap(MaxInt + 1) = MinInt /\ Wrap(MinInt - 1) = MaxInt
<1> DEFINE m == 2 * Half
<1>1. Half \in Nat /\ Half > 0 /\ m \in Nat /\ m > 0
  BY DEF HalfAssumption
<1>2. MaxInt + 1 - MinInt = m /\ MinInt - 1 - MinInt = -1
  BY <1>1 DEF MinInt, MaxInt
<1> HIDE DEF m
<1>3. m % m = 0 /\ (-1) % m = m - 1
  BY <1>1
<1>4. \A d \in Int : Wrap(MinInt + d) = (d % m) + MinInt
  <2>1. MinInt \in Int
    BY <1>1 DEF MinInt
  <2>2. SUFFICES ASSUME NEW d \in Int PROVE Wrap(MinInt + d) = (d % m) + MinInt
    OBVIOUS
  <2>3. (MinInt + d) - MinInt = d
    BY <2>1
  <2> QED BY <2>3 DEF Wrap, m
<1>5. MaxInt + 1 = MinInt + m /\ MinInt - 1 = MinInt + (-1)
  BY <1>1 DEF MinInt, MaxInt, m
<1>6. Wrap(MaxInt + 1) = MinInt + (m % m) /\ Wrap(MinInt - 1) = MinInt + ((-1) % m)
  BY <1>1, <1>3, <1>4, <1>5 DEF MinInt
<1> QED BY <1>1, <1>3, <1>6 DEF MinInt, MaxInt, m

LEMMA RangeFacts ==
  ASSUME NEW f
  PROVE  /\ \A i \in DOMAIN f : f[i] \in Range(f)
         /\ \A x \in Range(f) : \E i \in DOMAIN f : f[i] = x
  BY DEF Range

\* The log stays a log.
LEMMA LogType ==
  ASSUME NEW x \in items \cup {Stale}, visited \in Seq(items \cup {Stale})
  PROVE  Log(x) \in Seq(items \cup {Stale})
BY DEF Log

\* What is due is numbers.
LEMMA DueFacts ==
  ASSUME InRange
  PROVE  Due \subseteq items /\ Due \subseteq Int
BY DEF Due, InRange

\* Giving the body the item at index, when the loop then leaves it behind.
LEMMA LogItem ==
  ASSUME HalfAssumption, BoundsAssumption, BoundsSuffice, IndInv, Fresh, at = "cond", HasNext, index \in Due,
         visited' = Log(index), at' \in {"body", "incr"}, Ahead' = IF up THEN index + 1 ELSE index - 1,
         UNCHANGED <<up, bound, items, kind>>
  PROVE  InOrder' /\ Behind' /\ Between' /\ Complete'
<1>0. Due' = Due
  BY DEF Due, EndWrapped, MinInt, MaxInt
<1>1. index \in MinInt .. MaxInt /\ bound \in MinInt .. MaxInt /\ Due \subseteq Int /\ up \in BOOLEAN
      /\ visited \in Seq(items \cup {Stale}) /\ InOrder /\ Behind /\ Between /\ Ahead = index
  BY DueFacts DEF IndInv, InRange, LoopTypeOK, Ahead
<1>2. Len(visited) < MaxLog
  <2>1. MaxLog >= 2 * Half /\ MaxLog \in Nat /\ Half \in Nat
    BY DEF BoundsSuffice, BoundsAssumption, HalfAssumption
  <2>2. CASE up
    BY <1>1, <2>1, <2>2, Limits DEF Behind, HasNext
  <2>3. CASE ~up
    BY <1>1, <2>1, <2>3, Limits DEF Behind, HasNext
  <2> QED BY <2>2, <2>3
<1>3. visited' = Append(visited, index)
  BY <1>2 DEF Log
<1>4. Len(visited') = Len(visited) + 1 /\ DOMAIN visited' = 1 .. Len(visited) + 1
      /\ visited'[Len(visited) + 1] = index /\ Len(visited) \in Nat
      /\ \A i \in 1 .. Len(visited) : visited'[i] = visited[i]
  <2>1. index \in items \cup {Stale}
    BY DEF Due
  <2> QED BY <1>1, <1>3, <2>1
<1>5. Range(visited') = Range(visited) \cup {index}
  <2> DEFINE n == Len(visited) + 1
             w == visited'
  <2>1. DOMAIN visited = 1 .. Len(visited) /\ Len(visited) \in Nat /\ n \in 1 .. n
        /\ DOMAIN w = 1 .. n /\ w[n] = index /\ \A i \in 1 .. Len(visited) : w[i] = visited[i]
    BY <1>1, <1>4
  <2> HIDE DEF w
  <2>2. ASSUME NEW x \in Range(w) PROVE x \in Range(visited) \cup {index}
    <3>1. PICK i \in 1 .. n : w[i] = x
      BY <2>1, <2>2, RangeFacts
    <3>2. i = n \/ i \in DOMAIN visited
      BY <2>1
    <3> QED BY <2>1, <3>1, <3>2, RangeFacts
  <2>3. ASSUME NEW x \in Range(visited) PROVE x \in Range(w)
    <3>1. PICK i \in 1 .. Len(visited) : visited[i] = x
      BY <2>1, <2>3, RangeFacts
    <3>2. i \in DOMAIN w /\ w[i] = x
      BY <2>1, <3>1
    <3> QED BY <3>2, RangeFacts
  <2>4. index \in Range(w)
    BY <2>1, RangeFacts
  <2> QED BY <2>2, <2>3, <2>4 DEF w
<1>6. \A i \in 1 .. Len(visited) : IF up THEN visited[i] < index ELSE visited[i] > index
  <2>1. SUFFICES ASSUME NEW i \in 1 .. Len(visited)
                 PROVE  IF up THEN visited[i] < index ELSE visited[i] > index
    OBVIOUS
  <2>2. i \in DOMAIN visited
    BY <1>1
  <2>3. visited[i] \in Due /\ visited[i] \in Range(visited)
    BY <1>1, <2>2, RangeFacts DEF Behind
  <2> QED BY <1>1, <2>3 DEF Behind
<1>7. InOrder'
  <2>1. SUFFICES ASSUME NEW i \in 1 .. Len(visited) + 1, NEW j \in 1 .. Len(visited) + 1, i < j
                 PROVE  IF up THEN visited'[i] < visited'[j] ELSE visited'[i] > visited'[j]
    BY <1>4 DEF InOrder
  <2>2. CASE j = Len(visited) + 1
    <3>1. i \in 1 .. Len(visited)
      BY <1>1, <2>1, <2>2
    <3> QED BY <1>4, <1>6, <2>2, <3>1
  <2>3. CASE j # Len(visited) + 1
    <3>1. i \in 1 .. Len(visited) /\ j \in 1 .. Len(visited) /\ DOMAIN visited = 1 .. Len(visited)
      BY <1>1, <2>1, <2>3
    <3> QED BY <1>1, <1>4, <2>1, <3>1 DEF InOrder
  <2> QED BY <2>2, <2>3
<1>8. Behind'
  <2>1. \A x \in Due : x \in Range(visited') <=> IF up THEN x < Ahead' ELSE x > Ahead'
    <3>1. SUFFICES ASSUME NEW x \in Due
                   PROVE  x \in Range(visited') <=> IF up THEN x < Ahead' ELSE x > Ahead'
      OBVIOUS
    <3>2. x \in Range(visited) <=> IF up THEN x < index ELSE x > index
      BY <1>1 DEF Behind
    <3>3. x \in Int /\ index \in Int
      BY <1>1
    <3> QED BY <1>5, <3>2, <3>3
  <2>2. Len(visited') <= IF up THEN Ahead' - MinInt ELSE MaxInt - Ahead'
    BY <1>1, <1>4, Limits DEF Behind
  <2>3. Range(visited') \subseteq Due
    BY <1>1, <1>5 DEF Behind
  <2> QED BY <1>0, <2>1, <2>2, <2>3 DEF Behind, MinInt, MaxInt
<1>9. Between'
  <2>1. \A x \in Due : IF up THEN x < bound ELSE x > bound
    BY <1>1 DEF Between
  <2>2. ASSUME kind # "map", NEW x \in Int
        PROVE  IF up THEN Ahead' <= x /\ x < bound => x \in Due
                     ELSE bound < x /\ x <= Ahead' => x \in Due
    BY <1>1, <2>2 DEF Between
  <2> QED BY <1>0, <2>1, <2>2 DEF Between
<1> QED BY <1>7, <1>8, <1>9 DEF Complete

\* A lap of the loop over an array, whatever its load gives.
LEMMA ArrayLap ==
  ASSUME HalfAssumption, BoundsAssumption, BoundsSuffice, IndInv, kind = "array", at = "cond", HasNext,
         visited' = Log(Loaded), index' = index + 1, at' = "body", UNCHANGED <<kind, bound, broke>>
  PROVE  LapsSoFar'
<1>1. index \in Int /\ bound \in Int /\ bound <= Half - 1 /\ index < bound /\ Len(visited) = index
      /\ visited \in Seq(items \cup {Stale})
  BY Limits DEF IndInv, InRange, HasNext, LapsSoFar, LoopTypeOK
<1>2. Len(visited) < MaxLog
  BY <1>1 DEF BoundsSuffice, BoundsAssumption, HalfAssumption
<1>3. visited' = Append(visited, Loaded)
  BY <1>2 DEF Log
<1>4. Len(visited') = index + 1 /\ DOMAIN visited' = 1 .. index + 1 /\ visited'[index + 1] = Loaded
      /\ \A i \in 1 .. index : visited'[i] = visited[i]
  BY <1>1, <1>3
<1>5. \A i \in 1 .. index : visited[i] \in {i - 1, Stale}
  BY <1>1 DEF IndInv, LapsSoFar, LapsExact
<1>6. Loaded \in {index, Stale}
  BY DEF Loaded
<1>7. \A i \in DOMAIN visited' : visited'[i] \in {i - 1, Stale}
  <2>1. SUFFICES ASSUME NEW i \in 1 .. index + 1 PROVE visited'[i] \in {i - 1, Stale}
    BY <1>4
  <2>2. CASE i = index + 1
    BY <1>1, <1>4, <1>6, <2>2
  <2>3. CASE i # index + 1
    <3>1. i \in 1 .. index
      BY <1>1, <2>1, <2>3
    <3> QED BY <1>4, <1>5, <3>1
  <2> QED BY <2>2, <2>3
<1>8. LapsExact'
  BY <1>7 DEF LapsExact
<1> QED BY <1>1, <1>4, <1>8 DEF LapsSoFar

-----------------------------------------------------------------------------
(* The steps. *)

\* What the proofs assume of the constants.
Assumed == KindsAssumption /\ HalfAssumption /\ BoundsAssumption /\ BoundsSuffice

LEMMA TypeFirst ==
  ASSUME Assumed, kind \in Kinds, index \in Int, bound \in Int, up \in BOOLEAN,
         at = "cond", visited = <<>>, buffer = 0, broke = FALSE
  PROVE  LoopTypeOK
<1>1. 0 \in 0 .. MaxGrowths
  BY DEF Assumed, BoundsAssumption
<1>2. visited \in Seq(items \cup {Stale})
  OBVIOUS
<1> QED BY <1>1, <1>2, Zenon DEF LoopTypeOK

\* A loop that begins with nothing behind it, at or above the least integer.
LEMMA FirstInd ==
  ASSUME Assumed, LoopTypeOK, kind \in {"array", "map", "range", "lines"}, InRange,
         at = "cond", visited = <<>>, broke = FALSE,
         kind = "array" => index = 0 /\ 0 <= bound,
         \A x \in Due : IF up THEN index <= x /\ x < bound ELSE x <= index /\ bound < x,
         kind # "map" => \A x \in Int : IF up THEN index <= x /\ x < bound => x \in Due
                                              ELSE bound < x /\ x <= index => x \in Due
  PROVE  IndInv
<1>1. InOrder /\ Complete /\ Range(visited) = {} /\ Len(visited) = 0 /\ DOMAIN visited = {} /\ Ahead = index
  BY DEF InOrder, Complete, Range, Ahead
<1>2. index \in Int /\ bound \in Int /\ up \in BOOLEAN /\ MinInt <= index /\ index <= MaxInt
      /\ MinInt \in Int /\ MaxInt \in Int /\ Due \subseteq Int
  BY Limits, DueFacts DEF LoopTypeOK, InRange, Assumed
<1>3. Behind
  <2>1. Len(visited) <= IF up THEN Ahead - MinInt ELSE MaxInt - Ahead
    BY <1>1, <1>2
  <2>2. \A x \in Due : ~ IF up THEN x < Ahead ELSE x > Ahead
    BY <1>1, <1>2
  <2> QED BY <1>1, <2>1, <2>2 DEF Behind
<1>4. Between
  BY <1>1, <1>2 DEF Between
<1>5. LapsSoFar
  BY <1>1, <1>2 DEF LapsSoFar, LapsExact
<1> QED BY <1>1, <1>3, <1>4, <1>5 DEF IndInv

LEMMA InitInd == Assumed /\ LoopInit => IndInv
<1> SUFFICES ASSUME Assumed, LoopInit PROVE IndInv
  OBVIOUS
<1>1. at = "cond" /\ visited = <<>> /\ buffer = 0 /\ broke = FALSE
  BY DEF LoopInit
<1>2. Half \in Nat \ {0} /\ MaxSize \in Nat /\ MaxSize < Half /\ MaxGrowths \in Nat
  BY DEF Assumed, HalfAssumption, BoundsAssumption, BoundsSuffice
<1>3. ASSUME NEW n \in 0 .. MaxSize, NEW k \in 0 .. n, kind \in {"array", "lines"} \cap Kinds,
             kind = "array" => k = n, index = 0, bound = k, items = 0 .. n - 1, up = TRUE
      PROVE  IndInv
  <2>0. kind \in Kinds /\ index \in Int /\ bound \in Int
    BY <1>3
  <2>1. InRange
    BY <1>1, <1>2, <1>3 DEF InRange, MinInt, MaxInt
  <2>2. LoopTypeOK
    BY <1>1, <1>3, <2>0, TypeFirst
  <2>3. Due = 0 .. k - 1
    BY <1>3 DEF Due, EndWrapped
  <2>4. (\A x \in Due : 0 <= x /\ x < k) /\ (\A x \in Int : 0 <= x /\ x < k => x \in Due) /\ 0 <= k
    BY <2>3
  <2> QED BY <1>1, <1>3, <2>1, <2>2, <2>4, FirstInd
<1>4. ASSUME NEW c \in 1 .. MaxSize, NEW o \in SUBSET (0 .. MaxSize - 1), o \subseteq 0 .. c - 1,
             kind = "map", "map" \in Kinds, index = 0, bound = c, items = o, up = TRUE
      PROVE  IndInv
  <2>0. kind \in Kinds /\ index \in Int /\ bound \in Int
    BY <1>4
  <2>1. InRange
    BY <1>1, <1>2, <1>4 DEF InRange, MinInt, MaxInt
  <2>2. LoopTypeOK
    BY <1>1, <1>4, <2>0, TypeFirst
  <2>3. \A x \in Due : 0 <= x /\ x < c
    BY <1>4 DEF Due
  <2> QED BY <1>1, <1>4, <2>1, <2>2, <2>3, FirstInd
<1>5. ASSUME NEW a \in MinInt .. MaxInt, NEW b \in Ends, NEW inclusive \in BOOLEAN,
             StartRange(a, b, inclusive), "range" \in Kinds
      PROVE  IndInv
  <2>1. b \in MinInt .. MaxInt
    BY DEF Assumed, HalfAssumption, MinInt, MaxInt
  <2>2. a \in Int /\ b \in Int /\ MinInt \in Int /\ MaxInt \in Int /\ MinInt <= a /\ a <= MaxInt
        /\ MinInt <= b /\ b <= MaxInt
    BY <1>2, <2>1, Limits DEF Assumed
  <2>3. kind = "range" /\ index = a /\ up = (a < b) /\ bound = AdjustedEnd(a, b, inclusive)
        /\ items = IF a < b THEN {n \in a .. b : n # b \/ inclusive} ELSE {n \in b .. a : n # b \/ inclusive}
    BY <1>5 DEF StartRange, RangeItems
  <2>4. up \in BOOLEAN /\ (up <=> a < b)
    <3>1. up = (a < b)
      BY <2>3
    <3>2. (a < b) \in BOOLEAN
      BY <2>2
    <3>3. up \in BOOLEAN
      BY <3>1, <3>2, Zenon
    <3> QED BY <3>1, <3>3, Zenon
  <2>5. bound = IF ~inclusive THEN b
                ELSE IF a < b THEN (IF b = MaxInt THEN MinInt ELSE b + 1)
                              ELSE (IF b = MinInt THEN MaxInt ELSE b - 1)
    <3>1. CASE ~inclusive
      BY <2>3, <3>1 DEF AdjustedEnd
    <3>2. CASE inclusive /\ a < b
      <4>1. bound = Wrap(b + 1)
        BY <2>3, <3>2 DEF AdjustedEnd
      <4>2. b # MaxInt => b + 1 \in MinInt .. MaxInt
        BY <2>2
      <4> QED BY <3>2, <4>1, <4>2, WrapSmall, WrapEnds DEF Assumed
    <3>3. CASE inclusive /\ ~(a < b)
      <4>1. bound = Wrap(b - 1)
        BY <2>3, <3>3 DEF AdjustedEnd
      <4>2. b # MinInt => b - 1 \in MinInt .. MaxInt
        BY <2>2
      <4> QED BY <3>3, <4>1, <4>2, WrapSmall, WrapEnds DEF Assumed
    <3> QED BY <3>1, <3>2, <3>3
  <2>6. bound \in MinInt .. MaxInt /\ bound \in Int /\ items \subseteq Int /\ index \in MinInt .. MaxInt
    BY <2>2, <2>3, <2>5
  <2>7. InRange
    BY <1>1, <2>3, <2>6 DEF InRange
  <2>8. LoopTypeOK
    BY <1>1, <1>5, <2>2, <2>3, <2>4, <2>6, TypeFirst
  <2>9. CASE bound = IF up THEN MinInt ELSE MaxInt
    <3>1. Due = {}
      BY <2>3, <2>9 DEF Due, EndWrapped
    <3>2. \A x \in Int : IF up THEN ~(index <= x /\ x < bound) ELSE ~(bound < x /\ x <= index)
      BY <2>2, <2>3, <2>9
    <3> QED BY <1>1, <2>3, <2>7, <2>8, <3>1, <3>2, FirstInd
  <2>10. CASE bound # IF up THEN MinInt ELSE MaxInt
    <3>1. Due = items
      BY <2>3, <2>10 DEF Due, EndWrapped
    <3>2. bound = IF ~inclusive THEN b ELSE IF up THEN b + 1 ELSE b - 1
      BY <2>4, <2>5, <2>10
    <3>3. CASE up
      <4>1. items = {n \in a .. b : n # b \/ inclusive}
        BY <2>3, <2>4, <3>3
      <4>2. \A x \in Int : x \in items <=> a <= x /\ x < bound
        BY <2>2, <3>2, <3>3, <4>1
      <4> QED BY <1>1, <2>3, <2>6, <2>7, <2>8, <3>1, <3>3, <4>2, FirstInd
    <3>4. CASE ~up
      <4>1. items = {n \in b .. a : n # b \/ inclusive}
        BY <2>3, <2>4, <3>4
      <4>2. \A x \in Int : x \in items <=> bound < x /\ x <= a
        BY <2>2, <3>2, <3>4, <4>1
      <4> QED BY <1>1, <2>3, <2>6, <2>7, <2>8, <3>1, <3>4, <4>2, FirstInd
    <3> QED BY <2>4, <3>3, <3>4
  <2> QED BY <2>9, <2>10
<1>6. ASSUME "lines" \in Kinds, NEW n \in 0 .. MaxSize, NEW k \in (IF Blanks THEN 0 .. n ELSE {n}),
             StartLines(n, k)
      PROVE  IndInv
  <2>1. k \in 0 .. n
    BY <1>6
  <2>2. kind = "lines" /\ index = 0 /\ bound = k /\ items = 0 .. n - 1 /\ up = TRUE
    BY <1>6 DEF StartLines
  <2> QED BY <1>3, <1>6, <2>1, <2>2
<1>7. ASSUME "array" \in Kinds, NEW n \in 0 .. MaxSize, StartArray(n)
      PROVE  IndInv
  <2>1. n \in 0 .. n
    BY <1>7
  <2>2. kind = "array" /\ index = 0 /\ bound = n /\ items = 0 .. n - 1 /\ up = TRUE
    BY <1>7 DEF StartArray
  <2> QED BY <1>3, <1>7, <2>1, <2>2
<1>8. CASE "map" \in Kinds /\ \E c \in 1 .. MaxSize, o \in SUBSET (0 .. MaxSize - 1) :
              o \subseteq 0 .. c - 1 /\ StartMap(c, o)
  BY <1>4, <1>8 DEF StartMap
<1> QED BY <1>5, <1>6, <1>7, <1>8 DEF LoopInit

\* The number at the index is due, unless the loop is over a map.
LEMMA AtItem == ASSUME IndInv, Fresh, at = "cond", HasNext, kind # "map" PROVE index \in Due
<1>1. Ahead = index /\ index \in Int /\ bound \in Int /\ up \in BOOLEAN
  BY DEF Ahead, IndInv, LoopTypeOK
<1> QED BY <1>1 DEF IndInv, Between, HasNext

\* What the body is given is an item, or what a freed buffer holds.
LEMMA GivenType ==
  ASSUME IndInv, visited' = Log(Loaded), buffer = 0 => index \in items, UNCHANGED items
  PROVE  visited' \in Seq((items \cup {Stale})')
<1>1. visited \in Seq(items \cup {Stale}) /\ Loaded \in items \cup {Stale}
  BY DEF IndInv, LoopTypeOK, Loaded
<1> QED BY <1>1, LogType

LEMMA VisitInd ==
  ASSUME Assumed, IndInv, VisitElement \/ VisitLine \/ VisitNumber
  PROVE  IndInv'
<1>1. at = "cond" /\ HasNext /\ at' = "body" /\ kind \in {"array", "lines", "range"}
      /\ UNCHANGED <<kind, bound, up, items, buffer, broke>>
      /\ index' = IF kind = "range" THEN index ELSE index + 1
  BY DEF VisitElement, VisitLine, VisitNumber
<1>2. InRange /\ LoopTypeOK /\ up \in BOOLEAN /\ ~broke
  BY <1>1 DEF IndInv, LoopTypeOK
<1>3. visited' = Log(Loaded)
  BY <1>2 DEF VisitElement, VisitLine, VisitNumber, Loaded, InRange
<1>4. Fresh <=> buffer = 0
  BY <1>1 DEF Fresh, Repeats
<1>5. Fresh => index \in Due /\ Loaded = index
  BY <1>1, <1>4, AtItem DEF Loaded
<1>6. visited' \in Seq((items \cup {Stale})')
  BY <1>1, <1>3, <1>4, <1>5, GivenType DEF Due
<1>7. index \in Int /\ bound \in Int /\ bound <= MaxInt /\ MinInt <= index /\ MaxInt \in Int /\ MinInt \in Int
  BY <1>2, Limits DEF InRange, Assumed
<1>8. Ahead' = IF up THEN index + 1 ELSE index - 1
  BY <1>1, <1>2 DEF Ahead, InRange
<1>9. Fresh' => InOrder' /\ Behind' /\ Between' /\ Complete'
  <2>1. ASSUME Fresh PROVE InOrder' /\ Behind' /\ Between' /\ Complete'
    BY <1>1, <1>3, <1>5, <1>8, <2>1, LogItem DEF Assumed
  <2> QED BY <1>1, <2>1 DEF Fresh, Repeats
<1>10. InRange'
  <2>1. CASE kind = "range"
    BY <1>1, <1>2, <2>1 DEF InRange, HasNext, MinInt, MaxInt
  <2>2. CASE kind # "range"
    <3>1. up /\ index + 1 <= bound
      BY <1>1, <1>2, <1>7, <2>2 DEF InRange, HasNext
    <3>2. index' = index + 1 /\ index' \in MinInt .. MaxInt
      BY <1>1, <1>7, <2>2, <3>1
    <3> QED BY <1>1, <1>2, <2>2, <3>2 DEF InRange, MinInt, MaxInt
  <2> QED BY <2>1, <2>2
<1>11. LapsSoFar'
  <2>1. CASE kind = "array"
    BY <1>1, <1>3, <2>1, ArrayLap DEF Assumed
  <2>2. CASE kind # "array"
    BY <1>1, <2>2 DEF LapsSoFar, LapsExact
  <2> QED BY <2>1, <2>2
<1>12. LoopTypeOK'
  BY <1>1, <1>2, <1>6, <1>7 DEF LoopTypeOK
<1> QED BY <1>1, <1>2, <1>9, <1>10, <1>11, <1>12 DEF IndInv

LEMMA VisitBucketInd == ASSUME Assumed, IndInv, VisitBucket PROVE IndInv'
<1>1. kind = "map" /\ at = "cond" /\ HasNext /\ UNCHANGED <<kind, index, bound, up, items, buffer, broke>>
  BY DEF VisitBucket
<1>2. InRange /\ LoopTypeOK /\ up = TRUE /\ ~broke /\ Ahead = index
  BY <1>1 DEF IndInv, InRange, LoopTypeOK, Ahead
<1>3. \/ (buffer = 0 => index \in items) /\ visited' = Log(Loaded) /\ at' = "body"
      \/ (buffer = 0 => index \notin items) /\ visited' = visited /\ at' = "incr"
  BY DEF VisitBucket
<1>4. Ahead' = index + 1
  BY <1>1, <1>2, <1>3 DEF Ahead
<1>5. InRange'
  BY <1>1, <1>2, <1>3 DEF InRange, HasNext, MinInt, MaxInt
<1>6. visited' \in Seq((items \cup {Stale})')
  <2>1. CASE visited' = visited
    BY <1>1, <1>2, <2>1 DEF LoopTypeOK
  <2>2. CASE (buffer = 0 => index \in items) /\ visited' = Log(Loaded)
    BY <1>1, <2>2, GivenType
  <2> QED BY <1>3, <2>1, <2>2
<1>7. ASSUME Fresh PROVE InOrder' /\ Behind' /\ Between' /\ Complete'
  <2>1. buffer = 0 /\ Loaded = index /\ Behind /\ Between /\ InOrder
    BY <1>1, <1>7 DEF Fresh, Loaded, IndInv
  <2>2. Due = items /\ Due' = Due
    BY <1>1 DEF Due, EndWrapped
  <2>3. CASE index \in items
    BY <1>1, <1>2, <1>3, <1>4, <1>7, <2>1, <2>2, <2>3, LogItem DEF Assumed
  <2>4. CASE index \notin items
    <3>1. visited' = visited /\ up' /\ at' = "incr" /\ kind' = "map"
      BY <1>1, <1>2, <1>3, <2>1, <2>4
    <3>2. index \in Int /\ Due \subseteq Int /\ MinInt \in Int /\ Len(visited) \in Nat /\ bound \in Int
      BY <1>2, DueFacts, Limits DEF InRange, LoopTypeOK, Assumed
    <3>3. Behind'
      <4>1. \A x \in Due : x < index + 1 <=> x < index
        BY <2>2, <2>4, <3>2
      <4> QED BY <1>1, <1>2, <1>4, <2>1, <2>2, <3>1, <3>2, <4>1 DEF Behind, MinInt, MaxInt
    <3>4. Between'
      BY <1>1, <1>2, <2>1, <2>2, <3>1 DEF Between
    <3>5. InOrder' /\ Complete'
      BY <1>2, <2>1, <3>1 DEF InOrder, Complete
    <3> QED BY <3>3, <3>4, <3>5
  <2> QED BY <2>3, <2>4
<1>8. Fresh' => InOrder' /\ Behind' /\ Between' /\ Complete'
  BY <1>1, <1>7 DEF Fresh, Repeats
<1>9. LoopTypeOK'
  BY <1>1, <1>2, <1>3, <1>6 DEF LoopTypeOK
<1>10. LapsSoFar'
  BY <1>1 DEF LapsSoFar, LapsExact
<1> QED BY <1>1, <1>2, <1>3, <1>5, <1>8, <1>9, <1>10 DEF IndInv

LEMMA ExhaustedInd == ASSUME Assumed, IndInv, RunsOut PROVE IndInv'
<1>1. at = "cond" /\ ~HasNext /\ at' = "end" /\ UNCHANGED <<kind, index, bound, up, items, visited, buffer, broke>>
  BY DEF RunsOut
<1>2. InRange /\ LoopTypeOK /\ Ahead = index /\ up \in BOOLEAN /\ LapsSoFar
  BY <1>1 DEF IndInv, LoopTypeOK, Ahead
<1>3. index \in Int /\ bound \in Int /\ Due \subseteq Int /\ Due' = Due
  BY <1>1, <1>2, DueFacts DEF LoopTypeOK, Due, EndWrapped, MinInt, MaxInt
<1>4. Fresh' => InOrder' /\ Complete'
  <2>1. SUFFICES ASSUME Fresh PROVE InOrder' /\ Complete'
    BY <1>1 DEF Fresh, Repeats
  <2>2. InOrder /\ Behind /\ Between
    BY <1>1, <2>1 DEF IndInv
  <2>3. \A x \in Due : IF up THEN x < index ELSE x > index
    BY <1>1, <1>2, <1>3, <2>2 DEF Between, HasNext
  <2>4. Range(visited) = Due
    BY <1>2, <2>2, <2>3 DEF Behind
  <2> QED BY <1>1, <1>2, <1>3, <2>2, <2>4 DEF InOrder, Complete
<1>5. LapsSoFar'
  <2>1. kind = "array" => index = bound
    BY <1>1, <1>2, <1>3 DEF LapsSoFar, HasNext, InRange
  <2> QED BY <1>1, <1>2, <2>1 DEF LapsSoFar, LapsExact
<1>6. LoopTypeOK'
  BY <1>1, <1>2 DEF LoopTypeOK
<1>7. InRange'
  BY <1>1, <1>2 DEF InRange, MinInt, MaxInt
<1> QED BY <1>1, <1>4, <1>5, <1>6, <1>7 DEF IndInv

\* The body is over, or goes on in another buffer: what the loop has is as it was.
LEMMA BodyOver ==
  ASSUME IndInv, at = "body", at' \in {"body", "cond", "incr"}, buffer' = buffer \/ buffer' \in 1 .. MaxGrowths,
         kind \in {"map", "range"} => at' # "cond" \/ Repeats, at' = "incr" => kind \in {"map", "range"},
         kind \in {"range", "lines"} => buffer' = buffer,
         UNCHANGED <<kind, index, bound, up, items, visited, broke>>
  PROVE  IndInv'
<1>1. InRange /\ LoopTypeOK /\ LapsSoFar /\ ~broke
  BY DEF IndInv
<1>2. HasNext' = HasNext /\ Due' = Due
  BY DEF HasNext, Due, EndWrapped, MinInt, MaxInt
<1>3. LoopTypeOK'
  BY <1>1 DEF LoopTypeOK
<1>4. InRange'
  BY <1>1, <1>2 DEF InRange, MinInt, MaxInt
<1>5. Fresh' => InOrder' /\ Complete' /\ Behind' /\ Between'
  <2>1. SUFFICES ASSUME Fresh' PROVE InOrder' /\ Complete' /\ Behind' /\ Between'
    OBVIOUS
  <2>2. Fresh /\ Ahead' = Ahead
    BY <2>1 DEF Fresh, Repeats, Ahead
  <2>3. InOrder /\ Behind /\ Between
    BY <2>2 DEF IndInv
  <2> QED BY <1>2, <2>2, <2>3 DEF InOrder, Complete, Behind, Between, MinInt, MaxInt
<1>6. LapsSoFar'
  BY <1>1 DEF LapsSoFar, LapsExact
<1> QED BY <1>1, <1>3, <1>4, <1>5, <1>6 DEF IndInv

LEMMA BodyInd == ASSUME Assumed, IndInv, Finish \/ Continue \/ Grow PROVE IndInv'
<1>1. CASE Finish
  BY <1>1, BodyOver DEF Finish
<1>2. CASE Continue
  <2>1. kind \in {"array", "map", "range", "lines"}
    BY DEF IndInv
  <2>2. at' = (IF kind = "range" THEN "incr" ELSE "cond") /\ (kind = "map" => Repeats)
    BY <1>2, <2>1 DEF Continue, ContinueTo, Repeats
  <2> QED BY <1>2, <2>2, BodyOver DEF Continue
<1>3. CASE Grow
  <2>1. buffer' \in 1 .. MaxGrowths
    BY <1>3 DEF Grow, IndInv, LoopTypeOK, Assumed, BoundsAssumption
  <2>2. kind \in {"array", "map"}
    BY <1>3 DEF Grow, Assumed, KindsAssumption
  <2> QED BY <1>3, <2>1, <2>2, BodyOver DEF Grow
<1> QED BY <1>1, <1>2, <1>3

LEMMA BreakInd == ASSUME IndInv, Break PROVE IndInv'
<1>1. at = "body" /\ at' = "end" /\ broke' = TRUE /\ UNCHANGED <<kind, index, bound, up, items, visited, buffer>>
  BY DEF Break
<1>2. LoopTypeOK'
  BY <1>1 DEF IndInv, LoopTypeOK
<1>3. InRange'
  BY <1>1 DEF IndInv, InRange, MinInt, MaxInt
<1>4. Fresh' => InOrder' /\ Complete'
  BY <1>1 DEF IndInv, Fresh, Repeats, InOrder, Complete
<1>5. LapsSoFar'
  BY <1>1 DEF IndInv, LapsSoFar, LapsExact
<1> QED BY <1>1, <1>2, <1>3, <1>4, <1>5 DEF IndInv

LEMMA IncrementInd == ASSUME Assumed, IndInv, Increment PROVE IndInv'
<1>1. at = "incr" /\ at' = "cond" /\ UNCHANGED <<kind, bound, up, items, visited, buffer, broke>>
      /\ index' = IF up THEN Wrap(index + 1) ELSE Wrap(index - 1)
  BY DEF Increment
<1>2. InRange /\ LoopTypeOK /\ ~broke /\ up \in BOOLEAN /\ kind \in {"map", "range"} /\ HasNext /\ LapsSoFar
  BY <1>1 DEF IndInv, InRange, LoopTypeOK
<1>3. index \in Int /\ bound \in Int /\ MinInt <= bound /\ bound <= MaxInt /\ MinInt <= index /\ index <= MaxInt
      /\ MinInt \in Int /\ MaxInt \in Int
  BY <1>2, Limits DEF InRange, Assumed
<1>4. (IF up THEN index + 1 ELSE index - 1) \in MinInt .. MaxInt
  BY <1>2, <1>3 DEF HasNext
<1>5. index' = IF up THEN index + 1 ELSE index - 1
  BY <1>1, <1>2, <1>4, WrapSmall DEF Assumed
<1>6. Ahead' = Ahead /\ Due' = Due
  BY <1>1, <1>2, <1>5 DEF Ahead, Due, EndWrapped, MinInt, MaxInt
<1>7. Fresh' => InOrder' /\ Complete' /\ Behind' /\ Between'
  <2>1. SUFFICES ASSUME Fresh PROVE InOrder' /\ Complete' /\ Behind' /\ Between'
    BY <1>1 DEF Fresh, Repeats
  <2>2. InOrder /\ Behind /\ Between
    BY <1>1, <2>1 DEF IndInv
  <2> QED BY <1>1, <1>2, <1>6, <2>2 DEF InOrder, Complete, Behind, Between, MinInt, MaxInt
<1>8. InRange'
  BY <1>1, <1>2, <1>4, <1>5 DEF InRange, MinInt, MaxInt
<1>9. LoopTypeOK'
  BY <1>1, <1>2, <1>3, <1>5 DEF LoopTypeOK
<1>10. LapsSoFar'
  BY <1>1, <1>2 DEF LapsSoFar, LapsExact
<1> QED BY <1>1, <1>2, <1>7, <1>8, <1>9, <1>10 DEF IndInv

LEMMA StepInd == ASSUME Assumed PROVE IndInv /\ [LoopNext]_loopVars => IndInv'
<1> SUFFICES ASSUME IndInv, [LoopNext]_loopVars PROVE IndInv'
  OBVIOUS
<1>1. CASE VisitElement \/ VisitBucket \/ VisitNumber \/ VisitLine
  BY <1>1, VisitInd, VisitBucketInd
<1>2. CASE RunsOut \/ Finish \/ Continue \/ Break \/ Increment \/ Grow
  BY <1>2, ExhaustedInd, BodyInd, BreakInd, IncrementInd
<1>3. CASE UNCHANGED loopVars
  BY <1>3 DEF loopVars, IndInv, LoopTypeOK, InRange, InOrder, Complete, Behind, Between, Ahead, HasNext, MinInt, MaxInt,
       Fresh, Repeats, LapsSoFar, LapsExact, Due, EndWrapped
<1> QED BY <1>1, <1>2, <1>3 DEF LoopNext, Step, Stopped

LEMMA Invariance == ASSUME Assumed PROVE LoopSpec => []IndInv
<1>1. LoopInit => IndInv
  BY InitInd
<1>2. IndInv /\ [LoopNext]_loopVars => IndInv'
  BY StepInd
<1> QED BY <1>1, <1>2, PTL DEF LoopSpec

-----------------------------------------------------------------------------
(* The theorems. *)

\* The loop's block, index and log keep their types: the index never wraps, in a
\* freed buffer neither.
THEOREM TypeCorrect ==
  ASSUME KindsAssumption, HalfAssumption, BoundsAssumption, BoundsSuffice
  PROVE  LoopSpec => []LoopTypeOK
<1>1. IndInv => LoopTypeOK
  BY DEF IndInv
<1> QED BY <1>1, Invariance, PTL DEF Assumed

\* While its container keeps its buffer, and its body does not continue over a map,
\* the body is given each item that is due once, in order, and all of them unless it
\* broke out; the laps over an array that grows are as many.
THEOREM VisitsAreExact ==
  ASSUME KindsAssumption, HalfAssumption, BoundsAssumption, BoundsSuffice
  PROVE  LoopSpec => []VisitsExactly
<1>1. IndInv => VisitsExactly
  BY DEF IndInv, VisitsExactly, Fresh, LapsSoFar
<1> QED BY <1>1, Invariance, PTL DEF Assumed
=============================================================================
