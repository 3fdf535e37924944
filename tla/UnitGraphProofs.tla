--------------------------- MODULE UnitGraphProofs ---------------------------
(***************************************************************************)
(* TLAPS proofs about UnitGraph: whatever the files of a program say, the  *)
(* units loaded are those its main unit reaches, an import cycle is        *)
(* reported exactly when there is one, and the order compiles every unit   *)
(* before the units it imports.                                            *)
(***************************************************************************)
EXTENDS UnitGraph, FiniteSetTheorems, SequenceTheorems, TLAPS

Uses(u, v) == v \in Range(Dependencies(u))

\* Sets of names that keep what their units import.
Closed(S) == \A n \in S \cap Known : Range(Dependencies(n)) \subseteq S
ClosedToo(S) == \A n \in S \cap Known : uses[n].modules \subseteq S

-----------------------------------------------------------------------------
(* Loading. *)

\* Each unit is there once, the main unit first, and none without being used.
Rooted ==
    /\ units # <<>> /\ units[1] = Main /\ IsInjective(units)
    /\ \A S \in SUBSET Names : Main \in S /\ Closed(S) /\ ClosedToo(S) => Known \subseteq S

\* What is imported and not read yet is ahead of a frame of the recursion.
Ahead(u, i) == \E k \in DOMAIN stack : stack[k].unit = u /\ stack[k].next <= i

WhileLoading ==
    phase = "load" =>
      /\ stack # <<>> /\ loaded = Known
      /\ \A u \in Known \ {Main} : \E v \in Known : Uses(v, u)
      /\ \A S \in SUBSET Names : Main \in S /\ Closed(S) => Known \subseteq S
      /\ \A u \in Known : \A i \in DOMAIN Dependencies(u) : Dependencies(u)[i] \in Known \/ Ahead(u, i)

\* What injection adds imports nothing.
OnceRead ==
    phase \in {"inject"} \cup AfterLoading =>
      /\ Closed(Known)
      /\ loaded = {Main} \cup UNION {Range(Dependencies(u)) : u \in Known}
      /\ \A S \in SUBSET Names : Main \in S /\ Closed(S) =>
            \A u \in Known : \A v \in Known : Uses(u, v) => u \in S

OnceInjected == phase \in AfterLoading => ClosedToo(Known)

-----------------------------------------------------------------------------
(* Sorting. *)

\* The statements that name u and have not been counted down.
Pending(u) ==
    {p \in Statements(u) :
        p[1] \notin Range(order) \/ (stack # <<>> /\ p[1] = Top.unit /\ p[2] >= Top.next)}

\* The units of the order come after the units that import them.
Ordered ==
    /\ IsInjective(order)
    /\ \A i \in DOMAIN order : \A v \in Known :
          Uses(v, order[i]) => \E j \in DOMAIN order : j < i /\ order[j] = v

\* If nothing imports the main unit it leads.
Leads ==
    (\A v \in Known : ~Uses(v, Main)) =>
        IF order = <<>> THEN queue # <<>> /\ Head(queue) = Main ELSE order[1] = Main

WhileSorting ==
    phase = "sort" =>
      /\ Len(stack) <= 1 /\ (stack # <<>> => Top.unit \in Range(order))
      /\ DOMAIN degree = Known /\ \A u \in Known : degree[u] = Cardinality(Pending(u))
      /\ IsInjective(queue) /\ Range(order) \cap Range(queue) = {}
      /\ \A u \in Known : degree[u] = 0 <=> u \in Range(order) \cup Range(queue)
      /\ Ordered /\ Leads

OnceSorted == phase \in {"collect", "done"} => Ordered /\ Leads /\ Len(order) = Len(units)

-----------------------------------------------------------------------------
(* The search. *)

\* What the search is done with.
Finished == marked \ OnPath

\* Each unit of R is imported by one of R: what sorting leaves.
Knotted(R) == \A u \in R : \E v \in R : Uses(v, u)

\* The dependencies a frame has passed are done with, but the one being searched.
Passed(k) ==
    \A i \in DOMAIN Dependencies(stack[k].unit) : i < stack[k].next =>
        \/ Dependencies(stack[k].unit)[i] \in Finished
        \/ k < Len(stack) /\ Dependencies(stack[k].unit)[i] = stack[k + 1].unit

WhileSearching ==
    phase = "search" =>
      /\ \E R \in SUBSET Known : R # {} /\ Knotted(R)
      /\ OnPath \subseteq marked
      /\ \A k, l \in DOMAIN stack : stack[k].unit = stack[l].unit => k = l
      /\ \A k \in DOMAIN stack : Passed(k)
      /\ \A k \in 1 .. Len(stack) - 1 : Uses(stack[k].unit, stack[k + 1].unit)
      /\ \A u \in Finished : Range(Dependencies(u)) \subseteq Finished
      /\ \A S \in SUBSET Finished : Knotted(S) => S = {}

Loop(path) ==
    /\ path # <<>>
    /\ \A i \in DOMAIN path : path[(i % Len(path)) + 1] \in Range(Dependencies(path[i]))

OnceFound == phase = "CE3001" => Loop(cycle)

\* What a pass has not come to yet.
Untouched ==
    /\ phase \in {"load", "inject", "symbols"} => order = <<>> /\ queue = <<>> /\ degree = <<>>
    /\ phase \in {"inject", "symbols"} => stack = <<>>
    /\ phase \in {"load", "inject", "symbols", "sort"} => marked = {}

\* The inductive invariant.
GraphInv ==
    /\ GraphTypeOK /\ Untouched /\ Rooted /\ WhileLoading /\ OnceRead /\ OnceInjected
    /\ WhileSorting /\ OnceSorted /\ WhileSearching /\ OnceFound

-----------------------------------------------------------------------------
(* Sequences without repetition. *)

LEMMA RangeFacts ==
  ASSUME NEW S, NEW s \in Seq(S)
  PROVE  /\ DOMAIN s = 1 .. Len(s) /\ Len(s) \in Nat
         /\ \A i \in 1 .. Len(s) : s[i] \in Range(s)
         /\ \A x \in Range(s) : \E i \in 1 .. Len(s) : s[i] = x
         /\ Range(s) \subseteq S
  BY LenProperties DEF Range

LEMMA OwnRange ==
  ASSUME NEW S, NEW s \in Seq(S)
  PROVE  s \in [1 .. Len(s) -> Range(s)] /\ s \in Seq(Range(s))
<1>1. s \in [1 .. Len(s) -> S] /\ Len(s) \in Nat
  BY LenProperties
<1>2. s \in [1 .. Len(s) -> Range(s)]
  BY <1>1 DEF Range
<1>3. s \in Seq(Range(s))
  BY <1>1, <1>2
<1>4. QED BY <1>2, <1>3

LEMMA EmptyRange == Range(<<>>) = {} /\ IsInjective(<<>>)
  BY DEF Range, IsInjective

LEMMA AppendFacts ==
  ASSUME NEW S, NEW s \in Seq(S), NEW e \in S
  PROVE  /\ Append(s, e) \in Seq(S) /\ Len(Append(s, e)) = Len(s) + 1
         /\ \A i \in 1 .. Len(s) : Append(s, e)[i] = s[i]
         /\ Append(s, e)[Len(s) + 1] = e
         /\ Range(Append(s, e)) = Range(s) \cup {e}
         /\ IsInjective(s) /\ e \notin Range(s) => IsInjective(Append(s, e))
<1> DEFINE t == Append(s, e)
<1>1. t \in Seq(S) /\ Len(t) = Len(s) + 1 /\ t[Len(s) + 1] = e /\ Len(s) \in Nat
      /\ \A i \in 1 .. Len(s) : t[i] = s[i]
  BY LenProperties
<1> HIDE DEF t
<1>2. \A i \in 1 .. Len(t) : i \in 1 .. Len(s) \/ i = Len(s) + 1
  BY <1>1
<1>3. Range(t) = Range(s) \cup {e}
  BY <1>1, <1>2, RangeFacts
<1>4. ASSUME IsInjective(s), e \notin Range(s) PROVE IsInjective(t)
  <2>1. SUFFICES ASSUME NEW i \in 1 .. Len(t), NEW j \in 1 .. Len(t), t[i] = t[j] PROVE i = j
    BY <1>1, RangeFacts DEF IsInjective
  <2>2. CASE i \in 1 .. Len(s) /\ j \in 1 .. Len(s)
    BY <1>1, <1>4, <2>1, <2>2, RangeFacts DEF IsInjective
  <2> QED BY <1>1, <1>2, <1>4, <2>1, <2>2, RangeFacts
<1> QED BY <1>1, <1>3, <1>4 DEF t

LEMMA ConcatFacts ==
  ASSUME NEW S, NEW s \in Seq(S), NEW t \in Seq(S)
  PROVE  /\ s \o t \in Seq(S) /\ Len(s \o t) = Len(s) + Len(t)
         /\ \A i \in 1 .. Len(s) : (s \o t)[i] = s[i]
         /\ Range(s \o t) = Range(s) \cup Range(t)
         /\ IsInjective(s) /\ IsInjective(t) /\ Range(s) \cap Range(t) = {} => IsInjective(s \o t)
<1> DEFINE w == s \o t
<1>1. w \in Seq(S) /\ Len(w) = Len(s) + Len(t) /\ Len(s) \in Nat /\ Len(t) \in Nat
      /\ \A i \in 1 .. Len(w) : w[i] = IF i <= Len(s) THEN s[i] ELSE t[i - Len(s)]
  BY ConcatProperties, LenProperties
<1> HIDE DEF w
<1>2. \A i \in 1 .. Len(w) : i \in 1 .. Len(s) \/ (i - Len(s)) \in 1 .. Len(t)
  BY <1>1
<1>3. \A i \in 1 .. Len(s) : i \in 1 .. Len(w) /\ w[i] = s[i]
  BY <1>1
<1>4. ASSUME NEW i \in 1 .. Len(t) PROVE Len(s) + i \in 1 .. Len(w) /\ w[Len(s) + i] = t[i]
  <2>1. Len(s) + i \in 1 .. Len(w) /\ Len(s) + i > Len(s) /\ (Len(s) + i) - Len(s) = i
    BY <1>1
  <2>2. w[Len(s) + i] = t[(Len(s) + i) - Len(s)]
    BY <1>1, <2>1
  <2> QED BY <2>1, <2>2
<1>5. Range(w) = Range(s) \cup Range(t)
  <2>1. ASSUME NEW x \in Range(w) PROVE x \in Range(s) \cup Range(t)
    <3>1. PICK i \in 1 .. Len(w) : w[i] = x
      BY <1>1, RangeFacts
    <3>2. CASE i \in 1 .. Len(s)
      BY <1>3, <3>1, <3>2, RangeFacts
    <3>3. CASE (i - Len(s)) \in 1 .. Len(t)
      <4>1. w[i] = t[i - Len(s)]
        BY <1>1, <3>1, <3>3
      <4> QED BY <3>1, <3>3, <4>1, RangeFacts
    <3> QED BY <1>2, <3>1, <3>2, <3>3
  <2>2. ASSUME NEW x \in Range(s) PROVE x \in Range(w)
    BY <1>1, <1>3, RangeFacts
  <2>3. ASSUME NEW x \in Range(t) PROVE x \in Range(w)
    BY <1>1, <1>4, RangeFacts
  <2> QED BY <2>1, <2>2, <2>3
<1>6. ASSUME IsInjective(s), IsInjective(t), Range(s) \cap Range(t) = {} PROVE IsInjective(w)
  <2>1. SUFFICES ASSUME NEW i \in 1 .. Len(w), NEW j \in 1 .. Len(w), w[i] = w[j] PROVE i = j
    BY <1>1, RangeFacts DEF IsInjective
  <2>2. CASE i <= Len(s) /\ j <= Len(s)
    BY <1>1, <1>6, <2>1, <2>2, RangeFacts DEF IsInjective
  <2>3. CASE i > Len(s) /\ j > Len(s)
    <3>1. (i - Len(s)) \in 1 .. Len(t) /\ (j - Len(s)) \in 1 .. Len(t) /\ t[i - Len(s)] = t[j - Len(s)]
      BY <1>1, <2>1, <2>3
    <3>2. i - Len(s) = j - Len(s)
      BY <1>6, <3>1, RangeFacts DEF IsInjective
    <3> QED BY <1>1, <3>2
  <2>4. CASE i <= Len(s) /\ j > Len(s)
    <3>1. i \in 1 .. Len(s) /\ (j - Len(s)) \in 1 .. Len(t) /\ w[i] = s[i] /\ w[j] = t[j - Len(s)]
      BY <1>1, <2>4
    <3>2. w[i] \in Range(s) /\ w[j] \in Range(t)
      BY <3>1, RangeFacts
    <3> QED BY <1>6, <2>1, <3>2
  <2>5. CASE i > Len(s) /\ j <= Len(s)
    <3>1. j \in 1 .. Len(s) /\ (i - Len(s)) \in 1 .. Len(t) /\ w[j] = s[j] /\ w[i] = t[i - Len(s)]
      BY <1>1, <2>5
    <3>2. w[i] \in Range(t) /\ w[j] \in Range(s)
      BY <3>1, RangeFacts
    <3> QED BY <1>6, <2>1, <3>2
  <2> QED BY <1>1, <2>2, <2>3, <2>4, <2>5
<1> QED BY <1>1, <1>3, <1>5, <1>6 DEF w

LEMMA TailFacts ==
  ASSUME NEW S, NEW s \in Seq(S), s # <<>>
  PROVE  /\ Head(s) \in Range(s) /\ Head(s) = s[1] /\ Tail(s) \in Seq(S)
         /\ Range(s) = {Head(s)} \cup Range(Tail(s))
         /\ IsInjective(s) => IsInjective(Tail(s)) /\ Head(s) \notin Range(Tail(s))
<1> DEFINE t == Tail(s)
<1>1. t \in Seq(S) /\ Len(t) = Len(s) - 1 /\ Len(s) \in Nat /\ Len(s) >= 1 /\ Head(s) = s[1]
      /\ \A i \in 1 .. Len(t) : t[i] = s[i + 1]
  BY HeadTailProperties, LenProperties, EmptySeq
<1> HIDE DEF t
<1>2. \A i \in 1 .. Len(s) : i = 1 \/ ((i - 1) \in 1 .. Len(t) /\ t[i - 1] = s[i])
  BY <1>1
<1>3. \A i \in 1 .. Len(t) : i + 1 \in 1 .. Len(s)
  BY <1>1
<1>4. 1 \in 1 .. Len(s)
  BY <1>1
<1>5. Range(s) = {s[1]} \cup Range(t)
  <2>1. ASSUME NEW x \in Range(s) PROVE x \in {s[1]} \cup Range(t)
    <3>1. PICK i \in 1 .. Len(s) : s[i] = x
      BY <2>1, RangeFacts
    <3>2. CASE (i - 1) \in 1 .. Len(t) /\ t[i - 1] = s[i]
      BY <1>1, <3>1, <3>2, RangeFacts
    <3> QED BY <1>2, <3>1, <3>2
  <2>2. ASSUME NEW x \in Range(t) PROVE x \in Range(s)
    BY <1>1, <1>3, RangeFacts
  <2> QED BY <1>4, <2>1, <2>2, RangeFacts
<1>6. ASSUME IsInjective(s) PROVE IsInjective(t) /\ s[1] \notin Range(t)
  <2>1. ASSUME NEW i \in 1 .. Len(t), NEW j \in 1 .. Len(t), t[i] = t[j] PROVE i = j
    <3>1. i + 1 \in DOMAIN s /\ j + 1 \in DOMAIN s /\ s[i + 1] = s[j + 1]
      BY <1>1, <1>3, <2>1, RangeFacts
    <3>2. i + 1 = j + 1
      BY <1>6, <3>1 DEF IsInjective
    <3> QED BY <1>1, <3>2
  <2>2. ASSUME NEW i \in 1 .. Len(t), t[i] = s[1] PROVE FALSE
    <3>1. i + 1 = 1
      BY <1>1, <1>3, <1>4, <1>6, <2>2, RangeFacts DEF IsInjective
    <3> QED BY <3>1
  <2> QED BY <1>1, <2>1, <2>2, RangeFacts DEF IsInjective
<1> QED BY <1>1, <1>4, <1>5, <1>6, RangeFacts DEF t

\* A sequence without repetition is as long as its range is large.
LEMMA CountOnce ==
  ASSUME NEW S, NEW s \in Seq(S), IsInjective(s)
  PROVE  IsFiniteSet(Range(s)) /\ Cardinality(Range(s)) = Len(s)
<1>1. s \in [1 .. Len(s) -> Range(s)] /\ Len(s) \in Nat
  BY OwnRange, LenProperties
<1>2. s \in Bijection(1 .. Len(s), Range(s))
  BY <1>1, RangeFacts DEF Bijection, Injection, Surjection
<1>3. ExistsBijection(1 .. Len(s), Range(s))
  BY <1>2 DEF ExistsBijection
<1> QED BY <1>1, <1>3, FS_NatBijection, FS_CountingElements

\* The members of SetToSeqs list the set.
LEMMA ListingFacts ==
  ASSUME NEW S, IsFiniteSet(S), NEW s \in SetToSeqs(S)
  PROVE  s \in Seq(S) /\ IsInjective(s) /\ Range(s) = S
<1>1. Cardinality(S) \in Nat /\ s \in [1 .. Cardinality(S) -> S] /\ IsInjective(s)
  BY FS_CardinalityType DEF SetToSeqs, IsInjective
<1>2. s \in Seq(S)
  BY <1>1
<1>3. Len(s) = Cardinality(S) /\ Range(s) \in SUBSET S
  BY <1>1, <1>2, RangeFacts
<1> QED BY <1>1, <1>2, <1>3, CountOnce, FS_Subset

-----------------------------------------------------------------------------
(* What the variables hold. *)

Assumed == MainAssumption /\ UseListsAssumption /\ ModulesAssumption
Frames(K) == [unit : K, next : Nat \ {0}]

LEMMA UsesFacts ==
  ASSUME Assumed, GraphTypeOK, NEW u \in Known
  PROVE  /\ uses[u] \in UseLists /\ uses[u].modules \subseteq Modules
         /\ Dependencies(u) \in Seq(Units) /\ DOMAIN Dependencies(u) = 1 .. Len(Dependencies(u))
         /\ \A i \in DOMAIN Dependencies(u) : Dependencies(u)[i] \in Units /\ Uses(u, Dependencies(u)[i])
         /\ \A v : Uses(u, v) => v \in Units /\ \E i \in DOMAIN Dependencies(u) : Dependencies(u)[i] = v
<1>1. uses[u] \in [imports : Seq(Units), modules : SUBSET Modules] /\ uses[u] \in UseLists
  BY DEF Assumed, UseListsAssumption, GraphTypeOK
<1>2. Dependencies(u) \in Seq(Units) /\ uses[u].modules \subseteq Modules
  BY <1>1 DEF Dependencies
<1> QED BY <1>1, <1>2, RangeFacts DEF Uses

LEMMA KnownFacts ==
  ASSUME GraphTypeOK, Rooted
  PROVE  /\ Known \subseteq Names /\ Main \in Known
         /\ IsFiniteSet(Known) /\ Cardinality(Known) = Len(units)
<1>1. units \in Seq(Names) /\ Len(units) >= 1 /\ Len(units) \in Nat /\ units[1] = Main /\ IsInjective(units)
  BY LenProperties, EmptySeq DEF GraphTypeOK, Rooted
<1> QED BY <1>1, RangeFacts, CountOnce DEF Known

LEMMA TopFacts ==
  ASSUME Assumed, GraphTypeOK, stack # <<>>
  PROVE  /\ stack \in Seq(Frames(Known)) /\ Len(stack) \in Nat \ {0} /\ DOMAIN stack = 1 .. Len(stack)
         /\ \A k \in 1 .. Len(stack) : stack[k].unit \in Known /\ stack[k].next \in Nat \ {0}
         /\ Top = stack[Len(stack)]
<1>1. stack \in Seq(Frames(Known))
  BY DEF GraphTypeOK, Frames
<1>2. Len(stack) \in Nat \ {0} /\ DOMAIN stack = 1 .. Len(stack) /\ \A k \in 1 .. Len(stack) : stack[k] \in Frames(Known)
  BY <1>1, EmptySeq, LenProperties
<1> QED BY <1>1, <1>2 DEF Frames, Top, Last

LEMMA WantedFacts ==
  ASSUME Assumed, GraphTypeOK, Waiting
  PROVE  /\ Top.unit \in Known /\ Top.next \in DOMAIN Dependencies(Top.unit)
         /\ Wanted \in Units /\ Uses(Top.unit, Wanted)
<1>1. Top.unit \in Known /\ Top.next \in Nat \ {0} /\ Top.next <= Len(Dependencies(Top.unit))
  BY TopFacts DEF Waiting
<1>2. Dependencies(Top.unit) \in Seq(Units) /\ DOMAIN Dependencies(Top.unit) = 1 .. Len(Dependencies(Top.unit))
  BY <1>1, UsesFacts
<1>3. Len(Dependencies(Top.unit)) \in Nat
  BY <1>2, LenProperties
<1>4. Top.next \in DOMAIN Dependencies(Top.unit)
  BY <1>1, <1>2, <1>3
<1> QED BY <1>1, <1>4, UsesFacts DEF Wanted

\* Top has passed all its dependencies when nothing is wanted.
LEMMA NothingWanted ==
  ASSUME Assumed, GraphTypeOK, stack # <<>>, ~Waiting, NEW i \in DOMAIN Dependencies(Top.unit)
  PROVE  i < Top.next
<1>1. Top.unit \in Known /\ Top.next \in Nat \ {0} /\ Top.next > Len(Dependencies(Top.unit))
  BY TopFacts, UsesFacts, LenProperties DEF Waiting
<1>2. i \in 1 .. Len(Dependencies(Top.unit)) /\ Len(Dependencies(Top.unit)) \in Nat
  BY <1>1, UsesFacts, LenProperties
<1> QED BY <1>1, <1>2

LEMMA AdvancedFacts ==
  ASSUME Assumed, GraphTypeOK, stack # <<>>
  PROVE  /\ Advanced \in Seq(Frames(Known)) /\ Len(Advanced) = Len(stack) /\ Advanced # <<>>
         /\ \A k \in 1 .. Len(stack) :
               /\ Advanced[k].unit = stack[k].unit
               /\ Advanced[k].next = IF k = Len(stack) THEN stack[k].next + 1 ELSE stack[k].next
<1> DEFINE n == Len(stack)
           f == [stack[n] EXCEPT !.next = @ + 1]
<1>1. stack \in Seq(Frames(Known)) /\ n \in Nat \ {0} /\ n \in 1 .. Len(stack) /\ stack[n] \in Frames(Known)
  BY TopFacts, ElementOfSeq
<1>2. f \in Frames(Known) /\ f.unit = stack[n].unit /\ f.next = stack[n].next + 1
  BY <1>1 DEF Frames
<1>3. Advanced = [stack EXCEPT ![n] = f]
  BY <1>1, TopFacts DEF Advanced
<1> HIDE DEF f
<1>4. Advanced \in Seq(Frames(Known)) /\ Len(Advanced) = Len(stack)
      /\ \A k \in 1 .. Len(stack) : Advanced[k] = IF k = n THEN f ELSE stack[k]
  BY <1>1, <1>2, <1>3, ExceptSeq
<1>5. Advanced # <<>>
  BY <1>1, <1>4
<1> QED BY <1>2, <1>4, <1>5

LEMMA FrontFacts ==
  ASSUME Assumed, GraphTypeOK, stack # <<>>
  PROVE  /\ Front(stack) \in Seq(Frames(Known)) /\ Len(Front(stack)) = Len(stack) - 1
         /\ \A k \in 1 .. Len(stack) - 1 : Front(stack)[k] = stack[k]
<1> DEFINE n == Len(stack) - 1
<1>1. stack \in Seq(Frames(Known)) /\ n \in Nat /\ \A k \in 1 .. n : stack[k] \in Frames(Known)
  BY TopFacts, ElementOfSeq
<1>2. SubSeq(stack, 1, n) \in Seq(Frames(Known)) /\ Len(SubSeq(stack, 1, n)) = n
      /\ \A k \in 1 .. n : SubSeq(stack, 1, n)[k] = stack[k]
  <2> HIDE DEF n
  <2>1. /\ SubSeq(stack, 1, n) \in Seq(Frames(Known))
        /\ Len(SubSeq(stack, 1, n)) = IF 1 <= n THEN n - 1 + 1 ELSE 0
        /\ \A k \in 1 .. n - 1 + 1 : SubSeq(stack, 1, n)[k] = stack[1 + k - 1]
    BY <1>1, SubSeqProperties
  <2> QED BY <1>1, <2>1
<1> QED BY <1>1, <1>2 DEF Front

\* A frame on top of the others.
LEMMA PushFacts ==
  ASSUME NEW K, NEW s \in Seq(Frames(K)), NEW u \in K
  PROVE  /\ Append(s, Frame(u)) \in Seq(Frames(K)) /\ Len(Append(s, Frame(u))) = Len(s) + 1
         /\ \A k \in 1 .. Len(s) : Append(s, Frame(u))[k] = s[k]
         /\ Append(s, Frame(u))[Len(s) + 1] = Frame(u)
         /\ Frame(u).unit = u /\ Frame(u).next = 1
<1>1. Frame(u) \in Frames(K) /\ Frame(u).unit = u /\ Frame(u).next = 1
  BY DEF Frame, Frames
<1> QED BY <1>1, AppendFacts

LEMMA FramesGrow ==
  ASSUME NEW K, NEW L, K \subseteq L, NEW s \in Seq(Frames(K))
  PROVE  s \in Seq(Frames(L))
<1>1. Frames(K) \subseteq Frames(L)
  BY DEF Frames
<1> QED BY <1>1, SeqMonotonic

-----------------------------------------------------------------------------
(* Loading. *)

LEMMA InitInv == Assumed /\ GraphInit => GraphInv
<1> SUFFICES ASSUME Assumed, GraphInit PROVE GraphInv
  OBVIOUS
<1>1. PICK l \in UseLists : uses = [u \in {Main} |-> l]
  BY DEF GraphInit
<1>2. units = <<Main>> /\ Known = {Main} /\ Main \in Units /\ Main \in Names /\ loaded = {Main}
  BY DEF GraphInit, Known, Range, Assumed, MainAssumption, Names
<1>3. stack = <<Frame(Main)>> /\ Frame(Main) \in Frames(Known) /\ Frame(Main).unit = Main /\ Frame(Main).next = 1
  BY <1>2 DEF GraphInit, Frame, Frames
<1>4. GraphTypeOK
  <2>1. stack \in Seq([unit : Known, next : Nat \ {0}])
    BY <1>3 DEF Frames
  <2>2. uses \in [Known -> UseLists] /\ units \in Seq(Names)
    BY <1>1, <1>2
  <2>3. perk \in [definer : Names, implementer : Names]
    BY <1>2 DEF GraphInit, Nowhere
  <2>4. degree \in [DOMAIN degree -> Nat] /\ DOMAIN degree \in {{}, Known}
    BY DEF GraphInit
  <2> QED BY <1>2, <2>1, <2>2, <2>3, <2>4 DEF GraphInit, GraphTypeOK
<1>5. Rooted
  BY <1>2 DEF Rooted, IsInjective
<1>6. WhileLoading
  <2>1. ASSUME NEW u \in Known, NEW i \in DOMAIN Dependencies(u) PROVE Ahead(u, i)
    <3>1. i \in 1 .. Len(Dependencies(u)) /\ u = Main
      BY <1>2, <1>4, <2>1, UsesFacts
    <3>2. 1 \in DOMAIN stack /\ stack[1].unit = u /\ stack[1].next <= i
      BY <1>3, <3>1
    <3> QED BY <3>2 DEF Ahead
  <2> QED BY <1>2, <1>3, <2>1 DEF WhileLoading
<1> QED BY <1>4, <1>5, <1>6
        DEF GraphInit, GraphInv, Untouched, OnceRead, OnceInjected, WhileSorting, OnceSorted, WhileSearching,
            OnceFound, AfterLoading

\* What was ahead of a frame is ahead of it still, or is the dependency just passed.
LEMMA AheadOfAdvanced ==
  ASSUME Assumed, GraphTypeOK, Waiting, NEW u \in Known, NEW i \in DOMAIN Dependencies(u), Ahead(u, i)
  PROVE  \/ Dependencies(u)[i] = Wanted
         \/ \E k \in 1 .. Len(stack) : Advanced[k].unit = u /\ Advanced[k].next <= i
<1>1. stack # <<>> /\ DOMAIN stack = 1 .. Len(stack) /\ Len(stack) \in Nat \ {0} /\ i \in Nat
      /\ Top = stack[Len(stack)]
  BY TopFacts, UsesFacts DEF Waiting
<1>2. PICK k \in 1 .. Len(stack) : stack[k].unit = u /\ stack[k].next <= i
  BY <1>1 DEF Ahead
<1>3. stack[k].next \in Nat /\ Advanced[k].unit = u
      /\ Advanced[k].next = IF k = Len(stack) THEN stack[k].next + 1 ELSE stack[k].next
  BY <1>1, <1>2, TopFacts, AdvancedFacts
<1>4. CASE k = Len(stack) /\ stack[k].next = i
  BY <1>1, <1>2, <1>4 DEF Wanted
<1>5. CASE ~(k = Len(stack) /\ stack[k].next = i)
  <2> DEFINE a == Advanced[k].next
             b == stack[k].next
  <2>1. b \in Nat /\ b <= i /\ (a = b \/ (b # i /\ a = b + 1))
    BY <1>2, <1>3, <1>5
  <2> HIDE DEF a, b
  <2>2. a <= i
    BY <1>1, <2>1
  <2> QED BY <1>2, <1>3, <2>2 DEF a
<1> QED BY <1>4, <1>5

LEMMA SkipInv == ASSUME Assumed, GraphInv, Skip PROVE GraphInv'
<1> USE DEF GraphInv
<1>1. stack # <<>> /\ stack' = Advanced /\ Known' = Known /\ uses' = uses /\ loaded' = loaded /\ units' = units
      /\ phase = "load" /\ phase' = phase
  BY DEF Skip, Waiting, Known
<1>2. Wanted \in Known
  BY <1>1 DEF Skip, WhileLoading
<1>3. stack' \in Seq(Frames(Known)) /\ stack' # <<>> /\ DOMAIN stack' = 1 .. Len(stack)
  BY <1>1, AdvancedFacts, LenProperties
<1>4. GraphTypeOK'
  BY <1>1, <1>3 DEF Skip, GraphTypeOK, Frames
<1>5. \A u : Dependencies(u)' = Dependencies(u)
  BY <1>1 DEF Dependencies
<1>6. WhileLoading'
  <2>1. ASSUME NEW u \in Known, NEW i \in DOMAIN Dependencies(u)
        PROVE  Dependencies(u)[i] \in Known \/ Ahead(u, i)'
    <3>1. CASE Dependencies(u)[i] \in Known
      BY <3>1
    <3>2. CASE Ahead(u, i)
      <4>1. \/ Dependencies(u)[i] = Wanted
            \/ \E k \in 1 .. Len(stack) : Advanced[k].unit = u /\ Advanced[k].next <= i
        BY <3>2, AheadOfAdvanced DEF Skip
      <4> QED BY <1>1, <1>2, <1>3, <4>1 DEF Ahead
    <3> QED BY <1>1, <2>1, <3>1, <3>2 DEF WhileLoading
  <2>2. \A S : Closed(S)' <=> Closed(S)
    BY <1>1, <1>5 DEF Closed
  <2>3. \A u, v : Uses(u, v)' <=> Uses(u, v)
    BY <1>5 DEF Uses
  <2> QED BY <1>1, <1>3, <1>5, <2>1, <2>2, <2>3 DEF WhileLoading
<1>7. Rooted'
  BY <1>1, <1>5 DEF Rooted, Closed, ClosedToo
<1> QED BY <1>1, <1>4, <1>6, <1>7
        DEF Skip, Untouched, OnceRead, OnceInjected, WhileSorting, OnceSorted, WhileSearching, OnceFound, AfterLoading

LEMMA ReadInv == ASSUME Assumed, GraphInv, Read PROVE GraphInv'
<1> DEFINE w == Wanted
           K == Known \cup {w}
<1> USE DEF GraphInv
<1>1. stack # <<>> /\ phase = "load" /\ phase' = phase /\ loaded = Known /\ loaded' = K
      /\ units' = Append(units, w) /\ stack' = Append(Advanced, Frame(w)) /\ w \notin Known /\ Waiting
  BY DEF Read, Waiting, WhileLoading
<1>2. w \in Units /\ w \in Names /\ Top.unit \in Known /\ Uses(Top.unit, w)
  BY <1>1, WantedFacts DEF Names
<1>3. PICK l \in UseLists : uses' = [u \in K |-> IF u \in Known THEN uses[u] ELSE l]
  BY DEF Read
<1> HIDE DEF w
<1>4. units \in Seq(Names) /\ units # <<>> /\ units[1] = Main /\ IsInjective(units) /\ Known = Range(units)
      /\ Len(units) \in Nat \ {0}
  BY EmptySeq DEF GraphTypeOK, Rooted, Known
<1>5. units' \in Seq(Names) /\ units' # <<>> /\ units'[1] = Main /\ IsInjective(units')
  BY <1>1, <1>2, <1>4, AppendFacts, EmptySeq
<1>6. Known' = K
  BY <1>1, <1>2, <1>4, AppendFacts DEF Known
<1>7. \A u \in Known : uses'[u] = uses[u] /\ Dependencies(u)' = Dependencies(u)
  BY <1>3 DEF Dependencies
<1>8. \A u \in Known : \A v : Uses(u, v)' <=> Uses(u, v)
  BY <1>7 DEF Uses
<1>9. Advanced \in Seq(Frames(K)) /\ Len(Advanced) = Len(stack) /\ Len(stack) \in Nat \ {0}
  BY <1>1, AdvancedFacts, FramesGrow, TopFacts
<1>10. stack' \in Seq(Frames(K)) /\ Len(stack') = Len(stack) + 1 /\ DOMAIN stack' = 1 .. Len(stack) + 1
       /\ stack'[Len(stack) + 1].unit = w /\ stack'[Len(stack) + 1].next = 1 /\ stack' # <<>>
       /\ \A k \in 1 .. Len(stack) : stack'[k] = Advanced[k]
  BY <1>1, <1>9, PushFacts, LenProperties, EmptySeq
<1>11. GraphTypeOK'
  <2>1. uses' \in [K -> UseLists]
    BY <1>1, <1>3 DEF GraphTypeOK
  <2>2. order = <<>> /\ queue = <<>> /\ loaded' \subseteq Units
    BY <1>1, <1>2 DEF Untouched, GraphTypeOK
  <2>3. cycle \in Seq(K)
    BY SeqMonotonic DEF GraphTypeOK
  <2>4. queue \in Seq(K) /\ order \in Seq(K)
    BY SeqMonotonic DEF GraphTypeOK
  <2>5. degree \in [DOMAIN degree -> Nat] /\ DOMAIN degree \in {{}, K}
    BY <1>1 DEF GraphTypeOK, Untouched
  <2> QED BY <1>1, <1>5, <1>6, <1>10, <2>1, <2>2, <2>3, <2>4, <2>5 DEF Read, GraphTypeOK, Frames
<1>12. \A S \in SUBSET Names : Closed(S)' => Closed(S)
  <2>1. SUFFICES ASSUME NEW S \in SUBSET Names, Closed(S)', NEW n \in S \cap Known
                 PROVE  Range(Dependencies(n)) \subseteq S
    BY DEF Closed
  <2>2. n \in S \cap K /\ Range(Dependencies(n)') \subseteq S
    BY <1>6, <2>1 DEF Closed
  <2> QED BY <1>7, <2>2
<1>13. \A S \in SUBSET Names : ClosedToo(S)' => ClosedToo(S)
  BY <1>6, <1>7 DEF ClosedToo
<1>14. \A S \in SUBSET Names : Closed(S)' /\ Known \subseteq S => K \subseteq S
  <2>1. SUFFICES ASSUME NEW S \in SUBSET Names, Closed(S)', Known \subseteq S PROVE w \in S
    OBVIOUS
  <2>2. Range(Dependencies(Top.unit)) \subseteq S
    BY <1>2, <1>12, <2>1 DEF Closed
  <2> QED BY <1>2, <2>2 DEF Uses
<1>15. Rooted'
  BY <1>5, <1>6, <1>12, <1>13, <1>14 DEF Rooted
<1>16. WhileLoading'
  <2>1. ASSUME NEW u \in K \ {Main} PROVE \E v \in K : Uses(v, u)'
    <3>1. \E v \in Known : Uses(v, u)
      BY <1>1, <1>2, <2>1 DEF WhileLoading
    <3> QED BY <1>8, <3>1
  <2>2. \A S \in SUBSET Names : Main \in S /\ Closed(S)' => K \subseteq S
    BY <1>1, <1>12, <1>14 DEF WhileLoading
  <2>3. ASSUME NEW u \in K, NEW i \in DOMAIN (Dependencies(u)') PROVE Dependencies(u)'[i] \in K \/ Ahead(u, i)'
    <3>1. CASE u \in Known
      <4>1. i \in DOMAIN Dependencies(u) /\ Dependencies(u)' = Dependencies(u)
        BY <1>7, <2>3, <3>1
      <4>2. CASE Dependencies(u)[i] \in Known
        BY <4>1, <4>2
      <4>3. CASE Ahead(u, i)
        <5>1. \/ Dependencies(u)[i] = w
              \/ \E k \in 1 .. Len(stack) : Advanced[k].unit = u /\ Advanced[k].next <= i
          BY <1>1, <3>1, <4>1, <4>3, AheadOfAdvanced DEF w
        <5> QED BY <1>9, <1>10, <4>1, <5>1 DEF Ahead
      <4> QED BY <1>1, <3>1, <4>1, <4>2, <4>3 DEF WhileLoading
    <3>2. CASE u = w
      <4>1. i \in 1 .. Len(Dependencies(u)')
        <5>1. uses'[u] \in [imports : Seq(Units), modules : SUBSET Modules]
          BY <1>3, <2>3 DEF Assumed, UseListsAssumption, GraphTypeOK
        <5>2. Dependencies(u)' \in Seq(Units)
          BY <5>1 DEF Dependencies
        <5> QED BY <2>3, <5>2, LenProperties
      <4>2. i >= 1 /\ Len(stack) + 1 \in DOMAIN stack'
        BY <1>9, <1>10, <4>1
      <4> QED BY <1>10, <3>2, <4>2 DEF Ahead
    <3> QED BY <3>1, <3>2
  <2>4. loaded' = K /\ stack' # <<>> /\ phase' = "load"
    BY <1>1, <1>10
  <2> QED BY <1>6, <2>1, <2>2, <2>3, <2>4 DEF WhileLoading
<1> QED BY <1>1, <1>11, <1>15, <1>16
        DEF Read, Untouched, OnceRead, OnceInjected, WhileSorting, OnceSorted, WhileSearching, OnceFound, AfterLoading

LEMMA MissingInv == ASSUME Assumed, GraphInv, Missing PROVE GraphInv'
<1> USE DEF GraphInv
<1>1. phase' = "CE3002" /\ phase = "load" /\ Known' = Known /\ uses' = uses /\ units' = units /\ stack' = <<>>
  BY DEF Missing, Known
<1>2. Wanted \in Units
  BY WantedFacts DEF Missing
<1>3. GraphTypeOK'
  BY <1>1, <1>2 DEF Missing, GraphTypeOK
<1>4. \A u : Dependencies(u)' = Dependencies(u)
  BY <1>1 DEF Dependencies
<1>5. Rooted'
  BY <1>1, <1>4 DEF Rooted, Closed, ClosedToo
<1> QED BY <1>1, <1>3, <1>5
        DEF Untouched, WhileLoading, OnceRead, OnceInjected, WhileSorting, OnceSorted, WhileSearching, OnceFound,
            AfterLoading

LEMMA ReturnInv == ASSUME Assumed, GraphInv, Return PROVE GraphInv'
<1> USE DEF GraphInv
<1>1. phase = "load" /\ Known' = Known /\ uses' = uses /\ units' = units /\ loaded' = loaded /\ stack # <<>>
      /\ stack' = Front(stack) /\ ~Waiting /\ loaded = Known
      /\ phase' = IF Len(stack) = 1 THEN "inject" ELSE "load"
  BY DEF Return, WhileLoading, Known
<1>2. stack' \in Seq(Frames(Known)) /\ Len(stack') = Len(stack) - 1 /\ DOMAIN stack' = 1 .. Len(stack) - 1
      /\ \A k \in 1 .. Len(stack) - 1 : stack'[k] = stack[k]
  BY <1>1, FrontFacts, LenProperties
<1>3. Len(stack) \in Nat \ {0} /\ DOMAIN stack = 1 .. Len(stack) /\ Top = stack[Len(stack)]
  BY <1>1, TopFacts
<1>4. GraphTypeOK'
  BY <1>1, <1>2 DEF Return, GraphTypeOK, Frames, AfterLoading
<1>5. \A u : Dependencies(u)' = Dependencies(u)
  BY <1>1 DEF Dependencies
<1>6. \A u, v : Uses(u, v)' <=> Uses(u, v)
  BY <1>5 DEF Uses
<1>7. \A S : (Closed(S)' <=> Closed(S)) /\ (ClosedToo(S)' <=> ClosedToo(S))
  BY <1>1, <1>5 DEF Closed, ClosedToo
<1>8. ASSUME NEW u \in Known, NEW i \in DOMAIN Dependencies(u), Dependencies(u)[i] \notin Known
      PROVE  \E k \in 1 .. Len(stack) - 1 : stack[k].unit = u /\ stack[k].next <= i
  <2>1. PICK k \in 1 .. Len(stack) : stack[k].unit = u /\ stack[k].next <= i
    BY <1>1, <1>3, <1>8 DEF WhileLoading, Ahead
  <2>2. ASSUME k = Len(stack) PROVE FALSE
    <3>1. i < Top.next /\ Top.next <= i
      BY <1>1, <1>3, <1>8, <2>1, <2>2, NothingWanted
    <3> QED BY <1>1, <1>8, <2>1, <3>1, TopFacts, UsesFacts
  <2>3. k \in 1 .. Len(stack) - 1
    BY <1>3, <2>1, <2>2
  <2> QED BY <2>1, <2>3
<1>9. WhileLoading'
  <2>1. SUFFICES ASSUME Len(stack) # 1 PROVE WhileLoading'
    BY <1>1 DEF WhileLoading
  <2>2. ASSUME NEW u \in Known, NEW i \in DOMAIN Dependencies(u), Dependencies(u)[i] \notin Known PROVE Ahead(u, i)'
    BY <1>2, <1>8, <2>2 DEF Ahead
  <2>3. stack' # <<>>
    BY <1>2, <1>3, <2>1
  <2> QED BY <1>1, <1>5, <1>6, <1>7, <2>2, <2>3 DEF WhileLoading
<1>10. OnceRead'
  <2>1. SUFFICES ASSUME Len(stack) = 1 PROVE OnceRead'
    BY <1>1 DEF OnceRead, AfterLoading
  <2>2. \A u \in Known : \A i \in DOMAIN Dependencies(u) : Dependencies(u)[i] \in Known
    BY <1>8, <2>1
  <2>3. \A u \in Known : \A v : Uses(u, v) => v \in Known
    BY <2>2, UsesFacts
  <2>4. Closed(Known)
    BY <2>3 DEF Closed, Uses
  <2>5. loaded = {Main} \cup UNION {Range(Dependencies(u)) : u \in Known}
    <3>1. ASSUME NEW x \in Known, x # Main PROVE x \in UNION {Range(Dependencies(u)) : u \in Known}
      BY <1>1, <3>1 DEF WhileLoading, Uses
    <3>2. ASSUME NEW x \in UNION {Range(Dependencies(u)) : u \in Known} PROVE x \in Known
      BY <2>3, <3>2 DEF Uses
    <3> QED BY <1>1, <3>1, <3>2, KnownFacts
  <2>6. \A S \in SUBSET Names : Main \in S /\ Closed(S) => Known \subseteq S
    BY <1>1 DEF WhileLoading
  <2> QED BY <1>1, <1>5, <1>6, <1>7, <2>4, <2>5, <2>6 DEF OnceRead
<1>11. Rooted'
  BY <1>1, <1>7 DEF Rooted
<1>12. Untouched'
  <2>1. Len(stack) = 1 => stack' = <<>>
    BY <1>2, EmptySeq
  <2> QED BY <1>1, <2>1 DEF Return, Untouched
<1> QED BY <1>1, <1>4, <1>9, <1>10, <1>11, <1>12
        DEF OnceInjected, WhileSorting, OnceSorted, WhileSearching, OnceFound, AfterLoading

\* What the passes after loading leave as it is.
LEMMA LoadingKept ==
  ASSUME GraphInv, phase \in AfterLoading, phase' \in AfterLoading, UNCHANGED <<uses, units, loaded>>
  PROVE  /\ Rooted' /\ WhileLoading' /\ OnceRead' /\ OnceInjected'
         /\ Known' = Known /\ \A u : Dependencies(u)' = Dependencies(u)
         /\ \A u, v : Uses(u, v)' <=> Uses(u, v)
<1> USE DEF GraphInv
<1>1. Known' = Known /\ (\A u : Dependencies(u)' = Dependencies(u)) /\ uses' = uses /\ units' = units
      /\ loaded' = loaded
  BY DEF Known, Dependencies
<1>2. \A u, v : Uses(u, v)' <=> Uses(u, v)
  BY <1>1 DEF Uses
<1>3. \A S : (Closed(S)' <=> Closed(S)) /\ (ClosedToo(S)' <=> ClosedToo(S))
  BY <1>1 DEF Closed, ClosedToo
<1>4. Rooted'
  BY <1>1, <1>3 DEF Rooted
<1>5. WhileLoading'
  BY DEF WhileLoading, AfterLoading
<1>6. OnceRead'
  BY <1>1, <1>2, <1>3 DEF OnceRead
<1>7. OnceInjected'
  BY <1>1, <1>3 DEF OnceInjected
<1> QED BY <1>1, <1>2, <1>4, <1>5, <1>6, <1>7

LEMMA InjectInv == ASSUME Assumed, GraphInv, Inject PROVE GraphInv'
<1> USE DEF GraphInv
<1>1. phase = "inject" /\ UNCHANGED <<stack, loaded, degree, queue, order, marked, cycle, perk>> /\ loaded' = loaded
  BY DEF Inject
<1>2. CASE Todo = {}
  <2>1. phase' = "symbols" /\ uses' = uses /\ units' = units /\ Known' = Known
        /\ \A u : Dependencies(u)' = Dependencies(u)
    BY <1>2 DEF Inject, Known, Dependencies
  <2>2. \A S : (Closed(S)' <=> Closed(S)) /\ (ClosedToo(S)' <=> ClosedToo(S))
    BY <2>1 DEF Closed, ClosedToo
  <2>3. \A u, v : Uses(u, v)' <=> Uses(u, v)
    BY <2>1 DEF Uses
  <2>4. ClosedToo(Known)
    BY <1>2 DEF Todo, Needed, ClosedToo
  <2>5. GraphTypeOK'
    BY <1>1, <2>1 DEF GraphTypeOK, AfterLoading
  <2>6. Rooted'
    BY <2>1, <2>2 DEF Rooted
  <2>7. OnceRead'
    BY <1>1, <2>1, <2>2, <2>3 DEF OnceRead
  <2>8. OnceInjected'
    BY <2>1, <2>2, <2>4 DEF OnceInjected
  <2> QED BY <1>1, <2>1, <2>5, <2>6, <2>7, <2>8
          DEF Untouched, WhileLoading, WhileSorting, OnceSorted, WhileSearching, OnceFound
<1>3. CASE Todo # {}
  <2> DEFINE K == Known \cup Todo
  <2>1. phase' = phase
    BY <1>3 DEF Inject
  <2>2. PICK listed \in SetToSeqs(Todo) : units' = units \o listed
    BY <1>3 DEF Inject
  <2>3. PICK text \in [Todo -> {l \in UseLists : l.imports = <<>>}] :
           uses' = [u \in K |-> IF u \in Known THEN uses[u] ELSE text[u]]
    BY <1>3 DEF Inject
  <2>4. Todo \subseteq Modules /\ Todo \subseteq Names /\ Todo \cap Known = {} /\ IsFiniteSet(Todo)
    <3>1. Todo \subseteq Modules
      BY UsesFacts DEF Todo, Needed
    <3> QED BY <3>1, FS_Subset DEF Todo, Assumed, ModulesAssumption, Names
  <2>5. listed \in Seq(Names) /\ IsInjective(listed) /\ Range(listed) = Todo
    <3>1. listed \in Seq(Todo) /\ IsInjective(listed) /\ Range(listed) = Todo
      BY <2>4, ListingFacts
    <3> QED BY <2>4, <3>1, SeqMonotonic
  <2>6. units \in Seq(Names) /\ units # <<>> /\ units[1] = Main /\ IsInjective(units) /\ Known = Range(units)
        /\ Len(units) \in Nat \ {0}
    BY EmptySeq DEF GraphTypeOK, Rooted, Known
  <2>7. units' \in Seq(Names) /\ units'[1] = Main /\ IsInjective(units') /\ Range(units') = K
        /\ Len(units') = Len(units) + Len(listed)
    BY <2>2, <2>4, <2>5, <2>6, ConcatFacts
  <2>8. Known' = K /\ units' # <<>>
    <3>1. Len(listed) \in Nat
      BY <2>5, LenProperties
    <3>2. Len(units') # 0
      BY <2>6, <2>7, <3>1
    <3> QED BY <2>7, <3>2, EmptySeq DEF Known
  <2> HIDE DEF K
  <2>9. \A u \in Known : uses'[u] = uses[u] /\ Dependencies(u)' = Dependencies(u)
    BY <2>3 DEF Dependencies, K
  <2>10. \A u \in Todo : uses'[u] \in UseLists /\ Dependencies(u)' = <<>>
    BY <2>3, <2>4 DEF Dependencies, K
  <2>11. \A u \in Todo : Range(Dependencies(u)') = {}
    BY <2>10, EmptyRange
  <2>12. uses' \in [K -> UseLists]
    BY <2>3 DEF K, GraphTypeOK
  <2>13. GraphTypeOK'
    <3>1. stack = <<>> /\ queue = <<>> /\ order = <<>> /\ degree = <<>>
      BY <1>1 DEF Untouched
    <3>2. cycle \in Seq(K)
      BY SeqMonotonic DEF GraphTypeOK, K
    <3>3. marked \subseteq K
      BY DEF GraphTypeOK, K
    <3> QED BY <1>1, <2>1, <2>7, <2>8, <2>12, <3>1, <3>2, <3>3 DEF GraphTypeOK
  <2>14. \A S : Closed(S)' => Closed(S)
    BY <2>8, <2>9 DEF Closed, K
  <2>15. \A S : ClosedToo(S)' => ClosedToo(S)
    BY <2>8, <2>9 DEF ClosedToo, K
  <2>16. Rooted'
    <3>1. ASSUME NEW S \in SUBSET Names, Main \in S, Closed(S)', ClosedToo(S)' PROVE K \subseteq S
      <4>1. Known \subseteq S /\ ClosedToo(S)
        BY <2>14, <2>15, <3>1 DEF Rooted
      <4>2. Needed \subseteq S
        BY <4>1 DEF Needed, ClosedToo
      <4> QED BY <4>1, <4>2 DEF Todo, K
    <3> QED BY <2>7, <2>8, <3>1 DEF Rooted
  <2>17. OnceRead'
    <3>1. Closed(Known) /\ loaded = {Main} \cup UNION {Range(Dependencies(u)) : u \in Known}
      BY <1>1 DEF OnceRead
    <3>2. \A u \in K : Range(Dependencies(u)') \subseteq K
      BY <2>9, <2>11, <3>1 DEF K, Closed
    <3>3. UNION {Range(Dependencies(u)') : u \in K} = UNION {Range(Dependencies(u)) : u \in Known}
      BY <2>9, <2>11 DEF K
    <3>4. ASSUME NEW S \in SUBSET Names, Main \in S, Closed(S)', NEW u \in K, NEW v \in K, Uses(u, v)' PROVE u \in S
      <4>1. u \in Known /\ Uses(u, v)
        BY <2>9, <2>11, <3>4 DEF Uses, K
      <4>2. v \in Known
        BY <3>1, <4>1 DEF Closed, Uses
      <4> QED BY <1>1, <2>14, <3>4, <4>1, <4>2 DEF OnceRead
    <3>5. Closed(Known)'
      BY <2>8, <3>2 DEF Closed
    <3>6. (loaded = {Main} \cup UNION {Range(Dependencies(u)) : u \in Known})'
      BY <1>1, <2>8, <3>1, <3>3
    <3> QED BY <2>8, <3>4, <3>5, <3>6 DEF OnceRead
  <2> QED BY <1>1, <2>1, <2>13, <2>16, <2>17
          DEF Untouched, WhileLoading, OnceInjected, WhileSorting, OnceSorted, WhileSearching, OnceFound, AfterLoading
<1> QED BY <1>2, <1>3

-----------------------------------------------------------------------------
(* Sorting. *)

LEMMA StatementFacts ==
  ASSUME Assumed, GraphInv, NEW u
  PROVE  /\ IsFiniteSet(Statements(u))
         /\ \A p \in Statements(u) : p = <<p[1], p[2]>> /\ p[1] \in Known /\ p[2] \in DOMAIN Dependencies(p[1])
                                        /\ p[2] \in Nat /\ Uses(p[1], u) /\ Dependencies(p[1])[p[2]] = u
         /\ \A v \in Known : \A i \in DOMAIN Dependencies(v) : Dependencies(v)[i] = u => <<v, i>> \in Statements(u)
         /\ Statements(u) = {} <=> \A v \in Known : ~Uses(v, u)
<1> USE DEF GraphInv
<1> DEFINE In(v) == {<<v, i>> : i \in {k \in DOMAIN Dependencies(v) : Dependencies(v)[k] = u}}
<1>1. Statements(u) = UNION {In(v) : v \in Known}
  BY DEF Statements
<1>2. ASSUME NEW v \in Known PROVE IsFiniteSet(In(v))
  <2>1. Len(Dependencies(v)) \in Nat /\ DOMAIN Dependencies(v) = 1 .. Len(Dependencies(v))
    BY UsesFacts, LenProperties
  <2>2. IsFiniteSet({v})
    BY FS_Singleton
  <2>3. IsFiniteSet(1 .. Len(Dependencies(v)))
    <3>1. 1 \in Int /\ Len(Dependencies(v)) \in Int
      BY <2>1
    <3> QED BY <3>1, FS_Interval
  <2>4. IsFiniteSet({v} \X (1 .. Len(Dependencies(v))))
    BY <2>2, <2>3, FS_Product
  <2>5. In(v) \in SUBSET ({v} \X (1 .. Len(Dependencies(v))))
    BY <2>1
  <2> QED BY <2>4, <2>5, FS_Subset
<1>3. IsFiniteSet({In(v) : v \in Known})
  <2> DEFINE f == [v \in Known |-> In(v)]
  <2>1. f \in Surjection(Known, {In(v) : v \in Known})
    BY DEF Surjection
  <2> QED BY <2>1, KnownFacts, FS_Surjection
<1>4. IsFiniteSet(Statements(u))
  <2> HIDE DEF In
  <2>1. \A T \in {In(v) : v \in Known} : IsFiniteSet(T)
    BY <1>2
  <2> QED BY <1>1, <1>3, <2>1, FS_UNION
<1>5. ASSUME NEW p \in Statements(u)
      PROVE  p = <<p[1], p[2]>> /\ p[1] \in Known /\ p[2] \in DOMAIN Dependencies(p[1])
             /\ Dependencies(p[1])[p[2]] = u
  BY <1>1, <1>5
<1>6. ASSUME NEW p \in Statements(u) PROVE p[2] \in Nat /\ Uses(p[1], u)
  <2>1. p[2] \in 1 .. Len(Dependencies(p[1])) /\ Len(Dependencies(p[1])) \in Nat
    BY <1>5, <1>6, UsesFacts, LenProperties
  <2> QED BY <1>5, <1>6, <2>1, UsesFacts
<1>7. ASSUME NEW v \in Known, NEW i \in DOMAIN Dependencies(v), Dependencies(v)[i] = u
      PROVE  <<v, i>> \in Statements(u)
  BY <1>1, <1>7
<1>8. ASSUME NEW v \in Known, Uses(v, u) PROVE Statements(u) # {}
  BY <1>7, <1>8, UsesFacts
<1> QED BY <1>4, <1>5, <1>6, <1>7, <1>8

LEMMA StatementsKept ==
  ASSUME UNCHANGED <<uses, units>>, NEW u
  PROVE  Statements(u)' = Statements(u)
<1>1. uses' = uses /\ Known' = Known
  BY DEF Known
<1> QED BY <1>1 DEF Statements, Dependencies

LEMMA SymbolsInv == ASSUME Assumed, GraphInv, Symbols PROVE GraphInv'
<1> USE DEF GraphInv
<1>1. phase = "symbols" /\ UNCHANGED <<uses, stack, loaded, units, order, marked, cycle, perk>>
      /\ phase' \in {"CE3003", "sort"} /\ phase' \in AfterLoading /\ phase \in AfterLoading
      /\ stack = <<>> /\ order = <<>> /\ queue = <<>> /\ degree = <<>> /\ marked = {}
  BY DEF Symbols, AfterLoading, Untouched
<1>2. Rooted' /\ WhileLoading' /\ OnceRead' /\ OnceInjected' /\ Known' = Known /\ units' = units /\ uses' = uses
      /\ \A u, v : Uses(u, v)' <=> Uses(u, v)
  BY <1>1, LoadingKept
<1>3. CASE phase' = "CE3003"
  <2>1. queue' = queue /\ degree' = degree
    BY <1>3 DEF Symbols
  <2>2. GraphTypeOK'
    BY <1>1, <1>2, <2>1 DEF GraphTypeOK
  <2> QED BY <1>2, <1>3, <2>2 DEF Untouched, WhileSorting, OnceSorted, WhileSearching, OnceFound
<1>4. CASE phase' = "sort"
  <2> DEFINE Free == {u \in Known : Importers(u) = 0}
  <2>1. degree' = [u \in Known |-> Importers(u)] /\ queue' \in Listed(Free)
    BY <1>4 DEF Symbols
  <2>2. \A u \in Known : Importers(u) \in Nat
    BY StatementFacts, FS_CardinalityType DEF Importers
  <2>3. queue' \in Seq(Free) /\ IsInjective(queue') /\ Range(queue') = Free
    <3>1. IsFiniteSet(Free) /\ queue' \in SetToSeqs(Free)
      BY <2>1, KnownFacts, FS_Subset DEF Listed
    <3> QED BY <3>1, ListingFacts
  <2>4. queue' \in Seq(Known)
    BY <2>3, SeqMonotonic
  <2>5. GraphTypeOK'
    <3>1. degree' \in [Known -> Nat]
      BY <2>1, <2>2
    <3> QED BY <1>1, <1>2, <1>4, <2>4, <3>1 DEF GraphTypeOK
  <2>6. \A u \in Known : Pending(u)' = Statements(u)
    <3>1. SUFFICES ASSUME NEW u \in Known PROVE Pending(u)' = Statements(u)
      OBVIOUS
    <3>2. Range(order') = {} /\ Statements(u)' = Statements(u)
      BY <1>1, EmptyRange, StatementsKept
    <3> QED BY <3>2 DEF Pending
  <2>7. Leads'
    <3>1. SUFFICES ASSUME \A v \in Known : ~Uses(v, Main) PROVE queue' # <<>> /\ Head(queue') = Main
      BY <1>1, <1>2 DEF Leads
    <3>2. Statements(Main) = {} /\ Main \in Known
      BY <3>1, StatementFacts, KnownFacts
    <3>3. Main \in Free
      BY <3>2, FS_EmptySet DEF Importers
    <3>4. PICK j \in 1 .. Len(queue') : queue'[j] = Main
      BY <2>3, <3>3, RangeFacts
    <3>5. queue' # <<>> /\ Len(queue') \in Nat /\ 1 \in DOMAIN queue' /\ j \in DOMAIN queue' /\ queue'[1] \in Known
          /\ Head(queue') = queue'[1]
      <4>1. Len(queue') \in Nat /\ Len(queue') >= 1 /\ DOMAIN queue' = 1 .. Len(queue')
        BY <2>4, <3>4, LenProperties
      <4> QED BY <2>4, <3>4, <4>1, RangeFacts, TailFacts, EmptySeq
    <3>6. \A u \in Known : Place(u) \in DOMAIN units /\ units[Place(u)] = u
      BY DEF Place, Known, Range
    <3>7. DOMAIN units = 1 .. Len(units) /\ Len(units) \in Nat \ {0} /\ units[1] = Main /\ IsInjective(units)
      BY LenProperties, EmptySeq DEF GraphTypeOK, Rooted
    <3>8. Place(Main) = 1
      BY <3>2, <3>6, <3>7 DEF IsInjective
    <3>9. Place(queue'[1]) \in Nat /\ Place(queue'[1]) >= 1
      BY <3>5, <3>6, <3>7
    <3>10. ~(1 < j)
      <4>1. 1 < j => Place(queue'[1]) < Place(queue'[j])
        BY <2>1, <3>5 DEF Listed
      <4> QED BY <3>4, <3>8, <3>9, <4>1
    <3> QED BY <3>4, <3>5, <3>10
  <2>8. \A u \in Known : degree'[u] = 0 <=> u \in Range(order') \cup Range(queue')
    BY <1>1, <2>1, <2>3, EmptyRange
  <2>9. \A u \in Known : degree'[u] = Cardinality(Pending(u)')
    BY <2>1, <2>6 DEF Importers
  <2>10. Ordered'
    BY <1>1, EmptyRange DEF Ordered
  <2>11. WhileSorting'
    <3>1. Len(stack') <= 1 /\ stack' = <<>> /\ DOMAIN degree' = Known
      BY <1>1, <2>1
    <3>2. Range(order') \cap Range(queue') = {}
      BY <1>1, EmptyRange
    <3> QED BY <1>2, <2>3, <2>7, <2>8, <2>9, <2>10, <3>1, <3>2 DEF WhileSorting
  <2> QED BY <1>1, <1>2, <1>4, <2>5, <2>11 DEF Untouched, OnceSorted, WhileSearching, OnceFound
<1> QED BY <1>1, <1>3, <1>4

LEMMA TakeNextInv == ASSUME Assumed, GraphInv, TakeNext PROVE GraphInv'
<1> DEFINE u == Head(queue)
<1> USE DEF GraphInv
<1>1. phase = "sort" /\ phase' = "sort" /\ ~Waiting /\ order' = Append(order, u) /\ queue' = Tail(queue)
      /\ stack' = <<Frame(u)>> /\ UNCHANGED <<uses, loaded, units, degree, marked, cycle, perk>>
      /\ queue # <<>> /\ marked = {} /\ queue \in Seq(Known) /\ order \in Seq(Known)
  BY DEF TakeNext, Untouched, GraphTypeOK
<1>2. Rooted' /\ WhileLoading' /\ OnceRead' /\ OnceInjected' /\ Known' = Known
      /\ (\A v : Dependencies(v)' = Dependencies(v)) /\ \A v, w : Uses(v, w)' <=> Uses(v, w)
  BY <1>1, LoadingKept DEF AfterLoading
<1>3. queue' \in Seq(Known) /\ Range(queue) = {u} \cup Range(queue') /\ u \in Known /\ u \in Range(queue)
  BY <1>1, TailFacts, RangeFacts
<1>4. IsInjective(queue) /\ Range(order) \cap Range(queue) = {} /\ Ordered /\ Leads /\ DOMAIN degree = Known
      /\ (\A v \in Known : degree[v] = Cardinality(Pending(v)))
      /\ (\A v \in Known : degree[v] = 0 <=> v \in Range(order) \cup Range(queue))
  BY <1>1 DEF WhileSorting
<1>5. IsInjective(queue') /\ u \notin Range(queue') /\ u \notin Range(order)
  BY <1>1, <1>3, <1>4, TailFacts
<1>6. order' \in Seq(Known) /\ Range(order') = Range(order) \cup {u} /\ IsInjective(order')
      /\ Len(order') = Len(order) + 1 /\ order'[Len(order) + 1] = u /\ Len(order) \in Nat
      /\ \A i \in 1 .. Len(order) : order'[i] = order[i]
  BY <1>1, <1>3, <1>4, <1>5, AppendFacts, RangeFacts DEF Ordered
<1>7. Frame(u) \in Frames(Known) /\ Frame(u).unit = u /\ Frame(u).next = 1
  BY <1>3 DEF Frame, Frames
<1>8. stack' \in Seq(Frames(Known)) /\ Len(stack') = 1 /\ stack' # <<>> /\ Top' = Frame(u)
  BY <1>1, <1>7 DEF Top, Last
<1>9. GraphTypeOK'
  BY <1>1, <1>2, <1>3, <1>6, <1>8 DEF GraphTypeOK, Frames
<1>10. \A x : \A p \in Statements(x) : ~(stack # <<>> /\ p[1] = Top.unit /\ p[2] >= Top.next)
  <2>1. SUFFICES ASSUME NEW x, NEW p \in Statements(x), stack # <<>>, p[1] = Top.unit PROVE ~(p[2] >= Top.next)
    OBVIOUS
  <2>2. p[2] < Top.next /\ p[2] \in Nat /\ Top.next \in Nat
    <3>1. p[2] \in DOMAIN Dependencies(Top.unit) /\ p[2] \in Nat
      BY <2>1, StatementFacts
    <3>2. Top.next \in Nat
      BY <2>1, TopFacts
    <3> QED BY <1>1, <2>1, <3>1, <3>2, NothingWanted
  <2> QED BY <2>2
<1>11. \A x : Pending(x) = {p \in Statements(x) : p[1] \notin Range(order)}
  BY <1>10 DEF Pending
<1>12. \A x : Pending(x)' = Pending(x)
  <2>1. SUFFICES ASSUME NEW x PROVE Pending(x)' = Pending(x)
    OBVIOUS
  <2>2. Statements(x)' = Statements(x)
    BY <1>1, StatementsKept
  <2>3. ASSUME NEW p \in Statements(x)
        PROVE  (p[1] \notin Range(order') \/ (stack' # <<>> /\ p[1] = Top'.unit /\ p[2] >= Top'.next))
                 <=> p[1] \notin Range(order)
    <3>1. p[2] \in Nat /\ p[2] \in DOMAIN Dependencies(p[1]) /\ p[1] \in Known
      BY StatementFacts
    <3>2. p[2] >= 1
      BY <3>1, UsesFacts
    <3> QED BY <1>5, <1>6, <1>7, <1>8, <3>2
  <2>4. Pending(x)' = {p \in Statements(x) :
                          p[1] \notin Range(order') \/ (stack' # <<>> /\ p[1] = Top'.unit /\ p[2] >= Top'.next)}
    BY <2>2 DEF Pending
  <2> QED BY <1>11, <2>3, <2>4
<1>13. \A v \in Known : Uses(v, u) => v \in Range(order)
  <2>1. SUFFICES ASSUME NEW v \in Known, Uses(v, u), v \notin Range(order) PROVE FALSE
    OBVIOUS
  <2>2. PICK i \in DOMAIN Dependencies(v) : Dependencies(v)[i] = u
    BY <2>1, UsesFacts
  <2>3. <<v, i>> \in Pending(u)
    BY <1>11, <2>1, <2>2, StatementFacts
  <2>4. Cardinality(Pending(u)) = 0
    BY <1>3, <1>4
  <2>5. IsFiniteSet(Pending(u))
    BY StatementFacts, FS_Subset DEF Pending
  <2> QED BY <2>3, <2>4, <2>5, FS_EmptySet
<1>14. Ordered'
  <2>1. SUFFICES ASSUME NEW i \in 1 .. Len(order) + 1, NEW v \in Known, Uses(v, order'[i])
                 PROVE  \E j \in 1 .. Len(order) + 1 : j < i /\ order'[j] = v
    BY <1>2, <1>6, RangeFacts DEF Ordered
  <2>2. CASE i \in 1 .. Len(order)
    <3>1. PICK j \in 1 .. Len(order) : j < i /\ order[j] = v
      BY <1>1, <1>4, <1>6, <2>1, <2>2, RangeFacts DEF Ordered
    <3> QED BY <1>6, <3>1
  <2>3. CASE i = Len(order) + 1
    <3>1. v \in Range(order)
      BY <1>6, <1>13, <2>1, <2>3
    <3>2. PICK j \in 1 .. Len(order) : order[j] = v
      BY <1>1, <3>1, RangeFacts
    <3> QED BY <1>6, <2>3, <3>2
  <2> QED BY <1>6, <2>2, <2>3
<1>15. Leads'
  <2>1. SUFFICES ASSUME \A v \in Known : ~Uses(v, Main) PROVE order' # <<>> /\ order'[1] = Main
    BY <1>2 DEF Leads
  <2>2. order' # <<>>
    BY <1>6, EmptySeq
  <2>3. CASE order = <<>>
    BY <1>4, <1>6, <2>1, <2>2, <2>3, EmptySeq DEF Leads
  <2>4. CASE order # <<>>
    <3>1. order[1] = Main /\ 1 \in 1 .. Len(order)
      BY <1>1, <1>4, <2>1, <2>4, EmptySeq DEF Leads
    <3> QED BY <1>6, <2>2, <3>1
  <2> QED BY <2>3, <2>4
<1>16. WhileSorting'
  <2>1. Top'.unit \in Range(order')
    BY <1>6, <1>7, <1>8
  <2>2. Range(order') \cap Range(queue') = {} /\ Range(order') \cup Range(queue') = Range(order) \cup Range(queue)
    BY <1>3, <1>4, <1>5, <1>6
  <2>3. \A v \in Known : degree'[v] = Cardinality(Pending(v)')
    BY <1>1, <1>4, <1>12
  <2>4. \A v \in Known : degree'[v] = 0 <=> v \in Range(order') \cup Range(queue')
    BY <1>1, <1>4, <2>2
  <2>5. DOMAIN degree' = Known /\ Len(stack') <= 1
    BY <1>1, <1>4, <1>8
  <2> QED BY <1>2, <1>5, <1>14, <1>15, <2>1, <2>2, <2>3, <2>4, <2>5 DEF WhileSorting
<1> QED BY <1>1, <1>2, <1>9, <1>16 DEF Untouched, OnceSorted, WhileSearching, OnceFound

LEMMA ReleaseInv == ASSUME Assumed, GraphInv, Release PROVE GraphInv'
<1> USE DEF GraphInv
<1>0. PICK u, i, w : u = Top.unit /\ i = Top.next /\ w = Wanted
  OBVIOUS
<1>1. phase = "sort" /\ phase' = "sort" /\ Waiting /\ stack' = Advanced /\ stack # <<>>
      /\ degree' = [degree EXCEPT ![w] = @ - 1]
      /\ queue' = (IF degree[w] = 1 THEN Append(queue, w) ELSE queue)
      /\ UNCHANGED <<uses, loaded, units, order, marked, cycle, perk>>
      /\ marked = {} /\ queue \in Seq(Known) /\ order \in Seq(Known) /\ phase \in AfterLoading
  BY <1>0 DEF Release, Waiting, Untouched, GraphTypeOK, AfterLoading
<1>2. Rooted' /\ WhileLoading' /\ OnceRead' /\ OnceInjected' /\ Known' = Known
      /\ (\A v : Dependencies(v)' = Dependencies(v)) /\ \A x, y : Uses(x, y)' <=> Uses(x, y)
  BY <1>1, LoadingKept
<1>3. u \in Known /\ i \in DOMAIN Dependencies(u) /\ Uses(u, w) /\ w = Dependencies(u)[i]
  BY <1>0, <1>1, WantedFacts DEF Wanted
<1>4. w \in Known
  BY <1>1, <1>3 DEF OnceRead, Closed, Uses
<1>5. Len(stack) = 1 /\ Top = stack[1] /\ u \in Range(order) /\ i \in Nat \ {0}
  BY <1>0, <1>1, TopFacts DEF WhileSorting
<1>6. stack' \in Seq(Frames(Known)) /\ stack' # <<>> /\ Len(stack') = 1 /\ Top'.unit = u /\ Top'.next = i + 1
  <2>1. stack' \in Seq(Frames(Known)) /\ stack' # <<>> /\ Len(stack') = 1
        /\ stack'[1].unit = stack[1].unit /\ stack'[1].next = stack[1].next + 1
    BY <1>1, <1>5, AdvancedFacts
  <2>2. Top' = stack'[1]
    BY <2>1 DEF Top, Last
  <2> QED BY <1>0, <1>5, <2>1, <2>2
<1>7. IsInjective(queue) /\ Range(order) \cap Range(queue) = {} /\ Ordered /\ Leads /\ DOMAIN degree = Known
      /\ (\A v \in Known : degree[v] = Cardinality(Pending(v)))
      /\ (\A v \in Known : degree[v] = 0 <=> v \in Range(order) \cup Range(queue))
  BY <1>1 DEF WhileSorting
<1>8. \A x : Pending(x) = {p \in Statements(x) : p[1] \notin Range(order) \/ (p[1] = u /\ p[2] >= i)}
  BY <1>0, <1>1 DEF Pending
<1>9. ASSUME NEW x PROVE Pending(x)' = Pending(x) \ {<<u, i>>}
  <2>1. Statements(x)' = Statements(x)
    BY <1>1, StatementsKept
  <2>2. Pending(x)' = {p \in Statements(x) : p[1] \notin Range(order) \/ (p[1] = u /\ p[2] >= i + 1)}
    BY <1>1, <1>6, <2>1 DEF Pending
  <2>3. ASSUME NEW p \in Statements(x)
        PROVE  (p[1] \notin Range(order) \/ (p[1] = u /\ p[2] >= i + 1))
                 <=> (p[1] \notin Range(order) \/ (p[1] = u /\ p[2] >= i)) /\ p # <<u, i>>
    <3>1. p[2] \in Nat /\ p = <<p[1], p[2]>>
      BY StatementFacts
    <3>2. p[2] >= i + 1 <=> p[2] >= i /\ p[2] # i
      BY <1>5, <3>1
    <3> QED BY <1>5, <3>1, <3>2
  <2> QED BY <1>8, <2>2, <2>3
<1>10. ASSUME NEW x \in Known PROVE IsFiniteSet(Pending(x)) /\ degree[x] \in Nat
  <2>1. IsFiniteSet(Pending(x))
    BY StatementFacts, FS_Subset DEF Pending
  <2> QED BY <1>7, <2>1, FS_CardinalityType
<1>11. <<u, i>> \in Pending(w)
  <2>1. <<u, i>> \in Statements(w)
    BY <1>3, StatementFacts
  <2> QED BY <1>5, <1>8, <2>1
<1>12. ASSUME NEW x \in Known, x # w PROVE <<u, i>> \notin Pending(x)
  <2>1. SUFFICES ASSUME <<u, i>> \in Statements(x) PROVE FALSE
    BY DEF Pending
  <2>2. Dependencies(u)[i] = x
    BY <2>1, StatementFacts
  <2> QED BY <1>3, <1>12, <2>2
<1>13. degree[w] \in Nat \ {0} /\ Cardinality(Pending(w)') = degree[w] - 1
  <2>1. Cardinality(Pending(w) \ {<<u, i>>}) = Cardinality(Pending(w)) - 1
    BY <1>4, <1>10, <1>11, FS_RemoveElement
  <2>2. Cardinality(Pending(w)) # 0
    BY <1>4, <1>10, <1>11, FS_EmptySet
  <2> QED BY <1>4, <1>7, <1>9, <1>10, <2>1, <2>2
<1>14. ASSUME NEW x \in Known, x # w PROVE Pending(x)' = Pending(x)
  BY <1>9, <1>12, <1>14
<1>15. degree' \in [Known -> Nat] /\ DOMAIN degree' = Known /\ degree'[w] = degree[w] - 1
       /\ \A x \in Known : x # w => degree'[x] = degree[x]
  <2>1. degree \in [Known -> Nat]
    BY <1>7 DEF GraphTypeOK
  <2> QED BY <1>1, <1>4, <1>13, <2>1
<1>16. \A x \in Known : degree'[x] = Cardinality(Pending(x)')
  BY <1>7, <1>13, <1>14, <1>15
<1>17. w \notin Range(order) \cup Range(queue)
  BY <1>4, <1>7, <1>13
<1>18. queue' \in Seq(Known) /\ IsInjective(queue')
       /\ Range(queue') = IF degree[w] = 1 THEN Range(queue) \cup {w} ELSE Range(queue)
  <2>1. CASE degree[w] = 1
    BY <1>1, <1>4, <1>7, <1>17, <2>1, AppendFacts
  <2>2. CASE degree[w] # 1
    BY <1>1, <1>7, <2>2
  <2> QED BY <2>1, <2>2
<1>19. Range(order) \cap Range(queue') = {}
  BY <1>7, <1>17, <1>18
<1>20. \A x \in Known : degree'[x] = 0 <=> x \in Range(order) \cup Range(queue')
  <2>1. SUFFICES ASSUME NEW x \in Known PROVE degree'[x] = 0 <=> x \in Range(order) \cup Range(queue')
    OBVIOUS
  <2>2. CASE x = w
    <3>1. degree'[w] = 0 <=> degree[w] = 1
      BY <1>13, <1>15
    <3> QED BY <1>17, <1>18, <2>2, <3>1
  <2>3. CASE x # w
    BY <1>7, <1>15, <1>18, <2>1, <2>3
  <2> QED BY <2>2, <2>3
<1>21. GraphTypeOK'
  BY <1>1, <1>2, <1>6, <1>15, <1>18 DEF GraphTypeOK, Frames
<1>22. Ordered'
  BY <1>1, <1>2, <1>7 DEF Ordered
<1>23. Leads'
  <2>1. order # <<>>
    BY <1>5, EmptyRange
  <2> QED BY <1>1, <1>2, <1>7, <2>1 DEF Leads
<1>24. WhileSorting'
  <2>1. order' = order /\ Len(stack') <= 1 /\ Top'.unit \in Range(order')
    BY <1>1, <1>5, <1>6
  <2> QED BY <1>2, <1>15, <1>16, <1>18, <1>19, <1>20, <1>22, <1>23, <2>1 DEF WhileSorting
<1> QED BY <1>1, <1>2, <1>21, <1>24 DEF Untouched, OnceSorted, WhileSearching, OnceFound

LEMMA SortedInv == ASSUME Assumed, GraphInv, Sorted PROVE GraphInv'
<1> USE DEF GraphInv
<1>1. phase = "sort" /\ ~Waiting /\ queue = <<>> /\ stack' = <<>> /\ marked = {} /\ order \in Seq(Known)
      /\ phase' = (IF Len(order) = Len(units) THEN "collect" ELSE "search")
      /\ UNCHANGED <<uses, loaded, units, degree, queue, order, marked, cycle, perk>>
  BY DEF Sorted, Untouched, GraphTypeOK
<1>2. Rooted' /\ WhileLoading' /\ OnceRead' /\ OnceInjected' /\ Known' = Known
      /\ (\A v : Dependencies(v)' = Dependencies(v)) /\ \A x, y : Uses(x, y)' <=> Uses(x, y)
  BY <1>1, LoadingKept DEF AfterLoading
<1>3. Ordered /\ Leads /\ (\A v \in Known : degree[v] = Cardinality(Pending(v)))
      /\ (\A v \in Known : degree[v] = 0 <=> v \in Range(order) \cup Range(queue))
  BY <1>1 DEF WhileSorting
<1>4. GraphTypeOK'
  BY <1>1, <1>2 DEF GraphTypeOK, AfterLoading
<1>5. CASE Len(order) = Len(units)
  <2>1. Ordered' /\ Leads'
    BY <1>1, <1>2, <1>3 DEF Ordered, Leads
  <2> QED BY <1>1, <1>2, <1>4, <1>5, <2>1 DEF Untouched, WhileSorting, OnceSorted, WhileSearching, OnceFound
<1>6. CASE Len(order) # Len(units)
  <2>0. PICK R : R = Known \ Range(order)
    OBVIOUS
  <2>1. R # {}
    <3>1. Range(order) \subseteq Known /\ Cardinality(Range(order)) = Len(order) /\ Cardinality(Known) = Len(units)
      BY <1>1, <1>3, RangeFacts, CountOnce, KnownFacts DEF Ordered
    <3>2. R = {} => Range(order) = Known
      BY <2>0, <3>1
    <3> QED BY <1>6, <3>1, <3>2
  <2>2. ASSUME NEW u \in R PROVE \E v \in R : Uses(v, u)
    <3>1. degree[u] # 0
      BY <1>1, <1>3, <2>0, EmptyRange
    <3>2. IsFiniteSet(Pending(u))
      BY StatementFacts, FS_Subset DEF Pending
    <3>3. PICK p \in Pending(u) : TRUE
      BY <1>3, <2>0, <3>1, <3>2, FS_EmptySet
    <3>4. p \in Statements(u)
      BY DEF Pending
    <3>5. p[1] \in Known /\ Uses(p[1], u) /\ p[2] \in DOMAIN Dependencies(p[1]) /\ p[2] \in Nat
      BY <3>4, StatementFacts
    <3>6. p[1] \notin Range(order)
      <4>1. SUFFICES ASSUME stack # <<>>, p[1] = Top.unit, p[2] >= Top.next PROVE FALSE
        BY DEF Pending
      <4>2. p[2] < Top.next /\ Top.next \in Nat
        BY <1>1, <3>5, <4>1, NothingWanted, TopFacts
      <4> QED BY <3>5, <4>1, <4>2
    <3> QED BY <2>0, <3>5, <3>6
  <2>3. Knotted(R)'
    BY <1>2, <2>2 DEF Knotted
  <2>4. OnPath' = {} /\ Finished' = {} /\ stack' = <<>> /\ Len(stack') = 0 /\ DOMAIN stack' = {} /\ marked' = {}
    BY <1>1 DEF OnPath, Finished
  <2>5. WhileSearching'
    <3>1. \E S \in SUBSET Known : S # {} /\ Knotted(S)'
      BY <2>0, <2>1, <2>3
    <3>2. 1 .. Len(stack') - 1 = {}
      BY <2>4
    <3> QED BY <1>2, <2>4, <3>1, <3>2 DEF WhileSearching
  <2> QED BY <1>1, <1>2, <1>4, <1>6, <2>5 DEF Untouched, WhileSorting, OnceSorted, OnceFound
<1> QED BY <1>5, <1>6

-----------------------------------------------------------------------------
(* The search. *)

\* What the steps of the search leave as it is.
LEMMA SearchKept ==
  ASSUME Assumed, GraphInv, Searching, phase' \in {"search", "CE3001"},
         stack' \in Seq(Frames(Known)), marked' \subseteq Known, cycle' \in Seq(Known)
  PROVE  /\ GraphTypeOK' /\ Untouched' /\ Rooted' /\ WhileLoading' /\ OnceRead' /\ OnceInjected'
         /\ WhileSorting' /\ OnceSorted'
         /\ Known' = Known /\ (\A u : Dependencies(u)' = Dependencies(u)) /\ \A u, v : Uses(u, v)' <=> Uses(u, v)
<1> USE DEF GraphInv
<1>1. phase = "search" /\ UNCHANGED <<uses, loaded, units, degree, queue, order, perk>>
  BY DEF Searching
<1>2. Rooted' /\ WhileLoading' /\ OnceRead' /\ OnceInjected' /\ Known' = Known
      /\ (\A v : Dependencies(v)' = Dependencies(v)) /\ \A x, y : Uses(x, y)' <=> Uses(x, y)
  BY <1>1, LoadingKept DEF AfterLoading
<1>3. GraphTypeOK'
  BY <1>1, <1>2 DEF GraphTypeOK, AfterLoading, Frames
<1> QED BY <1>1, <1>2, <1>3 DEF Untouched, WhileSorting, OnceSorted

LEMMA OnPathFacts ==
  ASSUME Assumed, GraphTypeOK
  PROVE  /\ stack \in Seq(Frames(Known)) /\ Len(stack) \in Nat /\ DOMAIN stack = 1 .. Len(stack)
         /\ OnPath \subseteq Known
         /\ \A k \in 1 .. Len(stack) : stack[k].unit \in OnPath /\ stack[k].next \in Nat \ {0}
         /\ \A u \in OnPath : \E k \in 1 .. Len(stack) : stack[k].unit = u
         /\ \A k \in 1 .. Len(stack) : \A i \in DOMAIN Dependencies(stack[k].unit) : i \in Nat \ {0}
<1>1. stack \in Seq(Frames(Known)) /\ Len(stack) \in Nat /\ DOMAIN stack = 1 .. Len(stack)
  BY LenProperties DEF GraphTypeOK, Frames
<1>2. \A k \in 1 .. Len(stack) : stack[k] \in Frames(Known)
  BY <1>1, ElementOfSeq
<1>3. \A k \in 1 .. Len(stack) : stack[k].unit \in Known /\ stack[k].next \in Nat \ {0}
  BY <1>2 DEF Frames
<1>4. \A u \in Known : \A i \in DOMAIN Dependencies(u) : i \in Nat \ {0}
  BY UsesFacts, LenProperties
<1> QED BY <1>1, <1>3, <1>4 DEF OnPath

LEMMA StartSearchInv == ASSUME Assumed, GraphInv, StartSearch PROVE GraphInv'
<1> USE DEF GraphInv
<1>1. Searching /\ phase = "search" /\ stack = <<>> /\ cycle' = cycle
  BY DEF StartSearch, Searching
<1>2. PICK R \in SUBSET Known : R # {} /\ Knotted(R)
  BY <1>1 DEF WhileSearching
<1>3. OnPath = {} /\ Finished = marked /\ marked \subseteq Known
  BY <1>1 DEF OnPath, Finished, GraphTypeOK
<1>4. ~(Known \subseteq marked)
  BY <1>1, <1>2, <1>3 DEF WhileSearching
<1>5. PICK u \in Known : u \notin marked /\ marked' = marked \cup {u} /\ stack' = <<Frame(u)>> /\ phase' = phase
  BY <1>4 DEF StartSearch, Known, Range
<1>6. stack' \in Seq(Frames(Known)) /\ Len(stack') = 1 /\ DOMAIN stack' = {1} /\ stack'[1].unit = u /\ stack'[1].next = 1
  BY <1>5 DEF Frame, Frames
<1>7. marked' \subseteq Known /\ cycle' \in Seq(Known)
  BY <1>1, <1>3, <1>5 DEF GraphTypeOK
<1>8. /\ GraphTypeOK' /\ Untouched' /\ Rooted' /\ WhileLoading' /\ OnceRead' /\ OnceInjected'
      /\ WhileSorting' /\ OnceSorted'
      /\ Known' = Known /\ (\A v : Dependencies(v)' = Dependencies(v)) /\ \A x, y : Uses(x, y)' <=> Uses(x, y)
  BY <1>1, <1>5, <1>6, <1>7, SearchKept
<1>9. OnPath' = {u} /\ Finished' = Finished
  BY <1>3, <1>5, <1>6 DEF OnPath, Finished
<1>10. \A k \in DOMAIN stack' : Passed(k)'
  <2>1. \A i \in DOMAIN Dependencies(u) : ~(i < 1)
    <3>1. Dependencies(u)' = Dependencies(u)
      BY <1>8
    <3> QED BY <1>5, UsesFacts
  <2> QED BY <1>6, <1>8, <2>1 DEF Passed
<1>11. \E S \in SUBSET Known : S # {} /\ Knotted(S)'
  BY <1>2, <1>8 DEF Knotted
<1>12. 1 .. Len(stack') - 1 = {}
  BY <1>6
<1>13. \A S : Knotted(S)' <=> Knotted(S)
  BY <1>8 DEF Knotted
<1>14. WhileSearching'
  BY <1>1, <1>3, <1>5, <1>6, <1>8, <1>9, <1>10, <1>11, <1>12, <1>13 DEF WhileSearching
<1> QED BY <1>1, <1>5, <1>8, <1>14 DEF OnceFound

LEMMA DescendInv == ASSUME Assumed, GraphInv, Descend PROVE GraphInv'
<1> USE DEF GraphInv
<1>0. PICK w, n : w = Wanted /\ n = Len(stack)
  OBVIOUS
<1>1. Searching /\ Waiting /\ phase = "search" /\ phase' = phase /\ cycle' = cycle /\ stack # <<>> /\ w \notin marked
      /\ marked' = marked \cup {w} /\ stack' = Append(Advanced, Frame(w)) /\ marked \subseteq Known
  BY <1>0 DEF Descend, Searching, Waiting, GraphTypeOK
<1>2. Top = stack[n] /\ n \in Nat \ {0} /\ n \in 1 .. n /\ stack[n].unit \in Known
      /\ stack[n].next \in DOMAIN Dependencies(stack[n].unit)
      /\ w = Dependencies(stack[n].unit)[stack[n].next] /\ Uses(stack[n].unit, w)
  BY <1>0, <1>1, TopFacts, WantedFacts DEF Wanted
<1>3. w \in Known
  BY <1>1, <1>2 DEF OnceRead, AfterLoading, Closed, Uses
<1>4. /\ Advanced \in Seq(Frames(Known)) /\ Len(Advanced) = n
      /\ \A k \in 1 .. n : /\ Advanced[k].unit = stack[k].unit
                           /\ Advanced[k].next = IF k = n THEN stack[k].next + 1 ELSE stack[k].next
  BY <1>0, <1>1, AdvancedFacts
<1>5. /\ stack' \in Seq(Frames(Known)) /\ Len(stack') = n + 1 /\ DOMAIN stack' = 1 .. n + 1
      /\ stack'[n + 1].unit = w /\ stack'[n + 1].next = 1
      /\ \A k \in 1 .. n : /\ stack'[k].unit = stack[k].unit
                           /\ stack'[k].next = IF k = n THEN stack[k].next + 1 ELSE stack[k].next
  BY <1>1, <1>3, <1>4, PushFacts, LenProperties
<1>6. /\ GraphTypeOK' /\ Untouched' /\ Rooted' /\ WhileLoading' /\ OnceRead' /\ OnceInjected'
      /\ WhileSorting' /\ OnceSorted'
      /\ Known' = Known /\ (\A v : Dependencies(v)' = Dependencies(v)) /\ \A x, y : Uses(x, y)' <=> Uses(x, y)
  BY <1>1, <1>3, <1>5, SearchKept DEF GraphTypeOK
<1>7. /\ OnPath \subseteq marked /\ (\A k, l \in DOMAIN stack : stack[k].unit = stack[l].unit => k = l)
      /\ (\A k \in DOMAIN stack : Passed(k))
      /\ (\A k \in 1 .. Len(stack) - 1 : Uses(stack[k].unit, stack[k + 1].unit))
      /\ (\A u \in Finished : Range(Dependencies(u)) \subseteq Finished)
      /\ (\A S \in SUBSET Finished : Knotted(S) => S = {})
      /\ \E R \in SUBSET Known : R # {} /\ Knotted(R)
  BY <1>1 DEF WhileSearching
<1>8. \A k \in 1 .. n + 1 : k \in 1 .. n \/ k = n + 1
  BY <1>2
<1>9. OnPath' = OnPath \cup {w} /\ w \notin OnPath
  <2>1. OnPath = {stack[k].unit : k \in 1 .. n} /\ OnPath' = {stack'[k].unit : k \in 1 .. n + 1}
    BY <1>0, <1>5, OnPathFacts DEF OnPath
  <2>2. n + 1 \in 1 .. n + 1 /\ \A k \in 1 .. n : k \in 1 .. n + 1
    BY <1>2
  <2>3. ASSUME NEW x \in OnPath' PROVE x \in OnPath \cup {w}
    <3>1. PICK k \in 1 .. n + 1 : x = stack'[k].unit
      BY <2>1, <2>3
    <3> QED BY <1>5, <1>8, <2>1, <3>1
  <2>4. ASSUME NEW x \in OnPath PROVE x \in OnPath'
    <3>1. PICK k \in 1 .. n : x = stack[k].unit
      BY <2>1, <2>4
    <3> QED BY <1>5, <2>1, <2>2, <3>1
  <2>5. w \in OnPath'
    BY <1>5, <2>1, <2>2
  <2> QED BY <1>1, <1>7, <2>3, <2>4, <2>5
<1>10. Finished' = Finished
  BY <1>1, <1>9 DEF Finished
<1>11. \A k, l \in DOMAIN stack' : stack'[k].unit = stack'[l].unit => k = l
  <2>1. \A k \in 1 .. n : stack[k].unit \in OnPath /\ k \in DOMAIN stack
    BY <1>0, OnPathFacts
  <2> QED BY <1>5, <1>7, <1>8, <1>9, <2>1
<1>12. \A k \in DOMAIN stack' : Passed(k)'
  <2>1. SUFFICES ASSUME NEW k \in 1 .. n + 1, NEW i \in DOMAIN Dependencies(stack'[k].unit), i < stack'[k].next
                 PROVE  \/ Dependencies(stack'[k].unit)[i] \in Finished
                        \/ k < n + 1 /\ Dependencies(stack'[k].unit)[i] = stack'[k + 1].unit
    BY <1>5, <1>6, <1>10 DEF Passed
  <2>2. CASE k = n + 1
    BY <1>3, <1>5, <2>1, <2>2, UsesFacts
  <2>3. CASE k = n
    <3>1. stack'[k].unit = stack[n].unit /\ i \in Nat /\ stack[n].next \in Nat /\ i < stack[n].next + 1
      BY <1>2, <1>5, <2>1, <2>3, UsesFacts, LenProperties
    <3>2. CASE i = stack[n].next
      BY <1>2, <1>5, <2>3, <3>1, <3>2
    <3>3. CASE i # stack[n].next
      <4>1. i < stack[n].next
        BY <3>1, <3>3
      <4>2. n \in DOMAIN stack /\ ~(n < Len(stack))
        BY <1>0, <1>2, OnPathFacts
      <4> QED BY <1>7, <2>1, <3>1, <4>1, <4>2 DEF Passed
    <3> QED BY <3>2, <3>3
  <2>4. CASE k \in 1 .. n - 1
    <3>1. k \in 1 .. n /\ k + 1 \in 1 .. n /\ k # n /\ k < n + 1 /\ k \in DOMAIN stack
      BY <1>0, <1>2, <2>4, OnPathFacts
    <3>2. stack'[k].unit = stack[k].unit /\ stack'[k].next = stack[k].next /\ stack'[k + 1].unit = stack[k + 1].unit
      BY <1>5, <3>1
    <3> QED BY <1>7, <2>1, <3>1, <3>2 DEF Passed
  <2> QED BY <1>2, <2>2, <2>3, <2>4
<1>13. \A k \in 1 .. Len(stack') - 1 : Uses(stack'[k].unit, stack'[k + 1].unit)
  <2>1. SUFFICES ASSUME NEW k \in 1 .. n PROVE Uses(stack'[k].unit, stack'[k + 1].unit)
    BY <1>2, <1>5
  <2>2. CASE k = n
    BY <1>2, <1>5, <2>2
  <2>3. CASE k # n
    <3>1. k \in 1 .. Len(stack) - 1 /\ k + 1 \in 1 .. n
      BY <1>0, <1>2, <2>3
    <3> QED BY <1>5, <1>7, <3>1
  <2> QED BY <2>2, <2>3
<1>14. \A S : Knotted(S)' <=> Knotted(S)
  BY <1>6 DEF Knotted
<1>15. WhileSearching'
  BY <1>1, <1>6, <1>7, <1>9, <1>10, <1>11, <1>12, <1>13, <1>14 DEF WhileSearching
<1> QED BY <1>1, <1>6, <1>15 DEF OnceFound

LEMMA PassByInv == ASSUME Assumed, GraphInv, PassBy PROVE GraphInv'
<1> USE DEF GraphInv
<1>0. PICK w, n : w = Wanted /\ n = Len(stack)
  OBVIOUS
<1>1. Searching /\ Waiting /\ phase = "search" /\ phase' = phase /\ cycle' = cycle /\ stack # <<>> /\ w \in Finished
      /\ marked' = marked /\ stack' = Advanced /\ marked \subseteq Known
  BY <1>0 DEF PassBy, Searching, Waiting, GraphTypeOK, Finished
<1>2. Top = stack[n] /\ n \in Nat \ {0} /\ n \in 1 .. n /\ stack[n].unit \in Known
      /\ stack[n].next \in DOMAIN Dependencies(stack[n].unit)
      /\ w = Dependencies(stack[n].unit)[stack[n].next]
  BY <1>0, <1>1, TopFacts, WantedFacts DEF Wanted
<1>3. /\ stack' \in Seq(Frames(Known)) /\ Len(stack') = n /\ DOMAIN stack' = 1 .. n
      /\ \A k \in 1 .. n : /\ stack'[k].unit = stack[k].unit
                           /\ stack'[k].next = IF k = n THEN stack[k].next + 1 ELSE stack[k].next
  BY <1>0, <1>1, AdvancedFacts, LenProperties
<1>4. /\ GraphTypeOK' /\ Untouched' /\ Rooted' /\ WhileLoading' /\ OnceRead' /\ OnceInjected'
      /\ WhileSorting' /\ OnceSorted'
      /\ Known' = Known /\ (\A v : Dependencies(v)' = Dependencies(v)) /\ \A x, y : Uses(x, y)' <=> Uses(x, y)
  BY <1>1, <1>3, SearchKept DEF GraphTypeOK
<1>5. /\ OnPath \subseteq marked /\ (\A k, l \in DOMAIN stack : stack[k].unit = stack[l].unit => k = l)
      /\ (\A k \in DOMAIN stack : Passed(k))
      /\ (\A k \in 1 .. Len(stack) - 1 : Uses(stack[k].unit, stack[k + 1].unit))
      /\ (\A u \in Finished : Range(Dependencies(u)) \subseteq Finished)
      /\ (\A S \in SUBSET Finished : Knotted(S) => S = {})
      /\ \E R \in SUBSET Known : R # {} /\ Knotted(R)
  BY <1>1 DEF WhileSearching
<1>6. OnPath' = OnPath /\ DOMAIN stack = 1 .. n
  BY <1>0, <1>3, OnPathFacts DEF OnPath
<1>7. Finished' = Finished
  BY <1>1, <1>6 DEF Finished
<1>8. \A k \in DOMAIN stack' : Passed(k)'
  <2>1. SUFFICES ASSUME NEW k \in 1 .. n, NEW i \in DOMAIN Dependencies(stack[k].unit), i < stack'[k].next
                 PROVE  \/ Dependencies(stack[k].unit)[i] \in Finished
                        \/ k < n /\ Dependencies(stack[k].unit)[i] = stack'[k + 1].unit
    BY <1>3, <1>4, <1>7 DEF Passed
  <2>2. CASE k = n
    <3>1. i \in Nat /\ stack[n].next \in Nat /\ i < stack[n].next + 1
      BY <1>0, <1>2, <1>3, <2>1, <2>2, OnPathFacts
    <3>2. CASE i = stack[n].next
      BY <1>1, <1>2, <2>2, <3>2
    <3>3. CASE i # stack[n].next
      <4>1. i < stack[n].next
        BY <3>1, <3>3
      <4>2. ~(n < Len(stack))
        BY <1>0, <1>2
      <4> QED BY <1>5, <1>6, <2>1, <2>2, <4>1, <4>2 DEF Passed
    <3> QED BY <3>2, <3>3
  <2>3. CASE k # n
    <3>1. k + 1 \in 1 .. n /\ k < n
      BY <1>2, <2>3
    <3>2. stack'[k].next = stack[k].next /\ stack'[k + 1].unit = stack[k + 1].unit
      BY <1>3, <2>3, <3>1
    <3> QED BY <1>5, <1>6, <2>1, <3>1, <3>2 DEF Passed
  <2> QED BY <2>2, <2>3
<1>9. \A k \in 1 .. Len(stack') - 1 : Uses(stack'[k].unit, stack'[k + 1].unit)
  <2>1. SUFFICES ASSUME NEW k \in 1 .. n - 1 PROVE Uses(stack'[k].unit, stack'[k + 1].unit)
    BY <1>3
  <2>2. k \in 1 .. n /\ k + 1 \in 1 .. n
    BY <1>2
  <2> QED BY <1>0, <1>3, <1>5, <2>2
<1>10. \A S : Knotted(S)' <=> Knotted(S)
  BY <1>4 DEF Knotted
<1>11. \A k, l \in DOMAIN stack' : stack'[k].unit = stack'[l].unit => k = l
  BY <1>3, <1>5, <1>6
<1>12. WhileSearching'
  BY <1>1, <1>4, <1>5, <1>6, <1>7, <1>8, <1>9, <1>10, <1>11 DEF WhileSearching
<1> QED BY <1>1, <1>4, <1>12 DEF OnceFound

LEMMA LeaveInv == ASSUME Assumed, GraphInv, Leave PROVE GraphInv'
<1> USE DEF GraphInv
<1>0. PICK u, n : u = Top.unit /\ n = Len(stack)
  OBVIOUS
<1>1. Searching /\ ~Waiting /\ phase = "search" /\ phase' = phase /\ cycle' = cycle /\ stack # <<>>
      /\ marked' = marked /\ stack' = Front(stack) /\ marked \subseteq Known
  BY DEF Leave, Searching, GraphTypeOK
<1>2. Top = stack[n] /\ n \in Nat \ {0} /\ n \in 1 .. n /\ stack[n].unit = u /\ u \in Known /\ DOMAIN stack = 1 .. n
  BY <1>0, <1>1, TopFacts
<1>3. stack' \in Seq(Frames(Known)) /\ Len(stack') = n - 1 /\ DOMAIN stack' = 1 .. n - 1
      /\ \A k \in 1 .. n - 1 : stack'[k] = stack[k]
  BY <1>0, <1>1, FrontFacts, LenProperties
<1>4. /\ GraphTypeOK' /\ Untouched' /\ Rooted' /\ WhileLoading' /\ OnceRead' /\ OnceInjected'
      /\ WhileSorting' /\ OnceSorted'
      /\ Known' = Known /\ (\A v : Dependencies(v)' = Dependencies(v)) /\ \A x, y : Uses(x, y)' <=> Uses(x, y)
  BY <1>1, <1>3, SearchKept DEF GraphTypeOK
<1>5. /\ OnPath \subseteq marked /\ (\A k, l \in DOMAIN stack : stack[k].unit = stack[l].unit => k = l)
      /\ (\A k \in DOMAIN stack : Passed(k))
      /\ (\A k \in 1 .. Len(stack) - 1 : Uses(stack[k].unit, stack[k + 1].unit))
      /\ (\A v \in Finished : Range(Dependencies(v)) \subseteq Finished)
      /\ (\A S \in SUBSET Finished : Knotted(S) => S = {})
      /\ \E R \in SUBSET Known : R # {} /\ Knotted(R)
  BY <1>1 DEF WhileSearching
<1>6. \A k \in 1 .. n : k = n \/ k \in 1 .. n - 1
  BY <1>2
<1>7. \A k \in 1 .. n - 1 : k \in 1 .. n /\ k # n
  BY <1>2
<1>8. OnPath' = OnPath \ {u} /\ u \in OnPath
  <2>1. OnPath = {stack[k].unit : k \in 1 .. n} /\ OnPath' = {stack[k].unit : k \in 1 .. n - 1}
    BY <1>2, <1>3 DEF OnPath
  <2> QED BY <1>2, <1>5, <1>6, <1>7, <2>1
<1>9. Finished' = Finished \cup {u} /\ u \notin Finished
  BY <1>1, <1>5, <1>8 DEF Finished
<1>10. Range(Dependencies(u)) \subseteq Finished
  <2>1. SUFFICES ASSUME NEW v, Uses(u, v) PROVE v \in Finished
    BY DEF Uses
  <2>2. PICK i \in DOMAIN Dependencies(u) : Dependencies(u)[i] = v
    BY <1>2, <2>1, UsesFacts
  <2>3. i < stack[n].next /\ ~(n < Len(stack))
    BY <1>0, <1>1, <1>2, NothingWanted
  <2> QED BY <1>2, <1>5, <2>2, <2>3 DEF Passed
<1>11. \A k \in DOMAIN stack' : Passed(k)'
  <2>1. SUFFICES ASSUME NEW k \in 1 .. n - 1, NEW i \in DOMAIN Dependencies(stack[k].unit), i < stack[k].next
                 PROVE  \/ Dependencies(stack[k].unit)[i] \in Finished \cup {u}
                        \/ k < n - 1 /\ Dependencies(stack[k].unit)[i] = stack'[k + 1].unit
    BY <1>3, <1>4, <1>9 DEF Passed
  <2>2. \/ Dependencies(stack[k].unit)[i] \in Finished
        \/ Dependencies(stack[k].unit)[i] = stack[k + 1].unit
    BY <1>2, <1>5, <1>7, <2>1 DEF Passed
  <2>3. CASE k = n - 1
    <3>1. k + 1 = n
      BY <1>2, <2>3
    <3> QED BY <1>2, <2>2, <3>1
  <2>4. CASE k # n - 1
    <3>1. k < n - 1 /\ k + 1 \in 1 .. n - 1
      BY <1>2, <2>4
    <3> QED BY <1>3, <2>2, <3>1
  <2> QED BY <2>3, <2>4
<1>12. \A k \in 1 .. Len(stack') - 1 : Uses(stack'[k].unit, stack'[k + 1].unit)
  <2>1. SUFFICES ASSUME NEW k \in 1 .. n - 1 - 1 PROVE Uses(stack'[k].unit, stack'[k + 1].unit)
    BY <1>3
  <2>2. k \in 1 .. n - 1 /\ k + 1 \in 1 .. n - 1
    BY <1>2
  <2> QED BY <1>0, <1>3, <1>5, <2>2
<1>13. \A S : Knotted(S)' <=> Knotted(S)
  BY <1>4 DEF Knotted
<1>14. \A v \in Finished \cup {u} : Range(Dependencies(v)) \subseteq Finished
  BY <1>5, <1>10
<1>15. ASSUME NEW S \in SUBSET (Finished \cup {u}), Knotted(S) PROVE S = {}
  <2>1. u \notin S
    BY <1>9, <1>14, <1>15 DEF Knotted, Uses
  <2> QED BY <1>5, <1>15, <2>1
<1>16. \A k, l \in DOMAIN stack' : stack'[k].unit = stack'[l].unit => k = l
  BY <1>2, <1>3, <1>5, <1>7
<1>17. WhileSearching'
  BY <1>1, <1>4, <1>5, <1>8, <1>9, <1>11, <1>12, <1>13, <1>14, <1>15, <1>16 DEF WhileSearching
<1> QED BY <1>1, <1>4, <1>17 DEF OnceFound

LEMMA CloseInv == ASSUME Assumed, GraphInv, Close PROVE GraphInv'
<1> USE DEF GraphInv
<1>0. PICK w, n : w = Wanted /\ n = Len(stack)
  OBVIOUS
<1>1. PICK j \in DOMAIN stack : stack[j].unit = w /\ cycle' = [i \in 1 .. n - j + 1 |-> stack[j + i - 1].unit]
  BY <1>0 DEF Close
<1>2. Searching /\ Waiting /\ phase = "search" /\ phase' = "CE3001" /\ stack' = <<>> /\ stack # <<>>
      /\ marked' = marked /\ marked \subseteq Known
  BY DEF Close, Searching, Waiting, GraphTypeOK
<1>3. n \in Nat \ {0} /\ j \in 1 .. n /\ Uses(stack[n].unit, w) /\ \A k \in 1 .. n : stack[k].unit \in Known
  BY <1>0, <1>1, <1>2, TopFacts, WantedFacts
<1>4. PICK m \in Nat \ {0} : m = n - j + 1
  BY <1>3
<1>5. \A i \in 1 .. m : j + i - 1 \in 1 .. n
  BY <1>3, <1>4
<1>6. cycle' = [i \in 1 .. m |-> stack[j + i - 1].unit] /\ \A i \in 1 .. m : stack[j + i - 1].unit \in Known
  BY <1>1, <1>3, <1>4, <1>5
<1>7. cycle' \in Seq(Known) /\ Len(cycle') = m /\ DOMAIN cycle' = 1 .. m /\ cycle' # <<>>
      /\ \A i \in 1 .. m : cycle'[i] = stack[j + i - 1].unit
  <2>1. cycle' \in [1 .. m -> Known]
    BY <1>6
  <2>2. cycle' \in Seq(Known) /\ DOMAIN cycle' = 1 .. m
    BY <1>4, <2>1
  <2>3. Len(cycle') = m
    BY <1>4, <2>2, LenProperties
  <2> QED BY <1>4, <1>6, <2>2, <2>3
<1>8. stack' \in Seq(Frames(Known))
  BY <1>2
<1>9. /\ GraphTypeOK' /\ Untouched' /\ Rooted' /\ WhileLoading' /\ OnceRead' /\ OnceInjected'
      /\ WhileSorting' /\ OnceSorted'
      /\ Known' = Known /\ (\A v : Dependencies(v)' = Dependencies(v)) /\ \A x, y : Uses(x, y)' <=> Uses(x, y)
  BY <1>2, <1>7, <1>8, SearchKept
<1>10. ASSUME NEW i \in 1 .. m PROVE Uses(cycle'[i], cycle'[(i % m) + 1])
  <2>1. CASE i = m
    <3>1. i % m = 0 /\ 1 \in 1 .. m /\ j + m - 1 = n /\ j + 1 - 1 = j
      BY <1>3, <1>4, <2>1
    <3>2. cycle'[i] = stack[n].unit /\ cycle'[(i % m) + 1] = w
      BY <1>1, <1>7, <2>1, <3>1
    <3> QED BY <1>3, <3>2
  <2>2. CASE i # m
    <3>1. i % m = i /\ i + 1 \in 1 .. m /\ j + (i + 1) - 1 = (j + i - 1) + 1
          /\ j + i - 1 \in 1 .. Len(stack) - 1
      BY <1>0, <1>3, <1>4, <2>2
    <3>2. cycle'[i] = stack[j + i - 1].unit /\ cycle'[i + 1] = stack[(j + i - 1) + 1].unit
      BY <1>7, <3>1
    <3>3. Uses(stack[j + i - 1].unit, stack[(j + i - 1) + 1].unit)
      BY <1>2, <3>1 DEF WhileSearching
    <3> QED BY <3>1, <3>2, <3>3
  <2> QED BY <2>1, <2>2
<1>11. OnceFound'
  BY <1>7, <1>9, <1>10 DEF OnceFound, Loop, Uses
<1> QED BY <1>2, <1>9, <1>11 DEF WhileSearching

-----------------------------------------------------------------------------
(* Collecting, and what follows for the order. *)

LEMMA CollectInv == ASSUME Assumed, GraphInv, Collect PROVE GraphInv'
<1> USE DEF GraphInv
<1>1. phase = "collect" /\ phase' \in {"done", "CE4003"}
      /\ UNCHANGED <<uses, stack, loaded, units, degree, queue, order, marked, cycle>>
  BY DEF Collect
<1>2. PICK d, i \in Known : perk' = [definer |-> d, implementer |-> i]
  BY DEF Collect
<1>3. Rooted' /\ WhileLoading' /\ OnceRead' /\ OnceInjected' /\ Known' = Known
      /\ (\A v : Dependencies(v)' = Dependencies(v)) /\ \A x, y : Uses(x, y)' <=> Uses(x, y)
  BY <1>1, LoadingKept DEF AfterLoading
<1>4. GraphTypeOK'
  <2>1. perk' \in [definer : Names, implementer : Names]
    BY <1>2, KnownFacts
  <2> QED BY <1>1, <1>3, <2>1 DEF GraphTypeOK, AfterLoading
<1>5. OnceSorted'
  BY <1>1, <1>3 DEF OnceSorted, Ordered, Leads
<1> QED BY <1>1, <1>3, <1>4, <1>5 DEF Untouched, WhileSorting, WhileSearching, OnceFound

LEMMA StutterInv == ASSUME GraphInv, UNCHANGED graphVars PROVE GraphInv'
<1> USE DEF GraphInv
<1>1. UNCHANGED <<phase, uses, stack, loaded, units, degree, queue, order, marked, cycle, perk>>
  BY DEF graphVars
<1>2. Known' = Known /\ (\A u : Dependencies(u)' = Dependencies(u)) /\ Top' = Top /\ OnPath' = OnPath
      /\ Finished' = Finished
  BY <1>1 DEF Known, Dependencies, Top, OnPath, Finished
<1>3. \A u, v : Uses(u, v)' <=> Uses(u, v)
  BY <1>2 DEF Uses
<1>4. \A S : (Closed(S)' <=> Closed(S)) /\ (ClosedToo(S)' <=> ClosedToo(S)) /\ (Knotted(S)' <=> Knotted(S))
  BY <1>1, <1>2, <1>3 DEF Closed, ClosedToo, Knotted
<1>5. \A u : Pending(u)' = Pending(u)
  BY <1>1, <1>2, StatementsKept DEF Pending
<1>6. GraphTypeOK' /\ Untouched' /\ OnceInjected'
  BY <1>1, <1>2, <1>4 DEF GraphTypeOK, Untouched, OnceInjected
<1>7. Rooted'
  BY <1>1, <1>2, <1>4 DEF Rooted
<1>8. OnceRead'
  BY <1>1, <1>2, <1>3, <1>4 DEF OnceRead
<1>9. WhileLoading'
  BY <1>1, <1>2, <1>3, <1>4 DEF WhileLoading, Ahead
<1>10. (Ordered <=> Ordered') /\ (Leads <=> Leads')
  BY <1>1, <1>2, <1>3 DEF Ordered, Leads
<1>11. WhileSorting' /\ OnceSorted'
  BY <1>1, <1>2, <1>5, <1>10 DEF WhileSorting, OnceSorted
<1>12. \A k : Passed(k)' <=> Passed(k)
  BY <1>1, <1>2 DEF Passed
<1>13. WhileSearching'
  BY <1>1, <1>2, <1>3, <1>4, <1>12 DEF WhileSearching
<1>14. OnceFound'
  BY <1>1, <1>2 DEF OnceFound, Loop
<1> QED BY <1>6, <1>7, <1>8, <1>9, <1>11, <1>13, <1>14

LEMMA StepInv == ASSUME Assumed PROVE GraphInv /\ [GraphNext]_graphVars => GraphInv'
<1> SUFFICES ASSUME GraphInv, [GraphNext]_graphVars PROVE GraphInv'
  OBVIOUS
<1>1. CASE Skip \/ Read \/ Missing \/ Return \/ Inject
  BY <1>1, SkipInv, ReadInv, MissingInv, ReturnInv, InjectInv
<1>2. CASE Symbols \/ TakeNext \/ Release \/ Sorted
  BY <1>2, SymbolsInv, TakeNextInv, ReleaseInv, SortedInv
<1>3. CASE StartSearch \/ Descend \/ PassBy \/ Leave \/ Close
  BY <1>3, StartSearchInv, DescendInv, PassByInv, LeaveInv, CloseInv
<1>4. CASE Collect
  BY <1>4, CollectInv
<1>5. CASE Stop \/ UNCHANGED graphVars
  BY <1>5, StutterInv DEF Stop
<1> QED BY <1>1, <1>2, <1>3, <1>4, <1>5 DEF GraphNext

LEMMA Invariance == ASSUME Assumed PROVE GraphSpec => []GraphInv
<1>1. GraphInit => GraphInv
  BY InitInv
<1>2. GraphInv /\ [GraphNext]_graphVars => GraphInv'
  BY StepInv
<1> QED BY <1>1, <1>2, PTL DEF GraphSpec

LEMMA LoadedIsExact == ASSUME Assumed, GraphInv PROVE LoadedExactly
<1> USE DEF GraphInv
<1>1. SUFFICES ASSUME phase \in AfterLoading
               PROVE  /\ Known = Below(Main) /\ Len(units) = Cardinality(Known)
                      /\ loaded = {Main} \cup UNION {Range(Dependencies(u)) : u \in Known}
  BY DEF LoadedExactly
<1> DEFINE next == [v \in Known |-> Range(uses[v].imports) \cup uses[v].modules]
           closed == {S \in SUBSET Names : {Main} \subseteq S /\ \A n \in S \cap DOMAIN next : next[n] \subseteq S}
<1>2. closed = {S \in SUBSET Names : Main \in S /\ Closed(S) /\ ClosedToo(S)}
  BY DEF Closed, ClosedToo, Dependencies
<1>3. Below(Main) = {n \in Names : \A S \in closed : n \in S}
  BY DEF Below, Reach
<1> HIDE DEF closed
<1>4. Known \in closed
  BY <1>1, <1>2, KnownFacts DEF OnceRead, OnceInjected
<1>5. \A S \in closed : Known \subseteq S
  BY <1>2 DEF Rooted
<1>6. Known = Below(Main)
  BY <1>3, <1>4, <1>5, KnownFacts
<1> QED BY <1>1, <1>6, KnownFacts DEF OnceRead

\* The order once every unit is in it.
LEMMA OrderIsExact ==
  ASSUME Assumed, GraphInv, phase \in {"collect", "done"}
  PROVE  /\ IsInjective(order) /\ Range(order) = Known /\ order[1] = Main
         /\ \A u \in Known : Position(u) \in Nat
         /\ \A u \in Known : \A v \in Known : Uses(u, v) => Position(u) < Position(v)
<1> USE DEF GraphInv
<1>1. Ordered /\ Leads /\ Len(order) = Len(units) /\ order \in Seq(Known)
  BY DEF OnceSorted, GraphTypeOK
<1>2. IsInjective(order) /\ Range(order) = Known
  <2>1. IsInjective(order) /\ Cardinality(Range(order)) = Cardinality(Known) /\ Range(order) \in SUBSET Known
    BY <1>1, CountOnce, KnownFacts, RangeFacts DEF Ordered
  <2> QED BY <2>1, KnownFacts, FS_Subset
<1>3. DOMAIN order = 1 .. Len(order) /\ Len(order) \in Nat
  BY <1>1, RangeFacts
<1>4. ASSUME NEW u \in Known PROVE Position(u) \in DOMAIN order /\ order[Position(u)] = u
  BY <1>2, <1>4 DEF Position, Range
<1>5. ASSUME NEW u \in Known, NEW v \in Known, Uses(u, v) PROVE Position(u) < Position(v)
  <2>1. PICK j \in DOMAIN order : j < Position(v) /\ order[j] = u
    BY <1>1, <1>4, <1>5 DEF Ordered
  <2>2. Position(u) = j
    BY <1>2, <1>4, <2>1 DEF IsInjective
  <2> QED BY <2>1, <2>2
<1>6. ASSUME NEW v \in Known PROVE ~Uses(v, Main)
  <2>1. SUFFICES ASSUME Uses(v, Main) PROVE FALSE
    OBVIOUS
  <2> DEFINE S == {n \in Known : Position(n) >= Position(Main)}
  <2>2. Main \in S /\ S \subseteq Known /\ S \in SUBSET Names
    BY <1>3, <1>4, KnownFacts
  <2>3. Closed(S)
    <3>1. SUFFICES ASSUME NEW n \in S, NEW m, Uses(n, m) PROVE m \in S
      BY <2>2 DEF Closed, Uses
    <3>2. m \in Known
      BY <2>2, <3>1 DEF OnceRead, AfterLoading, Closed, Uses
    <3>3. Position(n) < Position(m) /\ Position(n) >= Position(Main)
      BY <1>5, <3>1, <3>2
    <3>4. Position(n) \in Nat /\ Position(m) \in Nat /\ Position(Main) \in Nat
      BY <1>3, <1>4, <2>2, <3>1, <3>2
    <3> QED BY <3>2, <3>3, <3>4
  <2>4. v \in S
    BY <1>6, <2>1, <2>2, <2>3, KnownFacts DEF OnceRead, AfterLoading
  <2>5. Position(v) < Position(Main) /\ Position(v) >= Position(Main)
    BY <1>5, <1>6, <2>1, <2>4, KnownFacts
  <2> QED BY <1>3, <1>4, <1>6, <2>5, KnownFacts
<1>7. order[1] = Main
  <2>1. order # <<>>
    BY <1>2, KnownFacts, EmptyRange
  <2> QED BY <1>1, <1>6, <2>1 DEF Leads
<1> QED BY <1>2, <1>3, <1>4, <1>5, <1>7

LEMMA CyclesAreExact == ASSUME Assumed, GraphInv PROVE CyclesExact
<1> USE DEF GraphInv
<1>1. ASSUME phase \in {"collect", "done"}, NEW u \in Known PROVE u \notin Imports(u)
  <2> DEFINE next == [v \in Known |-> Range(Dependencies(v))]
             S == {n \in Known : Position(u) < Position(n)}
  <2>1. \A n \in Known : \A m : Uses(n, m) => m \in Known /\ Position(n) < Position(m)
    BY <1>1, OrderIsExact DEF OnceRead, AfterLoading, Closed, Uses
  <2>2. \A n \in Known : Position(n) \in Nat
    BY <1>1, OrderIsExact
  <2>3. Range(Dependencies(u)) \subseteq S
    BY <1>1, <2>1 DEF Uses
  <2>4. ASSUME NEW n \in S \cap DOMAIN next PROVE next[n] \subseteq S
    <3>1. SUFFICES ASSUME NEW m, Uses(n, m) PROVE m \in Known /\ Position(u) < Position(m)
      BY DEF Uses
    <3>2. n \in Known /\ m \in Known /\ Position(u) < Position(n) /\ Position(n) < Position(m)
      BY <2>1, <2>4, <3>1
    <3>3. Position(u) \in Nat /\ Position(n) \in Nat /\ Position(m) \in Nat
      BY <1>1, <2>2, <3>2
    <3> QED BY <3>2, <3>3
  <2>5. S \in SUBSET Names /\ u \notin S
    BY <1>1, <2>2, KnownFacts
  <2> QED BY <2>3, <2>4, <2>5 DEF Imports, Reach
<1>2. ASSUME phase = "CE3001" PROVE Loop(cycle)
  BY <1>2 DEF OnceFound
<1> QED BY <1>1, <1>2 DEF CyclesExact, Loop

LEMMA ImportersAreFirst == ASSUME Assumed, GraphInv PROVE ImportersFirst
<1> SUFFICES ASSUME phase \in {"collect", "done"}, NEW u \in Known, NEW v \in Range(Dependencies(u))
             PROVE  Position(u) < Position(v)
  BY OrderIsExact DEF ImportersFirst
<1>1. v \in Known /\ Uses(u, v)
  BY DEF GraphInv, OnceRead, AfterLoading, Closed, Uses
<1> QED BY <1>1, OrderIsExact

-----------------------------------------------------------------------------
(* The theorems. *)

\* The variables of a compile keep to their types: no unit is known that was
\* not named, nothing is queued, ordered, searched or reported that is not a
\* unit, and the counts of importers never go below zero.
THEOREM TypeCorrect ==
  ASSUME MainAssumption, UseListsAssumption, ModulesAssumption
  PROVE  GraphSpec => []GraphTypeOK
<1>1. Assumed
  BY DEF Assumed
<1>2. GraphInv => GraphTypeOK
  BY DEF GraphInv
<1> QED BY <1>1, <1>2, Invariance, PTL

\* Whatever the files say, the units loaded are those the main unit reaches, an
\* import cycle is reported exactly when there is one, with its path, and
\* otherwise each unit is ordered, once, before the units it imports.
THEOREM GraphIsExact ==
  ASSUME MainAssumption, UseListsAssumption, ModulesAssumption
  PROVE  GraphSpec => []GraphExact
<1>1. Assumed
  BY DEF Assumed
<1>2. GraphInv => GraphExact
  BY <1>1, LoadedIsExact, CyclesAreExact, ImportersAreFirst DEF GraphExact
<1> QED BY <1>1, <1>2, Invariance, PTL
=============================================================================
