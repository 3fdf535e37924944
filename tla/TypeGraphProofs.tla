--------------------------- MODULE TypeGraphProofs ---------------------------
(***************************************************************************)
(* What the finite-types and derive passes promise, and the layout of the  *)
(* types they accept, for any list of names, any ways of holding a type    *)
(* and any number of parts.                                                *)
(***************************************************************************)
EXTENDS Layout, SequenceTheorems, FiniteSetTheorems, WellFoundedInduction, NaturalsInduction, TLAPS

Unresolved == {"declaring", "resolve structs", "resolve enums"}
Searched == phase \notin Unresolved \cup {"finite"}

\* What the tables hold.
Declarations ==
  /\ Len(order) <= Len(NameList) /\ \A i \in DOMAIN order : order[i] = NameList[i]
  /\ \A n \in Names : n \in Declared <=> kind[n] # "none"
  /\ \A n \in Names : n \in Declared <=> body[n] # <<>>
  /\ \A n \in Names : \A p \in PartsOf(n) : p.of \in Names => p.of \in Declared
  /\ phase \notin {"declaring", "resolve structs"} =>
       \A n \in Names : kind[n] = "struct" => \A p \in PartsOf(n) : p.of \in Names => p.known
  /\ phase \notin Unresolved =>
       \A n \in Names : \A p \in PartsOf(n) : p.of \in Names => p.known

Frames == [node : Names, taken : SUBSET (Nat \X Nat)]

\* The path is a walk along what the types hold.
PathIsWalk ==
  /\ stack \in Seq(Frames)
  /\ \A i \in DOMAIN stack : stack[i].node \in Declared
  /\ \A i \in DOMAIN stack : i + 1 \in DOMAIN stack => stack[i + 1].node \in Holds(stack[i].node)

\* A type no search need come to again: it is on a reported cycle, or inside itself through
\* enums, which the pass leaves to the sort of the enums.
Caught(k) == OnReported(k) \/ k \in WithinOnly("enum", k)

\* What is behind the places the search has taken.
TakenSeen ==
  \A i \in DOMAIN stack : \A place \in stack[i].taken :
    LET k == TargetOf(stack[i].node, place)
    IN  /\ k \in Names
        /\ mark[k] = "done" \/ Caught(k) \/ (i + 1 \in DOMAIN stack /\ stack[i + 1].node = k)

\* A knot is a set of types each of which holds another, or itself, by value.
Knot(K) == \A n \in K : \E m \in K : m \in Holds(n)
KnotsCaught ==
  \A K \in SUBSET Declared : (Knot(K) /\ \E n \in K : mark[n] = "done") => \E k \in K : Caught(k)

\* When what happens.
Order ==
  /\ phase \in Unresolved \cup {"finite", "stopped", "derive structs", "derive enums", "derived"}
  /\ phase # "finite" => stack = <<>>
  /\ phase \in Unresolved => reported = {} /\ \A n \in Names : mark[n] = "new"
  /\ Searched => \A n \in Declared : mark[n] = "done"
  /\ Searched /\ phase # "stopped" => reported = {}
  /\ phase \in Unresolved \cup {"finite"} => hashed = {} /\ errors = {}

CyclesAreCycles == \A c \in reported : IsOurs(c) /\ \A n \in c : c \subseteq Within(n)

TypesInv ==
  TypeOK /\ Declarations /\ PathIsWalk /\ TakenSeen /\ KnotsCaught /\ Order /\ CyclesAreCycles

-----------------------------------------------------------------------------
(* Walks.                                                                   *)

Less == {p \in Nat \X Nat : p[1] < p[2]}

LEMMA LessWellFounded == IsWellFoundedOn(Less, Nat)
BY NatLessThanWellFounded DEF OpToRel, Less

\* A set of numbers that has 0, and with a number the next one, has them all.
LEMMA AllNumbers ==
  ASSUME NEW T, 0 \in T, \A k \in Nat : k \in T => k + 1 \in T
  PROVE  Nat \subseteq T
<1> SUFFICES ASSUME Nat \ T # {} PROVE FALSE
  OBVIOUS
<1>1. PICK m \in Nat \ T : \A k \in Nat \ T : ~(<<k, m>> \in Less)
  BY LessWellFounded, WFMin
<1>2. m # 0 /\ m - 1 \in Nat /\ m - 1 < m
  BY <1>1
<1>3. <<m - 1, m>> \in Less
  BY <1>1, <1>2 DEF Less
<1>4. m - 1 \in T
  BY <1>1, <1>2, <1>3
<1>5. (m - 1) + 1 = m
  BY <1>1
<1> QED
  BY <1>1, <1>2, <1>4, <1>5

LEMMA ReachSteps ==
  ASSUME NEW next \in [Names -> SUBSET Names], NEW n \in Names
  PROVE  /\ Reach(next, n) \subseteq Names
         /\ next[n] \subseteq Reach(next, n)
         /\ \A k \in Reach(next, n) : next[k] \subseteq Reach(next, n)
         /\ \A k \in Reach(next, n) : Reach(next, k) \subseteq Reach(next, n)
         /\ \A m \in Reach(next, n) : m \in next[n] \/ \E k \in next[n] : m \in Reach(next, k)
<1>1. Reach(next, n) \subseteq Names /\ next[n] \subseteq Names
  BY DEF Reach
<1>2. next[n] \subseteq Reach(next, n)
  BY <1>1 DEF Reach
<1>3. \A k \in Reach(next, n) : next[k] \subseteq Reach(next, n)
  <2> TAKE k \in Reach(next, n)
  <2>1. k \in Names /\ next[k] \subseteq Names
    BY <1>1
  <2> QED BY <2>1 DEF Reach
<1>4. \A k \in Reach(next, n) : Reach(next, k) \subseteq Reach(next, n)
  <2> TAKE k \in Reach(next, n)
  <2> SUFFICES ASSUME NEW m \in Reach(next, k), NEW S \in SUBSET Names, next[n] \subseteq S,
                      \A i \in S : next[i] \subseteq S
               PROVE  m \in S
    BY DEF Reach
  <2>1. k \in S
    BY DEF Reach
  <2> QED BY <2>1 DEF Reach
<1>5. ASSUME NEW m \in Reach(next, n) PROVE m \in next[n] \/ \E k \in next[n] : m \in Reach(next, k)
  <2> DEFINE S == next[n] \cup UNION {Reach(next, k) : k \in next[n]}
  <2>1. S \in SUBSET Names
    BY <1>1 DEF Reach
  <2>2. ASSUME NEW i \in S PROVE next[i] \subseteq S
    <3>1. CASE i \in next[n]
      <4>1. i \in Names /\ next[i] \subseteq Names
        BY <3>1, <1>1
      <4>2. next[i] \subseteq Reach(next, i)
        BY <4>1 DEF Reach
      <4> QED BY <3>1, <4>2
    <3>2. ASSUME NEW k \in next[n], i \in Reach(next, k) PROVE next[i] \subseteq S
      <4>1. i \in Names /\ next[i] \subseteq Names
        BY <3>2 DEF Reach
      <4>2. next[i] \subseteq Reach(next, k)
        BY <3>2, <4>1 DEF Reach
      <4> QED BY <4>2
    <3> QED BY <3>1, <3>2
  <2> HIDE DEF S
  <2>3. m \in S
    BY <2>1, <2>2, next[n] \subseteq S DEF Reach, S
  <2> QED BY <2>3 DEF S
<1> QED
  BY <1>1, <1>2, <1>3, <1>4, <1>5

\* What is inside itself is in a knot: the names it reaches that reach it.
LEMMA TiedAreKnot ==
  ASSUME NEW next \in [Names -> SUBSET Names], NEW n \in Names, n \in Reach(next, n),
         NEW m \in Reach(next, n), n \in Reach(next, m)
  PROVE  \E k \in next[m] : k \in Reach(next, n) /\ n \in Reach(next, k)
<1>1. m \in Names /\ next[m] \subseteq Reach(next, n)
  BY ReachSteps
<1>2. n \in next[m] \/ \E k \in next[m] : n \in Reach(next, k)
  BY <1>1, ReachSteps
<1> QED
  BY <1>1, <1>2

\* From every place of a ring one comes to every place of it.
LEMMA RingReaches ==
  ASSUME NEW next \in [Names -> SUBSET Names], NEW len \in Nat, NEW f \in [1..len -> Names],
         NEW j \in 1..len,
         \A i \in j..len : i + 1 <= len => f[i + 1] \in next[f[i]],
         f[j] \in next[f[len]],
         NEW a \in j..len, NEW b \in j..len
  PROVE  f[b] \in Reach(next, f[a])
<1> SUFFICES ASSUME NEW S \in SUBSET Names, next[f[a]] \subseteq S,
                    \A k \in S : next[k] \subseteq S
             PROVE  f[b] \in S
  BY DEF Reach
<1>1. f[j] \in S
  <2> DEFINE T == {d \in Nat : a + 1 + d <= len => f[a + 1 + d] \in S}
  <2>1. 0 \in T
    BY a + 1 + 0 = a + 1
  <2>2. ASSUME NEW k \in Nat, k \in T PROVE k + 1 \in T
    <3> SUFFICES ASSUME a + 1 + (k + 1) <= len PROVE f[a + 1 + (k + 1)] \in S
      OBVIOUS
    <3>1. f[a + 1 + k] \in S /\ a + 1 + k \in j..len /\ (a + 1 + k) + 1 = a + 1 + (k + 1)
      BY <2>2
    <3> QED BY <3>1
  <2> HIDE DEF T
  <2>3. Nat \subseteq T
    BY <2>1, <2>2, AllNumbers
  <2>4. a < len => f[len] \in S
    <3> SUFFICES ASSUME a < len PROVE f[len] \in S
      OBVIOUS
    <3>1. PICK d \in Nat : a + 1 + d = len
      <4>1. len - a - 1 \in Nat /\ a + 1 + (len - a - 1) = len
        OBVIOUS
      <4> QED BY <4>1
    <3>2. d \in T
      BY <2>3
    <3>3. f[a + 1 + d] \in S
      BY <3>1, <3>2 DEF T
    <3> QED BY <3>1, <3>3
  <2> QED BY <2>4
<1>2. f[b] \in S
  <2> DEFINE T == {d \in Nat : j + d <= len => f[j + d] \in S}
  <2>1. 0 \in T
    BY <1>1, j + 0 = j
  <2>2. ASSUME NEW k \in Nat, k \in T PROVE k + 1 \in T
    <3> SUFFICES ASSUME j + (k + 1) <= len PROVE f[j + (k + 1)] \in S
      OBVIOUS
    <3>1. f[j + k] \in S /\ j + k \in j..len /\ (j + k) + 1 = j + (k + 1)
      BY <2>2
    <3> QED BY <3>1
  <2> HIDE DEF T
  <2>3. Nat \subseteq T
    BY <2>1, <2>2, AllNumbers
  <2>4. PICK d \in Nat : j + d = b
    <3>1. b - j \in Nat /\ j + (b - j) = b
      OBVIOUS
    <3> QED BY <3>1
  <2>5. d \in T
    BY <2>3
  <2>6. j + d <= len
    BY <2>4
  <2>7. f[j + d] \in S
    BY <2>5, <2>6 DEF T
  <2> QED BY <2>4, <2>7
<1> QED
  BY <1>2

-----------------------------------------------------------------------------
(* What a type holds.                                                       *)

ByValue == [m \in Names |-> Holds(m)]
ByValueOnly(k) == [m \in Names |-> {h \in Holds(m) : kind[h] = k}]

LEMMA NextFacts ==
  /\ ByValue \in [Names -> SUBSET Names]
  /\ \A k : ByValueOnly(k) \in [Names -> SUBSET Names]
  /\ \A n : Within(n) = Reach(ByValue, n)
  /\ \A k, n : WithinOnly(k, n) = Reach(ByValueOnly(k), n)
BY DEF ByValue, ByValueOnly, Within, WithinOnly, Holds

LEMMA PartFacts ==
  ASSUME NEW n
  PROVE  \A p : p \in PartsOf(n) <=> \E g \in DOMAIN body[n] : \E i \in DOMAIN body[n][g] : p = body[n][g][i]
BY DEF PartsOf, ToSet

LEMMA PlaceFacts ==
  ASSUME NEW n
  PROVE  /\ \A place \in InlinePlaces(n) : TargetOf(n, place) \in Holds(n)
         /\ \A h \in Holds(n) : (\A p \in PartsOf(n) : p.of \in Names => p.known) =>
               \E place \in InlinePlaces(n) : TargetOf(n, place) = h
<1>1. ASSUME NEW place \in InlinePlaces(n) PROVE TargetOf(n, place) \in Holds(n)
  <2>1. PICK g \in DOMAIN body[n] : \E i \in {j \in DOMAIN body[n][g] : Inline(body[n][g][j])} : place = <<g, i>>
    BY DEF InlinePlaces
  <2>2. PICK i \in DOMAIN body[n][g] : Inline(body[n][g][i]) /\ place = <<g, i>>
    BY <2>1
  <2>3. PICK p : p = body[n][g][i]
    OBVIOUS
  <2>4. TargetOf(n, place) = p.of
    BY <2>2, <2>3 DEF TargetOf
  <2>5. p \in PartsOf(n)
    BY <2>2, <2>3, PartFacts
  <2>6. p.of \in Names /\ p.wrap \in {"plain", "fixed"}
    BY <2>2, <2>3 DEF Inline, Named
  <2> QED BY <2>4, <2>5, <2>6 DEF Holds
<1>2. ASSUME NEW h \in Holds(n), \A p \in PartsOf(n) : p.of \in Names => p.known
      PROVE  \E place \in InlinePlaces(n) : TargetOf(n, place) = h
  <2>1. PICK p \in PartsOf(n) : p.of \in Names /\ p.wrap \in {"plain", "fixed"} /\ p.of = h
    BY DEF Holds
  <2>2. PICK g \in DOMAIN body[n] : \E i \in DOMAIN body[n][g] : p = body[n][g][i]
    BY PartFacts
  <2>3. PICK i \in DOMAIN body[n][g] : p = body[n][g][i]
    BY <2>2
  <2>4. Inline(body[n][g][i])
    BY <1>2, <2>1, <2>3 DEF Inline, Named
  <2>5. <<g, i>> \in InlinePlaces(n)
    BY <2>4 DEF InlinePlaces
  <2>6. TargetOf(n, <<g, i>>) = h
    BY <2>1, <2>3 DEF TargetOf
  <2> QED BY <2>5, <2>6
<1> QED
  BY <1>1, <1>2

-----------------------------------------------------------------------------
(* The declarations, and what resolving them does.                          *)

DeclOK ==
  /\ order \in Seq(Names) /\ IsInjective(order)
  /\ kind \in [Names -> {"none", "struct", "enum"}]
  /\ body \in [Names -> Seq(Seq(Part))]

LEMMA NamesFacts ==
  /\ NameList \in Seq(Names) /\ IsInjective(NameList)
  /\ \A p \in Part : p.of \in Names \/ p.of \in Leaves
  /\ \A n \in Names : n \notin Leaves
BY DeclarationsAssumption DEF Names, Part

LEMMA PartsArePart ==
  ASSUME DeclOK, NEW n \in Names
  PROVE  PartsOf(n) \subseteq Part
<1> SUFFICES ASSUME NEW p \in PartsOf(n) PROVE p \in Part
  OBVIOUS
<1>1. PICK g \in DOMAIN body[n] : \E i \in DOMAIN body[n][g] : p = body[n][g][i]
  BY PartFacts
<1>2. PICK i \in DOMAIN body[n][g] : p = body[n][g][i]
  BY <1>1
<1>3. body[n] \in Seq(Seq(Part))
  BY DEF DeclOK
<1>4. body[n][g] \in Seq(Part)
  BY <1>3, ElementOfSeq
<1> QED
  BY <1>2, <1>4, ElementOfSeq

\* How the parts of a type change when its body does.
LEMMA PartFactsNext ==
  ASSUME NEW n
  PROVE  \A p : p \in PartsOf(n)' <=> \E g \in DOMAIN body'[n] : \E i \in DOMAIN body'[n][g] : p = body'[n][g][i]
BY DEF PartsOf, ToSet

LEMMA DeclareStep ==
  ASSUME DeclOK, Declarations, NEW k \in {"struct", "enum"}, Declare(k)
  PROVE  DeclOK' /\ Declarations'
<1> DEFINE n == NameList[Len(order) + 1]
<1>1. /\ phase = "declaring" /\ phase' = phase /\ Len(order) < Len(NameList)
      /\ order' = Append(order, n)
      /\ kind' = [kind EXCEPT ![n] = k] /\ body' = [body EXCEPT ![n] = << <<>> >>]
  BY DEF Declare
<1>2. /\ order \in Seq(Names) /\ NameList \in Seq(Names) /\ Len(order) \in Nat /\ Len(NameList) \in Nat
      /\ DOMAIN order = 1..Len(order)
  BY NamesFacts DEF DeclOK
<1>3. n \in Names /\ Len(order) + 1 \in DOMAIN NameList
  BY <1>1, <1>2
<1>4. \A i \in DOMAIN order : order[i] # n
  <2> TAKE i \in DOMAIN order
  <2>1. order[i] = NameList[i] /\ i \in DOMAIN NameList /\ i # Len(order) + 1
    BY <1>1, <1>2 DEF Declarations
  <2> QED BY <2>1, <1>3, NamesFacts DEF IsInjective
<1> HIDE DEF n
<1>5. /\ order' \in Seq(Names) /\ DOMAIN order' = 1..(Len(order) + 1)
      /\ \A i \in 1..Len(order) : order'[i] = order[i]
      /\ order'[Len(order) + 1] = n
      /\ Len(order') = Len(order) + 1
  BY <1>1, <1>2, <1>3
<1>6. IsInjective(order')
  <2> SUFFICES ASSUME NEW a \in 1..(Len(order) + 1), NEW b \in 1..(Len(order) + 1), order'[a] = order'[b]
               PROVE  a = b
    BY <1>5 DEF IsInjective
  <2>0. \A c, d \in DOMAIN order : order[c] = order[d] => c = d
    BY DEF IsInjective, DeclOK
  <2>1. CASE a \in 1..Len(order) /\ b \in 1..Len(order)
    BY <1>2, <1>5, <2>0, <2>1
  <2>2. a \in 1..Len(order) \/ a = Len(order) + 1
    BY <1>2
  <2>3. b \in 1..Len(order) \/ b = Len(order) + 1
    BY <1>2
  <2>4. \A c \in 1..Len(order) : order'[c] # order'[Len(order) + 1]
    BY <1>2, <1>4, <1>5
  <2> QED BY <2>1, <2>2, <2>3, <2>4
<1>7. Declared' = Declared \cup {n}
  <2>1. Declared' = {order'[i] : i \in 1..(Len(order) + 1)}
    BY <1>5 DEF Declared, ToSet
  <2>2. Declared = {order[i] : i \in 1..Len(order)}
    BY <1>2 DEF Declared, ToSet
  <2> QED BY <1>2, <1>5, <2>1, <2>2
<1>8. n \notin Declared
  BY <1>4 DEF Declared, ToSet
<1>9. << <<>> >> \in Seq(Seq(Part)) /\ << <<>> >> # <<>>
  OBVIOUS
<1>10. DeclOK'
  BY <1>1, <1>3, <1>5, <1>6, <1>9 DEF DeclOK
<1>11. \A m \in Names : PartsOf(m)' = IF m = n THEN {} ELSE PartsOf(m)
  <2> TAKE m \in Names
  <2>1. CASE m = n
    <3>1. body'[m] = << <<>> >>
      BY <1>1, <1>3, <2>1 DEF DeclOK
    <3>2. DOMAIN << <<>> >> = {1} /\ << <<>> >>[1] = <<>> /\ DOMAIN <<>> = {}
      OBVIOUS
    <3>3. \A p : p \notin PartsOf(m)'
      BY <3>1, <3>2, PartFactsNext
    <3> QED BY <2>1, <3>3
  <2>2. CASE m # n
    <3>1. body'[m] = body[m]
      BY <1>1, <2>2 DEF DeclOK
    <3> QED BY <2>2, <3>1 DEF PartsOf
  <2> QED BY <2>1, <2>2
<1>12. \A i \in DOMAIN order' : order'[i] = NameList[i]
  <2>1. \A i \in 1..Len(order) : order'[i] = NameList[i]
    <3>1. \A i \in DOMAIN order : order[i] = NameList[i]
      BY DEF Declarations
    <3> QED BY <1>2, <1>5, <3>1
  <2>2. order'[Len(order) + 1] = NameList[Len(order) + 1]
    BY <1>5 DEF n
  <2>3. \A i \in 1..(Len(order) + 1) : i \in 1..Len(order) \/ i = Len(order) + 1
    BY <1>2
  <2> QED BY <1>5, <2>1, <2>2, <2>3
<1>13. \A m \in Names : (m \in Declared' <=> kind'[m] # "none") /\ (m \in Declared' <=> body'[m] # <<>>)
  BY <1>1, <1>3, <1>7, <1>9 DEF Declarations, DeclOK
<1>14. \A m \in Names : \A p \in PartsOf(m)' : p.of \in Names => p.of \in Declared'
  BY <1>7, <1>11 DEF Declarations
<1> QED
  BY <1>1, <1>2, <1>5, <1>10, <1>12, <1>13, <1>14 DEF Declarations, Unresolved


LEMMA AddPartStep ==
  ASSUME DeclOK, Declarations, AddPart
  PROVE  DeclOK' /\ Declarations'
<1>1. phase = "declaring" /\ phase' = phase /\ order' = order /\ kind' = kind
  BY DEF AddPart
<1>2. PICK i \in DOMAIN order, part \in [wrap : NameWraps, of : Declared, known : {FALSE}]
                                        \cup [wrap : LeafWraps, of : Leaves, known : {TRUE}] :
        body' = [body EXCEPT ![order[i]][Len(body[order[i]])] = Append(@, part)]
  BY DEF AddPart
<1>3. Declared \subseteq Names
  BY DEF Declared, ToSet, DeclOK
<1>4. part \in Part /\ (part.of \in Names => part.of \in Declared)
  BY <1>3, NamesFacts, DeclarationsAssumption DEF Part, Wraps, Names
<1> DEFINE n == order[i]  g == Len(body[n])
<1>5. n \in Declared /\ n \in Names
  BY <1>3 DEF Declared, ToSet
<1>6. body[n] \in Seq(Seq(Part)) /\ body[n] # <<>>
  BY <1>5 DEF DeclOK, Declarations
<1>7. g \in DOMAIN body[n] /\ body[n][g] \in Seq(Part)
  BY <1>6, ElementOfSeq
<1>8. /\ Append(body[n][g], part) \in Seq(Part)
      /\ DOMAIN Append(body[n][g], part) = DOMAIN body[n][g] \cup {Len(body[n][g]) + 1}
      /\ \A j \in DOMAIN body[n][g] : Append(body[n][g], part)[j] = body[n][g][j]
      /\ Append(body[n][g], part)[Len(body[n][g]) + 1] = part
  BY <1>4, <1>7
<1>9. body' = [body EXCEPT ![n] = [body[n] EXCEPT ![g] = Append(body[n][g], part)]]
  BY <1>2, <1>5 DEF DeclOK
<1> HIDE DEF n, g
<1>10. /\ [body[n] EXCEPT ![g] = Append(body[n][g], part)] \in Seq(Seq(Part))
       /\ [body[n] EXCEPT ![g] = Append(body[n][g], part)] # <<>>
  BY <1>6, <1>7, <1>8
<1>11. body' \in [Names -> Seq(Seq(Part))] /\ \A m \in Names : body'[m] = <<>> <=> body[m] = <<>>
  BY <1>5, <1>6, <1>9, <1>10 DEF DeclOK
<1>12. \A m \in Names : PartsOf(m)' \subseteq PartsOf(m) \cup {part}
  <2> SUFFICES ASSUME NEW m \in Names, NEW p \in PartsOf(m)' PROVE p \in PartsOf(m) \/ p = part
    OBVIOUS
  <2>1. CASE m # n
    <3>1. body'[m] = body[m]
      BY <1>9, <2>1 DEF DeclOK
    <3> QED BY <3>1 DEF PartsOf
  <2>2. CASE m = n
    <3>1. body'[m] = [body[n] EXCEPT ![g] = Append(body[n][g], part)]
      BY <1>5, <1>9, <2>2 DEF DeclOK
    <3>2. PICK h \in DOMAIN body'[m] : \E j \in DOMAIN body'[m][h] : p = body'[m][h][j]
      BY PartFactsNext
    <3>3. PICK j \in DOMAIN body'[m][h] : p = body'[m][h][j]
      BY <3>2
    <3>4. h \in DOMAIN body[n]
      BY <1>6, <3>1
    <3>5. CASE h # g
      <4>1. body'[m][h] = body[n][h]
        BY <3>1, <3>4, <3>5
      <4> QED BY <2>2, <3>3, <3>4, <4>1, PartFacts
    <3>6. CASE h = g
      <4>1. body'[m][h] = Append(body[n][g], part)
        BY <1>7, <3>1, <3>6
      <4>2. j \in DOMAIN body[n][g] \/ j = Len(body[n][g]) + 1
        BY <1>8, <3>3, <4>1
      <4>3. j \in DOMAIN body[n][g] => p = body[n][g][j]
        BY <1>8, <3>3, <4>1
      <4>4. j = Len(body[n][g]) + 1 => p = part
        BY <1>8, <3>3, <4>1
      <4> QED BY <1>7, <2>2, <4>2, <4>3, <4>4, PartFacts
    <3> QED BY <3>5, <3>6
  <2> QED BY <2>1, <2>2
<1>13. Declared' = Declared
  BY <1>1 DEF Declared
<1>14. \A m \in Names : \A p \in PartsOf(m)' : p.of \in Names => p.of \in Declared'
  BY <1>4, <1>12, <1>13 DEF Declarations
<1> QED
  BY <1>1, <1>11, <1>13, <1>14 DEF DeclOK, Declarations, Unresolved

LEMMA AddVariantStep ==
  ASSUME DeclOK, Declarations, AddVariant
  PROVE  DeclOK' /\ Declarations'
<1>1. phase = "declaring" /\ phase' = phase /\ order' = order /\ kind' = kind
  BY DEF AddVariant
<1>2. PICK i \in DOMAIN order : body' = [body EXCEPT ![order[i]] = Append(@, <<>>)]
  BY DEF AddVariant
<1>3. Declared \subseteq Names
  BY DEF Declared, ToSet, DeclOK
<1> DEFINE n == order[i]
<1>5. n \in Declared /\ n \in Names
  BY <1>3 DEF Declared, ToSet
<1>6. body[n] \in Seq(Seq(Part)) /\ body[n] # <<>>
  BY <1>5 DEF DeclOK, Declarations
<1>8. /\ Append(body[n], <<>>) \in Seq(Seq(Part)) /\ Append(body[n], <<>>) # <<>>
      /\ DOMAIN Append(body[n], <<>>) = DOMAIN body[n] \cup {Len(body[n]) + 1}
      /\ \A j \in DOMAIN body[n] : Append(body[n], <<>>)[j] = body[n][j]
      /\ Append(body[n], <<>>)[Len(body[n]) + 1] = <<>>
  BY <1>6
<1>9. body' = [body EXCEPT ![n] = Append(body[n], <<>>)]
  BY <1>2, <1>5 DEF DeclOK
<1> HIDE DEF n
<1>11. body' \in [Names -> Seq(Seq(Part))] /\ \A m \in Names : body'[m] = <<>> <=> body[m] = <<>>
  BY <1>5, <1>6, <1>8, <1>9 DEF DeclOK
<1>12. \A m \in Names : PartsOf(m)' \subseteq PartsOf(m)
  <2> SUFFICES ASSUME NEW m \in Names, NEW p \in PartsOf(m)' PROVE p \in PartsOf(m)
    OBVIOUS
  <2>1. CASE m # n
    <3>1. body'[m] = body[m]
      BY <1>9, <2>1 DEF DeclOK
    <3> QED BY <3>1 DEF PartsOf
  <2>2. CASE m = n
    <3>1. body'[m] = Append(body[n], <<>>)
      BY <1>5, <1>9, <2>2 DEF DeclOK
    <3>2. PICK h \in DOMAIN body'[m] : \E j \in DOMAIN body'[m][h] : p = body'[m][h][j]
      BY PartFactsNext
    <3>3. h # Len(body[n]) + 1
      BY <1>8, <3>1, <3>2
    <3>4. h \in DOMAIN body[n] /\ body'[m][h] = body[n][h]
      BY <1>8, <3>1, <3>2, <3>3
    <3> QED BY <2>2, <3>2, <3>4, PartFacts
  <2> QED BY <2>1, <2>2
<1>13. Declared' = Declared
  BY <1>1 DEF Declared
<1>14. \A m \in Names : \A p \in PartsOf(m)' : p.of \in Names => p.of \in Declared'
  BY <1>12, <1>13 DEF Declarations
<1> QED
  BY <1>1, <1>11, <1>13, <1>14 DEF DeclOK, Declarations, Unresolved

\* Resolving keeps the names of the parts, and makes those of the tables known.
LEMMA ResolveKeeps ==
  ASSUME DeclOK, Declarations, NEW k, ResolveBodies(k)
  PROVE  /\ body' \in [Names -> Seq(Seq(Part))]
         /\ \A n \in Names : body'[n] = <<>> <=> body[n] = <<>>
         /\ \A n \in Names : \A p \in PartsOf(n)' : \E q \in PartsOf(n) :
              p.of = q.of /\ (q.known => p.known) /\ (kind[n] = k => (p.of \in Declared => p.known))
<1> DEFINE B(n) == [g \in DOMAIN body[n] |-> [i \in DOMAIN body[n][g] |-> ResolveType(body[n][g][i])]]
<1>0. body' = [n \in Names |-> IF kind[n] = k THEN B(n) ELSE body[n]]
  BY DEF ResolveBodies
<1>1. \A p \in Part : /\ ResolveType(p) \in Part /\ ResolveType(p).of = p.of
                      /\ ResolveType(p).known = (p.known \/ p.of \in Declared)
  BY DEF ResolveType, Part
<1>2. ASSUME NEW n \in Names PROVE B(n) \in Seq(Seq(Part)) /\ (B(n) = <<>> <=> body[n] = <<>>)
  <2>1. body[n] \in Seq(Seq(Part))
    BY DEF DeclOK
  <2>2. ASSUME NEW g \in DOMAIN body[n]
        PROVE  [i \in DOMAIN body[n][g] |-> ResolveType(body[n][g][i])] \in Seq(Part)
    <3>1. body[n][g] \in Seq(Part)
      BY <2>1, ElementOfSeq
    <3>2. \A i \in DOMAIN body[n][g] : body[n][g][i] \in Part
      BY <3>1, ElementOfSeq
    <3>3. Len(body[n][g]) \in Nat /\ DOMAIN body[n][g] = 1..Len(body[n][g])
      BY <3>1
    <3>4. [i \in 1..Len(body[n][g]) |-> ResolveType(body[n][g][i])] \in Seq(Part)
      BY <1>1, <3>2, <3>3, IsASeq
    <3> QED BY <3>3, <3>4
  <2>3. Len(body[n]) \in Nat /\ DOMAIN body[n] = 1..Len(body[n])
    BY <2>1
  <2>4. B(n) \in Seq(Seq(Part))
    <3>1. PICK e : e = B(n)
      OBVIOUS
    <3>2. e \in [1..Len(body[n]) -> Seq(Part)]
      BY <2>2, <2>3, <3>1
    <3>3. e \in Seq(Seq(Part))
      BY <2>3, <3>2
    <3> QED BY <3>1, <3>3
  <2>5. DOMAIN B(n) = DOMAIN body[n]
    OBVIOUS
  <2>6. \A x \in Seq(Seq(Part)) : x = <<>> <=> DOMAIN x = {}
    OBVIOUS
  <2> HIDE DEF B
  <2> QED BY <2>1, <2>4, <2>5, <2>6
<1>3. body' \in [Names -> Seq(Seq(Part))] /\ \A n \in Names : body'[n] = <<>> <=> body[n] = <<>>
  BY <1>0, <1>2 DEF DeclOK
<1>4. ASSUME NEW n \in Names, NEW p \in PartsOf(n)'
      PROVE  \E q \in PartsOf(n) :
                p.of = q.of /\ (q.known => p.known) /\ (kind[n] = k => (p.of \in Declared => p.known))
  <2>1. CASE kind[n] # k
    <3>1. body'[n] = body[n]
      BY <1>0, <2>1
    <3>2. p \in PartsOf(n)
      BY <3>1 DEF PartsOf
    <3> QED BY <2>1, <3>2
  <2>2. CASE kind[n] = k
    <3>1. body'[n] = B(n)
      BY <1>0, <2>2
    <3>2. PICK g \in DOMAIN body'[n] : \E i \in DOMAIN body'[n][g] : p = body'[n][g][i]
      BY PartFactsNext
    <3>3. PICK i \in DOMAIN body'[n][g] : p = body'[n][g][i]
      BY <3>2
    <3>4. g \in DOMAIN body[n] /\ i \in DOMAIN body[n][g] /\ p = ResolveType(body[n][g][i])
      BY <3>1, <3>2, <3>3
    <3>5. body[n][g][i] \in PartsOf(n)
      BY <3>4, PartFacts
    <3>6. body[n][g][i] \in Part
      BY <3>5, PartsArePart
    <3> HIDE DEF B
    <3>7. PICK q \in PartsOf(n) : q = body[n][g][i]
      BY <3>5
    <3>8. p.of = q.of /\ p.known = (q.known \/ q.of \in Declared)
      BY <1>1, <3>4, <3>6, <3>7
    <3> QED BY <3>8
  <2> QED BY <2>1, <2>2
<1> QED
  BY <1>3, <1>4

LEMMA ResolveSteps ==
  ASSUME DeclOK, Declarations, ResolveStructs \/ ResolveEnums
  PROVE  DeclOK' /\ Declarations'
<1>1. PICK k : /\ ResolveBodies(k)
               /\ \/ k = "struct" /\ phase = "resolve structs" /\ phase' = "resolve enums"
                  \/ k = "enum" /\ phase = "resolve enums" /\ phase' = "finite"
  BY DEF ResolveStructs, ResolveEnums
<1>2. order' = order /\ kind' = kind /\ Declared' = Declared
  BY DEF ResolveStructs, ResolveEnums, Declared
<1>3. DeclOK'
  BY <1>1, <1>2, ResolveKeeps DEF DeclOK
<1>4. ASSUME NEW n \in Names, NEW p \in PartsOf(n)', p.of \in Names
      PROVE  /\ p.of \in Declared'
             /\ kind[n] = "struct" => p.known
             /\ phase' = "finite" => p.known
  <2>1. \E q \in PartsOf(n) :
          p.of = q.of /\ (q.known => p.known) /\ (kind[n] = k => (p.of \in Declared => p.known))
    <3>1. \A m \in Names : \A r \in PartsOf(m)' : \E q \in PartsOf(m) :
            r.of = q.of /\ (q.known => r.known) /\ (kind[m] = k => (r.of \in Declared => r.known))
      <4>1. ResolveBodies(k)
        BY <1>1
      <4> HIDE <1>1
      <4> QED BY <4>1, ResolveKeeps, Zenon
    <3> QED BY <1>4, <3>1, Zenon
  <2>2. PICK q \in PartsOf(n) :
          p.of = q.of /\ (q.known => p.known) /\ (kind[n] = k => (p.of \in Declared => p.known))
    BY <2>1
  <2>3. p.of \in Declared
    BY <1>4, <2>2 DEF Declarations
  <2>4. kind[n] = "struct" => p.known
    <3>1. phase = "resolve enums" /\ kind[n] = "struct" => q.known
      BY <1>4, <2>2 DEF Declarations
    <3> QED BY <1>1, <2>2, <2>3, <3>1
  <2>5. kind[n] \in {"none", "struct", "enum"}
    BY DEF DeclOK
  <2>6. kind[n] # "none"
    <3> SUFFICES ASSUME kind[n] = "none" PROVE FALSE
      OBVIOUS
    <3>1. body[n] = <<>>
      BY DEF Declarations
    <3> QED BY <2>2, <3>1 DEF PartsOf
  <2>7. phase' = "finite" => p.known
    BY <1>1, <2>2, <2>3, <2>4, <2>5, <2>6
  <2> QED BY <1>2, <2>3, <2>4, <2>7
<1>5. \A n \in Names : body'[n] = <<>> <=> body[n] = <<>>
  BY <1>1, ResolveKeeps
<1> QED
  BY <1>1, <1>2, <1>3, <1>4, <1>5 DEF Declarations, Unresolved

-----------------------------------------------------------------------------
(* The search.                                                              *)

LEMMA FrontFacts ==
  ASSUME NEW S, NEW q \in Seq(S), q # <<>>
  PROVE  /\ Len(q) \in Nat /\ Len(q) >= 1 /\ DOMAIN q = 1..Len(q) /\ Last(q) = q[Len(q)] /\ Last(q) \in S
         /\ Front(q) \in Seq(S) /\ DOMAIN Front(q) = 1..(Len(q) - 1)
         /\ \A i \in 1..(Len(q) - 1) : Front(q)[i] = q[i]
<1>1. Len(q) \in Nat /\ Len(q) >= 1 /\ DOMAIN q = 1..Len(q)
  BY EmptySeq
<1>2. /\ SubSeq(q, 1, Len(q) - 1) \in Seq(S) /\ Len(SubSeq(q, 1, Len(q) - 1)) = Len(q) - 1
      /\ \A i \in 1..(Len(q) - 1) : SubSeq(q, 1, Len(q) - 1)[i] = q[i]
  BY <1>1
<1>3. DOMAIN SubSeq(q, 1, Len(q) - 1) = 1..(Len(q) - 1)
  BY <1>1, <1>2
<1> QED
  BY <1>1, <1>2, <1>3 DEF Front, Last

LEMMA AdvanceFacts ==
  ASSUME NEW S, NEW q \in Seq(S), q # <<>>, NEW f \in S
  PROVE  /\ Append(Front(q), f) \in Seq(S) /\ DOMAIN Append(Front(q), f) = 1..Len(q)
         /\ \A i \in 1..Len(q) : Append(Front(q), f)[i] = IF i = Len(q) THEN f ELSE q[i]
<1>1. Front(q) \in Seq(S) /\ DOMAIN Front(q) = 1..(Len(q) - 1) /\ Len(q) \in Nat /\ Len(q) >= 1
      /\ \A i \in 1..(Len(q) - 1) : Front(q)[i] = q[i]
  BY FrontFacts
<1>2. Len(Front(q)) = Len(q) - 1
  BY <1>1
<1> QED BY <1>1, <1>2

LEMMA DeclsKept ==
  ASSUME UNCHANGED decls
  PROVE  /\ Declared' = Declared /\ (DeclOK => DeclOK')
         /\ \A n : /\ PartsOf(n)' = PartsOf(n) /\ Holds(n)' = Holds(n)
                   /\ InlinePlaces(n)' = InlinePlaces(n) /\ Within(n)' = Within(n)
                   /\ \A k : WithinOnly(k, n)' = WithinOnly(k, n)
                   /\ \A place : TargetOf(n, place)' = TargetOf(n, place)
         /\ \A K : Knot(K)' = Knot(K)
         /\ \A k : OfKind(k)' = OfKind(k)
         /\ \A c : IsOurs(c)' = IsOurs(c)
<1>1. order' = order /\ kind' = kind /\ body' = body
  BY DEF decls
<1>2. Declared' = Declared /\ (DeclOK => DeclOK')
  BY <1>1 DEF Declared, DeclOK
<1>3. \A n : PartsOf(n)' = PartsOf(n)
  BY <1>1 DEF PartsOf
<1>4. \A n : Holds(n)' = Holds(n)
  BY <1>3 DEF Holds
<1>5. \A n : InlinePlaces(n)' = InlinePlaces(n)
  BY <1>1 DEF InlinePlaces, Inline, Named
<1>6. \A n : Within(n)' = Within(n)
  BY <1>4 DEF Within
<1>7. \A n, k : WithinOnly(k, n)' = WithinOnly(k, n)
  BY <1>1, <1>4 DEF WithinOnly
<1>8. \A n, place : TargetOf(n, place)' = TargetOf(n, place)
  BY <1>1 DEF TargetOf
<1>9. \A K : Knot(K)' = Knot(K)
  BY <1>4 DEF Knot
<1>10. (\A k : OfKind(k)' = OfKind(k)) /\ \A c : IsOurs(c)' = IsOurs(c)
  BY <1>1, <1>2 DEF OfKind, IsOurs
<1> QED
  BY <1>2, <1>3, <1>4, <1>5, <1>6, <1>7, <1>8, <1>9, <1>10

LEMMA DeclarationsKept ==
  ASSUME Declarations, UNCHANGED decls, phase' = phase \/ {phase, phase'} \cap Unresolved = {}
  PROVE  Declarations'
<1>1. order' = order /\ kind' = kind /\ body' = body
  BY DEF decls
<1>2. Declared' = Declared /\ \A n : PartsOf(n)' = PartsOf(n)
  BY DeclsKept
<1> QED
  BY <1>1, <1>2 DEF Declarations, Unresolved

LEMMA DeclaredAreNames ==
  ASSUME TypesInv
  PROVE  Declared \subseteq Names
BY DEF TypesInv, TypeOK, Declared, ToSet

LEMMA HeldAreDeclared ==
  ASSUME TypesInv, NEW n \in Names
  PROVE  Holds(n) \subseteq Declared /\ Declared \subseteq Names
<1>1. Declared \subseteq Names
  BY DEF TypesInv, TypeOK, Declared, ToSet
<1>2. \A p \in PartsOf(n) : p.of \in Names => p.of \in Declared
  BY DEF TypesInv, Declarations
<1> QED
  BY <1>1, <1>2 DEF Holds

LEMMA DeclaredKinds ==
  ASSUME TypesInv
  PROVE  \A n \in Declared : kind[n] \in {"struct", "enum"}
<1>1. Declared \subseteq Names
  BY DEF TypesInv, TypeOK, Declared, ToSet
<1>2. \A n \in Names : n \in Declared <=> kind[n] # "none"
  BY DEF TypesInv, Declarations
<1>3. kind \in [Names -> {"none", "struct", "enum"}]
  BY DEF TypesInv, TypeOK
<1> QED
  BY <1>1, <1>2, <1>3

\* A cycle the search closes is a cycle, and its end is caught.
LEMMA RingCaught ==
  ASSUME TypesInv, stack # <<>>, NEW s \in Holds(Last(stack).node), mark[s] = "path"
  PROVE  /\ s \in CycleTo(s)
         /\ \A n \in CycleTo(s) : CycleTo(s) \subseteq Within(n)
         /\ IsOurs(CycleTo(s)) \/ s \in WithinOnly("enum", s)
<1>1. stack \in Seq(Frames)
  BY DEF TypesInv, PathIsWalk, Frames
<1>2. PICK len : len = Len(stack)
  OBVIOUS
<1>3. len \in Nat /\ len >= 1 /\ DOMAIN stack = 1..len /\ Last(stack) = stack[len]
  BY <1>1, <1>2, FrontFacts
<1>4. s \in Names
  BY DEF Holds
<1>5. PICK j \in 1..len : stack[j].node = s
  BY <1>3, <1>4 DEF TypesInv, TypeOK
<1>6. PICK f : f = [i \in 1..len |-> stack[i].node]
  OBVIOUS
<1>7. f \in [1..len -> Names] /\ f[j] = s
  <2>1. \A i \in 1..len : stack[i] \in Frames
    BY <1>1, <1>3
  <2> QED BY <1>5, <1>6, <2>1 DEF Frames
<1>8. CycleTo(s) = {f[i] : i \in j..len}
  <2>1. \A k \in 1..len : (\E i \in 1..k : stack[i].node = s) <=> k \in j..len
    <3> TAKE k \in 1..len
    <3>1. \A i \in 1..len : stack[i].node = s => i = j
      BY <1>3, <1>5 DEF TypesInv, TypeOK
    <3> QED BY <1>3, <1>5, <3>1
  <2>2. {k \in DOMAIN stack : \E i \in 1..k : stack[i].node = s} = j..len
    BY <1>3, <2>1
  <2>3. CycleTo(s) = {stack[i].node : i \in j..len}
    BY <2>2 DEF CycleTo
  <2> QED BY <1>3, <1>6, <2>3
<1>9. \A i \in j..len : i + 1 <= len => f[i + 1] \in Holds(f[i])
  <2> SUFFICES ASSUME NEW i \in j..len, i + 1 <= len PROVE f[i + 1] \in Holds(f[i])
    OBVIOUS
  <2>1. i \in 1..len /\ i + 1 \in 1..len
    BY <1>3
  <2>2. stack[i + 1].node \in Holds(stack[i].node)
    BY <1>3, <2>1 DEF TypesInv, PathIsWalk
  <2> QED BY <1>6, <2>1, <2>2
<1>10. f[j] \in Holds(f[len])
  BY <1>3, <1>6, <1>7
<1>11. s \in CycleTo(s)
  BY <1>3, <1>7, <1>8
<1>12. ASSUME NEW a \in j..len, NEW b \in j..len PROVE f[b] \in Within(f[a])
  <2>1. ByValue \in [Names -> SUBSET Names] /\ Within(f[a]) = Reach(ByValue, f[a])
    BY NextFacts
  <2>2. \A n \in Names : ByValue[n] = Holds(n)
    BY DEF ByValue
  <2>3. \A i \in j..len : i + 1 <= len => f[i + 1] \in ByValue[f[i]]
    BY <1>3, <1>7, <1>9, <2>2
  <2>4. f[j] \in ByValue[f[len]]
    BY <1>3, <1>7, <1>10, <2>2
  <2>5. f[b] \in Reach(ByValue, f[a])
    BY <1>3, <1>7, <2>1, <2>3, <2>4, RingReaches
  <2> QED BY <2>1, <2>5
<1>13. ASSUME ~IsOurs(CycleTo(s)) PROVE s \in WithinOnly("enum", s)
  <2>1. \A i \in j..len : kind[f[i]] = "enum"
    <3> TAKE i \in j..len
    <3>1. f[i] \in Declared
      BY <1>3, <1>6 DEF TypesInv, PathIsWalk
    <3>2. f[i] \in CycleTo(s)
      BY <1>8
    <3> QED BY <1>13, <3>1, <3>2, DeclaredKinds DEF IsOurs
  <2>2. ByValueOnly("enum") \in [Names -> SUBSET Names]
        /\ WithinOnly("enum", f[j]) = Reach(ByValueOnly("enum"), f[j])
    BY NextFacts
  <2>3. \A n \in Names : ByValueOnly("enum")[n] = {h \in Holds(n) : kind[h] = "enum"}
    BY DEF ByValueOnly
  <2>4. \A i \in j..len : i + 1 <= len => f[i + 1] \in ByValueOnly("enum")[f[i]]
    BY <1>3, <1>7, <1>9, <2>1, <2>3
  <2>5. f[j] \in ByValueOnly("enum")[f[len]]
    BY <1>3, <1>7, <1>10, <2>1, <2>3
  <2>6. f[j] \in Reach(ByValueOnly("enum"), f[j])
    BY <1>3, <1>7, <2>2, <2>4, <2>5, RingReaches
  <2> QED BY <1>7, <2>2, <2>6
<1> QED
  BY <1>8, <1>11, <1>12, <1>13

\* What is caught stays caught, and the knots with it.
LEMMA CaughtStays ==
  ASSUME UNCHANGED decls, reported \subseteq reported'
  PROVE  \A k : Caught(k) => Caught(k)'
BY DeclsKept DEF Caught, OnReported

\* What a step of the search leaves alone.
LEMMA SearchFrame ==
  ASSUME TypesInv, UNCHANGED <<decls, phase, errors, hashed>>, phase = "finite",
         mark' \in [Names -> {"new", "path", "done"}]
  PROVE  DeclOK' /\ Declarations' /\ Order' /\ (hashed \cup errors)' \subseteq Declared'
<1>1. DeclOK /\ Declarations /\ Order /\ hashed \cup errors \subseteq Declared
  BY DEF TypesInv, TypeOK, DeclOK
<1>2. UNCHANGED decls
  OBVIOUS
<1>3. DeclOK' /\ Declarations' /\ Declared' = Declared
  BY <1>1, <1>2, DeclsKept, DeclarationsKept
<1>4. Order'
  BY <1>1 DEF Order, Searched, Unresolved
<1> QED
  BY <1>1, <1>3, <1>4

LEMMA StartRootStep ==
  ASSUME TypesInv, StartRoot
  PROVE  TypesInv'
<1>1. phase = "finite" /\ stack = <<>> /\ UNCHANGED <<decls, phase, reported, errors, hashed>>
  BY DEF StartRoot
<1>2. PICK i \in DOMAIN order : /\ mark[order[i]] = "new"
                                /\ stack' = <<[node |-> order[i], taken |-> {}]>>
                                /\ mark' = [mark EXCEPT ![order[i]] = "path"]
  BY DEF StartRoot
<1>3. PICK n : n = order[i]
  OBVIOUS
<1>4. n \in Declared /\ n \in Names
  BY <1>2, <1>3 DEF TypesInv, TypeOK, Declared, ToSet
<1>5. mark' \in [Names -> {"new", "path", "done"}] /\ \A m \in Names : mark'[m] = IF m = n THEN "path" ELSE mark[m]
  BY <1>2, <1>3, <1>4 DEF TypesInv, TypeOK
<1>6. DeclOK' /\ Declarations' /\ Order' /\ (hashed \cup errors)' \subseteq Declared'
  BY <1>1, <1>5, SearchFrame
<1>7. DOMAIN stack' = {1} /\ stack'[1] = [node |-> n, taken |-> {}] /\ stack' \in Seq(Frames)
  BY <1>2, <1>3, <1>4 DEF Frames
<1>8. \A m \in Names : mark[m] # "path"
  BY <1>1 DEF TypesInv, TypeOK
<1>9. TypeOK'
  <2>1. \A m \in Names : mark'[m] = "path" <=> \E j \in DOMAIN stack' : stack'[j].node = m
    BY <1>4, <1>5, <1>7, <1>8
  <2>2. \A a, b \in DOMAIN stack' : stack'[a].node = stack'[b].node => a = b
    BY <1>7
  <2> QED BY <1>5, <1>6, <2>1, <2>2 DEF TypeOK, DeclOK
<1>10. Declared' = Declared /\ (\A K : Knot(K)' = Knot(K)) /\ (\A k : Caught(k) => Caught(k)')
  BY <1>1, DeclsKept, CaughtStays
<1>11. PathIsWalk'
  BY <1>4, <1>7, <1>10 DEF PathIsWalk
<1>12. TakenSeen'
  BY <1>7 DEF TakenSeen
<1>13. KnotsCaught'
  <2> SUFFICES ASSUME NEW K \in SUBSET Declared, Knot(K), \E m \in K : mark'[m] = "done"
               PROVE  \E k \in K : Caught(k)'
    BY <1>10 DEF KnotsCaught
  <2>1. \E m \in K : mark[m] = "done"
    BY <1>5, HeldAreDeclared, <1>4
  <2> QED BY <1>10, <2>1 DEF KnotsCaught, TypesInv
<1>14. CyclesAreCycles'
  BY <1>1, DeclsKept DEF TypesInv, CyclesAreCycles
<1> QED
  BY <1>6, <1>9, <1>11, <1>12, <1>13, <1>14 DEF TypesInv

LEMMA LeaveNodeStep ==
  ASSUME TypesInv, LeaveNode
  PROVE  TypesInv'
<1>1. phase = "finite" /\ stack # <<>> /\ UNCHANGED <<decls, phase, reported, errors, hashed>>
  BY DEF LeaveNode
<1>2. stack \in Seq(Frames)
  BY DEF TypesInv, PathIsWalk
<1>3. PICK n, len : n = Last(stack).node /\ len = Len(stack)
  OBVIOUS
<1>4. /\ len \in Nat /\ len >= 1 /\ DOMAIN stack = 1..len /\ stack[len].node = n
      /\ Last(stack) = stack[len]
      /\ stack' \in Seq(Frames) /\ DOMAIN stack' = 1..(len - 1)
      /\ \A i \in 1..(len - 1) : stack'[i] = stack[i] /\ i \in 1..len
  BY <1>1, <1>2, <1>3, FrontFacts DEF LeaveNode
<1>5. n \in Declared /\ n \in Names
  <2>1. len \in DOMAIN stack
    BY <1>4
  <2>2. n \in Declared
    BY <1>4, <2>1 DEF TypesInv, PathIsWalk
  <2>3. Declared \subseteq Names
    BY DEF TypesInv, TypeOK, Declared, ToSet
  <2> QED BY <2>2, <2>3
<1>6. mark' \in [Names -> {"new", "path", "done"}] /\ \A m \in Names : mark'[m] = IF m = n THEN "done" ELSE mark[m]
  BY <1>3, <1>5 DEF TypesInv, TypeOK, LeaveNode
<1>7. DeclOK' /\ Declarations' /\ Order' /\ (hashed \cup errors)' \subseteq Declared'
  BY <1>1, <1>6, SearchFrame
<1>8. \A i, j \in 1..len : stack[i].node = stack[j].node => i = j
  BY <1>4 DEF TypesInv, TypeOK
<1>9. \A m \in Names : mark'[m] = "path" <=> \E i \in DOMAIN stack' : stack'[i].node = m
  <2> TAKE m \in Names
  <2>1. mark[m] = "path" <=> \E i \in 1..len : stack[i].node = m
    BY <1>4 DEF TypesInv, TypeOK
  <2>2. CASE m = n
    <3>1. \A i \in 1..(len - 1) : stack[i].node # n
      BY <1>4, <1>8
    <3> QED BY <1>4, <1>6, <2>2, <3>1
  <2>3. CASE m # n
    <3>1. \A i \in 1..len : stack[i].node = m => i \in 1..(len - 1)
      BY <1>4, <2>3
    <3> QED BY <1>4, <1>6, <2>1, <2>3, <3>1
  <2> QED BY <2>2, <2>3
<1>10. \A i, j \in DOMAIN stack' : stack'[i].node = stack'[j].node => i = j
  BY <1>4, <1>8
<1>11. TypeOK'
  BY <1>6, <1>7, <1>9, <1>10 DEF TypeOK, DeclOK
<1>12. /\ Declared' = Declared /\ (\A K : Knot(K)' = Knot(K)) /\ (\A k : Caught(k) => Caught(k)')
       /\ \A m : Holds(m)' = Holds(m) /\ \A place : TargetOf(m, place)' = TargetOf(m, place)
  BY <1>1, DeclsKept, CaughtStays
<1>13. PathIsWalk'
  <2>1. \A i \in DOMAIN stack' : stack'[i].node \in Declared
    BY <1>4 DEF TypesInv, PathIsWalk
  <2>2. \A i \in DOMAIN stack' : i + 1 \in DOMAIN stack' => stack'[i + 1].node \in Holds(stack'[i].node)
    BY <1>4 DEF TypesInv, PathIsWalk
  <2> QED BY <1>4, <1>12, <2>1, <2>2 DEF PathIsWalk
<1>14. TakenSeen'
  <2> SUFFICES ASSUME NEW i \in DOMAIN stack', NEW place \in stack'[i].taken,
                      NEW k, k = TargetOf(stack'[i].node, place)
               PROVE  k \in Names /\ (mark'[k] = "done" \/ Caught(k)' \/ (i + 1 \in DOMAIN stack' /\ stack'[i + 1].node = k))
    BY <1>12 DEF TakenSeen
  <2>1. i \in 1..len /\ stack'[i] = stack[i]
    BY <1>4
  <2>2. k \in Names /\ (mark[k] = "done" \/ Caught(k) \/ (i + 1 \in 1..len /\ stack[i + 1].node = k))
    BY <1>4, <2>1 DEF TypesInv, TakenSeen
  <2>3. CASE mark[k] = "done"
    BY <1>6, <2>2, <2>3
  <2>4. CASE i + 1 \in 1..len /\ stack[i + 1].node = k
    <3>1. CASE i + 1 = len
      <4>1. k = n
        BY <1>4, <2>4, <3>1
      <4> QED BY <1>5, <1>6, <4>1
    <3>2. CASE i + 1 # len
      <4>1. i + 1 \in 1..(len - 1)
        BY <1>4, <2>4, <3>2
      <4> QED BY <1>4, <2>2, <2>4, <4>1
    <3> QED BY <3>1, <3>2
  <2> QED BY <1>12, <2>2, <2>3, <2>4
<1>15. KnotsCaught'
  <2> SUFFICES ASSUME NEW K \in SUBSET Declared, Knot(K), NEW x \in K, mark'[x] = "done"
               PROVE  \E k \in K : Caught(k)
    BY <1>12 DEF KnotsCaught
  <2>1. Declared \subseteq Names
    BY HeldAreDeclared, <1>5
  <2>2. (\E m \in K : mark[m] = "done") => \E k \in K : Caught(k)
    BY DEF TypesInv, KnotsCaught
  <2>3. CASE x # n
    BY <1>6, <2>1, <2>2, <2>3
  <2>4. CASE x = n
    <3>1. PICK m \in K : m \in Holds(n)
      BY <2>4 DEF Knot
    <3>2. \A p \in PartsOf(n) : p.of \in Names => p.known
      BY <1>1, <1>5 DEF TypesInv, Declarations, Unresolved
    <3>3. PICK place \in InlinePlaces(n) : TargetOf(n, place) = m
      BY <3>1, <3>2, PlaceFacts
    <3>4. place \in stack[len].taken
      BY <1>3, <1>4, <3>3 DEF LeaveNode
    <3>5. len + 1 \notin DOMAIN stack
      BY <1>4
    <3>6. len \in DOMAIN stack
      BY <1>4
    <3>7. mark[m] = "done" \/ Caught(m)
      BY <1>4, <3>3, <3>4, <3>5, <3>6 DEF TypesInv, TakenSeen
    <3> QED BY <2>2, <3>7
  <2> QED BY <2>3, <2>4
<1>16. CyclesAreCycles'
  BY <1>1, DeclsKept DEF TypesInv, CyclesAreCycles
<1> QED
  BY <1>7, <1>11, <1>13, <1>14, <1>15, <1>16 DEF TypesInv

LEMMA NextSuccessorStep ==
  ASSUME TypesInv, NextSuccessor
  PROVE  TypesInv'
<1>1. phase = "finite" /\ stack # <<>> /\ UNCHANGED <<decls, phase, errors, hashed>>
  BY DEF NextSuccessor
<1>2. stack \in Seq(Frames)
  BY DEF TypesInv, PathIsWalk
<1>3. PICK top, len : top = Last(stack) /\ len = Len(stack)
  OBVIOUS
<1>4. /\ len \in Nat /\ len >= 1 /\ DOMAIN stack = 1..len /\ len \in 1..len
      /\ top = stack[len] /\ top \in Frames
  BY <1>1, <1>2, <1>3, FrontFacts
<1>5. PICK place \in InlinePlaces(top.node) \ top.taken :
        LET s == TargetOf(top.node, place)
            advanced == Append(Front(stack), [top EXCEPT !.taken = @ \cup {place}])
        IN  \/ /\ mark[s] = "path"
               /\ stack' = advanced
               /\ reported' = IF IsOurs(CycleTo(s)) THEN reported \cup {CycleTo(s)} ELSE reported
               /\ UNCHANGED mark
            \/ /\ mark[s] = "new"
               /\ stack' = Append(advanced, [node |-> s, taken |-> {}])
               /\ mark' = [mark EXCEPT ![s] = "path"]
               /\ UNCHANGED reported
            \/ /\ mark[s] = "done"
               /\ stack' = advanced
               /\ UNCHANGED <<mark, reported>>
  BY <1>3 DEF NextSuccessor
<1>6. PICK s, advanced : /\ s = TargetOf(top.node, place)
                         /\ advanced = Append(Front(stack), [top EXCEPT !.taken = @ \cup {place}])
  OBVIOUS
<1>7. \/ /\ mark[s] = "path" /\ stack' = advanced /\ UNCHANGED mark
         /\ reported' = IF IsOurs(CycleTo(s)) THEN reported \cup {CycleTo(s)} ELSE reported
      \/ /\ mark[s] = "new" /\ stack' = Append(advanced, [node |-> s, taken |-> {}])
         /\ mark' = [mark EXCEPT ![s] = "path"] /\ UNCHANGED reported
      \/ mark[s] = "done" /\ stack' = advanced /\ UNCHANGED <<mark, reported>>
  BY <1>5, <1>6
<1>8. top.node \in Declared /\ top.node \in Names
  <2>1. top.node \in Declared
    BY <1>4 DEF TypesInv, PathIsWalk
  <2> QED BY <1>4, <2>1 DEF Frames
<1>9. s \in Holds(top.node) /\ s \in Declared /\ s \in Names
  BY <1>6, <1>8, PlaceFacts, HeldAreDeclared
<1>10. place \in Nat \X Nat
  <2>1. PICK g \in DOMAIN body[top.node] :
          \E i \in {j \in DOMAIN body[top.node][g] : Inline(body[top.node][g][j])} : place = <<g, i>>
    BY DEF InlinePlaces
  <2>2. PICK i \in DOMAIN body[top.node][g] : place = <<g, i>>
    BY <2>1
  <2>3. body[top.node] \in Seq(Seq(Part))
    BY <1>8 DEF TypesInv, TypeOK
  <2>4. body[top.node][g] \in Seq(Part)
    BY <2>3, ElementOfSeq
  <2> QED BY <2>2, <2>3, <2>4
<1>11. PICK f : f = [top EXCEPT !.taken = @ \cup {place}]
  OBVIOUS
<1>12. f \in Frames /\ f.node = top.node /\ f.taken = top.taken \cup {place}
  BY <1>4, <1>10, <1>11 DEF Frames
<1>13. /\ advanced \in Seq(Frames) /\ DOMAIN advanced = 1..len
       /\ \A i \in 1..len : advanced[i] = IF i = len THEN f ELSE stack[i]
  BY <1>1, <1>2, <1>3, <1>6, <1>11, <1>12, AdvanceFacts
<1>14. \A i \in 1..len : advanced[i].node = stack[i].node
  BY <1>4, <1>12, <1>13
<1>15. PICK new : new = [node |-> s, taken |-> {}]
  OBVIOUS
<1>16. new \in Frames /\ new.node = s /\ new.taken = {}
  BY <1>9, <1>15 DEF Frames
<1>17. /\ Append(advanced, new) \in Seq(Frames) /\ DOMAIN Append(advanced, new) = 1..(len + 1)
       /\ \A i \in 1..len : Append(advanced, new)[i] = advanced[i]
       /\ Append(advanced, new)[len + 1] = new
  <2>1. Len(advanced) = len
    BY <1>4, <1>13
  <2> QED BY <1>13, <1>16, <2>1
<1> DEFINE entered == stack' = Append(advanced, new) /\ mark[s] = "new" /\ mark' = [mark EXCEPT ![s] = "path"]
           stayed == stack' = advanced /\ mark' = mark /\ mark[s] # "new"
<1>18. entered \/ stayed
  BY <1>7, <1>15
<1>19. mark \in [Names -> {"new", "path", "done"}]
       /\ (\A n \in Names : mark[n] = "path" <=> \E i \in 1..len : stack[i].node = n)
       /\ (\A i, j \in 1..len : stack[i].node = stack[j].node => i = j)
  BY <1>4 DEF TypesInv, TypeOK
<1>20. /\ mark' \in [Names -> {"new", "path", "done"}]
       /\ \A n \in Names : mark'[n] = IF entered /\ n = s THEN "path" ELSE mark[n]
  BY <1>9, <1>18, <1>19
<1>21. /\ stack' \in Seq(Frames)
       /\ entered => DOMAIN stack' = 1..(len + 1) /\ stack'[len + 1] = new
       /\ stayed => DOMAIN stack' = 1..len
       /\ \A i \in 1..len : stack'[i] = (IF i = len THEN f ELSE stack[i]) /\ stack'[i].node = stack[i].node
  BY <1>13, <1>14, <1>17, <1>18
<1>22. entered => s \notin {stack[i].node : i \in 1..len}
  BY <1>9, <1>19
<1> HIDE DEF entered, stayed
<1>23. DeclOK' /\ Declarations' /\ Order' /\ (hashed \cup errors)' \subseteq Declared'
  BY <1>1, <1>20, SearchFrame
<1>24. DOMAIN stack' = 1..len \/ (entered /\ DOMAIN stack' = 1..(len + 1) /\ stack'[len + 1].node = s)
  BY <1>16, <1>18, <1>21
<1>25. \A i : i \in 1..(len + 1) <=> i \in 1..len \/ i = len + 1
  BY <1>4
<1>26. \A n \in Names : mark'[n] = "path" <=> \E i \in DOMAIN stack' : stack'[i].node = n
  <2> TAKE n \in Names
  <2>1. CASE DOMAIN stack' = 1..len
    <3>1. ~entered
      BY <1>4, <1>21, <2>1
    <3> QED BY <1>19, <1>20, <1>21, <2>1, <3>1
  <2>2. CASE entered /\ DOMAIN stack' = 1..(len + 1) /\ stack'[len + 1].node = s
    <3>1. (\E i \in DOMAIN stack' : stack'[i].node = n) <=> (n = s \/ \E i \in 1..len : stack[i].node = n)
      BY <1>21, <1>25, <2>2
    <3> QED BY <1>19, <1>20, <2>2, <3>1
  <2> QED BY <1>24, <2>1, <2>2
<1>27. \A i, j \in DOMAIN stack' : stack'[i].node = stack'[j].node => i = j
  <2>1. CASE DOMAIN stack' = 1..len
    BY <1>19, <1>21, <2>1
  <2>2. CASE entered /\ DOMAIN stack' = 1..(len + 1) /\ stack'[len + 1].node = s
    <3>1. \A i \in 1..len : stack'[i].node = stack[i].node /\ stack[i].node # s
      BY <1>21, <1>22, <2>2
    <3> QED BY <1>19, <1>25, <2>2, <3>1
  <2> QED BY <1>24, <2>1, <2>2
<1>28. TypeOK'
  BY <1>20, <1>23, <1>26, <1>27 DEF TypeOK, DeclOK
<1>29. reported \subseteq reported' /\ (mark[s] = "path" => Caught(s)')
       /\ \A c \in reported' : c \in reported \/ (c = CycleTo(s) /\ IsOurs(c) /\ mark[s] = "path")
  <2>1. CASE mark[s] = "path"
    <3>1. reported' = IF IsOurs(CycleTo(s)) THEN reported \cup {CycleTo(s)} ELSE reported
      BY <1>7, <2>1
    <3>2. s \in CycleTo(s) /\ (IsOurs(CycleTo(s)) \/ s \in WithinOnly("enum", s))
      BY <1>1, <1>3, <1>9, <2>1, RingCaught
    <3>3. WithinOnly("enum", s)' = WithinOnly("enum", s)
      BY <1>1, DeclsKept
    <3> QED BY <2>1, <3>1, <3>2, <3>3 DEF Caught, OnReported
  <2>2. CASE mark[s] # "path"
    BY <1>7, <2>2
  <2> QED BY <2>1, <2>2
<1>30. /\ Declared' = Declared /\ (\A K : Knot(K)' = Knot(K)) /\ (\A k : Caught(k) => Caught(k)')
       /\ (\A m : Holds(m)' = Holds(m) /\ Within(m)' = Within(m) /\ \A p : TargetOf(m, p)' = TargetOf(m, p))
       /\ \A c : IsOurs(c)' = IsOurs(c)
  BY <1>1, <1>29, DeclsKept, CaughtStays
<1>31. PathIsWalk'
  <2>1. \A i \in 1..len : stack[i].node \in Declared /\ (i + 1 \in 1..len => stack[i + 1].node \in Holds(stack[i].node))
    BY <1>4 DEF TypesInv, PathIsWalk
  <2>2. \A i \in DOMAIN stack' : stack'[i].node \in Declared
    BY <1>9, <1>21, <1>24, <1>25, <2>1
  <2>3. ASSUME NEW i \in DOMAIN stack', i + 1 \in DOMAIN stack'
        PROVE  stack'[i + 1].node \in Holds(stack'[i].node)
    <3>1. i \in 1..len
      BY <1>4, <1>24, <2>3
    <3>2. CASE i + 1 \in 1..len
      BY <1>21, <2>1, <3>1, <3>2
    <3>3. CASE i + 1 \notin 1..len
      <4>1. i = len /\ stack'[len + 1].node = s
        BY <1>4, <1>24, <2>3, <3>1, <3>3
      <4>2. stack'[len].node = top.node
        BY <1>4, <1>21
      <4> QED BY <1>9, <4>1, <4>2
    <3> QED BY <3>2, <3>3
  <2> QED BY <1>21, <1>30, <2>2, <2>3 DEF PathIsWalk
<1>32. TakenSeen'
  <2> SUFFICES ASSUME NEW i \in DOMAIN stack', NEW p \in stack'[i].taken,
                      NEW k, k = TargetOf(stack'[i].node, p)
               PROVE  k \in Names /\ (mark'[k] = "done" \/ Caught(k)' \/ (i + 1 \in DOMAIN stack' /\ stack'[i + 1].node = k))
    BY <1>30 DEF TakenSeen
  <2>1. \A m \in Names : mark[m] = "done" => mark'[m] = "done"
    BY <1>20 DEF entered
  <2>2. CASE i \notin 1..len
    <3>1. i = len + 1 /\ stack'[i] = new
      BY <1>18, <1>21, <1>25, <2>2
    <3> QED BY <1>16, <3>1
  <2>3. CASE i \in 1..len /\ p \in stack[i].taken
    <3>1. k \in Names /\ (mark[k] = "done" \/ Caught(k) \/ (i + 1 \in 1..len /\ stack[i + 1].node = k))
      BY <1>4, <1>21, <2>3 DEF TypesInv, TakenSeen
    <3>2. i + 1 \in 1..len => i + 1 \in DOMAIN stack' /\ stack'[i + 1].node = stack[i + 1].node
      BY <1>21, <1>24, <1>25
    <3> QED BY <1>30, <2>1, <3>1, <3>2
  <2>4. CASE i \in 1..len /\ p \notin stack[i].taken
    <3>1. i = len /\ p = place /\ k = s
      <4>1. i = len
        BY <1>21, <2>4
      <4>2. p \in f.taken /\ stack'[i].node = top.node
        BY <1>4, <1>21, <2>4, <4>1
      <4>3. p = place
        BY <1>4, <1>12, <2>4, <4>1, <4>2
      <4> QED BY <1>6, <4>1, <4>2, <4>3
    <3>2. mark[s] = "path" \/ mark[s] = "done" \/ entered
      BY <1>7, <1>15 DEF entered
    <3>3. entered => len + 1 \in DOMAIN stack' /\ stack'[len + 1].node = s
      BY <1>16, <1>21, <1>25
    <3> QED BY <1>9, <1>29, <2>1, <3>1, <3>2, <3>3
  <2> QED BY <2>2, <2>3, <2>4
<1>33. KnotsCaught'
  <2> SUFFICES ASSUME NEW K \in SUBSET Declared, Knot(K), NEW m \in K, mark'[m] = "done"
               PROVE  \E k \in K : Caught(k)'
    BY <1>30 DEF KnotsCaught
  <2>1. m \in Names
    BY <1>8, HeldAreDeclared
  <2>2. mark[m] = "done"
    BY <1>20, <2>1
  <2>3. \E k \in K : Caught(k)
    BY <2>2 DEF KnotsCaught, TypesInv
  <2> QED BY <1>30, <2>3
<1>34. CyclesAreCycles'
  <2>1. \A c \in reported : IsOurs(c) /\ \A n \in c : c \subseteq Within(n)
    BY DEF TypesInv, CyclesAreCycles
  <2>2. mark[s] = "path" => \A n \in CycleTo(s) : CycleTo(s) \subseteq Within(n)
    BY <1>1, <1>3, <1>9, RingCaught
  <2>3. \A c \in reported' : IsOurs(c) /\ \A n \in c : c \subseteq Within(n)
    BY <1>29, <2>1, <2>2
  <2> QED BY <1>30, <2>3 DEF CyclesAreCycles
<1> QED
  BY <1>23, <1>28, <1>31, <1>32, <1>33, <1>34 DEF TypesInv

-----------------------------------------------------------------------------
(* After the search.                                                        *)

\* What a pass that only moves on, or derives, has to keep.
LEMMA MovesOn ==
  ASSUME TypesInv, UNCHANGED <<decls, mark, stack, reported>>,
         stack = <<>>, Declarations', Order', (hashed \cup errors)' \subseteq Declared'
  PROVE  TypesInv'
<1>1. UNCHANGED decls /\ reported \subseteq reported'
  OBVIOUS
<1>2. /\ Declared' = Declared /\ (DeclOK => DeclOK') /\ (\A K : Knot(K)' = Knot(K))
      /\ (\A k : Caught(k) => Caught(k)') /\ (\A c : IsOurs(c)' = IsOurs(c)) /\ \A m : Within(m)' = Within(m)
  BY <1>1, DeclsKept, CaughtStays
<1>3. TypeOK'
  BY <1>2 DEF TypesInv, TypeOK, DeclOK
<1>4. PathIsWalk' /\ TakenSeen'
  <2>1. stack' = <<>> /\ DOMAIN <<>> = {}
    OBVIOUS
  <2> QED BY <2>1 DEF PathIsWalk, TakenSeen
<1>5. KnotsCaught'
  BY <1>2 DEF TypesInv, KnotsCaught
<1>6. CyclesAreCycles'
  BY <1>2 DEF TypesInv, CyclesAreCycles
<1> QED
  BY <1>3, <1>4, <1>5, <1>6 DEF TypesInv

LEMMA DeclaringSteps ==
  ASSUME TypesInv,
         (\E k \in {"struct", "enum"} : Declare(k)) \/ AddPart \/ AddVariant \/ ResolveStructs \/ ResolveEnums
  PROVE  TypesInv'
<1>1. DeclOK /\ Declarations
  BY DEF TypesInv, TypeOK, DeclOK
<1>2. DeclOK' /\ Declarations'
  BY <1>1, DeclareStep, AddPartStep, AddVariantStep, ResolveSteps
<1>3. /\ UNCHANGED <<mark, stack, reported, errors, hashed>>
      /\ phase \in Unresolved /\ phase' \in Unresolved \cup {"finite"}
  BY DEF Declare, AddPart, AddVariant, ResolveStructs, ResolveEnums, Unresolved
<1>4. stack = <<>> /\ reported = {} /\ hashed = {} /\ errors = {} /\ \A n \in Names : mark[n] = "new"
  BY <1>3 DEF TypesInv, Order, Unresolved
<1>5. Order'
  BY <1>3, <1>4 DEF Order, Searched, Unresolved
<1>6. TypeOK'
  BY <1>2, <1>3, <1>4 DEF TypesInv, TypeOK, DeclOK
<1>7. PathIsWalk' /\ TakenSeen'
  <2>1. stack' = <<>> /\ DOMAIN <<>> = {}
    BY <1>3, <1>4
  <2> QED BY <2>1 DEF PathIsWalk, TakenSeen
<1>8. KnotsCaught'
  <2>1. Declared' \subseteq Names
    BY <1>2 DEF DeclOK, Declared, ToSet
  <2>2. \A n \in Names : mark'[n] # "done"
    BY <1>3, <1>4
  <2>3. \A n \in Declared' : mark'[n] # "done"
    BY <2>1, <2>2
  <2> QED BY <2>3 DEF KnotsCaught
<1>9. CyclesAreCycles'
  BY <1>3, <1>4 DEF CyclesAreCycles
<1> QED
  BY <1>2, <1>5, <1>6, <1>7, <1>8, <1>9 DEF TypesInv

LEMMA EndOfProgramStep ==
  ASSUME TypesInv, EndOfProgram
  PROVE  TypesInv'
<1>1. /\ UNCHANGED <<decls, mark, stack, reported, errors, hashed>>
      /\ phase = "declaring" /\ phase' = "resolve structs"
  BY DEF EndOfProgram
<1>2. Order /\ Declarations
  BY DEF TypesInv
<1>3. Declared' = Declared /\ (\A n : PartsOf(n)' = PartsOf(n)) /\ kind' = kind /\ body' = body /\ order' = order
  BY <1>1, DeclsKept DEF decls
<1>4. Declarations'
  BY <1>1, <1>2, <1>3 DEF Declarations, Unresolved
<1>5. Order' /\ stack = <<>>
  BY <1>1, <1>2 DEF Order, Searched, Unresolved
<1>6. (hashed \cup errors)' \subseteq Declared'
  BY <1>1, <1>3 DEF TypesInv, TypeOK
<1> QED
  BY <1>1, <1>4, <1>5, <1>6, MovesOn

LEMMA EndOfSearchStep ==
  ASSUME TypesInv, EndOfSearch
  PROVE  TypesInv'
<1>1. /\ UNCHANGED <<decls, mark, stack, reported, errors, hashed>> /\ stack = <<>>
      /\ phase = "finite" /\ phase' = IF reported = {} THEN "derive structs" ELSE "stopped"
      /\ \A n \in Declared : mark[n] # "new"
  BY DEF EndOfSearch
<1>2. Declared' = Declared /\ Declarations'
  BY <1>1, DeclsKept, DeclarationsKept DEF TypesInv, Unresolved
<1>3. \A n \in Declared : mark[n] = "done"
  <2>1. Declared \subseteq Names
    BY DEF TypesInv, TypeOK, Declared, ToSet
  <2>2. \A n \in Names : mark[n] \in {"new", "path", "done"} /\ mark[n] # "path"
    <3>1. mark \in [Names -> {"new", "path", "done"}]
          /\ \A n \in Names : mark[n] = "path" <=> \E i \in DOMAIN stack : stack[i].node = n
      BY DEF TypesInv, TypeOK
    <3>2. DOMAIN stack = {}
      <4>1. stack = <<>>
        BY <1>1
      <4>2. DOMAIN <<>> = {}
        OBVIOUS
      <4> QED BY <4>1, <4>2
    <3> QED BY <3>1, <3>2
  <2> QED BY <1>1, <2>1, <2>2
<1>4. Order'
  BY <1>1, <1>2, <1>3 DEF Order, Searched, Unresolved
<1>5. (hashed \cup errors)' \subseteq Declared'
  BY <1>1, <1>2 DEF TypesInv, TypeOK
<1> QED
  BY <1>1, <1>2, <1>4, <1>5, MovesOn

\* When everything is explored, a knot has a type that is caught.
LEMMA ExploredKnots ==
  ASSUME TypesInv, Searched, NEW K \in SUBSET Declared, K # {}, Knot(K)
  PROVE  \E k \in K : Caught(k)
BY DEF TypesInv, Order, KnotsCaught

\* Only enums are inside themselves through enums.
LEMMA EnumKnots ==
  ASSUME TypesInv, NEW k, k \in WithinOnly("enum", k)
  PROVE  kind[k] = "enum"
<1> DEFINE S == {m \in Names : kind[m] = "enum"}
<1>1. /\ ByValueOnly("enum") \in [Names -> SUBSET Names] /\ WithinOnly("enum", k) = Reach(ByValueOnly("enum"), k)
  BY NextFacts
<1>2. k \in Names
  BY <1>1 DEF Reach
<1>3. \A m \in Names : ByValueOnly("enum")[m] \subseteq S
  BY DEF ByValueOnly, Holds
<1>4. k \in S
  BY <1>1, <1>2, <1>3 DEF Reach
<1> QED
  BY <1>4

\* The sort of the structs gets them all out.
LEMMA StructsSort ==
  ASSUME TypesInv, phase = "derive structs"
  PROVE  Sorted(OfKind("struct"), Dependencies("struct")) = OfKind("struct")
<1>1. PICK structs, deps, sorted : /\ structs = OfKind("struct") /\ deps = Dependencies("struct")
                                   /\ sorted = Sorted(structs, deps)
  OBVIOUS
<1>2. structs \subseteq Declared /\ \A n \in structs : kind[n] = "struct"
  BY <1>1 DEF OfKind
<1>3. \A n \in structs : deps[n] \subseteq structs \cap Holds(n)
  <2> SUFFICES ASSUME NEW n \in structs, NEW d \in deps[n] PROVE d \in structs /\ d \in Holds(n)
    OBVIOUS
  <2>1. PICK p \in PartsOf(n) : Named(p) /\ p.wrap = "plain" /\ kind[p.of] = "struct" /\ d = p.of
    BY <1>1 DEF Dependencies
  <2>2. d \in Holds(n)
    BY <2>1 DEF Holds, Named
  <2>3. d \in Declared
    BY <1>2, <2>2, HeldAreDeclared, DeclaredAreNames
  <2> QED BY <1>1, <2>1, <2>2, <2>3 DEF OfKind
<1>4. sorted \subseteq structs
  BY <1>1 DEF Sorted
<1>5. \A n \in structs : deps[n] \subseteq sorted => n \in sorted
  <2> SUFFICES ASSUME NEW n \in structs, deps[n] \subseteq sorted, NEW S \in SUBSET structs,
                      \A m \in structs : deps[m] \subseteq S => m \in S
               PROVE  n \in S
    BY <1>1 DEF Sorted
  <2>1. sorted \subseteq S
    BY <1>1 DEF Sorted
  <2> QED BY <2>1
<1>6. PICK K : K = structs \ sorted
  OBVIOUS
<1>7. Knot(K)
  BY <1>3, <1>5, <1>6 DEF Knot
<1>8. K = {}
  <2> SUFFICES ASSUME K # {} PROVE FALSE
    OBVIOUS
  <2>1. Searched /\ reported = {}
    BY DEF TypesInv, Order, Searched, Unresolved
  <2>2. PICK k \in K : Caught(k)
    BY <1>2, <1>6, <1>7, <2>1, ExploredKnots
  <2>3. kind[k] = "enum"
    BY <2>1, <2>2, EnumKnots DEF Caught, OnReported
  <2> QED BY <1>2, <1>6, <2>3
<1> QED
  BY <1>1, <1>4, <1>6, <1>8

LEMMA RegisterSteps ==
  ASSUME TypesInv, RegisterStructHashes \/ RegisterEnumHashes
  PROVE  TypesInv'
<1>1. UNCHANGED <<decls, mark, stack, reported>>
  BY DEF RegisterStructHashes, RegisterEnumHashes
<1>2. \/ /\ phase = "derive structs" /\ phase' = "derive enums" /\ UNCHANGED errors
         /\ hashed' \subseteq OfKind("struct")
      \/ /\ phase = "derive enums" /\ phase' = "derived"
         /\ errors' \subseteq OfKind("enum") /\ hashed' \subseteq hashed \cup OfKind("enum")
  <2>1. CASE RegisterStructHashes
    BY <2>1, StructsSort DEF RegisterStructHashes
  <2>2. CASE RegisterEnumHashes
    <3>1. Sorted(OfKind("enum"), Dependencies("enum")) \subseteq OfKind("enum")
      BY DEF Sorted
    <3> QED BY <2>2, <3>1 DEF RegisterEnumHashes
  <2> QED BY <2>1, <2>2
<1>3. UNCHANGED decls
  BY <1>1
<1>4. Declared' = Declared /\ Declarations'
  BY <1>2, <1>3, DeclsKept, DeclarationsKept DEF TypesInv, Unresolved
<1>5. (hashed \cup errors)' \subseteq Declared'
  BY <1>2, <1>4 DEF TypesInv, TypeOK, OfKind
<1>6. Order' /\ stack = <<>>
  BY <1>1, <1>2, <1>4 DEF TypesInv, Order, Searched, Unresolved
<1> QED
  BY <1>1, <1>4, <1>5, <1>6, MovesOn

-----------------------------------------------------------------------------

LEMMA TypesInvInit == Init => TypesInv
<1> SUFFICES ASSUME Init PROVE TypesInv
  OBVIOUS
<1>1. DOMAIN <<>> = {} /\ <<>> \in Seq(Names) /\ <<>> \in Seq(Frames) /\ <<>> \in Seq(Seq(Part)) /\ Len(<<>>) = 0
  OBVIOUS
<1>2. Declared = {} /\ \A n \in Names : PartsOf(n) = {}
  BY <1>1 DEF Init, Declared, ToSet, PartsOf
<1>3. TypeOK
  BY <1>1, <1>2 DEF Init, TypeOK, IsInjective
<1>4. Declarations
  BY <1>1, <1>2, NamesFacts DEF Init, Declarations, Unresolved
<1>5. PathIsWalk /\ TakenSeen
  BY <1>1 DEF Init, PathIsWalk, TakenSeen
<1>6. KnotsCaught /\ CyclesAreCycles
  BY <1>2 DEF Init, KnotsCaught, CyclesAreCycles
<1>7. Order
  BY DEF Init, Order, Searched, Unresolved
<1> QED
  BY <1>3, <1>4, <1>5, <1>6, <1>7 DEF TypesInv

LEMMA TypesInvNext == TypesInv /\ [Next]_vars => TypesInv'
<1> SUFFICES ASSUME TypesInv, [Next]_vars PROVE TypesInv'
  OBVIOUS
<1>1. CASE UNCHANGED vars
  <2>1. UNCHANGED decls /\ phase' = phase /\ reported \subseteq reported' /\ UNCHANGED <<mark, stack, reported, errors, hashed>>
    BY <1>1 DEF vars, decls
  <2>2. DeclOK /\ Declarations
    BY DEF TypesInv, TypeOK, DeclOK
  <2>3. /\ Declared' = Declared /\ DeclOK' /\ Declarations' /\ (\A K : Knot(K)' = Knot(K))
        /\ (\A c : IsOurs(c)' = IsOurs(c))
        /\ \A m : Within(m)' = Within(m) /\ Holds(m)' = Holds(m) /\ \A p : TargetOf(m, p)' = TargetOf(m, p)
    BY <2>1, <2>2, DeclsKept, DeclarationsKept
  <2>4. \A k : Caught(k) => Caught(k)'
    BY <2>1, CaughtStays
  <2>5. TypeOK'
    BY <2>1, <2>3 DEF TypesInv, TypeOK, DeclOK
  <2>6. PathIsWalk' /\ CyclesAreCycles'
    BY <2>1, <2>3 DEF TypesInv, PathIsWalk, CyclesAreCycles
  <2>7. TakenSeen' /\ KnotsCaught'
    BY <2>1, <2>3, <2>4 DEF TypesInv, TakenSeen, KnotsCaught
  <2>8. Order'
    BY <2>1, <2>3 DEF TypesInv, Order, Searched
  <2> QED BY <2>3, <2>5, <2>6, <2>7, <2>8 DEF TypesInv
<1>2. CASE Next
  <2>1. Done => UNCHANGED vars
    BY DEF Done
  <2> QED
    BY <1>1, <1>2, <2>1, DeclaringSteps, EndOfProgramStep, StartRootStep, LeaveNodeStep, NextSuccessorStep,
       EndOfSearchStep, RegisterSteps DEF Next
<1> QED
  BY <1>1, <1>2

\* Every variable has what the passes may put there, and the path is the stack: every name
\* on it once (check_infinite_size_types in semantics/passes/finite_types.py).
THEOREM TypesTypeCorrect == Spec => []TypeOK
<1>1. TypesInv => TypeOK
  BY DEF TypesInv
<1> QED
  BY TypesInvInit, TypesInvNext, <1>1, PTL DEF Spec

LEMMA TypesInvReports == TypesInv => CyclesReported
<1> SUFFICES ASSUME TypesInv PROVE CyclesReported
  OBVIOUS
<1>1. \A c \in reported : IsOurs(c) /\ \A n \in c : c \subseteq Within(n)
  BY DEF TypesInv, CyclesAreCycles
<1>2. phase # "CE0128"
  BY DEF TypesInv, Order, Unresolved
<1>3. Declared \subseteq Names
  BY DEF TypesInv, TypeOK, Declared, ToSet
<1>4. \A n \in Names : Holds(n) \subseteq Declared
  BY HeldAreDeclared
<1>5. ASSUME Searched, NEW n \in Declared, NEW next \in [Names -> SUBSET Names], n \in Reach(next, n),
             \A m \in Names : next[m] \subseteq Holds(m)
      PROVE  \E m \in Reach(next, n) : n \in Reach(next, m) /\ Caught(m)
  <2>1. PICK K : K = {m \in Reach(next, n) : n \in Reach(next, m)}
    OBVIOUS
  <2>2. n \in K /\ n \in Names
    BY <1>3, <1>5, <2>1
  <2>3. Reach(next, n) \subseteq Declared
    <3>1. next[n] \subseteq Declared /\ \A m \in Declared : next[m] \subseteq Declared
      BY <1>3, <1>4, <1>5, <2>2
    <3> QED BY <1>3, <3>1 DEF Reach
  <2>4. \A m \in K : \E k \in K : k \in Holds(m)
    <3> TAKE m \in K
    <3>1. m \in Reach(next, n) /\ n \in Reach(next, m) /\ m \in Names
      BY <1>3, <2>1, <2>3
    <3>2. \E k \in next[m] : k \in Reach(next, n) /\ n \in Reach(next, k)
      BY <1>5, <2>2, <3>1, TiedAreKnot
    <3> QED BY <1>5, <2>1, <3>1, <3>2
  <2>5. K \in SUBSET Declared /\ Knot(K)
    BY <2>1, <2>3, <2>4 DEF Knot
  <2>6. \E k \in K : Caught(k)
    BY <1>5, <2>2, <2>5, ExploredKnots
  <2> QED BY <2>1, <2>6
<1>6. \A m \in Names : ByValue[m] \subseteq Holds(m)
  BY DEF ByValue
<1>7. \A k : \A m \in Names : ByValueOnly(k)[m] \subseteq {h \in Holds(m) : kind[h] = k}
  BY DEF ByValueOnly
<1>8. ASSUME Searched, NEW n \in Declared
      PROVE  /\ n \in WithinOnly("struct", n) =>
                  \E m \in WithinOnly("struct", n) : n \in WithinOnly("struct", m) /\ OnReported(m)
             /\ Infinite(n) =>
                  \E m \in Within(n) : n \in Within(m) /\ (OnReported(m) \/ m \in WithinOnly("enum", m))
  <2>1. ASSUME Infinite(n)
        PROVE  \E m \in Within(n) : n \in Within(m) /\ (OnReported(m) \/ m \in WithinOnly("enum", m))
    <3>1. n \in Reach(ByValue, n) /\ ByValue \in [Names -> SUBSET Names]
      BY <2>1, NextFacts DEF Infinite
    <3>2. PICK m \in Reach(ByValue, n) : n \in Reach(ByValue, m) /\ Caught(m)
      BY <1>5, <1>6, <1>8, <3>1
    <3> QED BY <3>2, NextFacts DEF Caught
  <2>2. ASSUME n \in WithinOnly("struct", n)
        PROVE  \E m \in WithinOnly("struct", n) : n \in WithinOnly("struct", m) /\ OnReported(m)
    <3>1. n \in Reach(ByValueOnly("struct"), n) /\ ByValueOnly("struct") \in [Names -> SUBSET Names]
      BY <2>2, NextFacts
    <3>2. \A m \in Names : ByValueOnly("struct")[m] \subseteq Holds(m)
      BY <1>7
    <3>3. PICK m \in Reach(ByValueOnly("struct"), n) : n \in Reach(ByValueOnly("struct"), m) /\ Caught(m)
      BY <1>5, <1>8, <3>1, <3>2
    <3>4. kind[m] = "struct"
      <4> DEFINE S == {h \in Names : kind[h] = "struct"}
      <4>1. \A h \in Names : ByValueOnly("struct")[h] \subseteq S
        BY DEF ByValueOnly, Holds
      <4> QED BY <1>3, <3>3, <4>1 DEF Reach
    <3>5. OnReported(m)
      BY <3>3, <3>4, EnumKnots DEF Caught
    <3> QED BY <3>3, <3>5, NextFacts
  <2> QED BY <2>1, <2>2
<1>9. phase \in {"stopped", "derive structs", "derive enums", "derived", "CE0128"} => Searched
  BY DEF Searched, Unresolved
<1> QED
  BY <1>1, <1>2, <1>8, <1>9 DEF CyclesReported

\* What the search reports is a by-value cycle with a struct on it; no knot of types is
\* missed, but for enums inside themselves; and the sort of the structs always gets them all
\* out, so CE0128 is unreachable (topological_sort_structs in semantics/passes/derive.py).
THEOREM KnotsAreReported == Spec => []CyclesReported
  BY TypesInvInit, TypesInvNext, TypesInvReports, PTL DEF Spec

-----------------------------------------------------------------------------
(* What can be hashed.  The search is a recursive function of the path; it  *)
(* is the one function that is equal to its own unfolding.                  *)

\* One step of the search, with the answers `after` for longer paths.
OneStep(held, path, after) ==
  {m \in Names \ path :
     \A p \in held[m] : p.of \in Leaves \/ p.wrap = "own" \/ (Named(p) /\ p.of \in after[path \cup {m}])}

Unfolds(held, after) == after = [path \in SUBSET Names |-> OneStep(held, path, after)]

LEMMA NamesFinite ==
  /\ IsFiniteSet(Names) /\ Fuel \in Nat
  /\ \A path \in SUBSET Names : IsFiniteSet(Names \ path) /\ Cardinality(Names \ path) \in Nat
  /\ \A path \in SUBSET Names : \A m \in Names \ path :
        Cardinality(Names \ (path \cup {m})) = Cardinality(Names \ path) - 1
<1>1. IsFiniteSet(DOMAIN NameList)
  <2>1. DOMAIN NameList = 1..Len(NameList) /\ Len(NameList) \in Nat
    BY NamesFacts
  <2> QED BY <2>1, FS_Interval
<1>2. NameList \in Surjection(DOMAIN NameList, Names)
  BY NamesFacts DEF Surjection, Names, ToSet
<1>3. IsFiniteSet(Names)
  BY <1>1, <1>2, FS_Surjection
<1>4. ASSUME NEW path \in SUBSET Names PROVE IsFiniteSet(Names \ path) /\ Cardinality(Names \ path) \in Nat
  BY <1>3, FS_Subset, FS_CardinalityType
<1>5. ASSUME NEW path \in SUBSET Names, NEW m \in Names \ path
      PROVE  Cardinality(Names \ (path \cup {m})) = Cardinality(Names \ path) - 1
  <2>1. Names \ (path \cup {m}) = (Names \ path) \ {m}
    OBVIOUS
  <2> QED BY <1>4, <2>1, FS_RemoveElement
<1> QED
  BY <1>3, <1>4, <1>5, FS_CardinalityType DEF Fuel

LEMMA StepsExist == ASSUME NEW held PROVE \E after : Unfolds(held, after)
<1> DEFINE Upto(k, h) == /\ h = [path \in SUBSET Names |-> h[path]]
                         /\ \A path \in SUBSET Names :
                              Cardinality(Names \ path) <= k => h[path] = OneStep(held, path, h)
           T == {k \in Nat : \E h : Upto(k, h)}
<1>1. 0 \in T
  <2>1. PICK h : h = [path \in SUBSET Names |-> {}]
    OBVIOUS
  <2>2. ASSUME NEW path \in SUBSET Names, Cardinality(Names \ path) <= 0 PROVE h[path] = OneStep(held, path, h)
    <3>1. IsFiniteSet(Names \ path) /\ Cardinality(Names \ path) \in Nat
      BY NamesFinite
    <3>2. Names \ path = {}
      BY <2>2, <3>1, FS_EmptySet
    <3> QED BY <2>1, <3>2 DEF OneStep
  <2>3. Upto(0, h)
    BY <2>1, <2>2
  <2> QED BY <2>3
<1>2. ASSUME NEW k \in Nat, k \in T PROVE k + 1 \in T
  <2>1. PICK h : Upto(k, h)
    BY <1>2
  <2>2. PICK g : g = [path \in SUBSET Names |-> OneStep(held, path, h)]
    OBVIOUS
  <2>3. \A path \in SUBSET Names : Cardinality(Names \ path) <= k => g[path] = h[path]
    BY <2>1, <2>2
  <2>4. ASSUME NEW path \in SUBSET Names, Cardinality(Names \ path) <= k + 1
        PROVE  g[path] = OneStep(held, path, g)
    <3>1. ASSUME NEW m \in Names \ path PROVE h[path \cup {m}] = g[path \cup {m}]
      <4>1. Cardinality(Names \ path) \in Nat
        BY NamesFinite
      <4>2. Cardinality(Names \ (path \cup {m})) = Cardinality(Names \ path) - 1
        BY <3>1, NamesFinite
      <4>3. Cardinality(Names \ (path \cup {m})) <= k
        BY <2>4, <4>1, <4>2
      <4> QED BY <2>3, <3>1, <4>3
    <3>2. OneStep(held, path, h) = OneStep(held, path, g)
      BY <3>1 DEF OneStep
    <3> QED BY <2>2, <3>2
  <2>5. Upto(k + 1, g)
    BY <2>2, <2>4
  <2> HIDE DEF Upto
  <2> QED BY <2>5
<1>3. Nat \subseteq T
  <2> HIDE DEF T
  <2> QED BY <1>1, <1>2, AllNumbers
<1>4. PICK h : Upto(Fuel, h)
  BY <1>3, NamesFinite
<1>5. ASSUME NEW path \in SUBSET Names PROVE h[path] = OneStep(held, path, h)
  <2>1. Cardinality(Names \ path) <= Fuel
    BY NamesFinite, FS_Subset DEF Fuel
  <2> QED BY <1>4, <2>1
<1>6. h = [path \in SUBSET Names |-> h[path]]
  BY <1>4
<1>7. Unfolds(held, h)
  BY <1>5, <1>6 DEF Unfolds
<1> QED
  BY <1>7

LEMMA HashableFacts ==
  ASSUME NEW held, NEW path \in SUBSET Names
  PROVE  Hashable(held)[path] = OneStep(held, path, Hashable(held))
<1>1. Hashable(held) = CHOOSE after : Unfolds(held, after)
  BY Zenon DEF Hashable, Unfolds, OneStep
<1>2. Unfolds(held, Hashable(held))
  BY <1>1, StepsExist
<1> QED
  BY <1>2 DEF Unfolds

\* What can be hashed after a path can be hashed after a shorter one.
LEMMA ShorterPaths ==
  ASSUME NEW held, NEW path \in SUBSET Names, NEW part \in SUBSET path
  PROVE  Hashable(held)[path] \subseteq Hashable(held)[part]
<1> DEFINE Held(k) == \A q \in SUBSET Names : Cardinality(Names \ q) <= k =>
                         \A r \in SUBSET q : Hashable(held)[q] \subseteq Hashable(held)[r]
           T == {k \in Nat : Held(k)}
<1>1. 0 \in T
  <2> SUFFICES ASSUME NEW q \in SUBSET Names, Cardinality(Names \ q) <= 0 PROVE Hashable(held)[q] = {}
    OBVIOUS
  <2>1. IsFiniteSet(Names \ q) /\ Cardinality(Names \ q) \in Nat
    BY NamesFinite
  <2>2. Names \ q = {}
    BY <2>1, FS_EmptySet
  <2> QED BY <2>2, HashableFacts DEF OneStep
<1>2. ASSUME NEW k \in Nat, k \in T PROVE k + 1 \in T
  <2> SUFFICES ASSUME NEW q \in SUBSET Names, Cardinality(Names \ q) <= k + 1, NEW r \in SUBSET q,
                      NEW m \in Hashable(held)[q]
               PROVE  m \in Hashable(held)[r]
    OBVIOUS
  <2>1. m \in OneStep(held, q, Hashable(held)) /\ r \in SUBSET Names
    BY HashableFacts
  <2>2. m \in Names \ q /\ m \in Names \ r
    BY <2>1 DEF OneStep
  <2>3. Hashable(held)[q \cup {m}] \subseteq Hashable(held)[r \cup {m}]
    <3>1. Cardinality(Names \ (q \cup {m})) <= k
      <4>1. Cardinality(Names \ q) \in Nat
        BY NamesFinite
      <4>2. Cardinality(Names \ (q \cup {m})) = Cardinality(Names \ q) - 1
        BY <2>2, NamesFinite
      <4> QED BY <4>1, <4>2
    <3>2. r \cup {m} \in SUBSET (q \cup {m}) /\ q \cup {m} \in SUBSET Names
      BY <2>2
    <3> QED BY <1>2, <3>1, <3>2
  <2>4. m \in OneStep(held, r, Hashable(held))
    BY <2>1, <2>2, <2>3 DEF OneStep
  <2> QED BY <2>1, <2>4, HashableFacts
<1>3. Nat \subseteq T
  <2> HIDE DEF T
  <2> QED BY <1>1, <1>2, AllNumbers
<1>4. Cardinality(Names \ path) \in Nat
  BY NamesFinite
<1>5. Held(Cardinality(Names \ path))
  BY <1>3, <1>4
<1>6. Cardinality(Names \ path) <= Cardinality(Names \ path)
  BY <1>4
<1> QED
  BY <1>5, <1>6

-----------------------------------------------------------------------------
(* What the derive pass has registered.                                     *)

HashedExact ==
  /\ phase = "derive enums" => hashed = {n \in OfKind("struct") : CanHash(n)}
  /\ Accepted => hashed = {n \in Declared : CanHash(n)}

LEMMA CanHashKept ==
  ASSUME UNCHANGED decls, NEW n
  PROVE  CanHash(n)' = CanHash(n)
<1>1. \A m : PartsOf(m)' = PartsOf(m)
  BY DeclsKept
<1>2. [m \in Names |-> PartsOf(m)]' = [m \in Names |-> PartsOf(m)]
  BY <1>1
<1> QED
  BY <1>2 DEF CanHash

LEMMA HashedExactNext ==
  ASSUME TypesInv, HashedExact, [Next]_vars
  PROVE  HashedExact'
<1>1. CASE RegisterStructHashes
  <2>1. UNCHANGED decls /\ phase' = "derive enums" /\ hashed' = {n \in OfKind("struct") : CanHash(n)}
    BY <1>1, StructsSort DEF RegisterStructHashes
  <2>2. OfKind("struct")' = OfKind("struct") /\ \A n : CanHash(n)' = CanHash(n)
    BY <2>1, DeclsKept, CanHashKept
  <2> QED BY <2>1, <2>2 DEF HashedExact, Accepted
<1>2. CASE RegisterEnumHashes
  <2>1. UNCHANGED decls /\ phase = "derive enums" /\ phase' = "derived"
    BY <1>2 DEF RegisterEnumHashes
  <2>2. PICK sorted, own : /\ sorted = Sorted(OfKind("enum"), Dependencies("enum"))
                           /\ own = {n \in OfKind("enum") \ sorted : HasOwnIndirection(n)}
                           /\ errors' = (OfKind("enum") \ sorted) \ own
                           /\ hashed' = hashed \cup {n \in sorted \cup own : CanHash(n)}
    BY <1>2 DEF RegisterEnumHashes
  <2>3. sorted \subseteq OfKind("enum")
    BY <2>2 DEF Sorted
  <2>4. Declared = OfKind("struct") \cup OfKind("enum")
    BY DeclaredKinds DEF OfKind
  <2>5. Declared' = Declared /\ \A n : CanHash(n)' = CanHash(n)
    BY <2>1, DeclsKept, CanHashKept
  <2>6. errors' = {} => sorted \cup own = OfKind("enum")
    BY <2>2, <2>3
  <2>7. errors' = {} => hashed' = {n \in Declared : CanHash(n)}
    BY <2>1, <2>2, <2>4, <2>6 DEF HashedExact
  <2> QED BY <2>1, <2>5, <2>7 DEF HashedExact, Accepted
<1>3. CASE Done \/ UNCHANGED vars
  <2>1. UNCHANGED decls /\ UNCHANGED <<phase, errors, hashed>>
    BY <1>3 DEF Done, vars, decls
  <2>2. Declared' = Declared /\ OfKind("struct")' = OfKind("struct") /\ \A n : CanHash(n)' = CanHash(n)
    BY <2>1, DeclsKept, CanHashKept
  <2> QED BY <2>1, <2>2 DEF HashedExact, Accepted
<1>4. CASE \/ \E k \in {"struct", "enum"} : Declare(k)
           \/ AddPart \/ AddVariant \/ EndOfProgram \/ ResolveStructs \/ ResolveEnums
           \/ StartRoot \/ LeaveNode \/ NextSuccessor \/ EndOfSearch
  <2>1. phase' \notin {"derive enums", "derived"}
    BY <1>4 DEF Declare, AddPart, AddVariant, EndOfProgram, ResolveStructs, ResolveEnums, StartRoot, LeaveNode,
                NextSuccessor, EndOfSearch
  <2> QED BY <2>1 DEF HashedExact, Accepted
<1> QED
  BY <1>1, <1>2, <1>3, <1>4 DEF Next

-----------------------------------------------------------------------------
(* What hash() of a registered type emits.                                  *)

OwnHeld == \E m \in Declared, p \in Part : p.wrap = "own" /\ p \in PartsOf(m)
Allowed == IF OwnHeld THEN {"CE0052"} ELSE {}

\* The body of the hash of `m` with so much fuel.
BodyOf(m, fuel, shorter) ==
  UNION {
    IF p.wrap = "own" THEN {"CE0052"}
    ELSE IF p.of \in Leaves THEN {}
    ELSE LET inside == IF fuel = 0 THEN {"endless"} ELSE shorter[fuel - 1][p.of]
         IN  IF p.wrap = "plain"
             THEN IF kind[m] = "struct" /\ kind[p.of] = "struct"
                  THEN inside ELSE LookUp(p.of, inside)
             ELSE (IF ArrayHashed(p) THEN {} ELSE {"CE0051"}) \cup LookUp(p.of, inside)
    : p \in PartsOf(m)}

EmitsAs(f) == f = [fuel \in 0..Fuel |-> [m \in Names |-> BodyOf(m, fuel, f)]]

LEMMA BodiesExist == \E f : EmitsAs(f)
<1> DEFINE Upto(k, f) == /\ f = [fuel \in 0..Fuel |-> f[fuel]]
                         /\ \A fuel \in 0..Fuel : fuel <= k => f[fuel] = [m \in Names |-> BodyOf(m, fuel, f)]
           T == {k \in Nat : \E f : Upto(k, f)}
<1>1. 0 \in T
  <2>1. PICK f : f = [fuel \in 0..Fuel |-> [m \in Names |-> BodyOf(m, 0, <<>>)]]
    OBVIOUS
  <2>2. \A m : BodyOf(m, 0, f) = BodyOf(m, 0, <<>>)
    BY DEF BodyOf
  <2>3. \A fuel \in 0..Fuel : fuel <= 0 => fuel = 0
    BY NamesFinite
  <2>4. Upto(0, f)
    BY <2>1, <2>2, <2>3
  <2> HIDE DEF Upto
  <2> QED BY <2>4
<1>2. ASSUME NEW k \in Nat, k \in T PROVE k + 1 \in T
  <2>1. PICK f : Upto(k, f)
    BY <1>2
  <2>2. PICK g : g = [fuel \in 0..Fuel |-> [m \in Names |-> BodyOf(m, fuel, f)]]
    OBVIOUS
  <2>3. \A fuel \in 0..Fuel : fuel <= k => g[fuel] = f[fuel]
    BY <2>1, <2>2
  <2>4. ASSUME NEW fuel \in 0..Fuel, fuel <= k + 1, NEW m
        PROVE  BodyOf(m, fuel, g) = BodyOf(m, fuel, f)
    <3>1. fuel = 0 \/ (fuel - 1 \in 0..Fuel /\ fuel - 1 <= k)
      BY <2>4, NamesFinite
    <3>2. fuel = 0 \/ g[fuel - 1] = f[fuel - 1]
      BY <2>3, <3>1
    <3> QED BY <3>2 DEF BodyOf
  <2>5. Upto(k + 1, g)
    BY <2>2, <2>4
  <2> HIDE DEF Upto
  <2> QED BY <2>5
<1>3. Nat \subseteq T
  <2> HIDE DEF T
  <2> QED BY <1>1, <1>2, AllNumbers
<1>4. PICK f : Upto(Fuel, f)
  BY <1>3, NamesFinite
<1>5. \A fuel \in 0..Fuel : f[fuel] = [m \in Names |-> BodyOf(m, fuel, f)]
  BY <1>4, NamesFinite
<1> QED
  BY <1>4, <1>5 DEF EmitsAs

LEMMA BodyFacts ==
  ASSUME NEW fuel \in 0..Fuel, NEW m \in Names
  PROVE  BodyErrors[fuel][m] = BodyOf(m, fuel, BodyErrors)
<1>1. BodyErrors = CHOOSE f : EmitsAs(f)
  BY Zenon DEF BodyErrors, EmitsAs, BodyOf
<1>2. EmitsAs(BodyErrors)
  BY <1>1, BodiesExist
<1>3. BodyErrors[fuel] = [i \in Names |-> BodyOf(i, fuel, BodyErrors)]
  BY <1>2, Zenon DEF EmitsAs
<1> QED
  BY <1>3

\* A type that can be hashed at the end of a path emits no errors but those of Own, if the
\* fuel is what the path has left.
LEMMA BodiesEmit ==
  ASSUME TypesInv, HashedExact, Accepted
  PROVE  \A fuel \in 0..Fuel : \A path \in SUBSET Names :
           Cardinality(Names \ path) <= fuel =>
             \A m \in Declared \cap Hashable([n \in Names |-> PartsOf(n)])[path] :
                BodyErrors[fuel][m] \subseteq Allowed
<1> DEFINE held == [n \in Names |-> PartsOf(n)]
           Fine(k) == \A path \in SUBSET Names : Cardinality(Names \ path) <= k =>
                        \A m \in Declared \cap Hashable(held)[path] : BodyErrors[k][m] \subseteq Allowed
           T == {k \in Nat : k \in 0..Fuel => Fine(k)}
<1>0. Declared \subseteq Names
  BY DeclaredAreNames
<1>1. 0 \in T
  <2> SUFFICES ASSUME NEW path \in SUBSET Names, Cardinality(Names \ path) <= 0, NEW m \in Hashable(held)[path]
               PROVE FALSE
    OBVIOUS
  <2>1. IsFiniteSet(Names \ path) /\ Cardinality(Names \ path) \in Nat
    BY NamesFinite
  <2>2. Names \ path = {}
    BY <2>1, FS_EmptySet
  <2>3. m \in OneStep(held, path, Hashable(held))
    BY HashableFacts
  <2> QED BY <2>2, <2>3 DEF OneStep
<1>2. ASSUME NEW k \in Nat, k \in T PROVE k + 1 \in T
  <2> SUFFICES ASSUME k + 1 \in 0..Fuel, NEW path \in SUBSET Names, Cardinality(Names \ path) <= k + 1,
                      NEW m \in Declared, m \in Hashable(held)[path]
               PROVE  BodyErrors[k + 1][m] \subseteq Allowed
    OBVIOUS
  <2>1. m \in OneStep(held, path, Hashable(held)) /\ m \in Names
    BY <1>0, HashableFacts
  <2>2. m \in Names \ path
    BY <2>1 DEF OneStep
  <2>3. k \in 0..Fuel /\ Fine(k)
    <3>1. k \in 0..Fuel
      BY NamesFinite
    <3> HIDE DEF Fine
    <3> QED BY <1>2, <3>1
  <2>4. Cardinality(Names \ (path \cup {m})) <= k
    <3>1. Cardinality(Names \ path) \in Nat
      BY NamesFinite
    <3>2. Cardinality(Names \ (path \cup {m})) = Cardinality(Names \ path) - 1
      BY <2>2, NamesFinite
    <3> QED BY <3>1, <3>2
  <2>5. BodyErrors[k + 1][m] = BodyOf(m, k + 1, BodyErrors)
    BY <2>1, BodyFacts
  <2>6. ASSUME NEW p \in PartsOf(m), p.wrap # "own", p.of \notin Leaves
        PROVE  /\ p.of \in hashed
               /\ BodyErrors[k][p.of] \subseteq Allowed
               /\ ArrayHashed(p)
    <3>1. Named(p) /\ p.of \in Hashable(held)[path \cup {m}]
      BY <2>1, <2>6 DEF OneStep
    <3>2. p.of \in Declared
      BY <2>1, <3>1 DEF TypesInv, Declarations, Named
    <3>3. BodyErrors[k][p.of] \subseteq Allowed
      <4>1. path \cup {m} \in SUBSET Names
        BY <2>1
      <4> QED BY <2>3, <2>4, <3>1, <3>2, <4>1
    <3>4. CanHash(p.of)
      <4>1. path \cup {m} \in SUBSET Names /\ {} \in SUBSET (path \cup {m})
        BY <2>1
      <4>2. p.of \in Hashable(held)[{}]
        BY <3>1, <4>1, ShorterPaths
      <4> QED BY <4>2 DEF CanHash
    <3> QED BY <3>1, <3>2, <3>3, <3>4 DEF HashedExact, ArrayHashed
  <2>7. ASSUME NEW p \in PartsOf(m), p.wrap = "own" PROVE "CE0052" \in Allowed
    <3>1. p \in Part
      BY <2>1, PartsArePart DEF TypesInv, TypeOK, DeclOK
    <3> QED BY <2>7, <3>1 DEF Allowed, OwnHeld
  <2>8. k + 1 # 0 /\ (k + 1) - 1 = k
    OBVIOUS
  <2>9. BodyOf(m, k + 1, BodyErrors) \subseteq Allowed
    <3> HIDE DEF Fine, held
    <3> SUFFICES ASSUME NEW e \in BodyOf(m, k + 1, BodyErrors) PROVE e \in Allowed
      OBVIOUS
    <3>1. PICK p \in PartsOf(m) :
             e \in (IF p.wrap = "own" THEN {"CE0052"}
                    ELSE IF p.of \in Leaves THEN {}
                    ELSE IF p.wrap = "plain"
                         THEN IF kind[m] = "struct" /\ kind[p.of] = "struct"
                              THEN BodyErrors[k][p.of] ELSE LookUp(p.of, BodyErrors[k][p.of])
                         ELSE (IF ArrayHashed(p) THEN {} ELSE {"CE0051"}) \cup LookUp(p.of, BodyErrors[k][p.of]))
      BY <2>8 DEF BodyOf
    <3> QED BY <2>6, <2>7, <3>1 DEF LookUp
  <2> QED BY <2>5, <2>9
<1>3. Nat \subseteq T
  <2> HIDE DEF T
  <2> QED BY <1>1, <1>2, AllNumbers
<1> QED
  <2> HIDE DEF held
  <2> SUFFICES ASSUME NEW fuel \in 0..Fuel PROVE Fine(fuel)
    BY DEF held
  <2>1. fuel \in Nat
    BY NamesFinite
  <2> QED BY <1>3, <2>1

\* A type inside which nothing is inside itself can be hashed, at the end of any path of
\* types around it.
Behind == [m \in Names |-> {p.of : p \in {q \in PartsOf(m) : Named(q) /\ q.wrap # "own"}}]

LEMMA SoundAreHashed ==
  ASSUME TypesInv, phase \notin Unresolved
  PROVE  \A path \in SUBSET Names : \A m \in Declared :
           /\ \A i \in {m} \cup ReachedFrom(m) : i \notin ReachedFrom(i)
           /\ \A i \in path : m \in ReachedFrom(i)
           => m \in Hashable([n \in Names |-> PartsOf(n)])[path]
<1> DEFINE held == [n \in Names |-> PartsOf(n)]
           Sound(m) == \A i \in {m} \cup ReachedFrom(m) : i \notin ReachedFrom(i)
           Fine(k) == \A path \in SUBSET Names : Cardinality(Names \ path) <= k =>
                        \A m \in Declared :
                           Sound(m) /\ (\A i \in path : m \in ReachedFrom(i)) => m \in Hashable(held)[path]
           T == {k \in Nat : Fine(k)}
<1>0. Behind \in [Names -> SUBSET Names] /\ \A n : ReachedFrom(n) = Reach(Behind, n)
  BY DEF Behind, ReachedFrom, Named
<1>1. Declared \subseteq Names
  BY DeclaredAreNames
<1>2. ASSUME NEW path \in SUBSET Names, NEW m \in Declared, Sound(m), \A i \in path : m \in ReachedFrom(i)
      PROVE  m \in Names \ path
  BY <1>1, <1>2
<1>3. 0 \in T
  <2> SUFFICES ASSUME NEW path \in SUBSET Names, Cardinality(Names \ path) <= 0, NEW m \in Names \ path
               PROVE  FALSE
    BY <1>2
  <2>1. IsFiniteSet(Names \ path) /\ Cardinality(Names \ path) \in Nat
    BY NamesFinite
  <2> QED BY <2>1, FS_EmptySet
<1>4. ASSUME NEW k \in Nat, k \in T PROVE k + 1 \in T
  <2>0. SUFFICES Fine(k + 1)
    <3> HIDE DEF Fine
    <3> QED OBVIOUS
  <2> SUFFICES ASSUME NEW path \in SUBSET Names, Cardinality(Names \ path) <= k + 1,
                      NEW m \in Declared, Sound(m), \A i \in path : m \in ReachedFrom(i)
               PROVE  m \in Hashable(held)[path]
    OBVIOUS
  <2>1. m \in Names \ path
    BY <1>2
  <2>2. Cardinality(Names \ (path \cup {m})) <= k
    <3>1. Cardinality(Names \ path) \in Nat
      BY NamesFinite
    <3>2. Cardinality(Names \ (path \cup {m})) = Cardinality(Names \ path) - 1
      BY <2>1, NamesFinite
    <3> QED BY <3>1, <3>2
  <2>3. ASSUME NEW p \in PartsOf(m), p.of \notin Leaves, p.wrap # "own"
        PROVE  Named(p) /\ p.of \in Hashable(held)[path \cup {m}]
    <3>1. p \in Part
      BY <2>1, PartsArePart DEF TypesInv, TypeOK, DeclOK
    <3>2. Named(p) /\ p.of \in Declared /\ p.of \in Names
      BY <2>1, <2>3, <3>1, NamesFacts DEF TypesInv, Declarations, Named
    <3>3. p.of \in Behind[m]
      BY <2>1, <2>3, <3>2 DEF Behind
    <3>4. p.of \in ReachedFrom(m) /\ ReachedFrom(p.of) \subseteq ReachedFrom(m)
      BY <1>0, <2>1, <3>3, ReachSteps
    <3>5. \A i \in path : p.of \in ReachedFrom(i)
      BY <1>0, <2>1, <3>4, ReachSteps
    <3>6. Sound(p.of) /\ \A i \in path \cup {m} : p.of \in ReachedFrom(i)
      BY <3>4, <3>5
    <3>7. path \cup {m} \in SUBSET Names
      BY <2>1
    <3>8. p.of \in Hashable(held)[path \cup {m}]
      BY <1>4, <2>2, <3>2, <3>6, <3>7
    <3> QED BY <3>2, <3>8
  <2>4. m \in OneStep(held, path, Hashable(held))
    BY <2>1, <2>3 DEF OneStep
  <2> QED BY <2>4, HashableFacts
<1>5. Nat \subseteq T
  <2> HIDE DEF T
  <2> QED BY <1>3, <1>4, AllNumbers
<1> QED
  <2> HIDE DEF held
  <2> SUFFICES ASSUME NEW path \in SUBSET Names
               PROVE  \A m \in Declared :
                        Sound(m) /\ (\A i \in path : m \in ReachedFrom(i)) => m \in Hashable(held)[path]
    BY DEF held
  <2>1. Cardinality(Names \ path) \in Nat
    BY NamesFinite
  <2>2. Fine(Cardinality(Names \ path))
    BY <1>5, <2>1
  <2>3. Cardinality(Names \ path) <= Cardinality(Names \ path)
    BY <2>1
  <2> QED BY <2>2, <2>3

LEMMA HashesInvEmit == TypesInv /\ HashedExact => HashesEmit
<1> SUFFICES ASSUME TypesInv, HashedExact, Accepted
             PROVE  /\ \A n \in hashed : HashErrors(n) \subseteq Allowed
                    /\ \A n \in Declared :
                         (\A m \in {n} \cup ReachedFrom(n) : m \notin ReachedFrom(m)) => n \in hashed
  BY DEF HashesEmit, Allowed, OwnHeld
<1>1. hashed = {n \in Declared : CanHash(n)}
  BY DEF HashedExact
<1>2. ASSUME NEW n \in hashed PROVE HashErrors(n) \subseteq Allowed
  <2>1. n \in Declared /\ n \in Hashable([m \in Names |-> PartsOf(m)])[{}]
    BY <1>1, <1>2 DEF CanHash
  <2>2. Names \ {} = Names /\ {} \in SUBSET Names /\ Fuel \in 0..Fuel /\ Cardinality(Names) <= Fuel
    BY NamesFinite DEF Fuel
  <2>3. BodyErrors[Fuel][n] \subseteq Allowed
    BY <2>1, <2>2, BodiesEmit
  <2> QED BY <1>2, <2>3 DEF HashErrors, LookUp
<1>3. ASSUME NEW n \in Declared, \A m \in {n} \cup ReachedFrom(n) : m \notin ReachedFrom(m)
      PROVE  n \in hashed
  <2>1. phase \notin Unresolved /\ {} \in SUBSET Names
    BY DEF Accepted, Unresolved
  <2>2. n \in Hashable([m \in Names |-> PartsOf(m)])[{}]
    BY <1>3, <2>1, SoundAreHashed
  <2> QED BY <1>1, <2>2 DEF CanHash
<1> QED
  BY <1>2, <1>3

\* In a program the passes accept, the hash of every registered type finds every method it
\* looks up and ends, but for the pointer of Own; and every type that reaches none inside
\* itself is registered (register_all_struct_hashes and register_all_enum_hashes in
\* semantics/passes/derive.py).
THEOREM RegisteredHashesEmit == Spec => []HashesEmit
<1>1. Init => HashedExact
  BY DEF Init, HashedExact, Accepted
<1> QED
  BY TypesInvInit, TypesInvNext, <1>1, HashedExactNext, HashesInvEmit, PTL DEF Spec

-----------------------------------------------------------------------------
(* Rounding up.                                                             *)

Alignments == {1, 2, 4, 8}

LEMMA AlignUpFacts ==
  ASSUME NEW x \in Nat, NEW a \in Alignments
  PROVE  /\ AlignUp(x, a) \in Nat /\ x <= AlignUp(x, a) /\ AlignUp(x, a) <= x + 7
         /\ AlignUp(x, a) % a = 0
         /\ x % a = 0 => AlignUp(x, a) = x
         /\ \A q \in x..(AlignUp(x, a) - 1) : q % a # 0
<1>1. CASE a = 1
  BY <1>1 DEF AlignUp
<1>2. CASE a = 2
  BY <1>2 DEF AlignUp
<1>3. CASE a = 4
  BY <1>3 DEF AlignUp
<1>4. CASE a = 8
  BY <1>4 DEF AlignUp
<1> QED
  BY <1>1, <1>2, <1>3, <1>4 DEF Alignments

\* TypeSizing rounds by a division; LLVM takes the next multiple.
LEMMA RoundsAlike ==
  ASSUME NEW x \in Nat, NEW a \in Alignments
  PROVE  RoundedUp(x, a) = AlignUp(x, a)
<1> DEFINE Fits(o) == o % a = 0 /\ \A q \in x..(o - 1) : q % a # 0
           up == AlignUp(x, a)
<1>1. up \in x..(x + 7) /\ Fits(up)
  BY AlignUpFacts
<1>2. ASSUME NEW o \in x..(x + 7), Fits(o) PROVE o = up
  <2>1. up \in Nat /\ o \in Nat
    BY <1>1
  <2>2. ~(up < o)
    <3> SUFFICES ASSUME up < o PROVE FALSE
      OBVIOUS
    <3>1. up \in x..(o - 1)
      BY <1>1, <2>1
    <3> QED BY <1>1, <1>2, <3>1
  <2>3. ~(o < up)
    <3> SUFFICES ASSUME o < up PROVE FALSE
      OBVIOUS
    <3>1. o \in x..(up - 1)
      BY <1>1, <2>1
    <3> QED BY <1>1, <1>2, <3>1
  <2> QED BY <2>1, <2>2, <2>3
<1> DEFINE first == CHOOSE o \in x..(x + 7) : Fits(o)
<1>3. RoundedUp(x, a) = first
  BY DEF RoundedUp
<1>4. first \in x..(x + 7) /\ Fits(first)
  <2> HIDE DEF Fits, up
  <2> QED BY <1>1
<1> HIDE DEF first, up, Fits
<1> QED
  BY <1>2, <1>3, <1>4 DEF up

\* The largest of a set of alignments is one.
LEMMA LargestAlignment ==
  ASSUME NEW S \in SUBSET Alignments
  PROVE  /\ Largest({1} \cup S) \in {1} \cup S
         /\ Largest({1} \cup S) \in Alignments
         /\ \A x \in S : x <= Largest({1} \cup S)
<1> DEFINE T == {1} \cup S
<1>1. \E x \in T : \A y \in T : y <= x
  <2>1. T \subseteq {1, 2, 4, 8}
    BY DEF Alignments
  <2>2. CASE 8 \in T
    BY <2>1, <2>2
  <2>3. CASE 8 \notin T /\ 4 \in T
    BY <2>1, <2>3
  <2>4. CASE 8 \notin T /\ 4 \notin T /\ 2 \in T
    BY <2>1, <2>4
  <2>5. CASE 8 \notin T /\ 4 \notin T /\ 2 \notin T
    <3>1. \A y \in T : y = 1
      BY <2>1, <2>5
    <3> QED BY <3>1
  <2> QED BY <2>2, <2>3, <2>4, <2>5
<1>2. Largest(T) \in T /\ \A y \in T : y <= Largest(T)
  BY <1>1 DEF Largest
<1> QED
  BY <1>2 DEF Alignments

LEMMA LargestNumber ==
  ASSUME NEW S \in SUBSET Nat, IsFiniteSet(S), S # {}
  PROVE  Largest(S) \in S /\ \A x \in S : x <= Largest(S)
<1> DEFINE Has(R) == \E x \in R : \A y \in R : y <= x
           T == {k \in Nat : \A R \in SUBSET Nat : IsFiniteSet(R) /\ Cardinality(R) = k /\ R # {} => Has(R)}
<1>1. 0 \in T
  BY FS_EmptySet
<1>2. ASSUME NEW k \in Nat, k \in T PROVE k + 1 \in T
  <2> SUFFICES ASSUME NEW R \in SUBSET Nat, IsFiniteSet(R), Cardinality(R) = k + 1, R # {} PROVE Has(R)
    OBVIOUS
  <2>1. PICK r : r \in R
    OBVIOUS
  <2>2. IsFiniteSet(R \ {r}) /\ Cardinality(R \ {r}) = k
    <3>1. IsFiniteSet(R \ {r}) /\ Cardinality(R \ {r}) = Cardinality(R) - 1
      BY <2>1, FS_RemoveElement
    <3> QED BY <3>1
  <2>3. CASE R \ {r} = {}
    <3>1. R = {r} /\ r \in Nat
      BY <2>1, <2>3
    <3> QED BY <3>1
  <2>4. CASE R \ {r} # {}
    <3>1. Has(R \ {r})
      BY <1>2, <2>2, <2>4
    <3>2. PICK x \in R \ {r} : \A y \in R \ {r} : y <= x
      BY <3>1
    <3>3. x \in Nat /\ r \in Nat
      BY <2>1, <3>2
    <3>4. CASE r <= x
      BY <3>2, <3>4
    <3>5. CASE x < r
      <4>1. \A y \in R : y <= r
        BY <3>2, <3>3, <3>5
      <4> QED BY <2>1, <4>1
    <3> QED BY <3>3, <3>4, <3>5
  <2> QED BY <2>3, <2>4
<1>3. Nat \subseteq T
  <2> HIDE DEF T
  <2> QED BY <1>1, <1>2, AllNumbers
<1>4. Cardinality(S) \in Nat
  BY FS_CardinalityType
<1>5. Has(S)
  BY <1>3, <1>4
<1> QED
  BY <1>5 DEF Largest

-----------------------------------------------------------------------------
(* Parts laid out one after the other.                                      *)


\* Where the parts end, one after the other.
EndsAre(e, sizes, aligns) ==
  /\ e \in [0..Len(sizes) -> Nat] /\ e[0] = 0
  /\ \A i \in 1..Len(sizes) : e[i] = AlignUp(e[i - 1], aligns[i]) + sizes[i]

EndsUpto(k, n, e, sizes, aligns) ==
  /\ e \in [0..n -> Nat] /\ e[0] = 0
  /\ \A i \in 1..n : i <= k => e[i] = AlignUp(e[i - 1], aligns[i]) + sizes[i]

LEMMA EndsExist ==
  ASSUME NEW sizes \in Seq(Nat), NEW aligns \in Seq(Alignments), Len(aligns) = Len(sizes)
  PROVE  \E e : EndsAre(e, sizes, aligns)
<1> DEFINE n == Len(sizes)
           T == {k \in Nat : \E e : EndsUpto(k, n, e, sizes, aligns)}
<1>1. n \in Nat /\ \A i \in 1..n : sizes[i] \in Nat /\ aligns[i] \in Alignments
  OBVIOUS
<1>2. ASSUME NEW i \in 1..n, NEW x \in Nat PROVE AlignUp(x, aligns[i]) + sizes[i] \in Nat
  <2>1. sizes[i] \in Nat /\ aligns[i] \in Alignments
    BY <1>1
  <2>2. AlignUp(x, aligns[i]) \in Nat
    BY <2>1, AlignUpFacts
  <2> QED BY <2>1, <2>2
<1> HIDE DEF n
<1>3. 0 \in T
  <2>1. EndsUpto(0, n, [i \in 0..n |-> 0], sizes, aligns)
    BY <1>1 DEF EndsUpto
  <2> QED BY <2>1
<1>4. ASSUME NEW k \in Nat, k \in T PROVE k + 1 \in T
  <2>1. PICK f : EndsUpto(k, n, f, sizes, aligns)
    BY <1>4
  <2>2. f \in [0..n -> Nat] /\ f[0] = 0 /\ \A i \in 1..n : i <= k => f[i] = AlignUp(f[i - 1], aligns[i]) + sizes[i]
    BY <2>1 DEF EndsUpto
  <2>3. CASE k + 1 \in 1..n
    <3>1. k \in 0..n
      BY <1>1, <2>3
    <3>2. f[k] \in Nat
      BY <2>2, <3>1
    <3>3. PICK v \in Nat : v = AlignUp(f[k], aligns[k + 1]) + sizes[k + 1]
      BY <1>2, <2>3, <3>2
    <3> DEFINE g == [f EXCEPT ![k + 1] = v]
    <3>4. k + 1 \in 0..n /\ k + 1 # 0
      BY <1>1, <2>3
    <3>5. g \in [0..n -> Nat] /\ g[0] = 0 /\ g[k + 1] = v /\ \A i \in 0..n : i # k + 1 => g[i] = f[i]
      BY <1>1, <2>2, <3>4
    <3> HIDE DEF g
    <3>6. ASSUME NEW i \in 1..n, i <= k + 1 PROVE g[i] = AlignUp(g[i - 1], aligns[i]) + sizes[i]
      <4>1. i - 1 \in 0..n /\ i - 1 # k + 1 /\ i \in 0..n
        BY <1>1, <3>6
      <4>2. g[i - 1] = f[i - 1]
        BY <3>5, <4>1
      <4>3. CASE i = k + 1
        <5>1. i - 1 = k
          BY <4>3
        <5> QED BY <3>3, <3>5, <4>2, <4>3, <5>1
      <4>4. CASE i # k + 1
        <5>1. i <= k
          BY <3>6, <4>4
        <5> QED BY <2>2, <3>5, <4>1, <4>2, <4>4, <5>1
      <4> QED BY <4>3, <4>4
    <3>7. EndsUpto(k + 1, n, g, sizes, aligns)
      BY <3>5, <3>6 DEF EndsUpto
    <3> QED BY <3>7
  <2>4. CASE k + 1 \notin 1..n
    <3>1. \A i \in 1..n : i <= k + 1 => i <= k
      BY <1>1, <2>4
    <3>2. EndsUpto(k + 1, n, f, sizes, aligns)
      BY <2>2, <3>1 DEF EndsUpto
    <3> QED BY <3>2
  <2> QED BY <2>3, <2>4
<1>5. Nat \subseteq T
  <2> HIDE DEF T
  <2> QED BY <1>3, <1>4, AllNumbers
<1>6. PICK e : EndsUpto(n, n, e, sizes, aligns)
  BY <1>1, <1>5
<1>7. EndsAre(e, sizes, aligns)
  BY <1>1, <1>6 DEF EndsAre, EndsUpto, n
<1> QED
  BY <1>7

OnNumbers(f, n) == f = [i \in 0..n |-> f[i]]

\* There is one way to lay parts out.
LEMMA EndsUnique ==
  ASSUME NEW sizes \in Seq(Nat), NEW aligns \in Seq(Alignments), Len(aligns) = Len(sizes),
         NEW e, EndsAre(e, sizes, aligns), NEW f,
         OnNumbers(f, Len(sizes)), f[0] = 0,
         \A i \in 1..Len(sizes) : f[i - 1] \in Nat => f[i] = AlignUp(f[i - 1], aligns[i]) + sizes[i]
  PROVE  f = e
<1> DEFINE n == Len(sizes)
           T == {k \in Nat : k <= n => f[k] = e[k]}
<1>1. n \in Nat
  OBVIOUS
<1> HIDE DEF n
<1>2. e \in [0..n -> Nat] /\ e[0] = 0 /\ \A i \in 1..n : e[i] = AlignUp(e[i - 1], aligns[i]) + sizes[i]
  BY DEF EndsAre, n
<1>3. 0 \in T
  BY <1>2
<1>4. ASSUME NEW k \in Nat, k \in T PROVE k + 1 \in T
  <2> SUFFICES ASSUME k + 1 <= n PROVE f[k + 1] = e[k + 1]
    OBVIOUS
  <2>1. k <= n /\ k \in 0..n /\ k + 1 \in 1..n /\ (k + 1) - 1 = k
    BY <1>1
  <2>2. f[k] = e[k] /\ e[k] \in Nat
    BY <1>2, <1>4, <2>1
  <2>3. f[k + 1] = AlignUp(f[k], aligns[k + 1]) + sizes[k + 1]
    BY <2>1, <2>2 DEF n
  <2>4. e[k + 1] = AlignUp(e[k], aligns[k + 1]) + sizes[k + 1]
    BY <1>2, <2>1
  <2> QED BY <2>2, <2>3, <2>4
<1>5. Nat \subseteq T
  <2> HIDE DEF T
  <2> QED BY <1>3, <1>4, AllNumbers
<1>6. \A i \in 0..n : f[i] = e[i]
  BY <1>1, <1>5
<1>7. f = [i \in 0..n |-> f[i]] /\ e = [i \in 0..n |-> e[i]]
  BY <1>2 DEF n, OnNumbers
<1> QED
  BY <1>6, <1>7

LEMMA EndsFacts ==
  ASSUME NEW sizes \in Seq(Nat), NEW aligns \in Seq(Alignments), Len(aligns) = Len(sizes)
  PROVE  EndsAre(Ends(sizes, aligns), sizes, aligns)
<1> DEFINE Rec(e) == e = [i \in 0..Len(sizes) |-> IF i = 0 THEN 0 ELSE AlignUp(e[i - 1], aligns[i]) + sizes[i]]
<1>1. PICK f : EndsAre(f, sizes, aligns)
  BY EndsExist
<1>2. Rec(f)
  BY <1>1 DEF EndsAre
<1>3. Ends(sizes, aligns) = CHOOSE e : Rec(e)
  BY Zenon DEF Ends
<1>4. Rec(Ends(sizes, aligns))
  BY <1>2, <1>3
<1> DEFINE e == Ends(sizes, aligns)
<1>5. /\ OnNumbers(e, Len(sizes)) /\ e[0] = 0
      /\ \A i \in 1..Len(sizes) : e[i] = AlignUp(e[i - 1], aligns[i]) + sizes[i]
  <2> HIDE DEF e
  <2>1. Rec(e)
    BY <1>4 DEF e
  <2>2. 0 \in 0..Len(sizes) /\ \A i \in 1..Len(sizes) : i \in 0..Len(sizes) /\ i # 0
    OBVIOUS
  <2> QED BY <2>1, <2>2 DEF OnNumbers
<1> HIDE DEF e
<1>6. e = f
  BY <1>1, <1>5, EndsUnique
<1> QED
  BY <1>1, <1>6 DEF e

\* LLVM lays a struct out as TypeSizing does, when the size of every element is a multiple
\* of its alignment.
SizedAs(size, align) == size \in Nat /\ align \in Alignments /\ size % align = 0

LargestOf(aligns) == Largest({1} \cup ToSet(aligns))

LEMMA ElementsAlike ==
  ASSUME NEW sizes \in Seq(Nat), NEW aligns \in Seq(Alignments), Len(aligns) = Len(sizes),
         NEW elements, elements = [i \in 1..Len(sizes) |-> <<sizes[i], aligns[i]>>]
  PROVE  ElementsEnd(elements) = Ends(sizes, aligns)[Len(sizes)]
<1> DEFINE n == Len(sizes)
           Rec(f) == f = [i \in 0..Len(elements) |->
                            IF i = 0 THEN 0 ELSE RoundedUp(f[i - 1], elements[i][2]) + elements[i][1]]
           llvm == CHOOSE f : Rec(f)
           e == Ends(sizes, aligns)
<1>1. n \in Nat /\ \A i \in 1..n : sizes[i] \in Nat /\ aligns[i] \in Alignments
  OBVIOUS
<1>2. Len(elements) = n /\ \A i \in 1..n : elements[i][1] = sizes[i] /\ elements[i][2] = aligns[i]
  BY <1>1
<1>3. EndsAre(e, sizes, aligns)
  BY EndsFacts
<1>4. ElementsEnd(elements) = llvm[n]
  BY <1>2, Zenon DEF ElementsEnd
<1> HIDE DEF n, e
<1>5. e \in [0..n -> Nat] /\ e[0] = 0 /\ \A i \in 1..n : e[i] = AlignUp(e[i - 1], aligns[i]) + sizes[i]
  BY <1>3 DEF EndsAre, n
<1>6. Rec(e)
  <2>1. ASSUME NEW i \in 0..n PROVE e[i] = IF i = 0 THEN 0 ELSE RoundedUp(e[i - 1], elements[i][2]) + elements[i][1]
    <3>1. CASE i = 0
      BY <1>5, <3>1
    <3>2. CASE i # 0
      <4>1. i \in 1..n /\ i - 1 \in 0..n
        BY <1>1, <3>2
      <4>2. e[i - 1] \in Nat /\ aligns[i] \in Alignments
        BY <1>1, <1>5, <4>1
      <4>3. RoundedUp(e[i - 1], aligns[i]) = AlignUp(e[i - 1], aligns[i])
        BY <4>2, RoundsAlike
      <4> QED BY <1>2, <1>5, <3>2, <4>1, <4>3
    <3> QED BY <3>1, <3>2
  <2>2. e = [i \in 0..n |-> e[i]]
    BY <1>5
  <2> QED BY <1>2, <2>1, <2>2
<1>7. Rec(llvm)
  <2> HIDE DEF Rec
  <2> QED BY <1>6
<1> HIDE DEF llvm
<1>8. OnNumbers(llvm, n) /\ llvm[0] = 0
  BY <1>1, <1>2, <1>7 DEF OnNumbers
<1>9. \A i \in 1..n : llvm[i] = RoundedUp(llvm[i - 1], aligns[i]) + sizes[i]
  <2>1. \A i \in 0..Len(elements) :
          llvm[i] = IF i = 0 THEN 0 ELSE RoundedUp(llvm[i - 1], elements[i][2]) + elements[i][1]
    BY <1>7, Zenon
  <2>2. \A i \in 1..n : i \in 0..Len(elements) /\ i # 0
    BY <1>1, <1>2
  <2> HIDE DEF Rec
  <2> QED BY <1>2, <2>1, <2>2
<1> HIDE DEF Rec
<1>10. \A i \in 1..n : llvm[i - 1] \in Nat => llvm[i] = AlignUp(llvm[i - 1], aligns[i]) + sizes[i]
  BY <1>1, <1>9, RoundsAlike
<1>11. llvm = e
  BY <1>3, <1>8, <1>10, EndsUnique DEF n
<1> QED
  BY <1>4, <1>11 DEF n, e

LEMMA LargestOfFacts ==
  ASSUME NEW aligns \in Seq(Alignments)
  PROVE  /\ LargestOf(aligns) \in Alignments
         /\ \A i \in 1..Len(aligns) : aligns[i] <= LargestOf(aligns)
         /\ LargestOf(aligns) = 1 \/ \E i \in 1..Len(aligns) : LargestOf(aligns) = aligns[i]
<1>1. ToSet(aligns) = {aligns[i] : i \in 1..Len(aligns)}
  BY DEF ToSet
<1>2. ToSet(aligns) \in SUBSET Alignments
  BY <1>1
<1> HIDE DEF LargestOf
<1> QED
  BY <1>1, <1>2, LargestAlignment DEF LargestOf

LEMMA StructsAlike ==
  ASSUME NEW sizes \in Seq(Nat), NEW aligns \in Seq(Alignments), Len(aligns) = Len(sizes),
         \A i \in 1..Len(sizes) : SizedAs(sizes[i], aligns[i]),
         NEW elements, elements = [i \in 1..Len(sizes) |-> <<sizes[i], aligns[i]>>]
  PROVE  /\ StructOf(elements) = <<StructSize(sizes, aligns), LargestOf(aligns)>>
         /\ StructSize(sizes, aligns) = AlignUp(Ends(sizes, aligns)[Len(sizes)], LargestOf(aligns))
         /\ SizedAs(StructSize(sizes, aligns), LargestOf(aligns))
<1> DEFINE n == Len(sizes)
           padded == [i \in DOMAIN sizes |-> AlignUp(sizes[i], aligns[i])]
           e == Ends(sizes, aligns)
<1>1. padded = sizes
  <2>1. \A i \in DOMAIN sizes : AlignUp(sizes[i], aligns[i]) = sizes[i]
    <3> TAKE i \in DOMAIN sizes
    <3>1. SizedAs(sizes[i], aligns[i])
      OBVIOUS
    <3> QED BY <3>1, AlignUpFacts DEF SizedAs
  <2> QED BY <2>1
<1>2. StructSize(sizes, aligns) = AlignUp(e[n], LargestOf(aligns))
  BY <1>1 DEF StructSize, LargestOf
<1>3. e[n] \in Nat
  BY EndsFacts DEF EndsAre
<1>4. LargestOf(aligns) \in Alignments
  BY LargestOfFacts
<1>5. DOMAIN elements = 1..n /\ \A i \in 1..n : elements[i][2] = aligns[i]
  OBVIOUS
<1>6. {elements[i][2] : i \in DOMAIN elements} = ToSet(aligns)
  BY <1>5 DEF ToSet
<1> HIDE DEF e
<1>7. ElementsEnd(elements) = e[n]
  BY ElementsAlike DEF e
<1>8. StructOf(elements) = <<RoundedUp(e[n], LargestOf(aligns)), LargestOf(aligns)>>
  BY <1>6, <1>7 DEF StructOf, LargestOf
<1>9. RoundedUp(e[n], LargestOf(aligns)) = AlignUp(e[n], LargestOf(aligns))
  BY <1>3, <1>4, RoundsAlike
<1>10. SizedAs(AlignUp(e[n], LargestOf(aligns)), LargestOf(aligns))
  BY <1>3, <1>4, AlignUpFacts DEF SizedAs
<1> QED
  BY <1>2, <1>8, <1>9, <1>10 DEF e

-----------------------------------------------------------------------------
(* The built-in types, dynamic arrays and owned values.                     *)

LEMMA NumbersAlike ==
  ASSUME NEW nums \in Seq(Alignments), NEW k \in 1..Len(nums), nums[k] = 8,
         NEW elements, elements = [i \in 1..Len(nums) |-> <<nums[i], nums[i]>>]
  PROVE  /\ EndsAre(Ends(nums, nums), nums, nums)
         /\ StructOf(elements) = <<AlignUp(Ends(nums, nums)[Len(nums)], 8), 8>>
<1>1. nums \in Seq(Nat) /\ \A i \in 1..Len(nums) : SizedAs(nums[i], nums[i])
  BY DEF SizedAs, Alignments
<1>2. LargestOf(nums) = 8
  <2>1. LargestOf(nums) \in Alignments /\ 8 <= LargestOf(nums)
    BY LargestOfFacts
  <2> QED BY <2>1 DEF Alignments
<1> QED
  BY <1>1, <1>2, EndsFacts, StructsAlike

LEMMA StringAlike == StructOf(<<Pointer, IntOf(4), IntOf(1)>>) = <<16, 8>>
<1> DEFINE nums == <<8, 4, 1>>
           e == Ends(nums, nums)
<1>1. nums \in Seq(Alignments) /\ Len(nums) = 3 /\ nums[1] = 8 /\ 1 \in 1..Len(nums)
  BY DEF Alignments
<1>2. <<Pointer, IntOf(4), IntOf(1)>> = [i \in 1..Len(nums) |-> <<nums[i], nums[i]>>]
  BY DEF Pointer, IntOf
<1>3. nums[1] = 8 /\ nums[2] = 4 /\ nums[3] = 1
  OBVIOUS
<1> HIDE DEF nums
<1>4. EndsAre(e, nums, nums) /\ StructOf(<<Pointer, IntOf(4), IntOf(1)>>) = <<AlignUp(e[3], 8), 8>>
  BY <1>1, <1>2, NumbersAlike
<1> HIDE DEF e
<1>5. e[0] = 0 /\ e[1] = AlignUp(e[0], 8) + 8 /\ e[2] = AlignUp(e[1], 4) + 4 /\ e[3] = AlignUp(e[2], 1) + 1
  BY <1>1, <1>3, <1>4 DEF EndsAre
<1>6. e[3] = 13
  BY <1>5 DEF AlignUp
<1> QED
  BY <1>4, <1>6 DEF AlignUp

LEMMA ArraysAlike == StructOf(<<IntOf(4), IntOf(4), Pointer>>) = <<16, 8>>
<1> DEFINE nums == <<4, 4, 8>>
           e == Ends(nums, nums)
<1>1. nums \in Seq(Alignments) /\ Len(nums) = 3 /\ nums[3] = 8 /\ 3 \in 1..Len(nums)
  BY DEF Alignments
<1>2. <<IntOf(4), IntOf(4), Pointer>> = [i \in 1..Len(nums) |-> <<nums[i], nums[i]>>]
  BY DEF Pointer, IntOf
<1>3. nums[1] = 4 /\ nums[2] = 4 /\ nums[3] = 8
  OBVIOUS
<1> HIDE DEF nums
<1>4. EndsAre(e, nums, nums) /\ StructOf(<<IntOf(4), IntOf(4), Pointer>>) = <<AlignUp(e[3], 8), 8>>
  BY <1>1, <1>2, NumbersAlike
<1> HIDE DEF e
<1>5. e[0] = 0 /\ e[1] = AlignUp(e[0], 4) + 4 /\ e[2] = AlignUp(e[1], 4) + 4 /\ e[3] = AlignUp(e[2], 8) + 8
  BY <1>1, <1>3, <1>4 DEF EndsAre
<1>6. e[3] = 16
  BY <1>5 DEF AlignUp
<1> QED
  BY <1>4, <1>6 DEF AlignUp

LEMMA OwnersAlike == StructOf(<<Pointer>>) = <<8, 8>>
<1> DEFINE nums == <<8>>
           e == Ends(nums, nums)
<1>1. nums \in Seq(Alignments) /\ Len(nums) = 1 /\ nums[1] = 8 /\ 1 \in 1..Len(nums)
  BY DEF Alignments
<1>2. <<Pointer>> = [i \in 1..Len(nums) |-> <<nums[i], nums[i]>>]
  BY DEF Pointer, IntOf
<1>3. nums[1] = 8
  OBVIOUS
<1> HIDE DEF nums
<1>4. EndsAre(e, nums, nums) /\ StructOf(<<Pointer>>) = <<AlignUp(e[1], 8), 8>>
  BY <1>1, <1>2, NumbersAlike
<1> HIDE DEF e
<1>5. e[0] = 0 /\ e[1] = AlignUp(e[0], 8) + 8
  BY <1>1, <1>3, <1>4 DEF EndsAre
<1>6. e[1] = 8
  BY <1>5 DEF AlignUp
<1> QED
  BY <1>4, <1>6 DEF AlignUp

LEMMA LeavesAlike ==
  ASSUME NEW l \in Leaves
  PROVE  LLVMLeaf(l) = <<LeafSize[l], LeafAlign[l]>> /\ SizedAs(LeafSize[l], LeafAlign[l])
<1>1. l \in {"i8", "i16", "i32", "i64", "string"}
  BY LayoutAssumption
<1>2. CASE l = "string"
  BY <1>2, StringAlike DEF LLVMLeaf, LeafSize, LeafAlign, SizedAs, Alignments
<1>3. CASE l # "string"
  BY <1>1, <1>3 DEF LLVMLeaf, LeafSize, LeafAlign, IntOf, SizedAs, Alignments
<1> QED
  BY <1>2, <1>3

\* A part is laid out alike when the names in it are.
NameAlike(n, names, types) ==
  /\ SizedAs(names[n].size, names[n].align)
  /\ types[n] = <<names[n].size, names[n].align>>

LEMMA PartsAlike ==
  ASSUME NEW p \in Part, NEW names, NEW types,
         p.of \in Names /\ p.wrap \in {"plain", "fixed"} => NameAlike(p.of, names, types)
  PROVE  /\ SizedAs(PartSize(p, names), PartAlign(p, names))
         /\ LLVMOver(p, types) = <<PartSize(p, names), PartAlign(p, names)>>
<1>1. p.wrap \in {"plain", "fixed", "dyn", "own"} /\ (p.of \in Names \/ p.of \in Leaves)
  BY NamesFacts DEF Part, Wraps
<1>2. CASE p.wrap = "own"
  BY <1>2, OwnersAlike DEF PartSize, PartAlign, LLVMOver, SizedAs, Alignments
<1>3. CASE p.wrap = "dyn"
  BY <1>3, ArraysAlike DEF PartSize, PartAlign, LLVMOver, SizedAs, Alignments
<1>4. CASE p.wrap \in {"plain", "fixed"}
  <2> DEFINE size == IF p.of \in Leaves THEN LeafSize[p.of] ELSE names[p.of].size
             align == IF p.of \in Leaves THEN LeafAlign[p.of] ELSE names[p.of].align
             one == IF p.of \in Leaves THEN LLVMLeaf(p.of) ELSE types[p.of]
  <2>1. SizedAs(size, align) /\ one = <<size, align>>
    BY <1>1, <1>4, LeavesAlike DEF NameAlike
  <2>2. PartAlign(p, names) = align
    BY <1>4 DEF PartAlign
  <2>3. PartSize(p, names) = IF p.wrap = "fixed" THEN size * FixedLength ELSE size
    BY <1>4 DEF PartSize
  <2>4. LLVMOver(p, types) = IF p.wrap = "fixed" THEN ArrayOf(FixedLength, one) ELSE one
    BY <1>4 DEF LLVMOver
  <2> HIDE DEF size, align, one
  <2>5. size \in Nat /\ align \in Alignments /\ size % align = 0 /\ FixedLength \in Nat
    BY <2>1, LayoutAssumption DEF SizedAs
  <2>6. size * FixedLength \in Nat /\ size * FixedLength = FixedLength * size
    BY <2>5
  <2>7. (size * FixedLength) % align = 0
    <3>1. PICK q \in Nat : size = align * q
      <4>1. CASE align = 1
        BY <2>5, <4>1
      <4>2. CASE align = 2
        BY <2>5, <4>2
      <4>3. CASE align = 4
        BY <2>5, <4>3
      <4>4. CASE align = 8
        BY <2>5, <4>4
      <4> QED BY <2>5, <4>1, <4>2, <4>3, <4>4 DEF Alignments
    <3>2. q * FixedLength \in Nat /\ size * FixedLength = align * (q * FixedLength)
      BY <2>5, <3>1 DEF Alignments
    <3>3. \A x \in Nat : (align * x) % align = 0
      BY <2>5 DEF Alignments
    <3> QED BY <3>2, <3>3
  <2> QED BY <1>4, <2>1, <2>2, <2>3, <2>4, <2>5, <2>6, <2>7 DEF SizedAs, ArrayOf
<1> QED
  BY <1>1, <1>2, <1>3, <1>4

LEMMA GroupFacts ==
  ASSUME DeclOK, NEW n \in Names, NEW g \in ToSet(body[n])
  PROVE  /\ g \in Seq(Part) /\ DOMAIN g = 1..Len(g) /\ Len(g) \in Nat
         /\ \A i \in 1..Len(g) : g[i] \in Part /\ g[i] \in PartsOf(n)
         /\ \A i \in 1..Len(g) : g[i].of \in Names /\ g[i].wrap \in {"plain", "fixed"} => g[i].of \in Holds(n)
<1>1. PICK j \in DOMAIN body[n] : g = body[n][j]
  BY DEF ToSet
<1>2. body[n] \in Seq(Seq(Part))
  BY DEF DeclOK
<1>3. g \in Seq(Part)
  BY <1>1, <1>2, ElementOfSeq
<1>4. DOMAIN g = 1..Len(g) /\ Len(g) \in Nat /\ \A i \in 1..Len(g) : g[i] \in Part
  BY <1>3
<1>5. \A i \in 1..Len(g) : g[i] \in PartsOf(n)
  BY <1>1, <1>4, PartFacts
<1> QED
  BY <1>3, <1>4, <1>5 DEF Holds

LEMMA ImageFinite ==
  ASSUME NEW S, IsFiniteSet(S), NEW T, NEW f \in [S -> T]
  PROVE  IsFiniteSet({f[x] : x \in S})
<1>1. f \in Surjection(S, {f[x] : x \in S})
  BY DEF Surjection
<1> QED
  BY <1>1, FS_Surjection

LEMMA MembersFinite ==
  ASSUME NEW T, NEW s \in Seq(T)
  PROVE  IsFiniteSet(ToSet(s))
<1>1. s \in [1..Len(s) -> T] /\ Len(s) \in Nat
  OBVIOUS
<1>2. IsFiniteSet(1..Len(s))
  BY <1>1, FS_Interval
<1>3. IsFiniteSet({s[i] : i \in 1..Len(s)})
  BY <1>1, <1>2, ImageFinite
<1> QED
  BY <1>1, <1>3 DEF ToSet

-----------------------------------------------------------------------------
(* The words of an enum's payload.                                          *)

LEMMA PayloadFacts ==
  ASSUME NEW sizes \in Seq(Nat), NEW aligns \in Seq(Alignments), Len(aligns) = Len(sizes)
  PROVE  /\ PayloadSize(sizes, aligns) = Ends(sizes, aligns)[Len(sizes)]
         /\ PayloadSize(sizes, aligns) \in Nat
<1> DEFINE e == Ends(sizes, aligns)  n == Len(sizes)
<1>1. n \in Nat /\ EndsAre(e, sizes, aligns)
  BY EndsFacts
<1>2. sizes = <<>> <=> n = 0
  OBVIOUS
<1> HIDE DEF e
<1>3. e[n] \in Nat
  BY <1>1 DEF EndsAre
<1>4. CASE n = 0
  BY <1>1, <1>2, <1>4 DEF PayloadSize, EndsAre, e
<1>5. CASE n # 0
  <2>1. n \in DOMAIN sizes /\ n \in 1..n
    BY <1>1, <1>5
  <2>2. OffsetsOf(sizes, aligns) = [i \in 1..n |-> AlignUp(e[i - 1], aligns[i])]
    BY DEF OffsetsOf, e
  <2>3. Last(OffsetsOf(sizes, aligns)) = AlignUp(e[n - 1], aligns[n]) /\ Last(sizes) = sizes[n]
    BY <1>1, <2>1, <2>2 DEF Last
  <2>4. e[n] = AlignUp(e[n - 1], aligns[n]) + sizes[n]
    BY <1>1, <2>1 DEF EndsAre
  <2> QED BY <1>2, <1>3, <1>5, <2>3, <2>4 DEF PayloadSize, e
<1> QED
  BY <1>4, <1>5, <1>3 DEF e

Words(g, names) == AlignUp(PayloadSize(SizesOver(g, names), AlignsOver(g, names)), 8) \div 8

LEMMA WordsFit ==
  ASSUME NEW x \in Nat
  PROVE  AlignUp(x, 8) \div 8 \in Nat /\ x <= 8 * (AlignUp(x, 8) \div 8)
BY DEF AlignUp

\* What is held is laid out alike.
HeldAlike(n, names, types) == \A h \in Holds(n) : NameAlike(h, names, types)

LEMMA GroupsSized ==
  ASSUME DeclOK, NEW n \in Names, NEW g \in ToSet(body[n]), NEW names, NEW types, HeldAlike(n, names, types)
  PROVE  /\ SizesOver(g, names) \in Seq(Nat) /\ AlignsOver(g, names) \in Seq(Alignments)
         /\ Len(SizesOver(g, names)) = Len(g) /\ Len(AlignsOver(g, names)) = Len(g)
         /\ \A i \in 1..Len(g) :
              /\ SizesOver(g, names)[i] = PartSize(g[i], names)
              /\ AlignsOver(g, names)[i] = PartAlign(g[i], names)
              /\ SizedAs(PartSize(g[i], names), PartAlign(g[i], names))
              /\ LLVMOver(g[i], types) = <<PartSize(g[i], names), PartAlign(g[i], names)>>
<1>1. DOMAIN g = 1..Len(g) /\ Len(g) \in Nat
  BY GroupFacts
<1>2. ASSUME NEW i \in 1..Len(g)
      PROVE  /\ SizedAs(PartSize(g[i], names), PartAlign(g[i], names))
             /\ LLVMOver(g[i], types) = <<PartSize(g[i], names), PartAlign(g[i], names)>>
  <2>1. g[i] \in Part /\ (g[i].of \in Names /\ g[i].wrap \in {"plain", "fixed"} => g[i].of \in Holds(n))
    BY GroupFacts
  <2>2. g[i].of \in Names /\ g[i].wrap \in {"plain", "fixed"} => NameAlike(g[i].of, names, types)
    BY <2>1 DEF HeldAlike
  <2> QED BY <2>1, <2>2, PartsAlike
<1>3. SizesOver(g, names) = [i \in 1..Len(g) |-> PartSize(g[i], names)]
  BY <1>1 DEF SizesOver
<1>4. AlignsOver(g, names) = [i \in 1..Len(g) |-> PartAlign(g[i], names)]
  BY <1>1 DEF AlignsOver
<1>5. \A i \in 1..Len(g) : PartSize(g[i], names) \in Nat /\ PartAlign(g[i], names) \in Alignments
  BY <1>2 DEF SizedAs
<1>6. SizesOver(g, names) \in Seq(Nat) /\ Len(SizesOver(g, names)) = Len(g)
  BY <1>1, <1>3, <1>5
<1>7. AlignsOver(g, names) \in Seq(Alignments) /\ Len(AlignsOver(g, names)) = Len(g)
  BY <1>1, <1>4, <1>5
<1> QED
  BY <1>2, <1>3, <1>4, <1>6, <1>7

LEMMA WordsCounted ==
  ASSUME DeclOK, NEW n \in Names, NEW names, NEW types, HeldAlike(n, names, types)
  PROVE  /\ WordCount(n, names) \in Nat
         /\ \A g \in ToSet(body[n]) :
              PayloadSize(SizesOver(g, names), AlignsOver(g, names)) <= 8 * WordCount(n, names)
<1> DEFINE S == {Words(g, names) : g \in ToSet(body[n])}
<1>1. WordCount(n, names) = Largest({1} \cup S)
  BY DEF WordCount, Words
<1>2. ASSUME NEW g \in ToSet(body[n])
      PROVE  /\ PayloadSize(SizesOver(g, names), AlignsOver(g, names)) \in Nat
             /\ Words(g, names) \in Nat
             /\ PayloadSize(SizesOver(g, names), AlignsOver(g, names)) <= 8 * Words(g, names)
  <2> DEFINE sizes == SizesOver(g, names)  aligns == AlignsOver(g, names)
  <2>0. /\ SizesOver(g, names) \in Seq(Nat) /\ AlignsOver(g, names) \in Seq(Alignments)
        /\ Len(SizesOver(g, names)) = Len(g) /\ Len(AlignsOver(g, names)) = Len(g)
    BY GroupsSized
  <2>1. sizes \in Seq(Nat) /\ aligns \in Seq(Alignments) /\ Len(aligns) = Len(sizes)
    <3> HIDE DEF S
    <3> QED BY <2>0, Zenon
  <2>2. Words(g, names) = AlignUp(PayloadSize(sizes, aligns), 8) \div 8
    BY DEF Words
  <2> HIDE DEF sizes, aligns
  <2>3. PayloadSize(sizes, aligns) \in Nat
    BY <2>1, PayloadFacts
  <2>4. /\ AlignUp(PayloadSize(sizes, aligns), 8) \div 8 \in Nat
        /\ PayloadSize(sizes, aligns) <= 8 * (AlignUp(PayloadSize(sizes, aligns), 8) \div 8)
    BY <2>3, WordsFit
  <2> QED BY <2>2, <2>3, <2>4 DEF sizes, aligns
<1>3. IsFiniteSet(S)
  <2>1. body[n] \in Seq(Seq(Part))
    BY DEF DeclOK
  <2>5. IsFiniteSet(ToSet(body[n]))
    BY <2>1, MembersFinite
  <2> DEFINE f == [g \in ToSet(body[n]) |-> Words(g, names)]
  <2>6. f \in [ToSet(body[n]) -> Nat]
    BY <1>2
  <2>7. IsFiniteSet({f[g] : g \in ToSet(body[n])})
    <3> HIDE DEF f
    <3> QED BY <2>5, <2>6, ImageFinite
  <2>8. S = {f[g] : g \in ToSet(body[n])}
    OBVIOUS
  <2> QED BY <2>7, <2>8
<1>4. {1} \cup S \in SUBSET Nat /\ IsFiniteSet({1} \cup S) /\ {1} \cup S # {}
  <2>1. S \subseteq Nat
    BY <1>2
  <2> HIDE DEF S
  <2>2. IsFiniteSet({1})
    BY FS_Singleton
  <2>3. IsFiniteSet({1} \cup S)
    BY <1>3, <2>2, FS_Union
  <2> QED BY <2>1, <2>3
<1> HIDE DEF S
<1>5. Largest({1} \cup S) \in {1} \cup S /\ \A x \in {1} \cup S : x <= Largest({1} \cup S)
  BY <1>4, LargestNumber
<1>6. WordCount(n, names) \in Nat
  BY <1>1, <1>4, <1>5
<1>7. \A g \in ToSet(body[n]) : Words(g, names) <= WordCount(n, names)
  BY <1>1, <1>5 DEF S
<1>8. ASSUME NEW g \in ToSet(body[n])
      PROVE  PayloadSize(SizesOver(g, names), AlignsOver(g, names)) <= 8 * WordCount(n, names)
  BY <1>2, <1>6, <1>7
<1> QED
  BY <1>6, <1>8

\* The type of an enum: a tag and the words.
LEMMA EnumsAlike ==
  ASSUME NEW w \in Nat
  PROVE  StructOf(<<IntOf(4), ArrayOf(w, IntOf(8))>>) = <<8 + 8 * w, 8>> /\ SizedAs(8 + 8 * w, 8)
<1> DEFINE sizes == <<4, w * 8>>  aligns == <<4, 8>>
           e == Ends(sizes, aligns)
<1>1. /\ sizes \in Seq(Nat) /\ Len(sizes) = 2 /\ aligns \in Seq(Alignments) /\ Len(aligns) = 2
      /\ sizes[1] = 4 /\ sizes[2] = w * 8 /\ aligns[1] = 4 /\ aligns[2] = 8
  BY DEF Alignments
<1>2. <<IntOf(4), ArrayOf(w, IntOf(8))>> = [i \in 1..Len(sizes) |-> <<sizes[i], aligns[i]>>]
  BY DEF IntOf, ArrayOf
<1> HIDE DEF sizes, aligns
<1>3. \A i \in 1..Len(sizes) : SizedAs(sizes[i], aligns[i])
  <2>1. SizedAs(4, 4)
    BY DEF SizedAs, Alignments
  <2>2. SizedAs(w * 8, 8)
    BY DEF SizedAs, Alignments
  <2> QED BY <1>1, <2>1, <2>2
<1>4. StructOf(<<IntOf(4), ArrayOf(w, IntOf(8))>>) = <<AlignUp(e[2], LargestOf(aligns)), LargestOf(aligns)>>
  <2>1. /\ sizes \in Seq(Nat) /\ aligns \in Seq(Alignments)
        /\ Len(aligns) = Len(sizes) /\ Len(sizes) = 2
    BY <1>1
  <2>2. /\ StructOf(<<IntOf(4), ArrayOf(w, IntOf(8))>>) = <<StructSize(sizes, aligns), LargestOf(aligns)>>
        /\ StructSize(sizes, aligns) = AlignUp(Ends(sizes, aligns)[Len(sizes)], LargestOf(aligns))
    BY <1>2, <1>3, <2>1, StructsAlike
  <2> QED BY <2>1, <2>2
<1>5. LargestOf(aligns) = 8
  <2>1. LargestOf(aligns) \in Alignments /\ 8 <= LargestOf(aligns)
    BY <1>1, LargestOfFacts
  <2> QED BY <2>1 DEF Alignments
<1>6. EndsAre(e, sizes, aligns)
  BY <1>1, EndsFacts
<1> HIDE DEF e
<1>7. e[0] = 0 /\ e[1] = AlignUp(e[0], 4) + 4 /\ e[2] = AlignUp(e[1], 8) + w * 8
  BY <1>1, <1>6 DEF EndsAre
<1>8. e[2] = 8 + 8 * w
  BY <1>7 DEF AlignUp
<1>9. SizedAs(8 + 8 * w, 8)
  BY DEF SizedAs, Alignments
<1>10. AlignUp(8 + 8 * w, 8) = 8 + 8 * w
  BY <1>9, AlignUpFacts DEF SizedAs
<1> QED
  BY <1>4, <1>5, <1>8, <1>9, <1>10

\* A variant's fields, written one after the other.
LEMMA StoresFit ==
  ASSUME DeclOK, NEW n \in Names, NEW g \in ToSet(body[n]), HeldAlike(n, Sizing[Fuel], LLVMTypes[Fuel])
  PROVE  PayloadFits(g, 8 * WordCount(n, Sizing[Fuel]))
<1> DEFINE sizes == Sizes(g)  aligns == Aligns(g)  e == Ends(sizes, aligns)  len == Len(g)
           Rec(f) == f = [i \in 0..Len(g) |->
                            IF i = 0 THEN 0 ELSE AlignUp(f[i - 1], AlignOf(g[i])) + SizeOf(g[i])]
           at == CHOOSE f : Rec(f)
           words == WordCount(n, Sizing[Fuel])
<1>1. /\ sizes \in Seq(Nat) /\ aligns \in Seq(Alignments) /\ Len(sizes) = len /\ Len(aligns) = len
      /\ \A i \in 1..len : /\ sizes[i] = SizeOf(g[i]) /\ aligns[i] = AlignOf(g[i])
                           /\ LLVMPart(g[i]) = <<sizes[i], aligns[i]>>
  BY GroupsSized DEF Sizes, Aligns, SizeOf, AlignOf, LLVMPart
<1>2. len \in Nat /\ DOMAIN g = 1..len /\ DOMAIN sizes = 1..len
  BY <1>1, GroupFacts
<1>3. EndsAre(e, sizes, aligns)
  BY <1>1, EndsFacts
<1>4. words \in Nat /\ PayloadSize(sizes, aligns) <= 8 * words
  BY WordsCounted DEF Sizes, Aligns
<1>5. PayloadSize(sizes, aligns) = e[len]
  BY <1>1, PayloadFacts
<1>6. OffsetsOf(sizes, aligns) = [i \in 1..len |-> AlignUp(e[i - 1], aligns[i])]
  BY <1>2 DEF OffsetsOf
<1>7. Stores(g) = [i \in DOMAIN g |-> AlignUp(at[i - 1], AlignOf(g[i]))]
  BY Zenon DEF Stores
<1> HIDE DEF sizes, aligns, e, words, len
<1>8. e \in [0..len -> Nat] /\ e[0] = 0 /\ \A i \in 1..len : e[i] = AlignUp(e[i - 1], aligns[i]) + sizes[i]
  BY <1>1, <1>3 DEF EndsAre
<1>9. Rec(e)
  <2>1. \A i \in 0..len : i = 0 \/ i \in 1..len
    BY <1>2
  <2>2. \A i \in 0..len : e[i] = IF i = 0 THEN 0 ELSE AlignUp(e[i - 1], AlignOf(g[i])) + SizeOf(g[i])
    BY <1>1, <1>8, <2>1
  <2>3. e = [i \in 0..len |-> e[i]]
    BY <1>8
  <2> QED BY <2>2, <2>3 DEF len
<1>10. Rec(at)
  <2> HIDE DEF Rec
  <2> QED BY <1>9
<1> HIDE DEF at
<1>11. at = e
  <2>1. \A i \in 0..len : at[i] = IF i = 0 THEN 0 ELSE AlignUp(at[i - 1], AlignOf(g[i])) + SizeOf(g[i])
    BY <1>10, Zenon DEF len
  <2>2. OnNumbers(at, len)
    BY <1>10, <2>1, Zenon DEF OnNumbers, len
  <2> HIDE DEF Rec
  <2>4. 0 \in 0..len /\ \A i \in 1..len : i \in 0..len /\ i # 0
    BY <1>2
  <2>3. at[0] = 0 /\ \A i \in 1..len : at[i] = AlignUp(at[i - 1], aligns[i]) + sizes[i]
    BY <1>1, <2>1, <2>4
  <2> QED BY <1>1, <1>3, <2>2, <2>3, EndsUnique
<1> HIDE DEF Rec
<1>12. \A i \in 1..len : Stores(g)[i] = AlignUp(e[i - 1], aligns[i])
  BY <1>1, <1>2, <1>7, <1>11
<1>13. ASSUME NEW i \in 1..len
       PROVE  /\ Stores(g)[i] % aligns[i] = 0
              /\ Stores(g)[i] + sizes[i] <= (IF i = len THEN 8 * words ELSE Stores(g)[i + 1])
              /\ Stores(g)[i] = OffsetsOf(sizes, aligns)[i]
  <2>1. i - 1 \in 0..len /\ i \in 0..len
    BY <1>2
  <2>2. e[i - 1] \in Nat /\ e[i] \in Nat /\ aligns[i] \in Alignments
    <3>1. aligns[i] \in Alignments
      BY <1>1
    <3> QED BY <1>8, <2>1, <3>1
  <2>3. AlignUp(e[i - 1], aligns[i]) % aligns[i] = 0
    BY <2>2, AlignUpFacts
  <2>4. Stores(g)[i] + sizes[i] = e[i]
    BY <1>8, <1>12
  <2>5. Stores(g)[i] + sizes[i] <= (IF i = len THEN 8 * words ELSE Stores(g)[i + 1])
    <3>1. CASE i = len
      BY <1>4, <1>5, <2>4, <3>1
    <3>2. CASE i # len
      <4>1. i + 1 \in 1..len /\ (i + 1) - 1 = i
        BY <1>2, <3>2
      <4>2. Stores(g)[i + 1] = AlignUp(e[i], aligns[i + 1])
        BY <1>12, <4>1
      <4>3. aligns[i + 1] \in Alignments
        BY <1>1, <4>1
      <4>4. e[i] <= AlignUp(e[i], aligns[i + 1])
        BY <2>2, <4>3, AlignUpFacts
      <4> QED BY <2>4, <3>2, <4>2, <4>4
    <3> QED BY <3>1, <3>2
  <2>7. Stores(g)[i] % aligns[i] = 0
    BY <1>12, <2>3
  <2>8. Stores(g)[i] = OffsetsOf(sizes, aligns)[i]
    BY <1>6, <1>12
  <2> QED BY <2>5, <2>7, <2>8
<1>14. \A i \in 1..len : LLVMPart(g[i])[1] = sizes[i] /\ LLVMPart(g[i])[2] = aligns[i]
  BY <1>1
<1>15. ASSUME NEW i \in DOMAIN g
       PROVE  /\ Stores(g)[i] % LLVMPart(g[i])[2] = 0
              /\ Stores(g)[i] + LLVMPart(g[i])[1] <= (IF i = Len(g) THEN 8 * words ELSE Stores(g)[i + 1])
              /\ Stores(g)[i] = OffsetsOf(Sizes(g), Aligns(g))[i]
  <2>1. i \in 1..len
    BY <1>2
  <2> QED BY <2>1, <1>13, <1>14 DEF len, sizes, aligns
<1> QED
  BY <1>15 DEF PayloadFits, words

-----------------------------------------------------------------------------
(* The two recursions.                                                      *)

SizeStep(n, names) ==
  IF kind[n] = "struct"
  THEN [size |-> StructSize(SizesOver(body[n][1], names), AlignsOver(body[n][1], names)),
        align |-> Largest({1} \cup ToSet(AlignsOver(body[n][1], names)))]
  ELSE [size |-> 8 + 8 * WordCount(n, names), align |-> 8]
SizedFrom(n, fuel, f) == IF fuel = 0 THEN [size |-> 0, align |-> 0] ELSE SizeStep(n, f[fuel - 1])

TypeStep(n, types) ==
  IF kind[n] = "struct"
  THEN StructOf([i \in DOMAIN body[n][1] |-> LLVMOver(body[n][1][i], types)])
  ELSE StructOf(<<IntOf(4), ArrayOf(WordCount(n, Sizing[Fuel]), IntOf(8))>>)
TypedFrom(n, fuel, f) == IF fuel = 0 THEN <<-1, -1>> ELSE TypeStep(n, f[fuel - 1])

SizesAs(f) == f = [fuel \in 0..Fuel |-> [n \in Names |-> SizedFrom(n, fuel, f)]]
TypesAs(f) == f = [fuel \in 0..Fuel |-> [n \in Names |-> TypedFrom(n, fuel, f)]]

LEMMA SizesRun == \E f : SizesAs(f)
<1> DEFINE Upto(k, f) == /\ f = [fuel \in 0..Fuel |-> f[fuel]]
                         /\ \A fuel \in 0..Fuel : fuel <= k => f[fuel] = [m \in Names |-> SizedFrom(m, fuel, f)]
           T == {k \in Nat : \E f : Upto(k, f)}
<1>1. 0 \in T
  <2>1. PICK f : f = [fuel \in 0..Fuel |-> [m \in Names |-> SizedFrom(m, 0, <<>>)]]
    OBVIOUS
  <2>2. \A m : SizedFrom(m, 0, f) = SizedFrom(m, 0, <<>>)
    BY DEF SizedFrom
  <2>3. \A fuel \in 0..Fuel : fuel <= 0 => fuel = 0
    BY NamesFinite
  <2>4. Upto(0, f)
    BY <2>1, <2>2, <2>3
  <2> HIDE DEF Upto
  <2> QED BY <2>4
<1>2. ASSUME NEW k \in Nat, k \in T PROVE k + 1 \in T
  <2>1. PICK f : Upto(k, f)
    BY <1>2
  <2>2. PICK g : g = [fuel \in 0..Fuel |-> [m \in Names |-> SizedFrom(m, fuel, f)]]
    OBVIOUS
  <2>3. \A fuel \in 0..Fuel : fuel <= k => g[fuel] = f[fuel]
    BY <2>1, <2>2
  <2>4. ASSUME NEW fuel \in 0..Fuel, fuel <= k + 1, NEW m
        PROVE  SizedFrom(m, fuel, g) = SizedFrom(m, fuel, f)
    <3>1. fuel = 0 \/ (fuel - 1 \in 0..Fuel /\ fuel - 1 <= k)
      BY <2>4, NamesFinite
    <3>2. fuel = 0 \/ g[fuel - 1] = f[fuel - 1]
      BY <2>3, <3>1
    <3> QED BY <3>2 DEF SizedFrom
  <2>5. Upto(k + 1, g)
    BY <2>2, <2>4
  <2> HIDE DEF Upto
  <2> QED BY <2>5
<1>3. Nat \subseteq T
  <2> HIDE DEF T
  <2> QED BY <1>1, <1>2, AllNumbers
<1>4. PICK f : Upto(Fuel, f)
  BY <1>3, NamesFinite
<1>5. \A fuel \in 0..Fuel : f[fuel] = [m \in Names |-> SizedFrom(m, fuel, f)]
  BY <1>4, NamesFinite
<1> QED
  BY <1>4, <1>5 DEF SizesAs

LEMMA TypesRun == \E f : TypesAs(f)
<1> DEFINE Upto(k, f) == /\ f = [fuel \in 0..Fuel |-> f[fuel]]
                         /\ \A fuel \in 0..Fuel : fuel <= k => f[fuel] = [m \in Names |-> TypedFrom(m, fuel, f)]
           T == {k \in Nat : \E f : Upto(k, f)}
<1>1. 0 \in T
  <2>1. PICK f : f = [fuel \in 0..Fuel |-> [m \in Names |-> TypedFrom(m, 0, <<>>)]]
    OBVIOUS
  <2>2. \A m : TypedFrom(m, 0, f) = TypedFrom(m, 0, <<>>)
    BY DEF TypedFrom
  <2>3. \A fuel \in 0..Fuel : fuel <= 0 => fuel = 0
    BY NamesFinite
  <2>4. Upto(0, f)
    BY <2>1, <2>2, <2>3
  <2> HIDE DEF Upto
  <2> QED BY <2>4
<1>2. ASSUME NEW k \in Nat, k \in T PROVE k + 1 \in T
  <2>1. PICK f : Upto(k, f)
    BY <1>2
  <2>2. PICK g : g = [fuel \in 0..Fuel |-> [m \in Names |-> TypedFrom(m, fuel, f)]]
    OBVIOUS
  <2>3. \A fuel \in 0..Fuel : fuel <= k => g[fuel] = f[fuel]
    BY <2>1, <2>2
  <2>4. ASSUME NEW fuel \in 0..Fuel, fuel <= k + 1, NEW m
        PROVE  TypedFrom(m, fuel, g) = TypedFrom(m, fuel, f)
    <3>1. fuel = 0 \/ (fuel - 1 \in 0..Fuel /\ fuel - 1 <= k)
      BY <2>4, NamesFinite
    <3>2. fuel = 0 \/ g[fuel - 1] = f[fuel - 1]
      BY <2>3, <3>1
    <3> QED BY <3>2 DEF TypedFrom
  <2>5. Upto(k + 1, g)
    BY <2>2, <2>4
  <2> HIDE DEF Upto
  <2> QED BY <2>5
<1>3. Nat \subseteq T
  <2> HIDE DEF T
  <2> QED BY <1>1, <1>2, AllNumbers
<1>4. PICK f : Upto(Fuel, f)
  BY <1>3, NamesFinite
<1>5. \A fuel \in 0..Fuel : f[fuel] = [m \in Names |-> TypedFrom(m, fuel, f)]
  BY <1>4, NamesFinite
<1> QED
  BY <1>4, <1>5 DEF TypesAs

LEMMA SizingFacts ==
  ASSUME NEW fuel \in 1..Fuel, NEW n \in Names
  PROVE  Sizing[fuel][n] = SizeStep(n, Sizing[fuel - 1])
<1>1. Sizing = CHOOSE f : SizesAs(f)
  BY Zenon DEF Sizing, SizesAs, SizedFrom, SizeStep
<1>2. SizesAs(Sizing)
  BY <1>1, SizesRun
<1>3. fuel \in 0..Fuel /\ fuel # 0
  BY NamesFinite
<1>4. Sizing[fuel] = [m \in Names |-> SizedFrom(m, fuel, Sizing)]
  BY <1>2, <1>3, Zenon DEF SizesAs
<1>5. Sizing[fuel][n] = SizedFrom(n, fuel, Sizing)
  BY <1>4
<1> QED
  BY <1>3, <1>5 DEF SizedFrom

LEMMA TypingFacts ==
  ASSUME NEW fuel \in 1..Fuel, NEW n \in Names
  PROVE  LLVMTypes[fuel][n] = TypeStep(n, LLVMTypes[fuel - 1])
<1>1. LLVMTypes = CHOOSE f : TypesAs(f)
  BY Zenon DEF LLVMTypes, TypesAs, TypedFrom, TypeStep
<1>2. TypesAs(LLVMTypes)
  BY <1>1, TypesRun
<1>3. fuel \in 0..Fuel /\ fuel # 0
  BY NamesFinite
<1>4. LLVMTypes[fuel] = [m \in Names |-> TypedFrom(m, fuel, LLVMTypes)]
  BY <1>2, <1>3, Zenon DEF TypesAs
<1>5. LLVMTypes[fuel][n] = TypedFrom(n, fuel, LLVMTypes)
  BY <1>4
<1> QED
  BY <1>3, <1>5 DEF TypedFrom

\* A step looks only at what is held by value.
SameHeld(n, a, b) == \A h \in Holds(n) : a[h] = b[h]

LEMMA PartsSame ==
  ASSUME NEW p \in Part, NEW a, NEW b, p.of \in Names /\ p.wrap \in {"plain", "fixed"} => a[p.of] = b[p.of]
  PROVE  /\ PartSize(p, a) = PartSize(p, b) /\ PartAlign(p, a) = PartAlign(p, b)
         /\ LLVMOver(p, a) = LLVMOver(p, b)
<1>1. p.wrap \in {"plain", "fixed", "dyn", "own"} /\ (p.of \in Names \/ p.of \in Leaves)
  BY NamesFacts DEF Part, Wraps
<1>2. CASE p.wrap \in {"own", "dyn"}
  BY <1>2 DEF PartSize, PartAlign, LLVMOver
<1>3. CASE p.wrap \in {"plain", "fixed"} /\ p.of \in Leaves
  BY <1>3 DEF PartSize, PartAlign, LLVMOver
<1>4. CASE p.wrap \in {"plain", "fixed"} /\ p.of \in Names
  <2>1. a[p.of] = b[p.of]
    BY <1>4
  <2> QED BY <1>4, <2>1 DEF PartSize, PartAlign, LLVMOver
<1> QED
  BY <1>1, <1>2, <1>3, <1>4

LEMMA GroupsSame ==
  ASSUME DeclOK, NEW n \in Names, NEW g \in ToSet(body[n]), NEW a, NEW b, SameHeld(n, a, b)
  PROVE  /\ SizesOver(g, a) = SizesOver(g, b) /\ AlignsOver(g, a) = AlignsOver(g, b)
         /\ [i \in DOMAIN g |-> LLVMOver(g[i], a)] = [i \in DOMAIN g |-> LLVMOver(g[i], b)]
<1>1. ASSUME NEW i \in DOMAIN g
      PROVE  /\ PartSize(g[i], a) = PartSize(g[i], b) /\ PartAlign(g[i], a) = PartAlign(g[i], b)
             /\ LLVMOver(g[i], a) = LLVMOver(g[i], b)
  <2>1. g[i] \in Part /\ (g[i].of \in Names /\ g[i].wrap \in {"plain", "fixed"} => g[i].of \in Holds(n))
    BY GroupFacts
  <2>2. g[i].of \in Names /\ g[i].wrap \in {"plain", "fixed"} => a[g[i].of] = b[g[i].of]
    BY <2>1 DEF SameHeld
  <2> QED BY <2>1, <2>2, PartsSame
<1> QED
  BY <1>1 DEF SizesOver, AlignsOver

LEMMA StepsSame ==
  ASSUME DeclOK, Declarations, NEW n \in Declared, NEW a, NEW b, SameHeld(n, a, b)
  PROVE  SizeStep(n, a) = SizeStep(n, b) /\ TypeStep(n, a) = TypeStep(n, b)
<1>1. n \in Names /\ body[n] # <<>> /\ body[n] \in Seq(Seq(Part))
  <2>1. n \in Names
    BY DEF DeclOK, Declared, ToSet
  <2> QED BY <2>1 DEF Declarations, DeclOK
<1>2. body[n][1] \in ToSet(body[n])
  BY <1>1 DEF ToSet
<1>3. \A g \in ToSet(body[n]) : SizesOver(g, a) = SizesOver(g, b) /\ AlignsOver(g, a) = AlignsOver(g, b)
  BY <1>1, GroupsSame
<1>4. WordCount(n, a) = WordCount(n, b)
  BY <1>3 DEF WordCount
<1>5. SizeStep(n, a) = SizeStep(n, b)
  BY <1>2, <1>3, <1>4 DEF SizeStep
<1>6. TypeStep(n, a) = TypeStep(n, b)
  BY <1>1, <1>2, GroupsSame DEF TypeStep
<1> QED
  BY <1>5, <1>6

LEMMA StepsAlike ==
  ASSUME DeclOK, Declarations, NEW n \in Declared, HeldAlike(n, Sizing[Fuel], LLVMTypes[Fuel])
  PROVE  LET s == SizeStep(n, Sizing[Fuel])
         IN  SizedAs(s.size, s.align) /\ TypeStep(n, LLVMTypes[Fuel]) = <<s.size, s.align>>
<1> DEFINE names == Sizing[Fuel]  types == LLVMTypes[Fuel]
<1>1. n \in Names /\ body[n] # <<>> /\ body[n] \in Seq(Seq(Part))
  <2>1. n \in Names
    BY DEF DeclOK, Declared, ToSet
  <2> QED BY <2>1 DEF Declarations, DeclOK
<1>2. CASE kind[n] = "struct"
  <2> DEFINE g == body[n][1]  elements == [i \in DOMAIN g |-> LLVMOver(g[i], types)]
             sizes == SizesOver(g, names)  aligns == AlignsOver(g, names)
  <2>1. g \in ToSet(body[n])
    BY <1>1 DEF ToSet
  <2>2. DOMAIN g = 1..Len(g)
    BY <1>1, <2>1, GroupFacts
  <2>3. SizeStep(n, names) = [size |-> StructSize(sizes, aligns), align |-> LargestOf(aligns)]
    BY <1>2 DEF SizeStep, LargestOf
  <2>4. TypeStep(n, types) = StructOf(elements)
    BY <1>2 DEF TypeStep
  <2> HIDE DEF g, names, types
  <2>5. /\ sizes \in Seq(Nat) /\ aligns \in Seq(Alignments) /\ Len(sizes) = Len(g) /\ Len(aligns) = Len(g)
        /\ \A i \in 1..Len(g) : LLVMOver(g[i], types) = <<sizes[i], aligns[i]>> /\ SizedAs(sizes[i], aligns[i])
    <3>1. /\ sizes \in Seq(Nat) /\ aligns \in Seq(Alignments) /\ Len(sizes) = Len(g) /\ Len(aligns) = Len(g)
          /\ \A i \in 1..Len(g) :
               /\ sizes[i] = PartSize(g[i], names) /\ aligns[i] = PartAlign(g[i], names)
               /\ SizedAs(PartSize(g[i], names), PartAlign(g[i], names))
               /\ LLVMOver(g[i], types) = <<PartSize(g[i], names), PartAlign(g[i], names)>>
      BY <1>1, <2>1, GroupsSized DEF names, types
    <3> HIDE DEF sizes, aligns
    <3> QED BY <3>1
  <2>6. elements = [i \in 1..Len(sizes) |-> <<sizes[i], aligns[i]>>]
    BY <2>2, <2>5
  <2> HIDE DEF elements, sizes, aligns
  <2>7. /\ StructOf(elements) = <<StructSize(sizes, aligns), LargestOf(aligns)>>
        /\ SizedAs(StructSize(sizes, aligns), LargestOf(aligns))
    BY <2>5, <2>6, StructsAlike
  <2> QED BY <2>3, <2>4, <2>7 DEF names, types
<1>3. CASE kind[n] # "struct"
  <2> DEFINE w == WordCount(n, names)
  <2>1. w \in Nat
    BY <1>1, WordsCounted
  <2>2. SizeStep(n, names) = [size |-> 8 + 8 * w, align |-> 8]
    BY <1>3 DEF SizeStep
  <2>3. TypeStep(n, types) = StructOf(<<IntOf(4), ArrayOf(w, IntOf(8))>>)
    BY <1>3 DEF TypeStep
  <2> HIDE DEF w, names, types
  <2> QED BY <2>1, <2>2, <2>3, EnumsAlike DEF names, types
<1> QED
  BY <1>2, <1>3

-----------------------------------------------------------------------------
(* Finite types from the inside out.                                        *)

LEMMA FiniteFacts ==
  ASSUME DeclOK, Declarations, NEW n \in FiniteTypes
  PROVE  /\ n \in Declared /\ n \in Names
         /\ Within(n) \in SUBSET Names /\ IsFiniteSet(Within(n)) /\ Cardinality(Within(n)) \in Nat
         /\ Cardinality(Within(n)) < Fuel
         /\ \A h \in Holds(n) : h \in FiniteTypes /\ Cardinality(Within(h)) < Cardinality(Within(n))
<1>1. n \in Declared /\ Declared \subseteq Names /\ \A m \in {n} \cup Within(n) : m \notin Within(m)
  BY DEF FiniteTypes, Infinite, DeclOK, Declared, ToSet
<1>2. n \in Names
  BY <1>1
<1>3. ByValue \in [Names -> SUBSET Names] /\ \A m : Within(m) = Reach(ByValue, m)
  BY NextFacts
<1>4. \A m \in Names : Within(m) \subseteq Names
  BY <1>3, ReachSteps
<1>5. \A m \in Names : IsFiniteSet(Within(m)) /\ Cardinality(Within(m)) \in Nat
  BY <1>4, NamesFinite, FS_Subset, FS_CardinalityType
<1>6. Cardinality(Within(n)) < Fuel
  <2>1. Within(n) \subseteq Names \ {n}
    BY <1>1, <1>2, <1>4
  <2>2. IsFiniteSet(Names \ {n}) /\ Cardinality(Names \ {n}) = Fuel - 1 /\ Fuel \in Nat
    BY <1>2, NamesFinite, FS_RemoveElement DEF Fuel
  <2>3. Cardinality(Within(n)) <= Cardinality(Names \ {n})
    BY <2>1, <2>2, FS_Subset
  <2> QED BY <1>2, <1>5, <2>2, <2>3
<1>7. ASSUME NEW h \in Holds(n)
      PROVE  h \in FiniteTypes /\ Cardinality(Within(h)) < Cardinality(Within(n))
  <2>1. ByValue[n] = Holds(n)
    BY <1>2 DEF ByValue
  <2>2. h \in Within(n) /\ Within(h) \subseteq Within(n) /\ h \in Names
    BY <1>2, <1>3, <1>4, <2>1, ReachSteps
  <2>3. h \notin Within(h)
    BY <1>1, <2>2
  <2>4. h \in Declared
    BY <1>2 DEF Holds, Declarations
  <2>5. h \in FiniteTypes
    BY <1>1, <2>2, <2>4 DEF FiniteTypes, Infinite
  <2>6. Cardinality(Within(h)) < Cardinality(Within(n))
    <3>1. Within(h) \subseteq Within(n) /\ Within(h) # Within(n)
      BY <2>2, <2>3
    <3>2. IsFiniteSet(Within(n)) /\ Cardinality(Within(n)) \in Nat /\ Cardinality(Within(h)) \in Nat
      BY <1>2, <1>5, <2>2
    <3> QED BY <3>1, <3>2, FS_Subset
  <2> QED BY <2>5, <2>6
<1> QED
  BY <1>1, <1>2, <1>4, <1>5, <1>6, <1>7

\* With fuel for all that is within it, a type has its final size and LLVM type, and they
\* agree.
Settled(n, k) ==
  /\ NameAlike(n, Sizing[Fuel], LLVMTypes[Fuel])
  /\ \A fuel \in k..Fuel : Sizing[fuel][n] = Sizing[Fuel][n] /\ LLVMTypes[fuel][n] = LLVMTypes[Fuel][n]

LEMMA TypesSettle ==
  ASSUME DeclOK, Declarations
  PROVE  \A n \in FiniteTypes : Settled(n, Cardinality(Within(n)) + 1)
<1> DEFINE Rank(n) == Cardinality(Within(n))
           T == {k \in Nat : \A n \in FiniteTypes : Rank(n) < k => Settled(n, k)}
<1>0. Fuel \in Nat
  BY NamesFinite
<1>1. \A n \in FiniteTypes : Rank(n) \in Nat /\ Rank(n) < Fuel
  BY FiniteFacts
<1>2. 0 \in T
  BY <1>1
<1>3. ASSUME NEW k \in Nat, k \in T PROVE k + 1 \in T
  <2> SUFFICES ASSUME NEW n \in FiniteTypes, Rank(n) < k + 1 PROVE Settled(n, k + 1)
    OBVIOUS
  <2>1. n \in Declared /\ n \in Names /\ \A h \in Holds(n) : h \in FiniteTypes /\ Rank(h) < Rank(n)
    BY FiniteFacts
  <2>2. \A h \in Holds(n) : Settled(h, k)
    <3> TAKE h \in Holds(n)
    <3>1. h \in FiniteTypes /\ Rank(h) < k
      BY <1>1, <2>1
    <3> QED BY <1>3, <3>1
  <2>3. HeldAlike(n, Sizing[Fuel], LLVMTypes[Fuel])
    BY <2>2 DEF HeldAlike, Settled
  <2>4. ASSUME NEW fuel \in (k + 1)..Fuel
        PROVE  /\ Sizing[fuel][n] = SizeStep(n, Sizing[Fuel])
               /\ LLVMTypes[fuel][n] = TypeStep(n, LLVMTypes[Fuel])
    <3>1. fuel \in 1..Fuel /\ fuel - 1 \in k..Fuel
      BY <1>0
    <3>2. SameHeld(n, Sizing[fuel - 1], Sizing[Fuel]) /\ SameHeld(n, LLVMTypes[fuel - 1], LLVMTypes[Fuel])
      BY <2>2, <3>1 DEF SameHeld, Settled
    <3>3. SizeStep(n, Sizing[fuel - 1]) = SizeStep(n, Sizing[Fuel])
      BY <2>1, <3>2, StepsSame
    <3>4. TypeStep(n, LLVMTypes[fuel - 1]) = TypeStep(n, LLVMTypes[Fuel])
      BY <2>1, <3>2, StepsSame
    <3> QED BY <2>1, <3>1, <3>3, <3>4, SizingFacts, TypingFacts
  <2>5. CASE Rank(n) < k
    <3>1. Settled(n, k)
      BY <1>3, <2>5
    <3>2. \A fuel \in (k + 1)..Fuel : fuel \in k..Fuel
      BY <1>0
    <3> QED BY <3>1, <3>2 DEF Settled
  <2>6. CASE ~(Rank(n) < k)
    <3>1. Fuel \in (k + 1)..Fuel
      BY <1>0, <1>1, <2>6
    <3>2. Sizing[Fuel][n] = SizeStep(n, Sizing[Fuel]) /\ LLVMTypes[Fuel][n] = TypeStep(n, LLVMTypes[Fuel])
      BY <2>4, <3>1
    <3>3. NameAlike(n, Sizing[Fuel], LLVMTypes[Fuel])
      BY <2>1, <2>3, <3>2, StepsAlike DEF NameAlike
    <3> QED BY <2>4, <3>2, <3>3 DEF Settled
  <2> QED BY <2>5, <2>6
<1>4. Nat \subseteq T
  <2> HIDE DEF T
  <2> QED BY <1>2, <1>3, AllNumbers
<1> QED
  <2> TAKE n \in FiniteTypes
  <2>1. Rank(n) + 1 \in Nat /\ Rank(n) < Rank(n) + 1
    BY <1>1
  <2> QED BY <1>4, <2>1

LEMMA LayoutsMeet ==
  ASSUME DeclOK, Declarations, NEW n \in FiniteTypes
  PROVE  LET part == [wrap |-> "plain", of |-> n, known |-> TRUE]
         IN  /\ <<SizeOf(part), AlignOf(part)>> = LLVMSizeAlign(n)
             /\ kind[n] = "enum" => \A g \in ToSet(body[n]) : PayloadFits(g, SizeOf(part) - 8)
<1> DEFINE part == [wrap |-> "plain", of |-> n, known |-> TRUE]
<1>1. n \in Declared /\ n \in Names /\ n \notin Leaves
  BY FiniteFacts, NamesFacts
<1>2. SizeOf(part) = Sizing[Fuel][n].size /\ AlignOf(part) = Sizing[Fuel][n].align
  BY <1>1 DEF SizeOf, AlignOf, PartSize, PartAlign
<1>3. NameAlike(n, Sizing[Fuel], LLVMTypes[Fuel])
  BY TypesSettle DEF Settled
<1>4. <<SizeOf(part), AlignOf(part)>> = LLVMSizeAlign(n)
  BY <1>2, <1>3 DEF NameAlike, LLVMSizeAlign
<1>5. ASSUME kind[n] = "enum", NEW g \in ToSet(body[n])
      PROVE  PayloadFits(g, SizeOf(part) - 8)
  <2>1. \A h \in Holds(n) : NameAlike(h, Sizing[Fuel], LLVMTypes[Fuel])
    <3> TAKE h \in Holds(n)
    <3>1. h \in FiniteTypes
      BY FiniteFacts
    <3> QED BY <3>1, TypesSettle DEF Settled
  <2>2. HeldAlike(n, Sizing[Fuel], LLVMTypes[Fuel])
    BY <2>1 DEF HeldAlike
  <2>3. PayloadFits(g, 8 * WordCount(n, Sizing[Fuel]))
    BY <1>1, <2>2, StoresFit
  <2>4. WordCount(n, Sizing[Fuel]) \in Nat
    BY <1>1, <2>2, WordsCounted
  <2>5. Fuel \in 1..Fuel /\ Fuel - 1 \in 0..Fuel
    <3>1. Fuel \in Nat /\ Fuel # 0
      BY NamesFinite, FiniteFacts
    <3> QED BY <3>1
  <2>6. Sizing[Fuel][n] = SizeStep(n, Sizing[Fuel - 1])
    BY <1>1, <2>5, SizingFacts
  <2>7. SameHeld(n, Sizing[Fuel - 1], Sizing[Fuel])
    <3> SUFFICES ASSUME NEW h \in Holds(n) PROVE Sizing[Fuel - 1][h] = Sizing[Fuel][h]
      BY DEF SameHeld
    <3>1. h \in FiniteTypes /\ Cardinality(Within(h)) < Cardinality(Within(n)) /\ Cardinality(Within(n)) < Fuel
      BY FiniteFacts
    <3>2. Cardinality(Within(h)) \in Nat /\ Cardinality(Within(n)) \in Nat /\ Fuel \in Nat
      BY <3>1, FiniteFacts, NamesFinite
    <3>3. Fuel - 1 \in (Cardinality(Within(h)) + 1)..Fuel
      BY <3>1, <3>2
    <3> QED BY <3>1, <3>3, TypesSettle DEF Settled
  <2>8. SizeStep(n, Sizing[Fuel - 1]) = SizeStep(n, Sizing[Fuel])
    BY <1>1, <2>7, StepsSame
  <2>9. SizeOf(part) = 8 + 8 * WordCount(n, Sizing[Fuel])
    BY <1>2, <1>5, <2>6, <2>8 DEF SizeStep
  <2>10. SizeOf(part) - 8 = 8 * WordCount(n, Sizing[Fuel])
    BY <2>4, <2>9
  <2> QED BY <2>3, <2>10
<1> QED
  BY <1>4, <1>5

\* In a program the passes accept, for any names and any length of a fixed array, the size
\* and alignment TypeSizing computes for a finite type are those LLVM gives the type the
\* mapper builds, and the fields of every variant, stored one after the other, are aligned,
\* do not overlap and end inside the enum (get_type_size_bytes and the sizes it rests on in
\* backend/types/core/sizing.py, _get_struct_type and _get_enum_type in mapping.py).
THEOREM LayoutsAreLLVMs == Spec => []LayoutExact
<1>1. TypesInv => LayoutExact
  <2> SUFFICES ASSUME TypesInv PROVE LayoutExact
    OBVIOUS
  <2>1. DeclOK /\ Declarations
    BY DEF TypesInv, TypeOK, DeclOK
  <2> QED BY <2>1, LayoutsMeet DEF LayoutExact
<1> QED
  BY TypesInvInit, TypesInvNext, <1>1, PTL DEF Spec
=============================================================================
