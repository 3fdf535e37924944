--------------------------- MODULE HashMapProofs ---------------------------
(***************************************************************************)
(* For every set of keys and values, every hash function and every initial *)
(* capacity of at least eight: the counters are exact, no key is stored    *)
(* twice, every live key is found by its probe, an EMPTY bucket always     *)
(* remains, RE2022 is raised by a destroyed map only, and the table        *)
(* implements the abstract map of MapSpec.                                 *)
(***************************************************************************)
EXTENDS HashMap, FiniteSetTheorems, TLAPS

-----------------------------------------------------------------------------
(* Arithmetic of the probe: offsets 0 .. cap-1 visit every bucket once. *)

LEMMA DivMod ==
  ASSUME NEW h \in Nat, NEW c \in Nat, c > 0
  PROVE  /\ h \div c \in Nat
         /\ h % c \in 0 .. c - 1
         /\ h = c * (h \div c) + (h % c)
OBVIOUS

LEMMA UniqueRemainder ==
  ASSUME NEW c \in Nat, c > 0, NEW q \in Int, NEW r \in 0 .. c - 1
  PROVE  (c * q + r) % c = r
<1> DEFINE x == c * q + r
<1>1. /\ x \in Int
      /\ x = c * (x \div c) + (x % c)
      /\ x % c \in 0 .. c - 1
      /\ x \div c \in Int
  OBVIOUS
<1>2. CASE x \div c = q
  BY <1>1, <1>2
<1>3. CASE x \div c > q
  <2>1. x \div c >= q + 1
    BY <1>1, <1>3
  <2>2. c * (x \div c) >= c * (q + 1)
    BY <1>1, <2>1
  <2>3. c * (q + 1) = c * q + c
    OBVIOUS
  <2> QED
    BY <1>1, <2>2, <2>3
<1>4. CASE x \div c < q
  <2>1. x \div c + 1 <= q
    BY <1>1, <1>4
  <2>2. c * (x \div c + 1) <= c * q
    BY <1>1, <2>1
  <2>3. c * (x \div c + 1) = c * (x \div c) + c
    BY <1>1
  <2> QED
    BY <1>1, <2>2, <2>3
<1> QED
  BY <1>1, <1>2, <1>3, <1>4

\* An offset below the capacity wraps at most once.
LEMMA Wrap ==
  ASSUME NEW h \in Nat, NEW c \in Nat, c > 0, NEW o \in 0 .. c - 1
  PROVE  (h + o) % c = IF (h % c) + o < c THEN (h % c) + o ELSE (h % c) + o - c
<1>1. PICK q \in Nat, r \in 0 .. c - 1 : h = c * q + r /\ r = h % c
  BY DivMod
<1>2. CASE r + o < c
  <2>1. (c * q + (r + o)) % c = r + o
    BY <1>2, UniqueRemainder
  <2>2. h + o = c * q + (r + o)
    BY <1>1
  <2> QED
    BY <1>1, <1>2, <2>1, <2>2
<1>3. CASE ~(r + o < c)
  <2>1. r + o - c \in 0 .. c - 1 /\ q + 1 \in Int
    BY <1>3
  <2>2. (c * (q + 1) + (r + o - c)) % c = r + o - c
    BY <2>1, UniqueRemainder
  <2>3. h + o = c * (q + 1) + (r + o - c)
    BY <1>1
  <2> QED
    BY <1>1, <1>3, <2>2, <2>3
<1> QED
  BY <1>2, <1>3

LEMMA IndexRange ==
  ASSUME NEW k \in Keys, NEW c \in Nat, NEW o \in 0 .. c - 1
  PROVE  Index(k, o, c) \in 0 .. c - 1
<1>1. c > 0 /\ Hash[k] + o \in Nat
  BY HashAssumption
<1> QED
  BY <1>1, DivMod DEF Index

LEMMA IndexInjective ==
  ASSUME NEW k \in Keys, NEW c \in Nat,
         NEW o \in 0 .. c - 1, NEW p \in 0 .. c - 1,
         Index(k, o, c) = Index(k, p, c)
  PROVE  o = p
<1>1. c > 0 /\ Hash[k] \in Nat
  BY HashAssumption
<1>2. PICK r \in 0 .. c - 1 : r = Hash[k] % c
  BY <1>1, DivMod
<1>3. Index(k, o, c) = IF r + o < c THEN r + o ELSE r + o - c
  BY <1>1, <1>2, Wrap DEF Index
<1>4. Index(k, p, c) = IF r + p < c THEN r + p ELSE r + p - c
  BY <1>1, <1>2, Wrap DEF Index
<1>5. (IF r + o < c THEN r + o ELSE r + o - c) = (IF r + p < c THEN r + p ELSE r + p - c)
  BY <1>3, <1>4
<1> HIDE DEF Index
<1> QED
  BY <1>5

LEMMA IndexSurjective ==
  ASSUME NEW k \in Keys, NEW c \in Nat, NEW i \in 0 .. c - 1
  PROVE  \E o \in 0 .. c - 1 : Index(k, o, c) = i
<1> DEFINE r == Hash[k] % c
           o == IF r <= i THEN i - r ELSE i - r + c
<1>1. c > 0 /\ Hash[k] \in Nat
  BY HashAssumption
<1>2. r \in 0 .. c - 1
  BY <1>1, DivMod
<1>3. o \in 0 .. c - 1
  BY <1>1, <1>2
<1>4. Index(k, o, c) = IF r + o < c THEN r + o ELSE r + o - c
  BY <1>1, <1>3, Wrap DEF Index
<1>5. Index(k, o, c) = i
  BY <1>1, <1>2, <1>4
<1> QED
  BY <1>3, <1>5

-----------------------------------------------------------------------------
(* Tables. *)

LEMMA EntryFacts ==
  /\ Blank("EMPTY") \in Entry /\ Blank("TOMBSTONE") \in Entry
  /\ \A k \in Keys, v \in Vals :
       /\ Live(k, v) \in Entry
       /\ Live(k, v).state = "OCCUPIED"
       /\ Live(k, v).key = k
       /\ Live(k, v).val = v
  /\ \A e \in Entry :
       /\ e.state \in {"EMPTY", "OCCUPIED", "TOMBSTONE"}
       /\ e.state = "OCCUPIED" => e.key \in Keys /\ e.val \in Vals
       /\ e.state = "EMPTY" => e = Blank("EMPTY")
       /\ e.state = "TOMBSTONE" => e = Blank("TOMBSTONE")
  /\ Blank("EMPTY").state = "EMPTY"
  /\ Blank("TOMBSTONE").state = "TOMBSTONE"
BY DEF Entry, Blank, Live

LEMMA SlotsFinite ==
  ASSUME NEW b, NEW c \in Nat, NEW s
  PROVE  IsFiniteSet(SlotsIn(b, c, s)) /\ Cardinality(SlotsIn(b, c, s)) \in Nat
<1>1. IsFiniteSet(0 .. c - 1)
  BY FS_Interval
<1>2. SlotsIn(b, c, s) \subseteq 0 .. c - 1
  BY DEF SlotsIn
<1> QED
  BY <1>1, <1>2, FS_Subset, FS_CardinalityType

\* What writing one entry does to the number of slots in a state.
LEMMA CountWrite ==
  ASSUME NEW b, NEW c, Table(b, c), NEW i \in 0 .. c - 1, NEW e \in Entry, NEW s
  PROVE  Cardinality(SlotsIn([b EXCEPT ![i] = e], c, s)) =
           IF e.state = s /\ b[i].state # s THEN Cardinality(SlotsIn(b, c, s)) + 1
           ELSE IF e.state # s /\ b[i].state = s THEN Cardinality(SlotsIn(b, c, s)) - 1
           ELSE Cardinality(SlotsIn(b, c, s))
<1> DEFINE S == SlotsIn(b, c, s)
           T == SlotsIn([b EXCEPT ![i] = e], c, s)
<1>1. c \in Nat /\ IsFiniteSet(S)
  BY SlotsFinite DEF Table
<1>2. CASE e.state = s /\ b[i].state # s
  <2>1. T = S \cup {i} /\ i \notin S
    BY <1>2 DEF SlotsIn, Table
  <2> QED
    BY <1>1, <1>2, <2>1, FS_AddElement
<1>3. CASE e.state # s /\ b[i].state = s
  <2>1. T = S \ {i} /\ i \in S
    BY <1>3 DEF SlotsIn, Table
  <2> QED
    BY <1>1, <1>3, <2>1, FS_RemoveElement
<1>4. CASE (e.state = s) = (b[i].state = s)
  <2>1. T = S
    BY <1>4 DEF SlotsIn, Table
  <2> QED
    BY <1>4, <2>1
<1> QED
  BY <1>2, <1>3, <1>4

LEMMA EmptyTableFacts ==
  ASSUME NEW c \in Nat
  PROVE  /\ Table(EmptyTable(c), c)
         /\ \A i \in 0 .. c - 1 : EmptyTable(c)[i].state = "EMPTY"
         /\ Cardinality(SlotsIn(EmptyTable(c), c, "OCCUPIED")) = 0
         /\ Cardinality(SlotsIn(EmptyTable(c), c, "TOMBSTONE")) = 0
         /\ Unique(EmptyTable(c), c)
         /\ Reachable(EmptyTable(c), c)
<1>1. Table(EmptyTable(c), c) /\ \A i \in 0 .. c - 1 : EmptyTable(c)[i].state = "EMPTY"
  BY EntryFacts DEF Table, EmptyTable
<1>2. SlotsIn(EmptyTable(c), c, "OCCUPIED") = {} /\ SlotsIn(EmptyTable(c), c, "TOMBSTONE") = {}
  BY <1>1 DEF SlotsIn
<1>3. Unique(EmptyTable(c), c)
  BY <1>1 DEF Unique
<1>4. Reachable(EmptyTable(c), c)
  BY <1>1, IndexRange DEF Reachable, At
<1> QED
  BY <1>1, <1>2, <1>3, <1>4, FS_EmptySet

\* Fewer used slots than slots: one of them is EMPTY.
LEMMA SomeEmpty ==
  ASSUME NEW b, NEW c, Table(b, c),
         Cardinality(SlotsIn(b, c, "OCCUPIED")) + Cardinality(SlotsIn(b, c, "TOMBSTONE")) < c
  PROVE  SlotsIn(b, c, "EMPTY") # {}
<1> DEFINE O == SlotsIn(b, c, "OCCUPIED")
           T == SlotsIn(b, c, "TOMBSTONE")
<1> SUFFICES ASSUME SlotsIn(b, c, "EMPTY") = {} PROVE FALSE
  OBVIOUS
<1>1. c \in Nat /\ IsFiniteSet(O) /\ IsFiniteSet(T)
  BY SlotsFinite DEF Table
<1>2. O \cup T = 0 .. c - 1
  BY EntryFacts DEF SlotsIn, Table
<1>3. O \cap T = {}
  BY DEF SlotsIn
<1>4. Cardinality(O \cup T) = Cardinality(O) + Cardinality(T) - Cardinality(O \cap T)
  BY <1>1, FS_Union
<1>5. Cardinality(O \cap T) = 0
  BY <1>3, FS_EmptySet
<1>6. Cardinality(0 .. c - 1) = c
  BY <1>1, FS_Interval
<1>7. Cardinality(O) \in Nat /\ Cardinality(T) \in Nat
  BY <1>1, FS_CardinalityType
<1>8. Cardinality(O) + Cardinality(T) < c
  OBVIOUS
<1> HIDE DEF O, T
<1>9. Cardinality(O \cup T) = Cardinality(O) + Cardinality(T)
  BY <1>4, <1>5, <1>7
<1>10. Cardinality(O \cup T) = c
  BY <1>2, <1>6
<1> QED
  BY <1>1, <1>7, <1>8, <1>9, <1>10

\* An EMPTY slot ends every probe.
LEMMA EmptyEndsProbe ==
  ASSUME NEW b, NEW c, Table(b, c), SlotsIn(b, c, "EMPTY") # {}, NEW k \in Keys
  PROVE  \E o \in 0 .. c - 1 : At(b, c, k, o).state = "EMPTY"
<1>1. PICK i \in 0 .. c - 1 : b[i].state = "EMPTY"
  BY DEF SlotsIn
<1>2. PICK o \in 0 .. c - 1 : Index(k, o, c) = i
  BY IndexSurjective DEF Table
<1> QED
  BY <1>1, <1>2 DEF At

-----------------------------------------------------------------------------
(* What a table represents. *)

LEMMA ContentsMeaning ==
  ASSUME NEW b, NEW c, Table(b, c), Unique(b, c), NEW k \in Keys
  PROVE  /\ \A i \in 0 .. c - 1 : Holds(b, i, k) => ContentsOf(b, c)[k] = b[i].val
         /\ (\A i \in 0 .. c - 1 : ~Holds(b, i, k)) => ContentsOf(b, c)[k] = Absent
<1>1. ASSUME NEW i \in 0 .. c - 1, Holds(b, i, k)
      PROVE  ContentsOf(b, c)[k] = b[i].val
  <2> DEFINE j == CHOOSE x \in 0 .. c - 1 : Holds(b, x, k)
  <2>1. j \in 0 .. c - 1 /\ Holds(b, j, k)
    BY <1>1
  <2>2. j = i
    BY <1>1, <2>1 DEF Unique, Holds
  <2>3. ContentsOf(b, c)[k] = b[j].val
    BY <1>1 DEF ContentsOf
  <2> QED
    BY <2>2, <2>3
<1>2. (\A i \in 0 .. c - 1 : ~Holds(b, i, k)) => ContentsOf(b, c)[k] = Absent
  BY DEF ContentsOf
<1> QED
  BY <1>1, <1>2

\* Slot x of n holds k; every other slot is as in b, and what b had in x is
\* not another key's entry.
LEMMA ContentsWrite ==
  ASSUME NEW b, NEW c, Table(b, c), Unique(b, c), NEW n, Table(n, c), Unique(n, c),
         NEW k \in Keys, NEW v \in Vals, NEW x \in 0 .. c - 1,
         \A i \in 0 .. c - 1 : n[i] = IF i = x THEN Live(k, v) ELSE b[i],
         \A q \in Keys : q # k => ~Holds(b, x, q)
  PROVE  ContentsOf(n, c) = [ContentsOf(b, c) EXCEPT ![k] = v]
<1>1. ContentsOf(n, c)[k] = v
  <2>1. Holds(n, x, k) /\ n[x].val = v
    BY EntryFacts DEF Holds
  <2> QED
    BY <2>1, ContentsMeaning
<1>2. ASSUME NEW q \in Keys, q # k
      PROVE  ContentsOf(n, c)[q] = ContentsOf(b, c)[q]
  <2>1. ~Holds(n, x, q)
    BY <1>2, EntryFacts DEF Holds
  <2>2. \A i \in 0 .. c - 1 : Holds(n, i, q) => Holds(b, i, q) /\ n[i].val = b[i].val
    BY <2>1 DEF Holds
  <2>3. \A i \in 0 .. c - 1 : Holds(b, i, q) => Holds(n, i, q)
    BY <1>2 DEF Holds
  <2>4. CASE \E i \in 0 .. c - 1 : Holds(b, i, q)
    <3>1. PICK i \in 0 .. c - 1 : Holds(b, i, q)
      BY <2>4
    <3>2. ContentsOf(b, c)[q] = b[i].val
      BY <3>1, ContentsMeaning
    <3>3. ContentsOf(n, c)[q] = n[i].val
      BY <2>3, <3>1, ContentsMeaning
    <3> QED
      BY <2>2, <2>3, <3>1, <3>2, <3>3
  <2>5. CASE ~\E i \in 0 .. c - 1 : Holds(b, i, q)
    <3>1. ContentsOf(b, c)[q] = Absent
      BY <2>5, ContentsMeaning
    <3>2. ContentsOf(n, c)[q] = Absent
      BY <2>2, <2>5, ContentsMeaning
    <3> QED
      BY <3>1, <3>2
  <2> QED
    BY <2>4, <2>5
<1> QED
  BY <1>1, <1>2 DEF ContentsOf

\* A probe that ends at an EMPTY slot proves the key absent.
LEMMA EmptyEndMeansAbsent ==
  ASSUME NEW b, NEW c, Table(b, c), Reachable(b, c), NEW k \in Keys,
         NEW end \in 0 .. c - 1, ProbeEnd(b, c, k, end),
         At(b, c, k, end).state = "EMPTY"
  PROVE  \A i \in 0 .. c - 1 : ~Holds(b, i, k)
<1> SUFFICES ASSUME NEW i \in 0 .. c - 1, Holds(b, i, k) PROVE FALSE
  OBVIOUS
<1>1. PICK o \in 0 .. c - 1 : Index(k, o, c) = i
  BY IndexSurjective DEF Table
<1>2. At(b, c, k, o).state = "OCCUPIED" /\ At(b, c, k, o).key = k
  BY <1>1 DEF At, Holds
<1>3. CASE o < end
  <2>1. ~Stops(b, c, k, o)
    BY <1>3 DEF ProbeEnd
  <2> QED
    BY <1>2, <2>1 DEF Stops
<1>4. CASE o = end
  BY <1>2, <1>4
<1>5. CASE o > end
  <2>1. end \in 0 .. o - 1
    BY <1>5
  <2> QED
    BY <1>2, <2>1 DEF Reachable
<1> QED
  BY <1>3, <1>4, <1>5

\* Storing a key the table does not hold, in a slot of its chain that is not
\* OCCUPIED and before which no slot is EMPTY.
LEMMA PlaceNew ==
  ASSUME NEW b, NEW c, Table(b, c), Unique(b, c), Reachable(b, c),
         NEW k \in Keys, NEW v \in Vals, NEW o \in 0 .. c - 1,
         \A p \in 0 .. o - 1 : At(b, c, k, p).state # "EMPTY",
         \A i \in 0 .. c - 1 : ~Holds(b, i, k),
         At(b, c, k, o).state # "OCCUPIED",
         NEW n, Table(n, c),
         \A i \in 0 .. c - 1 : n[i] = IF i = Index(k, o, c) THEN Live(k, v) ELSE b[i]
  PROVE  /\ Unique(n, c) /\ Reachable(n, c)
         /\ ContentsOf(n, c) = [ContentsOf(b, c) EXCEPT ![k] = v]
<1> DEFINE x == Index(k, o, c)
<1>1. x \in 0 .. c - 1 /\ Live(k, v) \in Entry
  BY IndexRange, EntryFacts DEF Table
<1>3. \A i \in 0 .. c - 1 : n[i] = IF i = x THEN Live(k, v) ELSE b[i]
  OBVIOUS
<1>4. Unique(n, c)
  BY <1>3, EntryFacts DEF Unique, Holds
<1>5. Reachable(n, c)
  <2> SUFFICES ASSUME NEW q \in Keys, NEW off \in 0 .. c - 1,
                      At(n, c, q, off).state = "OCCUPIED", At(n, c, q, off).key = q,
                      NEW p \in 0 .. off - 1
               PROVE  At(n, c, q, p).state # "EMPTY"
    BY DEF Reachable
  <2>1. p \in 0 .. c - 1 /\ c \in Nat
    BY DEF Table
  <2>2. /\ Index(q, off, c) \in 0 .. c - 1
        /\ Index(q, p, c) \in 0 .. c - 1
    BY <2>1, IndexRange
  <2>3. At(b, c, q, p).state # "EMPTY"
    <3>1. CASE Index(q, off, c) = x
      <4>1. q = k
        BY <1>3, <2>2, <3>1, EntryFacts DEF At
      <4>2. off = o
        BY <3>1, <4>1, <2>1, IndexInjective
      <4> QED
        BY <4>1, <4>2
    <3>2. CASE Index(q, off, c) # x
      <4>1. At(b, c, q, off).state = "OCCUPIED" /\ At(b, c, q, off).key = q
        BY <1>3, <2>2, <3>2 DEF At
      <4> QED
        BY <4>1 DEF Reachable
    <3> QED
      BY <3>1, <3>2
  <2> QED
    BY <1>3, <2>2, <2>3, EntryFacts DEF At
<1>6. \A q \in Keys : q # k => ~Holds(b, x, q)
  BY DEF Holds, At
<1> HIDE DEF x
<1>7. ContentsOf(n, c) = [ContentsOf(b, c) EXCEPT ![k] = v]
  BY <1>1, <1>3, <1>4, <1>6, ContentsWrite
<1> QED
  BY <1>4, <1>5, <1>7

\* Updating the entry of a key in place.
LEMMA Overwrite ==
  ASSUME NEW b, NEW c, Table(b, c), Unique(b, c), Reachable(b, c),
         NEW k \in Keys, NEW v \in Vals, NEW x \in 0 .. c - 1, Holds(b, x, k),
         NEW n, Table(n, c),
         \A i \in 0 .. c - 1 : n[i] = IF i = x THEN Live(k, v) ELSE b[i]
  PROVE  /\ Unique(n, c) /\ Reachable(n, c)
         /\ ContentsOf(n, c) = [ContentsOf(b, c) EXCEPT ![k] = v]
<1>3. \A i \in 0 .. c - 1 :
        /\ n[i].state = b[i].state
        /\ b[i].state = "OCCUPIED" => n[i].key = b[i].key
  BY EntryFacts DEF Holds
<1>4. Unique(n, c)
  BY <1>3 DEF Unique
<1>5. Reachable(n, c)
  <2> SUFFICES ASSUME NEW q \in Keys, NEW off \in 0 .. c - 1,
                      At(n, c, q, off).state = "OCCUPIED", At(n, c, q, off).key = q,
                      NEW p \in 0 .. off - 1
               PROVE  At(n, c, q, p).state # "EMPTY"
    BY DEF Reachable
  <2>1. c \in Nat /\ p \in 0 .. c - 1
    BY DEF Table
  <2>2. /\ Index(q, off, c) \in 0 .. c - 1
        /\ Index(q, p, c) \in 0 .. c - 1
    BY <2>1, IndexRange
  <2> QED
    BY <1>3, <2>1, <2>2 DEF Reachable, At
<1>6. \A q \in Keys : q # k => ~Holds(b, x, q)
  BY DEF Holds
<1>7. ContentsOf(n, c) = [ContentsOf(b, c) EXCEPT ![k] = v]
  BY <1>4, <1>6, ContentsWrite
<1> QED
  BY <1>4, <1>5, <1>7

\* Turning the entry of a key into a tombstone.
LEMMA Bury ==
  ASSUME NEW b, NEW c, Table(b, c), Unique(b, c), Reachable(b, c),
         NEW k \in Keys, NEW x \in 0 .. c - 1, Holds(b, x, k),
         NEW n, Table(n, c),
         \A i \in 0 .. c - 1 : n[i] = IF i = x THEN Blank("TOMBSTONE") ELSE b[i]
  PROVE  /\ Unique(n, c) /\ Reachable(n, c)
         /\ ContentsOf(n, c) = [ContentsOf(b, c) EXCEPT ![k] = Absent]
<1>3. \A i \in 0 .. c - 1 :
        /\ n[i].state = "OCCUPIED" => n[i] = b[i]
        /\ n[i].state = "EMPTY" => b[i].state = "EMPTY"
  BY EntryFacts
<1>4. Unique(n, c)
  BY <1>3 DEF Unique
<1>5. Reachable(n, c)
  <2> SUFFICES ASSUME NEW q \in Keys, NEW off \in 0 .. c - 1,
                      At(n, c, q, off).state = "OCCUPIED", At(n, c, q, off).key = q,
                      NEW p \in 0 .. off - 1
               PROVE  At(n, c, q, p).state # "EMPTY"
    BY DEF Reachable
  <2>1. c \in Nat /\ p \in 0 .. c - 1
    BY DEF Table
  <2>2. /\ Index(q, off, c) \in 0 .. c - 1
        /\ Index(q, p, c) \in 0 .. c - 1
    BY <2>1, IndexRange
  <2> QED
    BY <1>3, <2>1, <2>2 DEF Reachable, At
<1>6. ContentsOf(n, c)[k] = Absent
  <2>1. \A i \in 0 .. c - 1 : ~Holds(n, i, k)
    BY EntryFacts DEF Holds, Unique
  <2> QED
    BY <1>4, <2>1, ContentsMeaning
<1>7. ASSUME NEW q \in Keys, q # k
      PROVE  ContentsOf(n, c)[q] = ContentsOf(b, c)[q]
  <2>1. \A i \in 0 .. c - 1 : Holds(n, i, q) => Holds(b, i, q) /\ n[i] = b[i]
    BY <1>3 DEF Holds
  <2>2. \A i \in 0 .. c - 1 : Holds(b, i, q) => Holds(n, i, q)
    BY <1>7 DEF Holds
  <2>3. CASE \E i \in 0 .. c - 1 : Holds(b, i, q)
    <3>1. PICK i \in 0 .. c - 1 : Holds(b, i, q)
      BY <2>3
    <3>2. ContentsOf(b, c)[q] = b[i].val
      BY <3>1, ContentsMeaning
    <3>3. ContentsOf(n, c)[q] = n[i].val
      BY <1>4, <2>2, <3>1, ContentsMeaning
    <3> QED
      BY <2>1, <2>2, <3>1, <3>2, <3>3
  <2>4. CASE ~\E i \in 0 .. c - 1 : Holds(b, i, q)
    <3>1. ContentsOf(b, c)[q] = Absent
      BY <2>4, ContentsMeaning
    <3>2. ContentsOf(n, c)[q] = Absent
      BY <1>4, <2>1, <2>4, ContentsMeaning
    <3> QED
      BY <3>1, <3>2
  <2> QED
    BY <2>3, <2>4
<1> QED
  BY <1>4, <1>5, <1>6, <1>7 DEF ContentsOf

-----------------------------------------------------------------------------
(* The operations. *)

\* A map that is not overloaded has an EMPTY slot, unless it is destroyed.
LEMMA RoomLeft ==
  ASSUME LiveTable, LoadBound, capacity # 0
  PROVE  SlotsIn(buckets, capacity, "EMPTY") # {}
<1>1. capacity \in Nat /\ capacity >= 8
  BY DEF LiveTable, LoadBound, Table
<1>2. size + tombstones < capacity
  BY <1>1 DEF LiveTable, LoadBound
<1> QED
  BY <1>2, SomeEmpty DEF LiveTable, CountersExact

\* The tail of an insert: what Store leaves behind.
LEMMA StoreStep ==
  ASSUME LiveTable, ~Overloaded, capacity = 0 \/ capacity >= 8,
         NEW k \in Keys, NEW v \in Vals, Store(k, v), capacity' = capacity
  PROVE  /\ LiveTable' /\ LoadBound'
         /\ Contents' = [Contents EXCEPT ![k] = v]
<1> DEFINE b == buckets
           c == capacity
           n == buckets'
<1>1. /\ Table(b, c) /\ Unique(b, c) /\ Reachable(b, c)
      /\ size \in Nat /\ tombstones \in Nat /\ c \in Nat
      /\ size = Cardinality(SlotsIn(b, c, "OCCUPIED"))
      /\ tombstones = Cardinality(SlotsIn(b, c, "TOMBSTONE"))
  BY DEF LiveTable, UniqueKeys, ChainsUnbroken, CountersExact, Table
<1>2. (size + tombstones) * 4 <= c * 3
  BY <1>1 DEF Overloaded
<1>3. PICK end \in 0 .. c - 1 :
        /\ ProbeEnd(b, c, k, end)
        /\ \/ /\ At(b, c, k, end).state = "OCCUPIED"
              /\ n = [b EXCEPT ![Index(k, end, c)] = Live(k, v)]
              /\ UNCHANGED <<size, tombstones>>
           \/ /\ At(b, c, k, end).state = "EMPTY"
              /\ \E off \in 0 .. end :
                   /\ InsertOffset(b, c, k, end, off)
                   /\ n = [b EXCEPT ![Index(k, off, c)] = Live(k, v)]
                   /\ size' = size + 1
                   /\ tombstones' = IF off = end THEN tombstones ELSE tombstones - 1
  BY DEF Store
<1>4. CASE /\ At(b, c, k, end).state = "OCCUPIED"
           /\ n = [b EXCEPT ![Index(k, end, c)] = Live(k, v)]
           /\ UNCHANGED <<size, tombstones>>
  <2> DEFINE x == Index(k, end, c)
  <2>1. x \in 0 .. c - 1 /\ Live(k, v) \in Entry
    BY <1>1, IndexRange, EntryFacts
  <2>2. Holds(b, x, k)
    BY <1>3, <1>4 DEF ProbeEnd, Stops, At, Holds
  <2>3. Table(n, c) /\ \A i \in 0 .. c - 1 : n[i] = IF i = x THEN Live(k, v) ELSE b[i]
    BY <1>1, <1>4, <2>1 DEF Table
  <2> HIDE DEF x
  <2>4. /\ Unique(n, c) /\ Reachable(n, c)
        /\ ContentsOf(n, c) = [ContentsOf(b, c) EXCEPT ![k] = v]
    BY <1>1, <2>1, <2>2, <2>3, Overwrite
  <2>5. /\ SlotsIn(n, c, "OCCUPIED") = SlotsIn(b, c, "OCCUPIED")
        /\ SlotsIn(n, c, "TOMBSTONE") = SlotsIn(b, c, "TOMBSTONE")
    BY <2>1, <2>2, <2>3, EntryFacts DEF SlotsIn, Holds
  <2> QED
    BY <1>1, <1>2, <1>4, <2>3, <2>4, <2>5
       DEF LiveTable, UniqueKeys, ChainsUnbroken, CountersExact, LoadBound, Contents
<1>5. ASSUME At(b, c, k, end).state = "EMPTY",
             NEW off \in 0 .. end,
             InsertOffset(b, c, k, end, off),
             n = [b EXCEPT ![Index(k, off, c)] = Live(k, v)],
             size' = size + 1,
             tombstones' = IF off = end THEN tombstones ELSE tombstones - 1
      PROVE  /\ LiveTable' /\ LoadBound'
             /\ Contents' = [Contents EXCEPT ![k] = v]
  <2> DEFINE x == Index(k, off, c)
             was == At(b, c, k, off).state
  <2>1. off \in 0 .. c - 1 /\ \A p \in 0 .. off - 1 : p \in 0 .. end - 1 /\ p \in 0 .. c - 1
    BY <1>1
  <2>2. x \in 0 .. c - 1 /\ Live(k, v) \in Entry
    BY <1>1, <2>1, IndexRange, EntryFacts
  <2>3. \A p \in 0 .. off - 1 : At(b, c, k, p).state # "EMPTY"
    BY <1>3, <2>1 DEF ProbeEnd, Stops
  <2>4. \A i \in 0 .. c - 1 : ~Holds(b, i, k)
    BY <1>1, <1>3, <1>5, EmptyEndMeansAbsent
  <2>5. was = IF off = end THEN "EMPTY" ELSE "TOMBSTONE"
    BY <1>5 DEF InsertOffset
  <2>6. Table(n, c) /\ \A i \in 0 .. c - 1 : n[i] = IF i = x THEN Live(k, v) ELSE b[i]
    BY <1>1, <1>5, <2>2 DEF Table
  <2>7. /\ Unique(n, c) /\ Reachable(n, c)
        /\ ContentsOf(n, c) = [ContentsOf(b, c) EXCEPT ![k] = v]
    BY <1>1, <2>1, <2>3, <2>4, <2>5, <2>6, PlaceNew
  <2>8. b[x].state = was
    BY DEF At
  <2>9. n = [b EXCEPT ![x] = Live(k, v)]
    BY <1>5
  <2>10. Live(k, v).state = "OCCUPIED"
    BY EntryFacts
  <2> HIDE DEF x, was, n
  <2>11. Cardinality(SlotsIn(n, c, "OCCUPIED")) = size + 1
    <3>1. Cardinality(SlotsIn([b EXCEPT ![x] = Live(k, v)], c, "OCCUPIED"))
            = Cardinality(SlotsIn(b, c, "OCCUPIED")) + 1
      BY <1>1, <2>2, <2>5, <2>8, <2>10, CountWrite
    <3> QED
      BY <1>1, <2>9, <3>1
  <2>12. Cardinality(SlotsIn(n, c, "TOMBSTONE"))
           = IF off = end THEN tombstones ELSE tombstones - 1
    <3>1. Cardinality(SlotsIn([b EXCEPT ![x] = Live(k, v)], c, "TOMBSTONE"))
            = IF was = "TOMBSTONE" THEN Cardinality(SlotsIn(b, c, "TOMBSTONE")) - 1
              ELSE Cardinality(SlotsIn(b, c, "TOMBSTONE"))
      BY <1>1, <2>2, <2>8, <2>10, CountWrite
    <3> QED
      BY <1>1, <2>5, <2>9, <3>1
  <2>13. /\ Cardinality(SlotsIn(n, c, "OCCUPIED")) = size + 1
        /\ Cardinality(SlotsIn(n, c, "TOMBSTONE"))
             = IF off = end THEN tombstones ELSE tombstones - 1
    BY <2>11, <2>12
  <2>14. tombstones' \in Nat
    BY <1>5, <2>6, <2>13, SlotsFinite, <1>1
  <2> QED
    BY <1>1, <1>2, <1>5, <2>6, <2>7, <2>13, <2>14
       DEF n, LiveTable, UniqueKeys, ChainsUnbroken, CountersExact, LoadBound, Contents
<1> QED
  BY <1>3, <1>4, <1>5

\* What RemoveStep and the resize steps know of the live table.
LEMMA LiveFacts ==
  ASSUME LiveTable
  PROVE  /\ Table(buckets, capacity) /\ capacity \in Nat
         /\ Unique(buckets, capacity) /\ Reachable(buckets, capacity)
         /\ size \in Nat /\ tombstones \in Nat
         /\ size = Cardinality(SlotsIn(buckets, capacity, "OCCUPIED"))
         /\ tombstones = Cardinality(SlotsIn(buckets, capacity, "TOMBSTONE"))
BY DEF LiveTable, UniqueKeys, ChainsUnbroken, CountersExact, Table

LEMMA RemoveStep ==
  ASSUME LiveTable, LoadBound, NEW k \in Keys, RemoveEntry(k)
  PROVE  /\ LiveTable' /\ LoadBound'
         /\ Contents[k] # Absent
         /\ Contents' = [Contents EXCEPT ![k] = Absent]
<1> DEFINE b == buckets
           c == capacity
           n == buckets'
           t == Blank("TOMBSTONE")
<1>1. /\ Table(b, c) /\ Unique(b, c) /\ Reachable(b, c)
      /\ size \in Nat /\ tombstones \in Nat /\ c \in Nat
      /\ size = Cardinality(SlotsIn(b, c, "OCCUPIED"))
      /\ tombstones = Cardinality(SlotsIn(b, c, "TOMBSTONE"))
  BY LiveFacts
<1>2. size' = size - 1 /\ tombstones' = tombstones + 1 /\ capacity' = c
  BY DEF RemoveEntry
<1>3. PICK off \in 0 .. c - 1 :
        Found(b, c, k, off) /\ n = [b EXCEPT ![Index(k, off, c)] = t]
  BY DEF RemoveEntry
<1> DEFINE x == Index(k, off, c)
<1>4. x \in 0 .. c - 1 /\ Holds(b, x, k)
  BY <1>1, <1>3, IndexRange DEF Found, ProbeEnd, Stops, At, Holds
<1>4a. Contents[k] # Absent
  <2>1. Contents[k] = b[x].val
    BY <1>1, <1>4, ContentsMeaning DEF Contents
  <2>2. b[x].val \in Vals
    BY <1>1, <1>4, EntryFacts DEF Holds, Table
  <2> QED
    BY <2>1, <2>2, NilAssumption
<1>5. t \in Entry /\ t.state = "TOMBSTONE" /\ b[x].state = "OCCUPIED"
  BY <1>4, EntryFacts DEF Holds
<1>6. n = [b EXCEPT ![x] = t]
  BY <1>3
<1>7. Table(n, c) /\ \A i \in 0 .. c - 1 : n[i] = IF i = x THEN t ELSE b[i]
  BY <1>1, <1>4, <1>5, <1>6 DEF Table
<1> HIDE DEF x, n
<1>8. /\ Unique(n, c) /\ Reachable(n, c)
      /\ ContentsOf(n, c) = [ContentsOf(b, c) EXCEPT ![k] = Absent]
  BY <1>1, <1>4, <1>7, Bury
<1> HIDE DEF t
<1>9. Cardinality(SlotsIn(n, c, "OCCUPIED")) = size - 1
  <2>1. Cardinality(SlotsIn([b EXCEPT ![x] = t], c, "OCCUPIED"))
          = Cardinality(SlotsIn(b, c, "OCCUPIED")) - 1
    BY <1>1, <1>4, <1>5, CountWrite
  <2> QED
    BY <1>1, <1>6, <2>1
<1>10. Cardinality(SlotsIn(n, c, "TOMBSTONE")) = tombstones + 1
  <2>1. Cardinality(SlotsIn([b EXCEPT ![x] = t], c, "TOMBSTONE"))
          = Cardinality(SlotsIn(b, c, "TOMBSTONE")) + 1
    BY <1>1, <1>4, <1>5, CountWrite
  <2> QED
    BY <1>1, <1>6, <2>1
<1>11. size' \in Nat
  BY <1>1, <1>2, <1>9, SlotsFinite
<1> QED
  BY <1>1, <1>2, <1>7, <1>8, <1>9, <1>10, <1>11, <1>4a
     DEF n, LiveTable, UniqueKeys, ChainsUnbroken, CountersExact, LoadBound, Contents

\* The empty map.
LEMMA EmptyContents ==
  ASSUME NEW c \in Nat
  PROVE  ContentsOf(EmptyTable(c), c) = [k \in Keys |-> Absent]
BY EmptyTableFacts DEF ContentsOf, Holds

LEMMA ResetStep ==
  ASSUME NEW c \in Nat, c = 0 \/ c >= 8, Reset(c)
  PROVE  /\ LiveTable' /\ LoadBound'
         /\ Contents' = [k \in Keys |-> Absent]
<1>1. buckets' = EmptyTable(c) /\ size' = 0 /\ capacity' = c /\ tombstones' = 0
  BY DEF Reset
<1>2. LiveTable'
  BY <1>1, EmptyTableFacts DEF LiveTable, UniqueKeys, ChainsUnbroken, CountersExact
<1>3. LoadBound'
  BY <1>1 DEF LoadBound
<1>4. Contents' = [k \in Keys |-> Absent]
  BY <1>1, EmptyContents DEF Contents
<1> QED
  BY <1>2, <1>3, <1>4

\* The first turn of a resize finds an empty new table.
LEMMA StartMoveStep ==
  ASSUME LiveTable, NEW c \in Nat, NEW e \in Entry, StartMove(c, e),
         \/ c = capacity /\ e = NoEntry
         \/ c = 2 * capacity /\ e.state = "OCCUPIED" /\ capacity >= 8
  PROVE  HalfMoved'
<1>1. /\ fresh' = EmptyTable(c) /\ freshCap' = c /\ oldI' = 0 /\ pending' = e
      /\ buckets' = buckets /\ capacity' = capacity
  BY DEF StartMove
<1>2. /\ Table(fresh', c) /\ Unique(fresh', c) /\ Reachable(fresh', c)
      /\ \A i \in 0 .. c - 1 : fresh'[i].state = "EMPTY"
      /\ Cardinality(SlotsIn(fresh', c, "OCCUPIED")) = 0
  BY <1>1, EmptyTableFacts
<1>3. SlotsIn(fresh', c, "TOMBSTONE") = {}
  BY <1>2 DEF SlotsIn
<1>4. SlotsIn(buckets', 0, "OCCUPIED") = {}
  BY DEF SlotsIn
<1>5. Cardinality(SlotsIn(buckets', 0, "OCCUPIED")) = 0
  BY <1>4, FS_EmptySet
<1> QED
  BY <1>1, <1>2, <1>3, <1>5 DEF HalfMoved

\* One turn of a resize.
LEMMA MoveStep ==
  ASSUME LiveTable, Quiet, HalfMoved, MoveOne
  PROVE  HalfMoved'
<1> DEFINE b == buckets
           f == fresh
           c == freshCap
           g == fresh'
           e == buckets[oldI]
<1>1. /\ Table(b, capacity) /\ capacity \in Nat /\ Unique(b, capacity)
      /\ oldI \in 0 .. capacity - 1 /\ e \in Entry
  BY LiveFacts DEF Quiet, MoveOne, Table
<1>2. /\ buckets' = b /\ capacity' = capacity /\ freshCap' = c
      /\ pending' = pending /\ oldI' = oldI + 1
  BY DEF MoveOne
<1>3. /\ Table(f, c) /\ c \in Nat /\ Unique(f, c) /\ Reachable(f, c)
      /\ \/ c = capacity /\ pending = NoEntry
         \/ c = 2 * capacity /\ pending.state = "OCCUPIED" /\ capacity >= 8
      /\ SlotsIn(f, c, "TOMBSTONE") = {}
      /\ Cardinality(SlotsIn(f, c, "OCCUPIED")) = Cardinality(SlotsIn(b, oldI, "OCCUPIED"))
      /\ \A j \in 0 .. c - 1 : f[j].state = "OCCUPIED" =>
           \E i \in 0 .. oldI - 1 : b[i] = f[j]
      /\ \A i \in 0 .. oldI - 1 : b[i].state = "OCCUPIED" =>
           \E j \in 0 .. c - 1 : f[j] = b[i]
  BY DEF HalfMoved, Table
<1>4. 0 .. oldI' - 1 = (0 .. oldI - 1) \cup {oldI}
  BY <1>1, <1>2
<1>5. CASE e.state # "OCCUPIED" /\ g = f
  <2>1. SlotsIn(b, oldI', "OCCUPIED") = SlotsIn(b, oldI, "OCCUPIED")
    BY <1>4, <1>5 DEF SlotsIn
  <2>2. /\ \A j \in 0 .. c - 1 : f[j].state = "OCCUPIED" =>
             \E i \in 0 .. oldI' - 1 : b[i] = f[j]
        /\ \A i \in 0 .. oldI' - 1 : b[i].state = "OCCUPIED" =>
             \E j \in 0 .. c - 1 : f[j] = b[i]
    BY <1>3, <1>4, <1>5
  <2> QED
    BY <1>2, <1>3, <1>5, <2>1, <2>2 DEF HalfMoved
<1>6. ASSUME e.state = "OCCUPIED",
             NEW off \in 0 .. c - 1,
             At(f, c, e.key, off).state = "EMPTY",
             \A p \in 0 .. off - 1 : At(f, c, e.key, p).state # "EMPTY",
             g = [f EXCEPT ![Index(e.key, off, c)] = e]
      PROVE  HalfMoved'
  <2> DEFINE x == Index(e.key, off, c)
  <2>1. e.key \in Keys /\ e.val \in Vals /\ e = Live(e.key, e.val)
    BY <1>1, <1>6 DEF Entry, Blank, Live
  <2>2. x \in 0 .. c - 1 /\ f[x].state = "EMPTY"
    BY <1>3, <1>6, <2>1, IndexRange DEF At
  <2>3. Table(g, c) /\ \A j \in 0 .. c - 1 : g[j] = IF j = x THEN e ELSE f[j]
    BY <1>1, <1>3, <1>6, <2>2 DEF Table
  <2>4. \A j \in 0 .. c - 1 : ~Holds(f, j, e.key)
    <3> SUFFICES ASSUME NEW j \in 0 .. c - 1, Holds(f, j, e.key) PROVE FALSE
      OBVIOUS
    <3>1. PICK i \in 0 .. oldI - 1 : b[i] = f[j]
      BY <1>3 DEF Holds
    <3>2. b[i].state = "OCCUPIED" /\ b[i].key = b[oldI].key /\ i \in 0 .. capacity - 1
      BY <1>1, <3>1 DEF Holds
    <3> QED
      BY <1>1, <1>6, <3>2 DEF Unique
  <2>5. g = [f EXCEPT ![x] = e]
    BY <1>6
  <2> HIDE DEF g
  <2>6. Unique(g, c) /\ Reachable(g, c)
    <3>1. PICK k \in Keys, v \in Vals : k = e.key /\ e = Live(k, v)
      BY <2>1
    <3>2. /\ At(f, c, k, off).state # "OCCUPIED"
          /\ \A p \in 0 .. off - 1 : At(f, c, k, p).state # "EMPTY"
          /\ \A j \in 0 .. c - 1 : ~Holds(f, j, k)
          /\ \A j \in 0 .. c - 1 : g[j] = IF j = Index(k, off, c) THEN Live(k, v) ELSE f[j]
      BY <1>6, <2>3, <2>4, <3>1
    <3> HIDE DEF e, f, c
    <3> QED
      BY <1>3, <2>3, <3>2, PlaceNew
  <2> HIDE DEF x
  <2>7. SlotsIn(g, c, "TOMBSTONE") = {}
    BY <1>3, <1>6, <2>3 DEF SlotsIn
  <2>8. Cardinality(SlotsIn(g, c, "OCCUPIED")) = Cardinality(SlotsIn(f, c, "OCCUPIED")) + 1
    <3>1. Cardinality(SlotsIn([f EXCEPT ![x] = e], c, "OCCUPIED"))
            = Cardinality(SlotsIn(f, c, "OCCUPIED")) + 1
      <4>1. /\ Table(f, c) /\ x \in 0 .. c - 1 /\ e \in Entry
            /\ e.state = "OCCUPIED" /\ f[x].state # "OCCUPIED"
        BY <1>1, <1>3, <1>6, <2>2
      <4> HIDE DEF e, f, c
      <4> QED
        BY <4>1, CountWrite
    <3> QED
      BY <2>5, <3>1
  <2>9. Cardinality(SlotsIn(b, oldI', "OCCUPIED")) = Cardinality(SlotsIn(b, oldI, "OCCUPIED")) + 1
    <3>1. /\ SlotsIn(b, oldI', "OCCUPIED") = SlotsIn(b, oldI, "OCCUPIED") \cup {oldI}
          /\ oldI \notin SlotsIn(b, oldI, "OCCUPIED")
      BY <1>1, <1>4, <1>6 DEF SlotsIn
    <3>2. IsFiniteSet(SlotsIn(b, oldI, "OCCUPIED"))
      BY <1>1, SlotsFinite
    <3> QED
      BY <3>1, <3>2, FS_AddElement
  <2>10. \A j \in 0 .. c - 1 : g[j].state = "OCCUPIED" =>
           \E i \in 0 .. oldI' - 1 : b[i] = g[j]
    BY <1>3, <1>4, <2>3
  <2>11. \A i \in 0 .. oldI' - 1 : b[i].state = "OCCUPIED" =>
           \E j \in 0 .. c - 1 : g[j] = b[i]
    <3> SUFFICES ASSUME NEW i \in 0 .. oldI' - 1, b[i].state = "OCCUPIED"
                 PROVE  \E j \in 0 .. c - 1 : g[j] = b[i]
      OBVIOUS
    <3>1. CASE i = oldI
      BY <2>2, <2>3, <3>1
    <3>2. CASE i \in 0 .. oldI - 1
      <4>1. PICK j \in 0 .. c - 1 : f[j] = b[i]
        BY <1>3, <3>2
      <4> QED
        BY <2>2, <2>3, <4>1
    <3> QED
      BY <1>4, <3>1, <3>2
  <2> QED
    BY <1>2, <1>3, <2>3, <2>6, <2>7, <2>8, <2>9, <2>10, <2>11 DEF g, HalfMoved
<1>7. \/ e.state # "OCCUPIED" /\ g = f
      \/ /\ e.state = "OCCUPIED"
         /\ \E off \in 0 .. c - 1 :
              /\ At(f, c, e.key, off).state = "EMPTY"
              /\ \A p \in 0 .. off - 1 : At(f, c, e.key, p).state # "EMPTY"
              /\ g = [f EXCEPT ![Index(e.key, off, c)] = e]
  BY DEF MoveOne
<1> QED
  BY <1>5, <1>6, <1>7

\* Two tables with the same entries represent the same map.
LEMMA SameContents ==
  ASSUME NEW b, NEW c, Table(b, c), Unique(b, c),
         NEW f, NEW d, Table(f, d), Unique(f, d),
         \A j \in 0 .. d - 1 : f[j].state = "OCCUPIED" =>
           \E i \in 0 .. c - 1 : b[i] = f[j],
         \A i \in 0 .. c - 1 : b[i].state = "OCCUPIED" =>
           \E j \in 0 .. d - 1 : f[j] = b[i]
  PROVE  ContentsOf(f, d) = ContentsOf(b, c)
<1>1. ASSUME NEW k \in Keys
      PROVE  ContentsOf(f, d)[k] = ContentsOf(b, c)[k]
  <2>1. CASE \E i \in 0 .. c - 1 : Holds(b, i, k)
    <3>1. PICK i \in 0 .. c - 1 : Holds(b, i, k)
      BY <2>1
    <3>2. PICK j \in 0 .. d - 1 : f[j] = b[i]
      BY <3>1 DEF Holds
    <3>3. Holds(f, j, k)
      BY <3>1, <3>2 DEF Holds
    <3>4. ContentsOf(b, c)[k] = b[i].val
      BY <3>1, ContentsMeaning
    <3>5. ContentsOf(f, d)[k] = f[j].val
      BY <3>3, ContentsMeaning
    <3> QED
      BY <3>2, <3>4, <3>5
  <2>2. CASE ~\E i \in 0 .. c - 1 : Holds(b, i, k)
    <3>1. \A j \in 0 .. d - 1 : ~Holds(f, j, k)
      BY <2>2 DEF Holds
    <3>2. ContentsOf(b, c)[k] = Absent
      BY <2>2, ContentsMeaning
    <3>3. ContentsOf(f, d)[k] = Absent
      BY <3>1, ContentsMeaning
    <3> QED
      BY <3>2, <3>3
  <2> QED
    BY <2>1, <2>2
<1> QED
  BY <1>1 DEF ContentsOf

\* The end of a resize.
LEMMA FinishStep ==
  ASSUME LiveTable, LoadBound, Quiet, HalfMoved, FinishMove
  PROVE  /\ LiveTable' /\ LoadBound' /\ Quiet'
         /\ Contents' = Contents
<1>1. /\ Table(buckets, capacity) /\ capacity \in Nat /\ Unique(buckets, capacity)
      /\ size \in Nat /\ tombstones \in Nat
      /\ size = Cardinality(SlotsIn(buckets, capacity, "OCCUPIED"))
  BY LiveFacts
<1>2. /\ buckets' = fresh /\ capacity' = freshCap /\ tombstones' = 0 /\ size' = size
      /\ pending' = pending /\ oldI = capacity
      /\ fresh' = EmptyTable(0) /\ freshCap' = 0 /\ oldI' = 0
      /\ pc' = IF pending = NoEntry THEN "idle" ELSE "placing"
  BY DEF FinishMove
<1>3. /\ Table(fresh, freshCap) /\ freshCap \in Nat
      /\ Unique(fresh, freshCap) /\ Reachable(fresh, freshCap)
      /\ \/ freshCap = capacity /\ pending = NoEntry
         \/ freshCap = 2 * capacity /\ pending.state = "OCCUPIED" /\ capacity >= 8
      /\ SlotsIn(fresh, freshCap, "TOMBSTONE") = {}
      /\ Cardinality(SlotsIn(fresh, freshCap, "OCCUPIED")) = size
      /\ \A j \in 0 .. freshCap - 1 : fresh[j].state = "OCCUPIED" =>
           \E i \in 0 .. capacity - 1 : buckets[i] = fresh[j]
      /\ \A i \in 0 .. capacity - 1 : buckets[i].state = "OCCUPIED" =>
           \E j \in 0 .. freshCap - 1 : fresh[j] = buckets[i]
  BY <1>1, <1>2 DEF HalfMoved, Table
<1>4. LiveTable'
  <2>1. Cardinality(SlotsIn(fresh, freshCap, "TOMBSTONE")) = 0
    BY <1>3, FS_EmptySet
  <2> QED
    BY <1>1, <1>2, <1>3, <2>1 DEF LiveTable, UniqueKeys, ChainsUnbroken, CountersExact
<1>5. LoadBound'
  BY <1>1, <1>2, <1>3 DEF LoadBound
<1>6. Quiet'
  <2>1. pending \in Entry
    BY DEF Quiet
  <2>2. CASE pending = NoEntry
    BY <1>2, <1>3, <2>1, <2>2 DEF Quiet
  <2>3. CASE pending # NoEntry
    <3>1. freshCap = 2 * capacity /\ pending.state = "OCCUPIED" /\ capacity >= 8
      BY <1>3, <2>3
    <3>2. ~Overloaded'
      BY <1>1, <1>2, <3>1 DEF LoadBound, Overloaded
    <3> QED
      BY <1>1, <1>2, <1>3, <2>1, <2>3, <3>1, <3>2 DEF Quiet
  <2> QED
    BY <2>2, <2>3
<1>7. Contents' = Contents
  <2>1. ContentsOf(fresh, freshCap) = ContentsOf(buckets, capacity)
    BY <1>1, <1>3, SameContents
  <2> QED
    BY <1>2, <2>1 DEF Contents
<1> QED
  BY <1>4, <1>5, <1>6, <1>7

\* RE2022 is raised by a destroyed map only.
LEMMA TrapStep ==
  ASSUME IndInv, Trap
  PROVE  capacity = 0 /\ pc = "idle"
<1>1. LiveTable /\ LoadBound /\ Quiet
  BY DEF IndInv
<1>2. /\ Table(buckets, capacity) /\ capacity \in Nat
  BY <1>1, LiveFacts
<1>3. ASSUME capacity # 0, NEW k \in Keys, Exhausted(buckets, capacity, k)
      PROVE  FALSE
  <2>1. PICK o \in 0 .. capacity - 1 : At(buckets, capacity, k, o).state = "EMPTY"
    BY <1>1, <1>2, <1>3, RoomLeft, EmptyEndsProbe
  <2> QED
    BY <1>3, <2>1 DEF Exhausted, Stops
<1>4. CASE /\ pc = "idle"
           /\ \E k \in Keys : Exhausted(buckets, capacity, k)
  BY <1>3, <1>4
<1>5. CASE pc = "placing" /\ Exhausted(buckets, capacity, pending.key)
  <2>1. pending \in Entry /\ pending.state = "OCCUPIED" /\ capacity >= 8
    BY <1>1, <1>5 DEF Quiet
  <2>2. pending.key \in Keys /\ capacity # 0
    BY <1>2, <2>1, EntryFacts
  <2> QED
    BY <1>3, <1>5, <2>2
<1>6. CASE /\ pc = "moving" /\ oldI < capacity
           /\ buckets[oldI].state = "OCCUPIED"
           /\ \A off \in 0 .. freshCap - 1 :
                At(fresh, freshCap, buckets[oldI].key, off).state # "EMPTY"
  <2>1. HalfMoved /\ oldI \in 0 .. capacity - 1
    BY <1>1, <1>2, <1>6 DEF IndInv, Quiet
  <2>2. /\ Table(fresh, freshCap) /\ freshCap \in Nat
        /\ freshCap >= capacity
        /\ SlotsIn(fresh, freshCap, "TOMBSTONE") = {}
        /\ Cardinality(SlotsIn(fresh, freshCap, "OCCUPIED"))
             = Cardinality(SlotsIn(buckets, oldI, "OCCUPIED"))
    BY <1>2, <2>1 DEF HalfMoved, Table
  <2>3. Cardinality(SlotsIn(buckets, oldI, "OCCUPIED")) <= oldI
    <3>1. SlotsIn(buckets, oldI, "OCCUPIED") \subseteq 0 .. oldI - 1
      BY DEF SlotsIn
    <3>2. IsFiniteSet(0 .. oldI - 1) /\ Cardinality(0 .. oldI - 1) = oldI
      <4>1. oldI \in Nat /\ oldI - 1 \in Int /\ (oldI - 1) - 0 + 1 = oldI
        BY <1>2, <2>1
      <4>2. /\ IsFiniteSet(0 .. oldI - 1)
            /\ Cardinality(0 .. oldI - 1) = IF 0 > oldI - 1 THEN 0 ELSE (oldI - 1) - 0 + 1
        BY <4>1, FS_Interval
      <4> QED
        BY <4>1, <4>2
    <3> QED
      BY <3>1, <3>2, FS_Subset
  <2>4. Cardinality(SlotsIn(fresh, freshCap, "TOMBSTONE")) = 0
    BY <2>2, FS_EmptySet
  <2>5. Cardinality(SlotsIn(fresh, freshCap, "OCCUPIED")) \in Nat
    BY <2>2, SlotsFinite
  <2>6. SlotsIn(fresh, freshCap, "EMPTY") # {}
    BY <1>2, <2>1, <2>2, <2>3, <2>4, <2>5, SomeEmpty
  <2>7. buckets[oldI].key \in Keys
    BY <1>2, <1>6, <2>1, EntryFacts DEF Table
  <2>8. \E o \in 0 .. freshCap - 1 :
          At(fresh, freshCap, buckets[oldI].key, o).state = "EMPTY"
    BY <2>2, <2>6, <2>7, EmptyEndsProbe
  <2> QED
    BY <1>6, <2>8
<1> QED
  BY <1>4, <1>5, <1>6 DEF Trap

-----------------------------------------------------------------------------
(* The inductive invariant. *)

LEMMA InitIndInv == Init => IndInv
<1> SUFFICES ASSUME Init PROVE IndInv
  OBVIOUS
<1>1. /\ buckets = EmptyTable(InitCap) /\ size = 0 /\ capacity = InitCap /\ tombstones = 0
      /\ pc = "idle" /\ fresh = EmptyTable(0) /\ freshCap = 0 /\ oldI = 0
      /\ pending = NoEntry
  BY DEF Init
<1>2. InitCap \in Nat /\ InitCap >= 8
  BY CapAssumption
<1>3. LiveTable
  BY <1>1, <1>2, EmptyTableFacts DEF LiveTable, UniqueKeys, ChainsUnbroken, CountersExact
<1>4. LoadBound
  BY <1>1, <1>2 DEF LoadBound
<1>5. Quiet
  BY <1>1, <1>2, EntryFacts DEF Quiet, NoEntry
<1> QED
  BY <1>1, <1>3, <1>4, <1>5 DEF IndInv

\* Every step keeps the invariant and is a step of the abstract map, or none.
LEMMA StepIndInv ==
  ASSUME IndInv, [Next]_vars
  PROVE  IndInv' /\ [Abstract!Next]_<<Contents, InProgress>>
<1>1. LiveTable /\ LoadBound /\ Quiet /\ (pc = "moving" => HalfMoved)
  BY DEF IndInv
<1>2. /\ Table(buckets, capacity) /\ capacity \in Nat /\ size \in Nat /\ tombstones \in Nat
  BY <1>1, LiveFacts
<1>3. ASSUME NEW k \in Keys, NEW v \in Vals, Insert(k, v)
      PROVE  IndInv' /\ [Abstract!Next]_<<Contents, InProgress>>
  <2>1. /\ ~Overloaded /\ Store(k, v) /\ pc = "idle"
        /\ UNCHANGED <<capacity, pc, pending, fresh, freshCap, oldI>>
    BY <1>3 DEF Insert, moveVars
  <2>2. LiveTable' /\ LoadBound' /\ Contents' = [Contents EXCEPT ![k] = v]
    BY <1>1, <2>1, StoreStep DEF LoadBound
  <2>3. Quiet'
    BY <1>1, <2>1 DEF Quiet
  <2>4. Abstract!Next
    BY <2>1, <2>2 DEF Abstract!Next, Abstract!Put, InProgress
  <2> QED
    BY <2>1, <2>2, <2>3, <2>4 DEF IndInv
<1>4. ASSUME NEW k \in Keys, NEW v \in Vals, InsertGrow(k, v)
      PROVE  IndInv' /\ [Abstract!Next]_<<Contents, InProgress>>
  <2>1. Overloaded /\ StartMove(2 * capacity, Live(k, v))
    BY <1>4 DEF InsertGrow
  <2>2. capacity >= 8
    <3> SUFFICES ASSUME capacity = 0 PROVE FALSE
      BY <1>1 DEF LoadBound
    <3>1. /\ SlotsIn(buckets, capacity, "OCCUPIED") = {}
          /\ SlotsIn(buckets, capacity, "TOMBSTONE") = {}
      BY DEF SlotsIn
    <3>2. size = 0 /\ tombstones = 0
      BY <1>1, <3>1, LiveFacts, FS_EmptySet
    <3> QED
      BY <2>1, <3>2 DEF Overloaded
  <2>3. Live(k, v) \in Entry /\ Live(k, v).state = "OCCUPIED" /\ 2 * capacity \in Nat
    BY <1>2, EntryFacts
  <2>4. HalfMoved'
    BY <1>1, <2>1, <2>2, <2>3, StartMoveStep
  <2>5. /\ UNCHANGED <<buckets, size, capacity, tombstones>>
        /\ pc' = "moving" /\ oldI' = 0 /\ pending' = Live(k, v)
    BY <2>1 DEF StartMove
  <2>6. LiveTable' /\ LoadBound' /\ Contents' = Contents
    BY <1>1, <2>5
       DEF LiveTable, LoadBound, Contents, UniqueKeys, ChainsUnbroken, CountersExact
  <2>7. Quiet'
    BY <1>2, <2>3, <2>5 DEF Quiet
  <2>8. Live(k, v) # NoEntry /\ Live(k, v).key = k /\ Live(k, v).val = v
    BY EntryFacts DEF NoEntry
  <2>9. InProgress = <<>> /\ InProgress' = <<k, v>>
    BY <1>4, <2>5, <2>8 DEF InsertGrow, InProgress
  <2>10. Abstract!Next
    BY <2>6, <2>9 DEF Abstract!Next, Abstract!BeginPut
  <2> QED
    BY <2>4, <2>6, <2>7, <2>10 DEF IndInv
<1>5. ASSUME NEW k \in Keys, RemoveEntry(k)
      PROVE  IndInv' /\ [Abstract!Next]_<<Contents, InProgress>>
  <2>1. pc = "idle" /\ UNCHANGED <<capacity, pc, pending, fresh, freshCap, oldI>>
    BY <1>5 DEF RemoveEntry, moveVars
  <2>2. /\ LiveTable' /\ LoadBound' /\ Contents[k] # Absent
        /\ Contents' = [Contents EXCEPT ![k] = Absent]
    BY <1>1, <1>5, RemoveStep
  <2>3. Quiet'
    BY <1>1, <2>1 DEF Quiet
  <2>4. Abstract!Next
    BY <2>1, <2>2 DEF Abstract!Next, Abstract!Delete, InProgress
  <2> QED
    BY <2>1, <2>2, <2>3, <2>4 DEF IndInv
<1>6. CASE Rehash
  <2>1. StartMove(capacity, NoEntry) /\ NoEntry \in Entry
    BY <1>6, EntryFacts DEF Rehash, NoEntry
  <2>2. HalfMoved'
    BY <1>1, <1>2, <2>1, StartMoveStep
  <2>3. /\ UNCHANGED <<buckets, size, capacity, tombstones>>
        /\ pc' = "moving" /\ oldI' = 0 /\ pending' = NoEntry
    BY <2>1 DEF StartMove
  <2>4. LiveTable' /\ LoadBound' /\ Contents' = Contents
    BY <1>1, <2>3
       DEF LiveTable, LoadBound, Contents, UniqueKeys, ChainsUnbroken, CountersExact
  <2>5. Quiet'
    BY <1>2, <2>1, <2>3 DEF Quiet
  <2>6. InProgress = <<>> /\ InProgress' = <<"rebuild">>
    BY <1>6, <2>3 DEF Rehash, InProgress
  <2>7. Abstract!Next
    BY <2>4, <2>6 DEF Abstract!Next, Abstract!BeginRebuild
  <2> QED
    BY <2>2, <2>4, <2>5, <2>7 DEF IndInv
<1>7. CASE MoveOne
  <2>1. /\ pc = "moving" /\ oldI < capacity /\ oldI' = oldI + 1
        /\ UNCHANGED <<buckets, size, capacity, tombstones, pc, pending>>
    BY <1>7 DEF MoveOne
  <2>2. HalfMoved'
    BY <1>1, <1>7, <2>1, MoveStep
  <2>3. LiveTable' /\ LoadBound' /\ Contents' = Contents
    BY <1>1, <2>1
       DEF LiveTable, LoadBound, Contents, UniqueKeys, ChainsUnbroken, CountersExact
  <2>4. Quiet'
    BY <1>1, <1>2, <2>1 DEF Quiet
  <2>5. UNCHANGED InProgress
    BY <2>1 DEF InProgress
  <2> QED
    BY <2>2, <2>3, <2>4, <2>5 DEF IndInv
<1>8. CASE FinishMove
  <2>1. pc = "moving" /\ pc' \in {"idle", "placing"}
    BY <1>8 DEF FinishMove
  <2>2. LiveTable' /\ LoadBound' /\ Quiet' /\ Contents' = Contents
    BY <1>1, <1>8, <2>1, FinishStep
  <2>3. CASE pending = NoEntry
    <3>1. InProgress = <<"rebuild">> /\ InProgress' = <<>>
      BY <1>8, <2>3 DEF FinishMove, InProgress
    <3> QED
      BY <2>1, <2>2, <3>1 DEF IndInv, Abstract!Next, Abstract!EndRebuild
  <2>4. CASE pending # NoEntry
    <3>1. InProgress' = InProgress
      BY <1>8, <2>4 DEF FinishMove, InProgress
    <3> QED
      BY <2>1, <2>2, <3>1 DEF IndInv
  <2> QED
    BY <2>3, <2>4
<1>9. CASE PlacePending
  <2>1. /\ pc = "placing" /\ pc' = "idle" /\ pending' = NoEntry
        /\ Store(pending.key, pending.val)
        /\ UNCHANGED <<capacity, fresh, freshCap, oldI>>
    BY <1>9 DEF PlacePending, moveVars
  <2>2. /\ pending \in Entry /\ pending.state = "OCCUPIED" /\ ~Overloaded
        /\ capacity >= 8
    BY <1>1, <2>1 DEF Quiet
  <2>3. PICK k \in Keys, v \in Vals : k = pending.key /\ v = pending.val
    BY <2>2, EntryFacts
  <2>4. LiveTable' /\ LoadBound' /\ Contents' = [Contents EXCEPT ![k] = v]
    BY <1>1, <2>1, <2>2, <2>3, StoreStep
  <2>5. Quiet'
    BY <1>1, <2>1, EntryFacts DEF Quiet, NoEntry
  <2>6. Abstract!Next
    <3>1. pending # NoEntry
      BY <2>2, EntryFacts DEF NoEntry
    <3>2. InProgress = <<k, v>> /\ InProgress' = <<>>
      BY <2>1, <2>3, <3>1 DEF InProgress
    <3> QED
      BY <2>4, <3>2 DEF Abstract!Next, Abstract!EndPut
  <2> QED
    BY <2>1, <2>4, <2>5, <2>6 DEF IndInv
<1>10. ASSUME NEW c \in Nat, c = 0 \/ c >= 8, pc = "idle", Reset(c)
       PROVE  IndInv' /\ [Abstract!Next]_<<Contents, InProgress>>
  <2>1. UNCHANGED <<pc, pending, fresh, freshCap, oldI>> /\ capacity' = c
    BY <1>10 DEF Reset, moveVars
  <2>2. LiveTable' /\ LoadBound' /\ Contents' = [k \in Keys |-> Absent]
    BY <1>10, ResetStep
  <2>3. Quiet'
    BY <1>1, <1>10, <2>1 DEF Quiet
  <2>4. Abstract!Next
    BY <1>10, <2>1, <2>2 DEF Abstract!Next, Abstract!Clear, InProgress
  <2> QED
    BY <1>10, <2>1, <2>2, <2>3, <2>4 DEF IndInv
<1>11. CASE Free \/ Destroy
  BY <1>10, <1>11, CapAssumption DEF Free, Destroy
<1>12. CASE Trap
  <2>1. capacity = 0 /\ pc = "idle"
    BY <1>12, TrapStep
  <2>2. /\ pc' = "trapped"
        /\ UNCHANGED <<buckets, size, capacity, tombstones, pending, fresh, freshCap, oldI>>
    BY <1>12 DEF Trap, moveVars
  <2>3. LiveTable' /\ LoadBound' /\ Contents' = Contents
    BY <1>1, <2>2
       DEF LiveTable, LoadBound, Contents, UniqueKeys, ChainsUnbroken, CountersExact
  <2>4. Quiet'
    BY <1>1, <2>1, <2>2 DEF Quiet
  <2>5. UNCHANGED InProgress
    BY <2>1, <2>2 DEF InProgress
  <2> QED
    BY <2>2, <2>3, <2>4, <2>5 DEF IndInv
<1>13. CASE Exited \/ UNCHANGED vars
  <2>1. UNCHANGED vars
    BY <1>13 DEF Exited
  <2> QED
    BY <1>1, <2>1
       DEF vars, IndInv, LiveTable, LoadBound, Quiet, HalfMoved, Contents, InProgress,
           UniqueKeys, ChainsUnbroken, CountersExact, Overloaded
<1> QED
  BY <1>3, <1>4, <1>5, <1>6, <1>7, <1>8, <1>9, <1>11, <1>12, <1>13 DEF Next

\* The table keeps its invariant through every call, and between the steps of a
\* resize the old and the new table together hold each entry once.
THEOREM Inductive == Spec => []IndInv
<1>1. IndInv /\ [Next]_vars => IndInv'
  BY StepIndInv
<1> QED
  BY InitIndInv, <1>1, PTL DEF Spec

LEMMA LookupFromTable ==
  ASSUME LiveTable
  PROVE  LookupExact
<1> DEFINE b == buckets
           c == capacity
<1> SUFFICES ASSUME NEW k \in Keys PROVE Lookup(k) = Contents[k]
  BY DEF LookupExact
<1>1. Table(b, c) /\ c \in Nat /\ Unique(b, c) /\ Reachable(b, c)
  BY LiveFacts
<1>2. CASE \E off \in 0 .. c - 1 : Found(b, c, k, off)
  <2> DEFINE off == CHOOSE o \in 0 .. c - 1 : Found(b, c, k, o)
  <2>1. off \in 0 .. c - 1 /\ Found(b, c, k, off)
    BY <1>2
  <2>2. Index(k, off, c) \in 0 .. c - 1 /\ Holds(b, Index(k, off, c), k)
    BY <1>1, <2>1, IndexRange DEF Found, ProbeEnd, Stops, At, Holds
  <2>3. Contents[k] = b[Index(k, off, c)].val
    BY <1>1, <2>2, ContentsMeaning DEF Contents
  <2>4. Lookup(k) = At(b, c, k, off).val
    BY <1>2 DEF Lookup
  <2> QED
    BY <2>3, <2>4 DEF At
<1>3. CASE ~\E off \in 0 .. c - 1 : Found(b, c, k, off)
  <2>1. \A i \in 0 .. c - 1 : ~Holds(b, i, k)
    <3> SUFFICES ASSUME NEW i \in 0 .. c - 1, Holds(b, i, k) PROVE FALSE
      OBVIOUS
    <3>1. PICK off \in 0 .. c - 1 : Index(k, off, c) = i
      BY <1>1, IndexSurjective
    <3>2. At(b, c, k, off).state = "OCCUPIED" /\ At(b, c, k, off).key = k
      BY <3>1 DEF At, Holds
    <3>3. ASSUME NEW p \in 0 .. off - 1 PROVE ~Stops(b, c, k, p)
      <4>1. p \in 0 .. c - 1 /\ p # off /\ At(b, c, k, p).state # "EMPTY"
        BY <1>1, <3>2 DEF Reachable
      <4>2. Index(k, p, c) \in 0 .. c - 1 /\ Index(k, p, c) # i
        BY <1>1, <3>1, <4>1, IndexRange, IndexInjective
      <4>3. ~(At(b, c, k, p).state = "OCCUPIED" /\ At(b, c, k, p).key = k)
        BY <1>1, <4>2 DEF Unique, At, Holds
      <4> QED
        BY <4>1, <4>3 DEF Stops
    <3>4. Found(b, c, k, off)
      BY <3>2, <3>3 DEF Found, ProbeEnd, Stops
    <3> QED
      BY <1>3, <3>4
  <2>2. Contents[k] = Absent
    BY <1>1, <2>1, ContentsMeaning DEF Contents
  <2>3. Lookup(k) = Absent
    BY <1>3 DEF Lookup
  <2> QED
    BY <2>2, <2>3
<1> QED
  BY <1>2, <1>3

-----------------------------------------------------------------------------
(* The theorems. *)

\* The fields of the map and of a resize in progress keep their types.
THEOREM TypeCorrect == Spec => []TypeOK
<1>1. IndInv => TypeOK
  <2> SUFFICES ASSUME IndInv PROVE TypeOK
    OBVIOUS
  <2>1. Table(buckets, capacity) /\ size \in Nat /\ tombstones \in Nat /\ Quiet
    BY LiveFacts DEF IndInv
  <2>2. Table(fresh, freshCap)
    BY <2>1, EmptyTableFacts DEF IndInv, Quiet, HalfMoved
  <2> QED
    BY <2>1, <2>2 DEF TypeOK, Table, Quiet
<1> QED
  BY <1>1, Inductive, PTL

\* size and tombstones always equal the number of OCCUPIED and TOMBSTONE
\* buckets, so the load factor is never computed from a stale count.
THEOREM CountersStayExact == Spec => []CountersExact
<1>1. IndInv => CountersExact
  BY DEF IndInv, LiveTable
<1> QED
  BY <1>1, Inductive, PTL

\* No key ever has two entries, and the chain to every entry is unbroken.
THEOREM TableWellFormed == Spec => [](UniqueKeys /\ ChainsUnbroken)
<1>1. IndInv => UniqueKeys /\ ChainsUnbroken
  BY DEF IndInv, LiveTable
<1> QED
  BY <1>1, Inductive, PTL

\* `.get` and `.contains_key` always answer what the table holds.
THEOREM LookupsExact == Spec => []LookupExact
<1>1. IndInv => LookupExact
  BY LookupFromTable DEF IndInv
<1> QED
  BY <1>1, Inductive, PTL

\* A map that is not destroyed always has an EMPTY bucket: every probe ends.
THEOREM ProbesEnd == Spec => []EmptySlotRemains
<1>1. IndInv => EmptySlotRemains
  <2> SUFFICES ASSUME IndInv, capacity > 0 PROVE SlotsIn(buckets, capacity, "EMPTY") # {}
    BY DEF EmptySlotRemains
  <2>1. LiveTable /\ LoadBound /\ capacity # 0
    BY LiveFacts DEF IndInv
  <2> QED
    BY <2>1, RoomLeft
<1> QED
  BY <1>1, Inductive, PTL

\* RE2022 is only ever raised by an insert into a destroyed map.
THEOREM TrapsOnlyWhenDestroyed == Spec => []TrapOnlyWhenDestroyed
<1>1. IndInv => TrapOnlyWhenDestroyed
  BY DEF IndInv, Quiet, TrapOnlyWhenDestroyed
<1> QED
  BY <1>1, Inductive, PTL

\* The open-addressing table implements the abstract map: a growth, a rehash
\* and the choice of a slot are stutters, every update takes effect at once.
THEOREM Refinement == Spec => ImplementsMap
<1>1. Init => Abstract!Init
  <2> SUFFICES ASSUME Init PROVE Contents = [k \in Keys |-> Absent]
    BY DEF Abstract!Init, Init, InProgress
  <2> QED
    BY CapAssumption, EmptyContents DEF Init, Contents
<1>2. IndInv /\ [Next]_vars => [Abstract!Next]_<<Contents, InProgress>>
  BY StepIndInv
<1> QED
  BY <1>1, <1>2, Inductive, PTL DEF Spec, ImplementsMap, Abstract!Spec
=============================================================================
