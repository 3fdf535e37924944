---------------------------- MODULE RuntimeProofs ----------------------------
(***************************************************************************)
(* TLAPS proofs about what the runtime's containers do with memory.         *)
(* HashMapOwnership: for every set of keys and every number of objects,     *)
(* each live object has one owner and nothing that is stored or owned has   *)
(* been freed.  SeqRuntime: whatever calls a program makes, no access       *)
(* leaves the buffer of its list or array, an element that owns storage is  *)
(* in one place, and from outside the container is the sequence SeqSpec     *)
(* describes.  Files: lines that were written are the lines that are read,  *)
(* and a copy that answers Ok is one.                                       *)
(***************************************************************************)
EXTENDS HashMapOwnership, SeqRuntime, Files, SequenceTheorems, WellFoundedInduction, TLAPS

-----------------------------------------------------------------------------
(* The objects in a map's entries. *)

\* The inductive invariant.  An object that is still to be made was never freed
\* and belongs to nobody: without it, Make could hand out a stored object.
Unmade ==
  /\ Stored \cup owned \subseteq 1 .. made
  /\ \A o \in Objects : o > made => freed[o] = 0

OwnInv == TypeOK /\ OneOwner /\ NothingDangles /\ Unmade

\* What the two objects of an entry belong to.
LEMMA HeldStored ==
  ASSUME NEW k \in DOMAIN entries
  PROVE  entries[k].key \in Stored /\ entries[k].value \in Stored
  BY DEF Stored, Held

\* The freed counters after the objects of S, none freed so far, are freed.
LEMMA FreeingOnce ==
  ASSUME NEW S, freed \in [Objects -> 0 .. 1], \A o \in S \cap Objects : freed[o] = 0
  PROVE  /\ Freeing(S) \in [Objects -> 0 .. 1]
         /\ \A o \in Objects \ S : Freeing(S)[o] = freed[o]
  BY DEF Freeing

LEMMA InitOwn == Init => OwnInv
<1> SUFFICES ASSUME Init PROVE OwnInv
  OBVIOUS
<1>1. DOMAIN entries = {} /\ Stored = {} /\ owned = {}
  BY DEF Init, Stored
<1>2. freed \in [Objects -> 0 .. 1] /\ \A o \in Objects : freed[o] = 0
  BY DEF Init
<1>3. TypeOK
  <2>1. made \in 0 .. MaxObjects
    BY ObjectsAssumption DEF Init
  <2>2. closed \in BOOLEAN /\ buckets \in {"live", "null"} /\ entries = << >>
    BY Zenon DEF Init
  <2> QED BY <1>1, <1>2, <2>1, <2>2 DEF TypeOK
<1>4. OneOwner /\ NothingDangles /\ Unmade
  BY <1>1, <1>2 DEF OneOwner, NothingDangles, Unmade
<1> QED BY <1>3, <1>4 DEF OwnInv

\* Make: the new object belongs to nobody else.
LEMMA MakeOwn == OwnInv /\ Make => OwnInv'
<1> SUFFICES ASSUME OwnInv, Make PROVE OwnInv'
  OBVIOUS
<1> USE ObjectsAssumption DEF OwnInv
<1>1. made' = made + 1 /\ made' \in Objects /\ made \in Nat /\ owned' = owned \cup {made'}
      /\ UNCHANGED <<entries, buckets, freed, closed>>
  BY DEF Make, TypeOK, Objects
<1>2. Stored' = Stored /\ \A k : Held(k)' = Held(k)
  BY <1>1 DEF Stored, Held
<1>3. made' \notin Stored \cup owned /\ freed[made'] = 0
  BY <1>1 DEF Unmade, Objects
<1>4. TypeOK'
  BY <1>1 DEF TypeOK, Objects
<1>5. OneOwner'
  BY <1>1, <1>2, <1>3 DEF OneOwner
<1>6. NothingDangles'
  BY <1>1, <1>2, <1>3 DEF NothingDangles
<1>7. Unmade'
  BY <1>1, <1>2 DEF Unmade, Objects
<1> QED BY <1>4, <1>5, <1>6, <1>7

\* What an insert or an update does to the entries: k holds objects that the
\* program owned, or k's own key and a value the program owned.
LEMMA PutOwn ==
  ASSUME OwnInv,
         NEW k \in Keys, NEW ko \in owned, NEW vo \in owned, ko # vo,
         NEW e \in Entry, e.value = vo,
         e.key = ko \/ (k \in DOMAIN entries /\ e.key = entries[k].key),
         k \notin DOMAIN entries => buckets = "live",
         DOMAIN entries' = DOMAIN entries \cup {k},
         \A x \in DOMAIN entries' : entries'[x] = IF x = k THEN e ELSE entries[x],
         owned' = owned \ {ko, vo},
         UNCHANGED <<buckets, freed, made, closed>>
  PROVE  OwnInv'
<1> USE DEF OwnInv
<1>1. e.key # e.value
  BY HeldStored DEF OneOwner
<1>2. \A x \in DOMAIN entries' : Held(x)' = IF x = k THEN {e.key, e.value} ELSE Held(x)
  BY DEF Held
<1>3. \A x \in DOMAIN entries : Held(x) \subseteq Stored
  BY DEF Stored
<1>4. Stored' \subseteq Stored \cup {ko, vo}
  <2>1. SUFFICES ASSUME NEW x \in DOMAIN entries', NEW o \in Held(x)'
                 PROVE  o \in Stored \cup {ko, vo}
    BY DEF Stored
  <2>2. CASE x = k
    BY <2>1, <2>2, <1>2, HeldStored
  <2>3. CASE x # k
    BY <2>1, <2>3, <1>2, <1>3
  <2> QED BY <2>2, <2>3
<1>5. TypeOK'
  <2>1. entries = << >> => DOMAIN entries = {}
    OBVIOUS
  <2>2. buckets = "live"
    BY <2>1 DEF TypeOK
  <2> QED BY <2>2 DEF TypeOK
<1>6. OneOwner'
  <2>1. Stored' \cap owned' = {}
    BY <1>4 DEF OneOwner
  <2>2. \A x \in DOMAIN entries' : entries'[x].key # entries'[x].value
    BY <1>1 DEF OneOwner
  <2>3. \A x \in DOMAIN entries : x # k => Held(x) \cap {e.key, e.value} = {}
    <3>1. SUFFICES ASSUME NEW x \in DOMAIN entries, x # k
                   PROVE  e.key \notin Held(x) /\ e.value \notin Held(x)
      OBVIOUS
    <3>2. vo \notin Held(x) /\ ko \notin Held(x)
      BY <3>1, <1>3 DEF OneOwner
    <3>3. CASE e.key = ko
      BY <3>2, <3>3
    <3>4. CASE k \in DOMAIN entries /\ e.key = entries[k].key
      <4>1. entries[k].key \in Held(k) /\ Held(x) \cap Held(k) = {}
        BY <3>1, <3>4 DEF OneOwner, Held
      <4> QED BY <4>1, <3>4, <3>2
    <3> QED BY <3>3, <3>4
  <2>4. \A x, y \in DOMAIN entries' : x # y => Held(x)' \cap Held(y)' = {}
    BY <1>2, <2>3 DEF OneOwner
  <2> QED BY <2>1, <2>2, <2>4 DEF OneOwner
<1>7. NothingDangles'
  BY <1>4 DEF NothingDangles
<1>8. Unmade'
  BY <1>4 DEF Unmade
<1> QED BY <1>5, <1>6, <1>7, <1>8

LEMMA InsertOwn ==
  ASSUME OwnInv, NEW k \in Keys, NEW ko \in owned, NEW vo \in owned, ko # vo,
         Insert(k, ko, vo)
  PROVE  OwnInv'
<1> DEFINE e == [key |-> ko, value |-> vo]
<1>1. e \in Entry /\ e.value = vo /\ e.key = ko
  BY DEF OwnInv, TypeOK, Entry
<1>2. /\ DOMAIN entries' = DOMAIN entries \cup {k}
      /\ \A x \in DOMAIN entries' : entries'[x] = IF x = k THEN e ELSE entries[x]
  BY DEF Insert, Put
<1>3. owned' = owned \ {ko, vo} /\ buckets = "live" /\ UNCHANGED <<buckets, freed, made, closed>>
  BY DEF Insert
<1> HIDE DEF e
<1> QED BY <1>1, <1>2, <1>3, PutOwn

LEMMA UpdateOwn ==
  ASSUME OwnInv, NEW k \in Keys, NEW ko \in owned, NEW vo \in owned, ko # vo,
         Update(k, ko, vo)
  PROVE  OwnInv'
<1> DEFINE e == [key |-> entries[k].key, value |-> vo]
<1>1. k \in DOMAIN entries /\ entries[k] \in Entry
  BY DEF Update, OwnInv, TypeOK
<1>2. e \in Entry /\ e.value = vo /\ e.key = entries[k].key
  BY <1>1 DEF OwnInv, TypeOK, Entry
<1>3. [entries[k] EXCEPT !.value = vo] = e
  BY <1>1 DEF Entry
<1>4. /\ DOMAIN entries' = DOMAIN entries \cup {k}
      /\ \A x \in DOMAIN entries' : entries'[x] = IF x = k THEN e ELSE entries[x]
  BY <1>1, <1>3 DEF Update
<1>5. owned' = owned \ {ko, vo} /\ UNCHANGED <<buckets, freed, made, closed>>
  BY DEF Update
<1> HIDE DEF e
<1> QED BY <1>1, <1>2, <1>4, <1>5, PutOwn

\* RemoveEntry: the key's object is freed, the value's changes hands.
LEMMA RemoveOwn ==
  ASSUME OwnInv, NEW k \in Keys, RemoveEntry(k)
  PROVE  OwnInv'
<1> USE DEF OwnInv
<1> DEFINE ko == entries[k].key
           vo == entries[k].value
<1>1. k \in DOMAIN entries /\ ko \in Objects /\ vo \in Objects /\ ko # vo
      /\ ko \in Stored /\ vo \in Stored
  BY HeldStored DEF RemoveEntry, TypeOK, OneOwner, Entry
<1>2. /\ freed' = Freeing({ko}) /\ owned' = owned \cup {vo}
      /\ UNCHANGED <<buckets, made, closed>>
  BY DEF RemoveEntry
<1>3. /\ DOMAIN entries' = DOMAIN entries \ {k}
      /\ \A x \in DOMAIN entries' : entries'[x] = entries[x]
  BY DEF RemoveEntry, Restrict
<1>4. \A x \in DOMAIN entries' : Held(x)' = Held(x)
  BY <1>3 DEF Held
<1>5. ko \in Held(k) /\ vo \in Held(k)
  BY DEF Held
<1>6. Stored' \subseteq Stored \ {ko, vo}
  <2>1. SUFFICES ASSUME NEW x \in DOMAIN entries', NEW o \in Held(x)'
                 PROVE  o \in Stored /\ o # ko /\ o # vo
    BY DEF Stored
  <2>2. x \in DOMAIN entries /\ x # k /\ o \in Held(x)
    BY <2>1, <1>3, <1>4
  <2>3. Held(x) \cap Held(k) = {}
    BY <2>2, <1>1 DEF OneOwner
  <2>4. o \in Stored
    BY <2>2 DEF Stored
  <2> QED BY <2>2, <2>3, <2>4, <1>5
<1> HIDE DEF ko, vo
<1>7. /\ freed' \in [Objects -> 0 .. 1]
      /\ \A o \in Objects \ {ko} : freed'[o] = freed[o]
  BY <1>1, <1>2, FreeingOnce DEF TypeOK, NothingDangles
<1>8. TypeOK'
  <2>1. entries = << >> => DOMAIN entries = {}
    OBVIOUS
  <2>2. buckets = "live"
    BY <2>1, <1>1 DEF TypeOK
  <2> QED BY <2>2, <1>1, <1>2, <1>3, <1>7 DEF TypeOK
<1>9. OneOwner'
  <2>1. Stored' \cap owned' = {}
    BY <1>2, <1>6 DEF OneOwner
  <2>2. \A x \in DOMAIN entries' : entries'[x].key # entries'[x].value
    BY <1>3 DEF OneOwner
  <2>3. \A x, y \in DOMAIN entries' : x # y => Held(x)' \cap Held(y)' = {}
    BY <1>3, <1>4 DEF OneOwner
  <2> QED BY <2>1, <2>2, <2>3 DEF OneOwner
<1>10. \A o \in Stored \cup owned : o \in 1 .. made /\ o \in Objects
  BY ObjectsAssumption DEF Unmade, TypeOK, Objects
<1>11. ko \notin owned /\ ko # vo
  BY <1>1 DEF OneOwner
<1>12. NothingDangles'
  BY <1>1, <1>2, <1>6, <1>7, <1>10, <1>11 DEF NothingDangles
<1>13. Unmade'
  <2>1. Stored' \cup owned' \subseteq 1 .. made'
    BY <1>1, <1>2, <1>6, <1>10
  <2>2. ~(ko > made)
    BY <1>1, <1>10 DEF TypeOK
  <2>3. \A o \in Objects : o > made' => freed'[o] = 0
    BY <1>2, <1>7, <2>2 DEF Unmade
  <2> QED BY <2>1, <2>3 DEF Unmade
<1> QED BY <1>8, <1>9, <1>12, <1>13

\* A variable's object is freed and belongs to nobody afterwards.
LEMMA DropOwn ==
  ASSUME OwnInv, NEW o \in owned, Drop(o)
  PROVE  OwnInv'
<1> USE DEF OwnInv
<1>1. /\ owned' = owned \ {o} /\ freed' = Freeing({o})
      /\ UNCHANGED <<entries, buckets, made, closed>>
  BY DEF Drop
<1>2. Stored' = Stored /\ \A k : Held(k)' = Held(k)
  BY <1>1 DEF Stored, Held
<1>3. \A p \in Stored \cup owned : p \in 1 .. made /\ p \in Objects
  BY ObjectsAssumption DEF Unmade, TypeOK, Objects
<1>4. /\ freed' \in [Objects -> 0 .. 1]
      /\ \A p \in Objects \ {o} : freed'[p] = freed[p]
  BY <1>1, FreeingOnce DEF TypeOK, NothingDangles
<1>5. TypeOK'
  BY <1>1, <1>4 DEF TypeOK
<1>6. OneOwner'
  BY <1>1, <1>2 DEF OneOwner
<1>7. NothingDangles'
  <2>1. o \notin Stored
    BY DEF OneOwner
  <2> QED BY <1>1, <1>2, <1>3, <1>4, <2>1 DEF NothingDangles
<1>8. Unmade'
  <2>1. ~(o > made)
    BY <1>3 DEF TypeOK
  <2> QED BY <1>1, <1>2, <1>4, <2>1 DEF Unmade
<1> QED BY <1>5, <1>6, <1>7, <1>8

\* The map is emptied: free(), destroy() and the scope exit.
LEMMA EmptiedOwn ==
  ASSUME OwnInv, NEW S \in SUBSET owned,
         entries' = << >>, freed' = Freeing(Stored \cup S), owned' = owned \ S,
         buckets' \in {"live", "null"}, closed' \in BOOLEAN, made' = made
  PROVE  OwnInv'
<1> USE DEF OwnInv
<1>1. DOMAIN entries' = {} /\ Stored' = {}
  BY DEF Stored
<1>2. \A p \in Stored \cup owned : p \in 1 .. made /\ p \in Objects
  BY ObjectsAssumption DEF Unmade, TypeOK, Objects
<1>3. /\ freed' \in [Objects -> 0 .. 1]
      /\ \A p \in Objects \ (Stored \cup S) : freed'[p] = freed[p]
  BY FreeingOnce DEF TypeOK, NothingDangles
<1>4. TypeOK'
  BY <1>1, <1>3 DEF TypeOK
<1>5. OneOwner'
  BY <1>1 DEF OneOwner
<1>6. NothingDangles'
  BY <1>1, <1>2, <1>3 DEF NothingDangles, OneOwner
<1>7. Unmade'
  <2>1. \A p \in Stored \cup S : ~(p > made)
    BY <1>2 DEF TypeOK
  <2> QED BY <1>1, <1>3, <2>1 DEF Unmade
<1> QED BY <1>4, <1>5, <1>6, <1>7

LEMMA StepOwn == OwnInv /\ [Next]_vars => OwnInv'
<1> SUFFICES ASSUME OwnInv, [Next]_vars PROVE OwnInv'
  OBVIOUS
<1>1. CASE Make
  BY <1>1, MakeOwn
<1>2. ASSUME NEW k \in Keys, NEW ko \in owned, NEW vo \in owned, ko # vo,
             Insert(k, ko, vo) \/ Update(k, ko, vo)
      PROVE  OwnInv'
  BY <1>2, InsertOwn, UpdateOwn
<1>3. ASSUME NEW k \in Keys, RemoveEntry(k) PROVE OwnInv'
  BY <1>3, RemoveOwn
<1>4. ASSUME NEW o \in owned, Drop(o) PROVE OwnInv'
  BY <1>4, DropOwn
<1>5. CASE Free
  <2>1. /\ entries' = << >> /\ freed' = Freeing(Stored \cup {}) /\ owned' = owned \ {}
        /\ buckets' \in {"live", "null"} /\ closed' \in BOOLEAN /\ made' = made
    BY <1>5 DEF Free, OwnInv, TypeOK
  <2> QED BY <2>1, EmptiedOwn
<1>6. CASE Destroy
  <2>1. /\ entries' = << >> /\ freed' = Freeing(Stored \cup {}) /\ owned' = owned \ {}
        /\ buckets' \in {"live", "null"} /\ closed' \in BOOLEAN /\ made' = made
    BY <1>6 DEF Destroy, OwnInv, TypeOK
  <2> QED BY <2>1, EmptiedOwn
<1>7. CASE ScopeExit
  <2>1. /\ entries' = << >> /\ freed' = Freeing(Stored \cup owned) /\ owned' = owned \ owned
        /\ buckets' \in {"live", "null"} /\ closed' \in BOOLEAN /\ made' = made
    BY <1>7 DEF ScopeExit, OwnInv, TypeOK
  <2> QED BY <2>1, EmptiedOwn
<1>8. CASE UNCHANGED vars
  BY <1>8 DEF vars, OwnInv, TypeOK, OneOwner, NothingDangles, Unmade, Stored, Held
<1> QED BY <1>1, <1>2, <1>3, <1>4, <1>5, <1>6, <1>7, <1>8 DEF Next

LEMMA Invariance == Spec => []OwnInv
  BY InitOwn, StepOwn, PTL DEF Spec

\* The types of the ownership model hold in every behaviour: in particular no
\* object is ever freed twice (freed stays at most 1).
THEOREM OwnershipTypes == Spec => []TypeOK
<1>1. OwnInv => TypeOK
  BY DEF OwnInv
<1> QED BY <1>1, Invariance, PTL

\* Every live object has one owner, through every order of insert, update,
\* remove, free, destroy and scope exit.
THEOREM SingleOwner == Spec => []OneOwner
<1>1. OwnInv => OneOwner
  BY DEF OwnInv
<1> QED BY <1>1, Invariance, PTL

\* Nothing the map stores or a variable owns has been freed.
THEOREM NoDangling == Spec => []NothingDangles
<1>1. OwnInv => NothingDangles
  BY DEF OwnInv
<1> QED BY <1>1, Invariance, PTL

-----------------------------------------------------------------------------
(* Lists and dynamic arrays. *)

\* The slot of element i: the hole an insert has made is skipped.
Kept(c, i) == IF c.op = "store" /\ i > c.at THEN i + 1 ELSE i

\* What a header and a memory show while call c is under way.
View(h, m, c) ==
    IF c.op = "store" THEN RemoveAt(InUse([h EXCEPT !.len = @ + 1], m), c.at + 1)
    ELSE InUse(h, m)

\* The buffer covers the capacity, the capacity the length, and nothing else is allocated.
Covers(h, m) ==
    /\ h.len <= h.cap /\ h.cap <= Len(Behind(m, h.data))
    /\ \A b \in Blocks : m[b] # <<>> => b = h.data

\* A call works with the header as it is, and a call that stores has room.
CallOf(h, c) ==
    \/ c = NoCall
    \/ \E op \in {"insert", "get", "remove", "reserve"} : c = [op |-> op, seen |-> h]
    \/ c = [op |-> "push", seen |-> h] /\ h.len < MaxLen /\ h.len < h.cap
    \/ \E i \in 0..h.len : c = [op |-> "store", seen |-> h, at |-> i] /\ h.len < MaxLen /\ h.len < h.cap

Sound(h, m, c) ==
    /\ h \in Headers /\ m \in Memories
    /\ Covers(h, m)
    /\ CallOf(h, c)
    /\ \A i \in 1..h.len : Behind(m, h.data)[Kept(c, i)] \in Elems

\* Each owned element is in one slot or with the caller.
Owned(s, l, d) ==
    /\ IsInjective(s)
    /\ ToSet(s) \cap d = {}
    /\ l = ToSet(s) \cup d

\* t is s with e at position p; t is s without position p.
Placed(s, p, e, t) ==
    /\ Len(t) = Len(s) + 1
    /\ \A i \in 1..(Len(s) + 1) : t[i] = IF i < p THEN s[i] ELSE IF i = p THEN e ELSE s[i - 1]

Taken(s, p, t) ==
    /\ Len(t) = Len(s) - 1
    /\ \A i \in 1..(Len(s) - 1) : t[i] = IF i < p THEN s[i] ELSE s[i + 1]

\* The slots of h in m hold s, with a hole after the first p of them.
HoldsAround(h, m, p, s) ==
    \A i \in 1..h.len : Behind(m, h.data)[IF i > p THEN i + 1 ELSE i] = s[i]

\* Header g and memory n are h and m with e in slot p and one element more.
PutIn(h, m, p, e, g, n) ==
    g = [h EXCEPT !.len = h.len + 1] /\ n = Write(m, h.data, p, e)

\* w is m with the n slots of b from slot i on copied to slot j and following.
IsShift(m, b, i, j, n, w) ==
    /\ w \in Memories /\ Len(w[b]) = Len(m[b])
    /\ \A y \in Blocks : w[y] # <<>> => y = b
    /\ \A k \in 1..Len(m[b]) : w[b][k] = IF j < k /\ k <= j + n THEN m[b][k - j + i] ELSE m[b][k]

\* What remove does to an index within bounds.
Closes(i) ==
    /\ call' = NoCall
    /\ mem' = Shifted(mem, hdr.data, i + 1, i, hdr.len - i - 1)
    /\ hdr' = [hdr EXCEPT !.len = hdr.len - 1]

\* The buffer moves to x with room for n elements; the last element leaves.
Resizes(n, x) ==
    /\ call' = NoCall
    /\ mem' = Moved(mem, hdr.data, x, n)
    /\ hdr' = [hdr EXCEPT !.cap = n, !.data = x]

Shortens == call' = call /\ mem' = mem /\ hdr' = [hdr EXCEPT !.len = @ - 1]

\* The slots of the buffer get new contents f.
Rewrites(f) == call' = NoCall /\ hdr' = hdr /\ mem' = [mem EXCEPT ![hdr.data] = f]

Holds(f, s, n) == Len(s) = n /\ \A i \in 1..n : f[i] = s[i]

IndInv ==
    /\ SequenceTypeOK
    /\ Sound(hdr, mem, call)
    /\ kind = "array" => call = NoCall
    /\ IF owning THEN Owned(View(hdr, mem, call), live, held) ELSE live = {} /\ held = {}
    /\ lost \cap live = {} /\ (~owning => lost = {})
    /\ ~fault

\* Who owns what after a step.
OwnedNext ==
    /\ live' \subseteq Elems /\ held' \subseteq Elems
    /\ IF owning THEN Owned(Contents', live', held') ELSE live' = {} /\ held' = {}
    /\ lost' \subseteq Elems /\ lost' \cap live' = {} /\ (~owning => lost' = {})

Assumptions == RoomAssumption /\ NamesAssumption /\ WellBehaved

-----------------------------------------------------------------------------
(* The capacity of a literal.  Numbers are well founded, which gives        *)
(* induction as a fact about sets of numbers.                               *)

Less == {p \in Nat \X Nat : p[1] < p[2]}

LEMMA LessWellFounded == IsWellFoundedOn(Less, Nat)
BY NatLessThanWellFounded DEF OpToRel, Less

\* A set of numbers that has 0, and with a number the next one, has them all.
LEMMA AllNumbers ==
  ASSUME NEW T, 0 \in T, \A k \in Nat : k \in T => k + 1 \in T
  PROVE  Nat \subseteq T
<1> SUFFICES ASSUME Nat \ T # {} PROVE FALSE
  OBVIOUS
<1>1. PICK m \in Nat \ T : \A k \in Nat \ T : ~(<<k, m>> \in Less)
  BY LessWellFounded, WFMin
<1>2. m # 0 /\ m - 1 \in Nat /\ m - 1 < m
  BY <1>1
<1>3. <<m - 1, m>> \in Less
  BY <1>1, <1>2 DEF Less
<1>4. m - 1 \in T
  BY <1>1, <1>2, <1>3
<1>5. (m - 1) + 1 = m
  BY <1>1
<1> QED
  BY <1>1, <1>2, <1>4, <1>5

\* The first k + 1 powers, as a sequence that doubles.
Doubles(k, g) == g \in [0..k -> Nat] /\ g[0] = 1 /\ \A i \in 1..k : g[i] = 2 * g[i - 1]

LEMMA DoublesExists == \A k \in Nat : \E g : Doubles(k, g)
<1> DEFINE T == {k \in Nat : \E g : Doubles(k, g)}
<1>1. 0 \in T
  <2>1. Doubles(0, [i \in 0..0 |-> 1])
    BY DEF Doubles
  <2> QED BY <2>1
<1>2. ASSUME NEW k \in Nat, k \in T PROVE k + 1 \in T
  <2>1. PICK g : Doubles(k, g)
    BY <1>2
  <2> DEFINE h == [i \in 0..(k + 1) |-> IF i = k + 1 THEN 2 * g[k] ELSE g[i]]
  <2>2. g \in [0..k -> Nat] /\ g[0] = 1 /\ \A i \in 1..k : g[i] = 2 * g[i - 1]
    BY <2>1 DEF Doubles
  <2>3. h \in [0..(k + 1) -> Nat]
    BY <2>2
  <2>4. h[0] = 1
    BY <2>2
  <2>5. ASSUME NEW i \in 1..(k + 1) PROVE h[i] = 2 * h[i - 1]
    <3>1. CASE i = k + 1
      BY <3>1
    <3>2. CASE i # k + 1
      <4>1. i \in 1..k /\ i - 1 \in 0..k /\ i \in 0..(k + 1) /\ i - 1 # k + 1
        BY <3>2
      <4> QED BY <4>1, <2>2, <3>2
    <3> QED BY <3>1, <3>2
  <2>6. Doubles(k + 1, h)
    BY <2>3, <2>4, <2>5 DEF Doubles
  <2> QED BY <2>6
<1> HIDE DEF T
<1>3. Nat \subseteq T
  BY <1>1, <1>2, AllNumbers
<1> QED BY <1>3 DEF T

LEMMA DoublesUnique ==
  ASSUME NEW k \in Nat, NEW m \in Nat, NEW g, NEW h, Doubles(k, g), Doubles(m, h)
  PROVE  \A i \in Nat : i <= k /\ i <= m => g[i] = h[i]
<1> DEFINE T == {i \in Nat : i <= k /\ i <= m => g[i] = h[i]}
<1>1. 0 \in T
  BY DEF Doubles
<1>2. ASSUME NEW i \in Nat, i \in T PROVE i + 1 \in T
  <2>1. SUFFICES ASSUME i + 1 <= k, i + 1 <= m PROVE g[i + 1] = h[i + 1]
    OBVIOUS
  <2>2. i + 1 \in 1..k /\ i + 1 \in 1..m /\ (i + 1) - 1 = i /\ i <= k /\ i <= m
    BY <2>1
  <2>3. g[i] = h[i]
    BY <1>2, <2>2
  <2>4. g[i + 1] = 2 * g[i] /\ h[i + 1] = 2 * h[i]
    BY <2>2 DEF Doubles
  <2> QED BY <2>3, <2>4
<1> HIDE DEF T
<1>3. Nat \subseteq T
  BY <1>1, <1>2, AllNumbers
<1> QED BY <1>3 DEF T

\* The function that doubles is defined.
LEMMA PowerDefined == Power = [i \in Nat |-> IF i = 0 THEN 1 ELSE 2 * Power[i - 1]]
<1> DEFINE upTo(k) == CHOOSE g : Doubles(k, g)
           f == [i \in Nat |-> upTo(i)[i]]
<1>1. \A k \in Nat : Doubles(k, upTo(k))
  BY DoublesExists
<1> HIDE DEF upTo
<1>2. f[0] = 1
  BY <1>1 DEF Doubles
<1>3. ASSUME NEW i \in Nat, i # 0 PROVE f[i] = 2 * f[i - 1]
  <2>1. i \in 1..i /\ i - 1 \in Nat
    BY <1>3
  <2>2. upTo(i)[i] = 2 * upTo(i)[i - 1]
    BY <1>1, <2>1 DEF Doubles
  <2>3. Doubles(i, upTo(i)) /\ Doubles(i - 1, upTo(i - 1))
    BY <1>1, <2>1
  <2>4. upTo(i)[i - 1] = upTo(i - 1)[i - 1]
    BY <2>1, <2>3, DoublesUnique
  <2> QED BY <2>1, <2>2, <2>4
<1>4. f = [i \in Nat |-> IF i = 0 THEN 1 ELSE 2 * f[i - 1]]
  BY <1>2, <1>3
<1> HIDE DEF f
<1> QED BY <1>4 DEF Power

LEMMA PowerFacts ==
  /\ Power[0] = 1
  /\ \A i \in Nat : Power[i + 1] = 2 * Power[i] /\ Power[i] \in Nat /\ i < Power[i]
<1>1. Power[0] = 1
  BY PowerDefined
<1>2. \A i \in Nat : Power[i + 1] = 2 * Power[i]
  <2> SUFFICES ASSUME NEW i \in Nat PROVE Power[i + 1] = 2 * Power[i]
    OBVIOUS
  <2>1. i + 1 \in Nat /\ i + 1 # 0 /\ (i + 1) - 1 = i
    OBVIOUS
  <2> QED BY <2>1, PowerDefined
<1> DEFINE T == {i \in Nat : Power[i] \in Nat /\ i < Power[i]}
<1>3. 0 \in T
  BY <1>1
<1>4. \A i \in Nat : i \in T => i + 1 \in T
  BY <1>2
<1> HIDE DEF T
<1>5. Nat \subseteq T
  BY <1>3, <1>4, AllNumbers
<1> QED BY <1>1, <1>2, <1>5 DEF T

\* The doubling that sizes a literal ends below twice its elements.
LEMMA PowerForBounds == \A n \in Nat : n >= 1 => PowerFor(n) \in n..(2 * n)
<1> SUFFICES ASSUME NEW n \in Nat, n >= 1 PROVE PowerFor(n) \in n..(2 * n)
  OBVIOUS
<1> DEFINE big == {i \in Nat : Power[i] >= n}
           fits(c) == c >= n /\ (c = 1 \/ c \div 2 < n)
<1>1. n \in big
  BY PowerFacts
<1>2. PICK m \in big : \A k \in big : ~(<<k, m>> \in Less)
  <2>1. big \subseteq Nat /\ big # {}
    BY <1>1
  <2> HIDE DEF big
  <2> QED BY <2>1, LessWellFounded, WFMin
<1>3. m \in Nat /\ Power[m] >= n /\ Power[m] \in Nat
  BY <1>2, PowerFacts
<1>4. m <= n
  <2>1. <<n, m>> \notin Less
    BY <1>1, <1>2
  <2> HIDE DEF big
  <2> QED BY <1>3, <2>1 DEF Less
<1>5. Power[m] = 1 \/ Power[m] \div 2 < n
  <2>1. CASE m = 0
    BY <2>1, PowerFacts
  <2>2. CASE m # 0
    <3>1. m - 1 \in Nat /\ m - 1 < m /\ (m - 1) + 1 = m
      BY <2>2, <1>3
    <3>2. m - 1 \notin big
      BY <1>2, <1>3, <3>1 DEF Less
    <3>3. Power[m] = 2 * Power[m - 1] /\ Power[m - 1] \in Nat /\ Power[m - 1] < n
      BY <3>1, <3>2, PowerFacts
    <3> QED BY <3>3
  <2> QED BY <2>1, <2>2
<1>6. \E c \in {Power[i] : i \in 0..n} : fits(c)
  BY <1>3, <1>4, <1>5
<1>7. PowerFor(n) \in {Power[i] : i \in 0..n} /\ fits(PowerFor(n))
  BY <1>6 DEF PowerFor
<1>8. PowerFor(n) \in Nat
  BY <1>7, PowerFacts
<1> QED BY <1>7, <1>8

-----------------------------------------------------------------------------
(* The operators of the sequence module, slot by slot. *)

LEMMA FunctionIsSeq ==
  ASSUME NEW S, NEW n \in Nat, NEW f \in [1..n -> S]
  PROVE  f \in Seq(S) /\ Len(f) = n
<1>1. f \in Seq(S)
  BY SeqDef
<1> QED BY <1>1, LenProperties

LEMMA RemoveAtIs ==
  ASSUME NEW S, NEW s \in Seq(S), NEW p \in 1..Len(s)
  PROVE  /\ RemoveAt(s, p) \in Seq(S) /\ Len(RemoveAt(s, p)) = Len(s) - 1
         /\ \A i \in 1..(Len(s) - 1) : RemoveAt(s, p)[i] = IF i < p THEN s[i] ELSE s[i + 1]
<1> DEFINE l == SubSeq(s, 1, p - 1)
           r == SubSeq(s, p + 1, Len(s))
<1>0. Len(s) \in Nat /\ p \in Int /\ \A i \in 1..Len(s) : s[i] \in S
  BY LenProperties
<1>1. /\ l \in Seq(S) /\ Len(l) = p - 1
      /\ \A i \in 1..(p - 1) : l[i] = s[i]
  BY <1>0, SubSeqProperties
<1>2. /\ r \in Seq(S) /\ Len(r) = Len(s) - p
      /\ \A i \in 1..(Len(s) - p) : r[i] = s[p + i]
  BY <1>0, SubSeqProperties
<1>3. RemoveAt(s, p) = l \o r
  BY DEF RemoveAt
<1>4. /\ l \o r \in Seq(S) /\ Len(l \o r) = Len(s) - 1
      /\ \A i \in 1..(Len(s) - 1) : (l \o r)[i] = IF i <= p - 1 THEN l[i] ELSE r[i - (p - 1)]
  <2> HIDE DEF l, r
  <2> QED BY <1>0, <1>1, <1>2, ConcatProperties
<1> HIDE DEF l, r
<1>5. ASSUME NEW i \in 1..(Len(s) - 1)
      PROVE  (l \o r)[i] = IF i < p THEN s[i] ELSE s[i + 1]
  <2>1. CASE i < p
    BY <2>1, <1>0, <1>1, <1>4
  <2>2. CASE ~(i < p)
    <3>1. (l \o r)[i] = r[i - (p - 1)] /\ i - (p - 1) \in 1..(Len(s) - p)
      BY <2>2, <1>0, <1>4
    <3>2. r[i - (p - 1)] = s[p + (i - (p - 1))] /\ p + (i - (p - 1)) = i + 1
      BY <3>1, <1>0, <1>2
    <3> QED BY <2>2, <3>1, <3>2
  <2> QED BY <2>1, <2>2
<1> QED BY <1>3, <1>4, <1>5

LEMMA InsertAtIs ==
  ASSUME NEW S, NEW s \in Seq(S), NEW p \in 1..(Len(s) + 1), NEW e \in S
  PROVE  /\ InsertAt(s, p, e) \in Seq(S) /\ Len(InsertAt(s, p, e)) = Len(s) + 1
         /\ \A i \in 1..(Len(s) + 1) :
              InsertAt(s, p, e)[i] = IF i < p THEN s[i] ELSE IF i = p THEN e ELSE s[i - 1]
<1> DEFINE l == SubSeq(s, 1, p - 1)
           m == l \o <<e>>
           r == SubSeq(s, p, Len(s))
<1>0. Len(s) \in Nat /\ p \in Int /\ \A i \in 1..Len(s) : s[i] \in S
  BY LenProperties
<1>1. /\ l \in Seq(S) /\ Len(l) = p - 1
      /\ \A i \in 1..(p - 1) : l[i] = s[i]
  BY <1>0, SubSeqProperties
<1>2. /\ r \in Seq(S) /\ Len(r) = Len(s) - p + 1
      /\ \A i \in 1..(Len(s) - p + 1) : r[i] = s[p + i - 1]
  BY <1>0, SubSeqProperties
<1>3. InsertAt(s, p, e) = m \o r
  BY DEF InsertAt
<1>4. /\ m \in Seq(S) /\ Len(m) = p
      /\ \A i \in 1..p : m[i] = IF i < p THEN s[i] ELSE e
  <2> HIDE DEF l
  <2>1. <<e>> \in Seq(S) /\ Len(<<e>>) = 1 /\ <<e>>[1] = e
    OBVIOUS
  <2>2. /\ m \in Seq(S) /\ Len(m) = p
        /\ \A i \in 1..p : m[i] = IF i <= p - 1 THEN l[i] ELSE <<e>>[i - (p - 1)]
    BY <2>1, <1>0, <1>1, ConcatProperties
  <2> HIDE DEF m
  <2> QED BY <2>1, <2>2, <1>0, <1>1
<1> HIDE DEF m, r
<1>5. /\ m \o r \in Seq(S) /\ Len(m \o r) = Len(s) + 1
      /\ \A i \in 1..(Len(s) + 1) : (m \o r)[i] = IF i <= p THEN m[i] ELSE r[i - p]
  <2>1. /\ m \o r \in Seq(S) /\ Len(m \o r) = Len(m) + Len(r)
        /\ \A i \in 1..(Len(m) + Len(r)) : (m \o r)[i] = IF i <= Len(m) THEN m[i] ELSE r[i - Len(m)]
    BY <1>2, <1>4, ConcatProperties
  <2>2. Len(m) + Len(r) = Len(s) + 1 /\ Len(m) = p
    BY <1>0, <1>2, <1>4
  <2> QED BY <2>1, <2>2
<1>6. ASSUME NEW i \in 1..(Len(s) + 1)
      PROVE  (m \o r)[i] = IF i < p THEN s[i] ELSE IF i = p THEN e ELSE s[i - 1]
  <2>1. CASE i <= p
    <3>1. (m \o r)[i] = m[i] /\ i \in 1..p
      BY <2>1, <1>0, <1>5
    <3> QED BY <3>1, <1>0, <1>4
  <2>2. CASE ~(i <= p)
    <3>1. (m \o r)[i] = r[i - p] /\ i - p \in 1..(Len(s) - p + 1)
      BY <2>2, <1>0, <1>5
    <3>2. r[i - p] = s[p + (i - p) - 1] /\ p + (i - p) - 1 = i - 1
      BY <3>1, <1>0, <1>2
    <3>3. ~(i < p) /\ i # p
      BY <2>2, <1>0
    <3>4. i - 1 \in Int /\ p + (i - p) - 1 \in Int
      BY <1>0
    <3>5. s[p + (i - p) - 1] = s[i - 1]
      BY <3>2, <3>4
    <3> QED BY <3>1, <3>2, <3>3, <3>5
  <2> QED BY <2>1, <2>2
<1> QED BY <1>3, <1>5, <1>6

LEMMA FrontIs ==
  ASSUME NEW S, NEW s \in Seq(S), Len(s) > 0
  PROVE  /\ Front(s) \in Seq(S) /\ Len(Front(s)) = Len(s) - 1
         /\ \A i \in 1..(Len(s) - 1) : Front(s)[i] = s[i]
         /\ Last(s) = s[Len(s)] /\ Last(s) \in S
<1>0. Len(s) \in Nat /\ \A i \in 1..Len(s) : s[i] \in S
  BY LenProperties
<1>1. /\ SubSeq(s, 1, Len(s) - 1) \in Seq(S)
      /\ Len(SubSeq(s, 1, Len(s) - 1)) = IF 1 <= Len(s) - 1 THEN Len(s) - 1 - 1 + 1 ELSE 0
      /\ \A i \in 1..(Len(s) - 1 - 1 + 1) : SubSeq(s, 1, Len(s) - 1)[i] = s[1 + i - 1]
  BY <1>0, SubSeqProperties
<1>2. \A i \in 1..(Len(s) - 1) : SubSeq(s, 1, Len(s) - 1)[i] = s[i]
  BY <1>0, <1>1
<1>3. Front(s) = SubSeq(s, 1, Len(s) - 1) /\ Last(s) = s[Len(s)]
  BY DEF Front, Last
<1>4. s[Len(s)] \in S
  BY <1>0
<1>5. Len(SubSeq(s, 1, Len(s) - 1)) = Len(s) - 1
  <2>1. CASE 1 <= Len(s) - 1
    BY <2>1, <1>0, <1>1
  <2>2. CASE ~(1 <= Len(s) - 1)
    <3>1. Len(s) = 1
      BY <2>2, <1>0
    <3> QED BY <3>1, <2>2, <1>1
  <2> QED BY <2>1, <2>2
<1> QED BY <1>1, <1>2, <1>3, <1>4, <1>5

LEMMA ReverseIs ==
  ASSUME NEW S, NEW s \in Seq(S)
  PROVE  /\ Reverse(s) \in Seq(S) /\ Len(Reverse(s)) = Len(s)
         /\ \A i \in 1..Len(s) : Reverse(s)[i] = s[Len(s) - i + 1]
<1>0. Len(s) \in Nat /\ \A i \in 1..Len(s) : s[i] \in S
  BY LenProperties
<1>1. Reverse(s) \in [1..Len(s) -> S] /\ \A i \in 1..Len(s) : Reverse(s)[i] = s[Len(s) - i + 1]
  BY <1>0 DEF Reverse
<1> QED BY <1>0, <1>1, FunctionIsSeq

LEMMA AppendIs ==
  ASSUME NEW S, NEW s \in Seq(S), NEW e \in S
  PROVE  /\ Append(s, e) \in Seq(S) /\ Len(Append(s, e)) = Len(s) + 1
         /\ \A i \in 1..(Len(s) + 1) : Append(s, e)[i] = IF i = Len(s) + 1 THEN e ELSE s[i]
<1>0. Len(s) \in Nat
  BY LenProperties
<1> QED BY <1>0, AppendProperties

LEMMA ToSetIs ==
  ASSUME NEW S, NEW s \in Seq(S)
  PROVE  /\ Len(s) \in Nat /\ DOMAIN s = 1..Len(s) /\ \A i \in 1..Len(s) : s[i] \in S
         /\ IsInjective(s) <=> \A i, j \in 1..Len(s) : s[i] = s[j] => i = j
         /\ ToSet(s) \subseteq S
         /\ \A i \in 1..Len(s) : s[i] \in ToSet(s)
         /\ \A x : x \in ToSet(s) <=> \E i \in 1..Len(s) : s[i] = x
<1>1. Len(s) \in Nat /\ DOMAIN s = 1..Len(s) /\ \A i \in 1..Len(s) : s[i] \in S
  BY LenProperties
<1> QED BY <1>1 DEF IsInjective, ToSet

-----------------------------------------------------------------------------
(* Who owns what when an element joins or leaves the sequence. *)

\* A new element, or one the caller was handed, goes between the others.
LEMMA OwnedPut ==
  ASSUME NEW s \in Seq(Elems), NEW t \in Seq(Elems), NEW l, NEW d, NEW e \in Elems,
         NEW p \in 1..(Len(s) + 1),
         Owned(s, l, d), e \notin l \/ e \in d,
         Placed(s, p, e, t)
  PROVE  Owned(t, l \cup {e}, d \ {e})
<1>0. /\ Len(t) = Len(s) + 1
      /\ \A i \in 1..(Len(s) + 1) : t[i] = IF i < p THEN s[i] ELSE IF i = p THEN e ELSE s[i - 1]
  BY DEF Placed
<1>1. /\ Len(s) \in Nat /\ p \in Int
      /\ \A x : x \in ToSet(s) <=> \E i \in 1..Len(s) : s[i] = x
      /\ \A x : x \in ToSet(t) <=> \E i \in 1..Len(t) : t[i] = x
  BY ToSetIs
<1>2. \A i, j \in 1..Len(s) : s[i] = s[j] => i = j
  BY ToSetIs DEF Owned
<1>3. e \notin ToSet(s)
  BY DEF Owned
<1>4. \A i \in 1..Len(s) : s[i] # e
  BY <1>0, <1>1, <1>3
<1>5. ASSUME NEW i \in 1..Len(t), NEW j \in 1..Len(t), t[i] = t[j]
      PROVE  i = j
  <2>1. i \in 1..(Len(s) + 1) /\ j \in 1..(Len(s) + 1) /\ i \in Int /\ j \in Int
    BY <1>0, <1>1
  <2>2. CASE i = p
    <3>1. t[j] = e /\ ~(i < p)
      BY <2>1, <2>2, <1>0, <1>1, <1>5
    <3>2. j = p
      BY <3>1, <2>1, <1>0, <1>1, <1>4
    <3> QED BY <2>2, <3>2
  <2>3. CASE j = p
    <3>1. t[i] = e /\ ~(j < p)
      BY <2>1, <2>3, <1>0, <1>1, <1>5
    <3>2. i = p
      BY <3>1, <2>1, <1>0, <1>1, <1>4
    <3> QED BY <2>3, <3>2
  <2>4. CASE i # p /\ j # p
    <3> DEFINE u == IF i < p THEN i ELSE i - 1
               v == IF j < p THEN j ELSE j - 1
    <3>1. t[i] = s[u] /\ u \in 1..Len(s) /\ t[j] = s[v] /\ v \in 1..Len(s)
      BY <2>1, <2>4, <1>0, <1>1
    <3>2. u = v
      BY <3>1, <1>2, <1>5
    <3> QED BY <3>2, <2>1, <2>4, <1>0, <1>1
  <2> QED BY <2>2, <2>3, <2>4
<1>6. IsInjective(t)
  BY <1>5, ToSetIs
<1>7. ASSUME NEW x
      PROVE  x \in ToSet(t) <=> x \in ToSet(s) \/ x = e
  <2>1. ASSUME NEW i \in 1..Len(s), s[i] = x
        PROVE  \E j \in 1..Len(t) : t[j] = x
    <3>1. CASE i < p
      BY <3>1, <2>1, <1>0, <1>1
    <3>2. CASE ~(i < p)
      <4>1. i + 1 \in 1..(Len(s) + 1) /\ ~(i + 1 < p) /\ i + 1 # p /\ (i + 1) - 1 = i
        BY <3>2, <1>0, <1>1
      <4>2. t[i + 1] = s[i]
        BY <4>1, <1>0
      <4> QED BY <4>1, <4>2, <2>1, <1>0
    <3> QED BY <3>1, <3>2
  <2>2. \E j \in 1..Len(t) : t[j] = e
    BY <1>0, <1>1
  <2>3. ASSUME NEW j \in 1..Len(t)
        PROVE  t[j] \in ToSet(s) \/ t[j] = e
    <3>1. CASE j = p
      BY <3>1, <1>0, <1>1
    <3>2. CASE j # p
      <4> DEFINE u == IF j < p THEN j ELSE j - 1
      <4>1. t[j] = s[u] /\ u \in 1..Len(s)
        BY <3>2, <1>0, <1>1
      <4> QED BY <4>1, <1>0, <1>1
    <3> QED BY <3>1, <3>2
  <2> QED BY <2>1, <2>2, <2>3, <1>0, <1>1
<1> QED BY <1>6, <1>7 DEF Owned

\* An element leaves the sequence for the caller.
LEMMA OwnedTaken ==
  ASSUME NEW s \in Seq(Elems), NEW t \in Seq(Elems), NEW l, NEW d, NEW p \in 1..Len(s),
         Owned(s, l, d),
         Taken(s, p, t)
  PROVE  Owned(t, l, d \cup {s[p]})
<1>0. /\ Len(t) = Len(s) - 1
      /\ \A i \in 1..(Len(s) - 1) : t[i] = IF i < p THEN s[i] ELSE s[i + 1]
  BY DEF Taken
<1>1. /\ Len(s) \in Nat /\ p \in Int
      /\ \A x : x \in ToSet(s) <=> \E i \in 1..Len(s) : s[i] = x
      /\ \A x : x \in ToSet(t) <=> \E i \in 1..Len(t) : t[i] = x
  BY ToSetIs
<1>2. \A i, j \in 1..Len(s) : s[i] = s[j] => i = j
  BY ToSetIs DEF Owned
<1>3. ASSUME NEW i \in 1..Len(t)
      PROVE  \E u \in 1..Len(s) : t[i] = s[u] /\ u = IF i < p THEN i ELSE i + 1
  BY <1>0, <1>1
<1>4. ASSUME NEW i \in 1..Len(t), NEW j \in 1..Len(t), t[i] = t[j]
      PROVE  i = j
  <2>1. PICK u \in 1..Len(s) : t[i] = s[u] /\ u = IF i < p THEN i ELSE i + 1
    BY <1>3
  <2>2. PICK v \in 1..Len(s) : t[j] = s[v] /\ v = IF j < p THEN j ELSE j + 1
    BY <1>3
  <2>3. u = v
    BY <2>1, <2>2, <1>2, <1>4
  <2> QED BY <2>1, <2>2, <2>3, <1>0, <1>1
<1>5. IsInjective(t)
  BY <1>4, ToSetIs
<1>6. ASSUME NEW x
      PROVE  x \in ToSet(t) <=> x \in ToSet(s) /\ x # s[p]
  <2>1. ASSUME NEW i \in 1..Len(s), s[i] = x, x # s[p]
        PROVE  \E j \in 1..Len(t) : t[j] = x
    <3>1. CASE i < p
      BY <3>1, <2>1, <1>0, <1>1
    <3>2. CASE i > p
      <4>1. i - 1 \in 1..(Len(s) - 1) /\ ~(i - 1 < p) /\ (i - 1) + 1 = i
        BY <3>2, <1>0, <1>1
      <4>2. t[i - 1] = s[i]
        BY <4>1, <1>0
      <4> QED BY <4>1, <4>2, <2>1, <1>0
    <3> QED BY <3>1, <3>2, <2>1, <1>0, <1>1
  <2>2. ASSUME NEW j \in 1..Len(t)
        PROVE  t[j] \in ToSet(s) /\ t[j] # s[p]
    <3>1. PICK u \in 1..Len(s) : t[j] = s[u] /\ u = IF j < p THEN j ELSE j + 1
      BY <1>3
    <3>2. u # p
      BY <3>1, <1>0, <1>1
    <3> QED BY <3>1, <3>2, <1>0, <1>1, <1>2
  <2> QED BY <2>1, <2>2, <1>0, <1>1
<1>7. s[p] \in ToSet(s)
  BY <1>0, <1>1
<1> QED BY <1>5, <1>6, <1>7 DEF Owned

LEMMA OwnedReversed ==
  ASSUME NEW s \in Seq(Elems), NEW l, NEW d, Owned(s, l, d)
  PROVE  Owned(Reverse(s), l, d)
<1> DEFINE t == Reverse(s)
<1>1. /\ t \in Seq(Elems) /\ Len(t) = Len(s)
      /\ \A i \in 1..Len(s) : t[i] = s[Len(s) - i + 1]
  BY ReverseIs
<1> HIDE DEF t
<1>2. /\ Len(s) \in Nat
      /\ \A x : x \in ToSet(s) <=> \E i \in 1..Len(s) : s[i] = x
      /\ \A x : x \in ToSet(t) <=> \E i \in 1..Len(t) : t[i] = x
  BY <1>1, ToSetIs
<1>3. \A i, j \in 1..Len(s) : s[i] = s[j] => i = j
  BY ToSetIs DEF Owned
<1>4. ASSUME NEW i \in 1..Len(t), NEW j \in 1..Len(t), t[i] = t[j]
      PROVE  i = j
  <2>1. Len(s) - i + 1 \in 1..Len(s) /\ Len(s) - j + 1 \in 1..Len(s)
    BY <1>1, <1>2
  <2>2. Len(s) - i + 1 = Len(s) - j + 1
    BY <2>1, <1>1, <1>3, <1>4
  <2> QED BY <2>2, <1>2
<1>5. IsInjective(t)
  BY <1>1, <1>4, ToSetIs
<1>6. ASSUME NEW x
      PROVE  x \in ToSet(t) <=> x \in ToSet(s)
  <2>1. ASSUME NEW i \in 1..Len(s)
        PROVE  \E j \in 1..Len(t) : t[j] = s[i]
    <3>1. Len(s) - i + 1 \in 1..Len(s) /\ Len(s) - (Len(s) - i + 1) + 1 = i
      BY <1>2
    <3>2. t[Len(s) - i + 1] = s[i]
      BY <3>1, <1>1
    <3> QED BY <3>1, <3>2, <1>1
  <2>2. ASSUME NEW j \in 1..Len(t)
        PROVE  t[j] \in ToSet(s)
    <3>1. Len(s) - j + 1 \in 1..Len(s) /\ t[j] = s[Len(s) - j + 1]
      BY <1>1, <1>2
    <3> QED BY <3>1, <1>2
  <2> QED BY <2>1, <2>2, <1>2
<1> QED BY <1>5, <1>6 DEF Owned, t

\* The container's elements are destroyed; the caller destroys one of its own.
LEMMA OwnedLost ==
  ASSUME NEW s \in Seq(Elems), NEW l, NEW d, Owned(s, l, d)
  PROVE  /\ ToSet(s) \subseteq l /\ IsInjective(s) /\ d \subseteq l
         /\ Owned(<<>>, l \ ToSet(s), d)
         /\ \A e \in d : Owned(s, l \ {e}, d \ {e})
<1>1. ToSet(<<>>) = {} /\ IsInjective(<<>>)
  BY DEF ToSet, IsInjective
<1> QED BY <1>1 DEF Owned

-----------------------------------------------------------------------------
(* Buffers: a byte count that fits buys its slots, a move keeps the contents,   *)
(* and there is room after growing.                                         *)

LEMMA Fits ==
  ASSUME RoomAssumption, NEW k \in Nat, k * ElemSize < Word, NEW n \in 0..k
  PROVE  n * ElemSize < Word /\ n < Word /\ Slots(n) = n
<1>1. ElemSize \in Nat /\ ElemSize > 0 /\ Word \in Nat /\ n \in Nat
  BY DEF RoomAssumption
<1>2. n * ElemSize <= k * ElemSize /\ n <= n * ElemSize /\ n * ElemSize \in Nat
  <2>1. k - n \in Nat /\ (k - n) * ElemSize >= 0 /\ (k - n) * ElemSize = k * ElemSize - n * ElemSize
    BY <1>1
  <2>2. ElemSize - 1 \in Nat /\ n * (ElemSize - 1) >= 0 /\ n * (ElemSize - 1) = n * ElemSize - n
    BY <1>1
  <2> QED BY <1>1, <2>1, <2>2
<1>3. n * ElemSize < Word /\ k * ElemSize \in Int
  BY <1>1, <1>2
<1>4. (n * ElemSize) % Word = n * ElemSize
  BY <1>1, <1>2, <1>3
<1>5. (n * ElemSize) \div ElemSize = n
  BY <1>1
<1> QED BY <1>1, <1>2, <1>3, <1>4, <1>5 DEF Slots

LEMMA BehindIs ==
  ASSUME NamesAssumption, NEW m \in Memories, NEW b \in Blocks \cup {NULL}
  PROVE  /\ Behind(m, b) \in Seq(Elems \cup {Garbage}) /\ Len(Behind(m, b)) \in Nat
         /\ b \in Blocks => Behind(m, b) = m[b]
         /\ Len(Behind(m, b)) > 0 => b \in Blocks
         /\ \A i \in 1..Len(Behind(m, b)) : Behind(m, b)[i] \in Elems \cup {Garbage}
<1>1. Behind(m, b) \in Seq(Elems \cup {Garbage})
  BY DEF Behind, Memories
<1>2. b \in Blocks => Behind(m, b) = m[b]
  BY DEF Behind, NamesAssumption
<1>3. b = NULL => Len(Behind(m, b)) = 0
  BY DEF Behind
<1> QED BY <1>1, <1>2, <1>3, LenProperties

LEMMA FreedIs ==
  ASSUME NamesAssumption, NEW m \in Memories, NEW b \in Blocks \cup {NULL},
         \A y \in Blocks : m[y] # <<>> => y = b
  PROVE  Freed(m, b) \in Memories /\ \A y \in Blocks : Freed(m, b)[y] = <<>>
<1>1. CASE b = NULL
  BY <1>1 DEF Freed, NamesAssumption
<1>2. CASE b # NULL
  <2>1. Freed(m, b) = [m EXCEPT ![b] = <<>>] /\ <<>> \in Seq(Elems \cup {Garbage})
    BY <1>2 DEF Freed
  <2> QED BY <2>1 DEF Memories
<1> QED BY <1>1, <1>2

LEMMA MovedIs ==
  ASSUME NamesAssumption, NEW m \in Memories, NEW b \in Blocks \cup {NULL}, NEW x \in Blocks,
         \A y \in Blocks : m[y] # <<>> => y = b,
         NEW n \in Nat, Slots(n) = n
  PROVE  /\ Moved(m, b, x, n) \in Memories
         /\ Len(Moved(m, b, x, n)[x]) = n
         /\ \A y \in Blocks : Moved(m, b, x, n)[y] # <<>> => y = x
         /\ \A i \in 1..n : i <= Len(Behind(m, b)) => Moved(m, b, x, n)[x][i] = Behind(m, b)[i]
<1> DEFINE f == [i \in 1..n |-> IF i <= Len(Behind(m, b)) THEN m[b][i] ELSE Garbage]
<1>1. \A i \in 1..n : i <= Len(Behind(m, b)) =>
         m[b][i] = Behind(m, b)[i] /\ m[b][i] \in Elems \cup {Garbage}
  BY BehindIs
<1>2. f \in [1..n -> Elems \cup {Garbage}]
  BY <1>1
<1>3. /\ f \in Seq(Elems \cup {Garbage}) /\ Len(f) = n
      /\ \A i \in 1..n : i <= Len(Behind(m, b)) => f[i] = Behind(m, b)[i]
  <2>1. \A i \in 1..n : i <= Len(Behind(m, b)) => f[i] = Behind(m, b)[i]
    BY <1>1
  <2> HIDE DEF f
  <2> QED BY <1>2, <2>1, FunctionIsSeq
<1>4. Moved(m, b, x, n) = [Freed(m, b) EXCEPT ![x] = f]
  BY DEF Moved
<1> HIDE DEF f
<1>5. [Freed(m, b) EXCEPT ![x] = f] \in Memories /\ [Freed(m, b) EXCEPT ![x] = f][x] = f
        /\ \A y \in Blocks : [Freed(m, b) EXCEPT ![x] = f][y] # <<>> => y = x
  BY <1>3, FreedIs DEF Memories
<1> QED BY <1>3, <1>4, <1>5

LEMMA GrownIs ==
  ASSUME Assumptions, mem \in Memories, NEW h \in Headers, Covers(h, mem), h.len < MaxLen,
         NEW x \in Blocks
  PROVE  /\ GrownHdr(h, x) \in Headers /\ GrownHdr(h, x).len = h.len
         /\ h.len < GrownHdr(h, x).cap /\ GrownHdr(h, x).data \in Blocks
         /\ GrownMem(h, x) \in Memories
         /\ Covers(GrownHdr(h, x), GrownMem(h, x))
         /\ \A i \in 1..h.len : GrownMem(h, x)[GrownHdr(h, x).data][i] = Behind(mem, h.data)[i]
<1>0. /\ h.len \in Nat /\ h.cap \in Nat /\ MaxLen \in Nat /\ h.data \in Blocks \cup {NULL}
      /\ h.len <= h.cap /\ h.cap <= Len(Behind(mem, h.data)) /\ Len(Behind(mem, h.data)) \in Nat
      /\ \A b \in Blocks : mem[b] # <<>> => b = h.data
      /\ NamesAssumption /\ RoomAssumption
  <2>1. NamesAssumption /\ RoomAssumption
    BY DEF Assumptions
  <2>2. MaxLen \in Nat /\ Word \in Nat
    BY <2>1 DEF RoomAssumption
  <2>3. h.len \in Nat /\ h.cap \in Nat /\ h.data \in Blocks \cup {NULL}
    BY <2>2 DEF Headers
  <2>4. Len(Behind(mem, h.data)) \in Nat
    BY <2>3, BehindIs
  <2> QED
    BY <2>1, <2>2, <2>3, <2>4 DEF Covers
<1>1. CASE h.len < h.cap
  <2>1. GrownHdr(h, x) = h /\ GrownMem(h, x) = mem
    BY <1>1 DEF GrownHdr, GrownMem
  <2>2. h.data \in Blocks /\ Behind(mem, h.data) = mem[h.data]
    BY <1>1, <1>0, BehindIs
  <2> QED BY <1>0, <1>1, <2>1, <2>2
<1>2. CASE ~(h.len < h.cap)
  <2> DEFINE k == Doubled(h.cap)
  <2>1. h.cap = h.len /\ h.cap \in 0..MaxLen
    BY <1>0, <1>2
  <2>2. MaxLen * 2 \in Nat /\ (2 * MaxLen) * ElemSize < Word /\ h.cap * 2 \in 0..(2 * MaxLen) /\ 1 \in 0..(2 * MaxLen)
    BY <1>0, <2>1, <1>2 DEF RoomAssumption
  <2>3. h.cap * 2 < Word /\ Slots(h.cap * 2) = h.cap * 2 /\ 1 < Word /\ Slots(1) = 1
    BY <2>2, <1>0, Fits
  <2>4. k = IF h.cap = 0 THEN 1 ELSE h.cap * 2
    <3>1. Word \in Nat /\ h.cap * 2 \in Nat
      BY <1>0 DEF RoomAssumption
    <3>2. (h.cap * 2) % Word = h.cap * 2
      BY <3>1, <2>3
    <3> QED BY <3>2 DEF Doubled
  <2>5. k \in 0..(Word - 1) /\ k \in Nat /\ h.cap < k /\ Slots(k) = k
    BY <2>2, <2>3, <2>4, <1>0 DEF RoomAssumption
  <2>6. GrownHdr(h, x) = [h EXCEPT !.cap = k, !.data = x] /\ GrownMem(h, x) = Moved(mem, h.data, x, k)
    BY <1>2 DEF GrownHdr, GrownMem
  <2> HIDE DEF k
  <2>7. /\ GrownHdr(h, x) \in Headers /\ GrownHdr(h, x).len = h.len
        /\ GrownHdr(h, x).cap = k /\ GrownHdr(h, x).data = x
    BY <2>5, <2>6 DEF Headers
  <2>8. /\ Moved(mem, h.data, x, k) \in Memories /\ Len(Moved(mem, h.data, x, k)[x]) = k
        /\ \A y \in Blocks : Moved(mem, h.data, x, k)[y] # <<>> => y = x
        /\ \A i \in 1..k : i <= Len(Behind(mem, h.data)) =>
             Moved(mem, h.data, x, k)[x][i] = Behind(mem, h.data)[i]
    BY <2>5, <1>0, MovedIs
  <2>9. Behind(GrownMem(h, x), x) = GrownMem(h, x)[x]
    BY <2>6, <2>8, <1>0, BehindIs
  <2> QED BY <1>0, <2>1, <2>5, <2>6, <2>7, <2>8, <2>9 DEF Covers
<1> QED BY <1>1, <1>2

LEMMA ReadIs ==
  ASSUME NamesAssumption, NEW m \in Memories, NEW b \in Blocks \cup {NULL},
         NEW i \in 0..(Len(Behind(m, b)) - 1)
  PROVE  Read(m, b, i) = Behind(m, b)[i + 1] /\ Reaches(m, b, i)
<1>1. Len(Behind(m, b)) > 0 /\ Len(Behind(m, b)) \in Nat
  BY BehindIs
<1> QED BY <1>1, BehindIs DEF Read, Reaches

LEMMA InUseIs ==
  ASSUME NamesAssumption, NEW m \in Memories, NEW h,
         h.data \in Blocks \cup {NULL}, h.len \in Nat, h.len <= Len(Behind(m, h.data))
  PROVE  /\ InUse(h, m) \in Seq(Elems \cup {Garbage}) /\ Len(InUse(h, m)) = h.len
         /\ \A i \in 1..h.len : InUse(h, m)[i] = Behind(m, h.data)[i]
<1>1. \A i \in 1..h.len : /\ Read(m, h.data, i - 1) = Behind(m, h.data)[i]
                          /\ Behind(m, h.data)[i] \in Elems \cup {Garbage}
  BY ReadIs, BehindIs
<1>2. InUse(h, m) \in [1..h.len -> Elems \cup {Garbage}]
  BY <1>1 DEF InUse
<1>3. \A i \in 1..h.len : InUse(h, m)[i] = Behind(m, h.data)[i]
  BY <1>1 DEF InUse
<1> QED BY <1>2, <1>3, FunctionIsSeq

LEMMA ViewIs ==
  ASSUME NamesAssumption, NEW h, NEW m, NEW c, Sound(h, m, c), MaxLen \in Nat
  PROVE  /\ View(h, m, c) \in Seq(Elems) /\ Len(View(h, m, c)) = h.len
         /\ \A i \in 1..h.len : View(h, m, c)[i] = Behind(m, h.data)[Kept(c, i)]
<1> DEFINE v == View(h, m, c)
<1>0. /\ h \in Headers /\ m \in Memories /\ h.len \in Nat /\ h.data \in Blocks \cup {NULL} /\ h.cap \in Int
      /\ h.len <= h.cap /\ h.cap <= Len(Behind(m, h.data)) /\ Len(Behind(m, h.data)) \in Nat
      /\ \A i \in 1..h.len : Behind(m, h.data)[Kept(c, i)] \in Elems
  BY BehindIs DEF Sound, Covers, Headers
<1>1. /\ Len(v) = h.len /\ v \in Seq(Elems \cup {Garbage})
      /\ \A i \in 1..h.len : v[i] = Behind(m, h.data)[Kept(c, i)]
  <2>1. CASE c.op # "store"
    <3>1. v = InUse(h, m) /\ \A i \in 1..h.len : Kept(c, i) = i
      BY <2>1 DEF View, Kept
    <3> QED BY <3>1, <1>0, InUseIs
  <2>2. CASE c.op = "store"
    <3> DEFINE g == [h EXCEPT !.len = @ + 1]
               s == InUse(g, m)
    <3>1. c.at \in 0..h.len /\ h.len < h.cap
      BY <2>2 DEF Sound, CallOf, NoCall
    <3>2. g.len = h.len + 1 /\ g.data = h.data
      BY <1>0 DEF Headers
    <3>3. v = RemoveAt(s, c.at + 1)
      BY <2>2 DEF View
    <3> HIDE DEF g
    <3>4. /\ s \in Seq(Elems \cup {Garbage}) /\ Len(s) = h.len + 1
          /\ \A i \in 1..(h.len + 1) : s[i] = Behind(m, h.data)[i]
      BY <3>1, <3>2, <1>0, InUseIs
    <3> HIDE DEF s, v
    <3>5. /\ c.at + 1 \in 1..Len(s) /\ Len(s) - 1 = h.len
      BY <3>1, <3>4, <1>0
    <3>6. /\ v \in Seq(Elems \cup {Garbage}) /\ Len(v) = h.len
          /\ \A i \in 1..h.len : v[i] = IF i < c.at + 1 THEN s[i] ELSE s[i + 1]
      BY <3>3, <3>4, <3>5, RemoveAtIs
    <3>7. \A i \in 1..h.len : Kept(c, i) = IF i < c.at + 1 THEN i ELSE i + 1
      BY <2>2, <3>1, <1>0 DEF Kept
    <3>8. ASSUME NEW i \in 1..h.len
          PROVE  v[i] = Behind(m, h.data)[Kept(c, i)]
      <4>1. i \in 1..(h.len + 1) /\ i + 1 \in 1..(h.len + 1)
        BY <1>0
      <4>2. CASE i < c.at + 1
        BY <4>1, <4>2, <3>4, <3>6, <3>7
      <4>3. CASE ~(i < c.at + 1)
        BY <4>1, <4>3, <3>4, <3>6, <3>7
      <4> QED BY <4>2, <4>3
    <3> QED BY <3>6, <3>8
  <2> QED BY <2>1, <2>2
<1> HIDE DEF v
<1>2. v \in [1..h.len -> Elems]
  BY <1>0, <1>1, LenProperties
<1> QED BY <1>0, <1>1, <1>2, FunctionIsSeq DEF v

-----------------------------------------------------------------------------
(* What the header and the buffer show is a sequence: the one whose elements *)
(* its slots hold.                                                          *)

LEMMA Shows ==
  ASSUME NamesAssumption, MaxLen \in Nat, NEW h \in Headers, NEW m \in Memories, NEW c,
         Covers(h, m), CallOf(h, c),
         NEW s \in Seq(Elems), Len(s) = h.len,
         \A i \in 1..h.len : Behind(m, h.data)[Kept(c, i)] = s[i]
  PROVE  Sound(h, m, c) /\ View(h, m, c) = s
<1>1. \A i \in 1..h.len : s[i] \in Elems
  BY LenProperties
<1>2. Sound(h, m, c)
  BY <1>1 DEF Sound
<1>3. /\ View(h, m, c) \in Seq(Elems) /\ Len(View(h, m, c)) = h.len
      /\ \A i \in 1..h.len : View(h, m, c)[i] = s[i]
  BY <1>2, ViewIs
<1> QED BY <1>2, <1>3, SeqEqual

\* What is known of a state between two steps.
LEMMA Known ==
  ASSUME Assumptions, IndInv
  PROVE  /\ NamesAssumption /\ RoomAssumption /\ MaxLen \in Nat /\ ~Nested /\ ~FillOwned
         /\ hdr \in Headers /\ mem \in Memories /\ Covers(hdr, mem) /\ CallOf(hdr, call)
         /\ hdr.len \in 0..MaxLen /\ hdr.cap \in 0..(Word - 1) /\ hdr.data \in Blocks \cup {NULL}
         /\ hdr.len <= hdr.cap /\ hdr.cap <= Len(Behind(mem, hdr.data))
         /\ Len(Behind(mem, hdr.data)) \in Nat
         /\ hdr.len > 0 => hdr.data \in Blocks /\ mem[hdr.data] = Behind(mem, hdr.data)
         /\ Contents = View(hdr, mem, call) /\ Contents \in Seq(Elems) /\ Len(Contents) = hdr.len
         /\ \A b \in Blocks : mem[b] # <<>> => b = hdr.data
         /\ \A i \in 1..hdr.len : Contents[i] = Behind(mem, hdr.data)[Kept(call, i)]
                                  /\ Contents[i] \in Elems
<1>1. /\ NamesAssumption /\ RoomAssumption /\ MaxLen \in Nat /\ ~Nested /\ ~FillOwned
      /\ Word \in Nat
  BY DEF Assumptions, RoomAssumption, WellBehaved
<1>2. /\ Sound(hdr, mem, call) /\ hdr \in Headers /\ mem \in Memories /\ Covers(hdr, mem)
      /\ CallOf(hdr, call)
  BY DEF IndInv, Sound
<1>3. /\ hdr.len \in 0..MaxLen /\ hdr.cap \in 0..(Word - 1) /\ hdr.data \in Blocks \cup {NULL}
      /\ hdr.len <= hdr.cap /\ hdr.cap <= Len(Behind(mem, hdr.data))
      /\ \A b \in Blocks : mem[b] # <<>> => b = hdr.data
  BY <1>2 DEF Headers, Covers
<1>4. Len(Behind(mem, hdr.data)) \in Nat
  BY <1>1, <1>2, <1>3, BehindIs
<1>5. hdr.len > 0 => hdr.data \in Blocks /\ mem[hdr.data] = Behind(mem, hdr.data)
  BY <1>1, <1>2, <1>3, <1>4, BehindIs
<1>6. Contents = View(hdr, mem, call)
  BY DEF Contents, View, Loaded
<1>7. /\ Contents \in Seq(Elems) /\ Len(Contents) = hdr.len
      /\ \A i \in 1..hdr.len : Contents[i] = Behind(mem, hdr.data)[Kept(call, i)]
  BY <1>1, <1>2, <1>6, ViewIs
<1>8. \A i \in 1..hdr.len : Contents[i] \in Elems
  BY <1>7, LenProperties
<1> QED BY <1>1, <1>2, <1>3, <1>4, <1>5, <1>6, <1>7, <1>8

LEMMA ContentsNext ==
  Contents' = View(hdr', mem', call')
  BY DEF Contents, View, Loaded, InUse

\* A step that leaves header and memory alone and is not about to store.
LEMMA SlotsStay ==
  ASSUME Assumptions, IndInv, hdr' = hdr, mem' = mem, call.op # "store",
         CallOf(hdr, call'), call'.op # "store"
  PROVE  Sound(hdr', mem', call') /\ Contents' = Contents
<1>1. \A i \in 1..hdr.len : Kept(call, i) = i /\ Kept(call', i) = i
  BY DEF Kept
<1>2. \A i \in 1..hdr.len : Behind(mem, hdr.data)[Kept(call', i)] = Contents[i]
  BY <1>1, Known
<1>3. Sound(hdr, mem, call') /\ View(hdr, mem, call') = Contents
  BY <1>2, Known, Shows
<1> QED BY <1>3, ContentsNext

\* A stored element lands in the slot the call made room for.
LEMMA StoreShows ==
  ASSUME Assumptions, NEW h \in Headers, NEW m \in Memories, Covers(h, m),
         h.len < MaxLen, h.len < h.cap, NEW p \in 0..h.len, NEW e \in Elems,
         NEW s \in Seq(Elems), Len(s) = h.len, HoldsAround(h, m, p, s),
         NEW t \in Seq(Elems), Placed(s, p + 1, e, t),
         NEW g, NEW n, PutIn(h, m, p, e, g, n)
  PROVE  Sound(g, n, NoCall) /\ View(g, n, NoCall) = t /\ Reaches(m, h.data, p)
<1> DEFINE b == h.data
<1>0. /\ NamesAssumption /\ MaxLen \in Nat /\ Word \in Nat
      /\ h.len \in Nat /\ h.len \in 0..MaxLen /\ h.cap \in Nat /\ h.cap \in 0..(Word - 1)
      /\ b \in Blocks \cup {NULL} /\ h.cap <= Len(Behind(m, b)) /\ Len(Behind(m, b)) \in Nat
      /\ \A y \in Blocks : m[y] # <<>> => y = b
  BY BehindIs DEF Assumptions, RoomAssumption, Headers, Covers
<1> HIDE DEF b
<1>s. \A i \in 1..h.len : Behind(m, b)[IF i > p THEN i + 1 ELSE i] = s[i]
  BY DEF HoldsAround, b
<1>t. /\ Len(t) = h.len + 1
      /\ \A i \in 1..(h.len + 1) : t[i] = IF i < p + 1 THEN s[i] ELSE IF i = p + 1 THEN e ELSE s[i - 1]
  BY DEF Placed
<1>1. /\ b \in Blocks /\ Behind(m, b) = m[b] /\ m[b] \in Seq(Elems \cup {Garbage})
      /\ Len(m[b]) \in Nat /\ h.len < Len(m[b])
  <2>1. h.len < Len(Behind(m, b)) /\ Len(Behind(m, b)) > 0
    BY <1>0
  <2>2. b \in Blocks
    BY <2>1, <1>0, BehindIs
  <2> QED BY <1>0, <2>1, <2>2, BehindIs DEF Memories
<1>2. Reaches(m, b, p)
  BY <1>0, <1>1 DEF Reaches
<1>3. p + 1 \in 1..Len(m[b])
  BY <1>0, <1>1
<1> DEFINE f == [m[b] EXCEPT ![p + 1] = e]
<1>4. /\ f \in Seq(Elems \cup {Garbage}) /\ Len(f) = Len(m[b])
      /\ \A j \in 1..Len(m[b]) : f[j] = IF j = p + 1 THEN e ELSE m[b][j]
  BY <1>1, <1>3, ExceptSeq
<1>5. n = [m EXCEPT ![b] = f]
  BY <1>2 DEF Write, PutIn, b
<1> HIDE DEF f
<1>6. n \in Memories /\ n[b] = f /\ \A y \in Blocks : n[y] # <<>> => y = b
  BY <1>0, <1>1, <1>4, <1>5 DEF Memories
<1>7. Behind(n, b) = f
  BY <1>1, <1>6, <1>0, BehindIs
<1>8. g \in Headers /\ g.len = h.len + 1 /\ g.cap = h.cap /\ g.data = b
  BY <1>0 DEF Headers, PutIn, b
<1>9. Covers(g, n)
  BY <1>0, <1>1, <1>4, <1>6, <1>7, <1>8 DEF Covers
<1>10. ASSUME NEW i \in 1..(h.len + 1)
       PROVE  f[i] = t[i]
  <2>0. i \in 1..Len(m[b]) /\ h.len \in Nat /\ p \in Nat
    BY <1>0, <1>1
  <2>1. CASE i < p + 1
    <3>1. i \in 1..h.len /\ ~(i > p) /\ i # p + 1
      BY <2>1, <2>0
    <3>2. m[b][i] = s[i]
      BY <3>1, <1>1, <1>s
    <3> QED BY <3>1, <3>2, <2>1, <2>0, <1>4, <1>t
  <2>2. CASE i = p + 1
    <3>1. ~(i < p + 1)
      BY <2>2, <2>0
    <3> QED BY <3>1, <2>2, <2>0, <1>4, <1>t
  <2>3. CASE ~(i < p + 1) /\ i # p + 1
    <3>1. i - 1 \in 1..h.len /\ i - 1 > p /\ (i - 1) + 1 = i
      BY <2>3, <2>0
    <3>2. m[b][i] = s[i - 1]
      BY <3>1, <1>1, <1>s
    <3> QED BY <3>2, <2>3, <2>0, <1>4, <1>t
  <2> QED BY <2>1, <2>2, <2>3
<1>11. \A i \in 1..g.len : Behind(n, g.data)[Kept(NoCall, i)] = t[i]
  BY <1>7, <1>8, <1>10 DEF Kept, NoCall
<1>12. CallOf(g, NoCall) /\ Len(t) = g.len
  BY <1>8, <1>t DEF CallOf
<1>13. Sound(g, n, NoCall) /\ View(g, n, NoCall) = t
  <2>1. NamesAssumption /\ MaxLen \in Nat /\ g \in Headers /\ n \in Memories
    BY <1>0, <1>6, <1>8
  <2> QED BY <2>1, <1>9, <1>11, <1>12, Shows
<1> QED BY <1>2, <1>13 DEF b

-----------------------------------------------------------------------------
(* Elements that join and leave, in the words of the sequence operators. *)

LEMMA AppendPut ==
  ASSUME NEW s \in Seq(Elems), NEW e \in Elems
  PROVE  /\ Append(s, e) \in Seq(Elems) /\ Len(s) + 1 \in 1..(Len(s) + 1)
         /\ Placed(s, Len(s) + 1, e, Append(s, e))
<1>1. Len(s) \in Nat
  BY LenProperties
<1>2. /\ Append(s, e) \in Seq(Elems) /\ Len(Append(s, e)) = Len(s) + 1
      /\ \A i \in 1..(Len(s) + 1) : Append(s, e)[i] = IF i = Len(s) + 1 THEN e ELSE s[i]
  BY AppendIs
<1>3. ASSUME NEW i \in 1..(Len(s) + 1)
      PROVE  Append(s, e)[i] = IF i < Len(s) + 1 THEN s[i] ELSE IF i = Len(s) + 1 THEN e ELSE s[i - 1]
  <2>1. CASE i = Len(s) + 1
    BY <2>1, <1>1, <1>2
  <2>2. CASE i # Len(s) + 1
    <3>1. i < Len(s) + 1
      BY <2>2, <1>1
    <3> QED BY <3>1, <2>2, <1>2
  <2> QED BY <2>1, <2>2
<1> QED BY <1>1, <1>2, <1>3 DEF Placed

LEMMA InsertPut ==
  ASSUME NEW s \in Seq(Elems), NEW p \in 1..(Len(s) + 1), NEW e \in Elems
  PROVE  InsertAt(s, p, e) \in Seq(Elems) /\ Placed(s, p, e, InsertAt(s, p, e))
<1>1. /\ InsertAt(s, p, e) \in Seq(Elems) /\ Len(InsertAt(s, p, e)) = Len(s) + 1
      /\ \A i \in 1..(Len(s) + 1) :
           InsertAt(s, p, e)[i] = IF i < p THEN s[i] ELSE IF i = p THEN e ELSE s[i - 1]
  BY InsertAtIs
<1> QED BY <1>1 DEF Placed

LEMMA RemoveTaken ==
  ASSUME NEW s \in Seq(Elems), NEW p \in 1..Len(s)
  PROVE  RemoveAt(s, p) \in Seq(Elems) /\ Taken(s, p, RemoveAt(s, p)) /\ Len(RemoveAt(s, p)) = Len(s) - 1
<1>1. /\ RemoveAt(s, p) \in Seq(Elems) /\ Len(RemoveAt(s, p)) = Len(s) - 1
      /\ \A i \in 1..(Len(s) - 1) : RemoveAt(s, p)[i] = IF i < p THEN s[i] ELSE s[i + 1]
  BY RemoveAtIs
<1> QED BY <1>1 DEF Taken

LEMMA FrontTaken ==
  ASSUME NEW s \in Seq(Elems), Len(s) > 0
  PROVE  /\ Front(s) \in Seq(Elems) /\ Len(Front(s)) = Len(s) - 1
         /\ Last(s) = s[Len(s)] /\ Last(s) \in Elems
         /\ Len(s) \in 1..Len(s) /\ Taken(s, Len(s), Front(s))
<1>1. Len(s) \in Nat
  BY LenProperties
<1>2. /\ Front(s) \in Seq(Elems) /\ Len(Front(s)) = Len(s) - 1
      /\ \A i \in 1..(Len(s) - 1) : Front(s)[i] = s[i]
  BY FrontIs
<1>3. \A i \in 1..(Len(s) - 1) : i < Len(s)
  BY <1>1
<1>4. Taken(s, Len(s), Front(s))
  BY <1>2, <1>3 DEF Taken
<1> QED BY <1>1, <1>2, <1>4, FrontIs

-----------------------------------------------------------------------------
(* What each call does to header, buffer and contents. *)

\* The call under way, by its name.
LEMMA CallIs ==
  ASSUME Assumptions, IndInv
  PROVE  /\ call = NoCall => call.op = "none"
         /\ call.op = "none" => call = NoCall
         /\ call.op # "none" => call.seen = hdr
         /\ call.op \in {"push", "store"} => hdr.len < MaxLen /\ hdr.len < hdr.cap
         /\ call.op = "store" => call.at \in 0..hdr.len
         /\ CallOf(hdr, NoCall)
  BY Known DEF CallOf, NoCall

LEMMA BeginShows ==
  ASSUME Assumptions, IndInv, NEW op \in {"insert", "get", "remove", "reserve"}, ListBegin(op)
  PROVE  Sound(hdr', mem', call') /\ Contents' = Contents
<1>1. /\ hdr' = hdr /\ mem' = mem /\ call.op # "store" /\ call'.op # "store"
      /\ call' = [op |-> op, seen |-> hdr]
  BY CallIs DEF ListBegin, same
<1>2. CallOf(hdr, call')
  BY <1>1 DEF CallOf
<1> QED BY <1>1, <1>2, SlotsStay

LEMMA PushBeginShows ==
  ASSUME Assumptions, IndInv, ListPushBegin
  PROVE  Sound(hdr', mem', call') /\ Contents' = Contents
<1>1. PICK x \in Fresh(mem, hdr.data) :
         /\ hdr' = GrownHdr(hdr, x) /\ mem' = GrownMem(hdr, x)
         /\ call' = [op |-> "push", seen |-> GrownHdr(hdr, x)]
  BY DEF ListPushBegin
<1>2. hdr.len < MaxLen /\ call.op = "none" /\ x \in Blocks
  BY CallIs DEF ListPushBegin, Fresh
<1>3. /\ hdr' \in Headers /\ hdr'.len = hdr.len /\ hdr.len < hdr'.cap /\ hdr'.data \in Blocks
      /\ mem' \in Memories /\ Covers(hdr', mem')
      /\ \A i \in 1..hdr.len : mem'[hdr'.data][i] = Behind(mem, hdr.data)[i]
  BY <1>1, <1>2, Known, GrownIs
<1>4. CallOf(hdr', call') /\ call'.op = "push"
  BY <1>1, <1>2, <1>3 DEF CallOf
<1>5. Behind(mem', hdr'.data) = mem'[hdr'.data]
  BY <1>3, Known, BehindIs
<1>6. \A i \in 1..hdr.len : Kept(call, i) = i /\ Kept(call', i) = i
  BY <1>2, <1>4 DEF Kept
<1>7. \A i \in 1..hdr'.len : Behind(mem', hdr'.data)[Kept(call', i)] = Contents[i]
  BY <1>3, <1>5, <1>6, Known
<1>8. Sound(hdr', mem', call') /\ View(hdr', mem', call') = Contents
  BY <1>3, <1>4, <1>7, Known, Shows
<1> QED BY <1>8, ContentsNext

LEMMA PushShows ==
  ASSUME Assumptions, IndInv, NEW e \in Elems, ListPush(e)
  PROVE  Sound(hdr', mem', call') /\ Contents' = Append(Contents, e) /\ ~fault'
<1>1. /\ call.op = "push" /\ call.seen = hdr /\ hdr.len < MaxLen /\ hdr.len < hdr.cap
      /\ call' = NoCall
  BY CallIs DEF ListPush, Loaded
<1>2. /\ PutIn(hdr, mem, hdr.len, e, hdr', mem')
      /\ fault' = (fault \/ ~Reaches(mem, hdr.data, hdr.len))
  BY <1>1 DEF ListPush, StoreAt, PutIn, Seen
<1>3. \A i \in 1..hdr.len : Kept(call, i) = i /\ ~(i > hdr.len)
  BY <1>1, Known DEF Kept
<1>4. HoldsAround(hdr, mem, hdr.len, Contents)
  BY <1>3, Known DEF HoldsAround
<1>5. Append(Contents, e) \in Seq(Elems) /\ Placed(Contents, hdr.len + 1, e, Append(Contents, e))
  BY Known, AppendPut
<1>6. hdr.len \in 0..hdr.len
  BY Known
<1>7. /\ Sound(hdr', mem', NoCall) /\ View(hdr', mem', NoCall) = Append(Contents, e)
      /\ Reaches(mem, hdr.data, hdr.len)
  BY <1>1, <1>2, <1>4, <1>5, <1>6, Known, StoreShows
<1>8. ~fault'
  BY <1>2, <1>7 DEF IndInv
<1> QED BY <1>1, <1>7, <1>8, ContentsNext

LEMMA InsertShows ==
  ASSUME Assumptions, IndInv, NEW e \in Elems, ListInsert(e)
  PROVE  /\ Sound(hdr', mem', call') /\ ~fault'
         /\ call.at + 1 \in 1..(Len(Contents) + 1)
         /\ Contents' = InsertAt(Contents, call.at + 1, e)
<1>1. /\ call.op = "store" /\ call.seen = hdr /\ hdr.len < MaxLen /\ hdr.len < hdr.cap
      /\ call.at \in 0..hdr.len /\ call' = NoCall
  BY CallIs DEF ListInsert, Loaded
<1>2. /\ PutIn(hdr, mem, call.at, e, hdr', mem')
      /\ fault' = (fault \/ ~Reaches(mem, hdr.data, call.at))
  BY <1>1 DEF ListInsert, StoreAt, PutIn, Seen
<1>3. HoldsAround(hdr, mem, call.at, Contents)
  BY <1>1, Known DEF HoldsAround, Kept
<1>4. call.at + 1 \in 1..(Len(Contents) + 1)
  BY <1>1, Known
<1>5. /\ InsertAt(Contents, call.at + 1, e) \in Seq(Elems)
      /\ Placed(Contents, call.at + 1, e, InsertAt(Contents, call.at + 1, e))
  BY <1>4, Known, InsertPut
<1>6. /\ Sound(hdr', mem', NoCall) /\ View(hdr', mem', NoCall) = InsertAt(Contents, call.at + 1, e)
      /\ Reaches(mem, hdr.data, call.at)
  BY <1>1, <1>2, <1>3, <1>5, Known, StoreShows
<1>7. ~fault'
  BY <1>2, <1>6 DEF IndInv
<1> QED BY <1>1, <1>4, <1>6, <1>7, ContentsNext

\* A call that is answered without touching the sequence.
LEMMA AnswerShows ==
  ASSUME Assumptions, IndInv, call.op # "store", call' = NoCall, hdr' = hdr, mem' = mem
  PROVE  Sound(hdr', mem', call') /\ Contents' = Contents
<1>1. call'.op # "store" /\ CallOf(hdr, call')
  BY CallIs DEF NoCall
<1> QED BY <1>1, SlotsStay

\* The elements in use are the contents when no element is being stored.
LEMMA InUseShows ==
  ASSUME Assumptions, IndInv, call.op # "store"
  PROVE  /\ InUse(hdr, mem) = Contents
         /\ \A i \in 0..(hdr.len - 1) : /\ Read(mem, hdr.data, i) = Contents[i + 1]
                                        /\ Read(mem, hdr.data, i) \in Elems
<1>1. InUse(hdr, mem) = Contents
  BY DEF Contents, Loaded
<1>2. ASSUME NEW i \in 0..(hdr.len - 1)
      PROVE  Read(mem, hdr.data, i) = Contents[i + 1] /\ Read(mem, hdr.data, i) \in Elems
  <2>1. i \in 0..(Len(Behind(mem, hdr.data)) - 1) /\ i + 1 \in 1..hdr.len
    BY Known
  <2>2. Read(mem, hdr.data, i) = Behind(mem, hdr.data)[i + 1]
    BY <2>1, Known, ReadIs
  <2>3. Kept(call, i + 1) = i + 1
    BY DEF Kept
  <2> QED BY <2>1, <2>2, <2>3, Known
<1> QED BY <1>1, <1>2

LEMMA ShiftedIs ==
  ASSUME NamesAssumption, NEW m \in Memories, NEW b \in Blocks,
         NEW i \in Nat, NEW j \in Nat, NEW n \in Nat, i + n <= Len(m[b]),
         \A y \in Blocks : m[y] # <<>> => y = b
  PROVE  IsShift(m, b, i, j, n, Shifted(m, b, i, j, n))
<1> DEFINE S == Elems \cup {Garbage}
           f == [k \in DOMAIN m[b] |-> IF j < k /\ k <= j + n THEN Read(m, b, k - 1 - j + i) ELSE m[b][k]]
<1>1. /\ m[b] \in Seq(S) /\ Len(m[b]) \in Nat /\ DOMAIN m[b] = 1..Len(m[b])
      /\ \A k \in 1..Len(m[b]) : m[b][k] \in S
  BY LenProperties DEF Memories
<1>2. Behind(m, b) = m[b]
  BY BehindIs
<1> HIDE DEF S
<1>3. ASSUME NEW k \in 1..Len(m[b]), j < k, k <= j + n
      PROVE  Read(m, b, k - 1 - j + i) = m[b][k - j + i] /\ m[b][k - j + i] \in S
  <2>1. k - 1 - j + i \in 0..(Len(m[b]) - 1) /\ k - j + i \in 1..Len(m[b])
    BY <1>1, <1>3
  <2>2. (k - 1 - j + i) + 1 = k - j + i
    BY <1>1
  <2>3. Read(m, b, k - 1 - j + i) = Behind(m, b)[(k - 1 - j + i) + 1]
    BY <2>1, <1>2, ReadIs
  <2> QED BY <2>1, <2>2, <2>3, <1>1, <1>2
<1>4. \A k \in 1..Len(m[b]) : /\ f[k] = IF j < k /\ k <= j + n THEN m[b][k - j + i] ELSE m[b][k]
                              /\ f[k] \in S
  BY <1>1, <1>3
<1>5. f \in [1..Len(m[b]) -> S]
  BY <1>1, <1>3
<1>6. Shifted(m, b, i, j, n) = [m EXCEPT ![b] = f]
  BY DEF Shifted, NamesAssumption
<1> HIDE DEF f
<1>7. f \in Seq(S) /\ Len(f) = Len(m[b])
  BY <1>1, <1>5, FunctionIsSeq
<1>8. [m EXCEPT ![b] = f] \in Memories
  BY <1>7 DEF Memories, S
<1>9. [m EXCEPT ![b] = f][b] = f /\ \A y \in Blocks : [m EXCEPT ![b] = f][y] # <<>> => y = b
  BY DEF Memories
<1> QED BY <1>1, <1>4, <1>6, <1>7, <1>8, <1>9 DEF IsShift

LEMMA InsertShiftShows ==
  ASSUME Assumptions, IndInv, NEW i \in Indexes, ListInsertShift(i)
  PROVE  Sound(hdr', mem', call') /\ Contents' = Contents
<1>0. /\ call.op = "insert" /\ call.seen = hdr /\ i \in 0..hdr.len /\ hdr.len < MaxLen
      /\ i \in Nat /\ hdr.len \in Nat
  BY CallIs, Known DEF ListInsertShift, Loaded, Seen, Indexes
<1>1. PICK x \in Fresh(mem, hdr.data) :
        LET h == GrownHdr(hdr, x)
        IN  /\ hdr' = [hdr EXCEPT !.cap = IF h = hdr THEN @ ELSE h.cap,
                                  !.data = IF h = hdr THEN @ ELSE h.data]
            /\ mem' = Shifted(GrownMem(hdr, x), h.data, i, i + 1, hdr.len - i)
            /\ call' = [op |-> "store", seen |-> h, at |-> i]
  BY <1>0 DEF ListInsertShift, Seen
<1> DEFINE h == GrownHdr(hdr, x)
           m == GrownMem(hdr, x)
<1>2. /\ h \in Headers /\ h.len = hdr.len /\ hdr.len < h.cap /\ h.data \in Blocks
      /\ m \in Memories /\ Covers(h, m)
      /\ \A k \in 1..hdr.len : m[h.data][k] = Behind(mem, hdr.data)[k]
  BY <1>0, Known, GrownIs DEF Fresh
<1>3. hdr' = h
  <2>1. hdr' = [hdr EXCEPT !.cap = IF h = hdr THEN @ ELSE h.cap, !.data = IF h = hdr THEN @ ELSE h.data]
    BY <1>1
  <2> HIDE DEF h
  <2>2. CASE h = hdr
    BY <2>1, <2>2, Known DEF Headers
  <2>3. CASE h # hdr
    BY <2>1, <2>3, <1>2, Known DEF Headers
  <2> QED BY <2>2, <2>3
<1>4. mem' = Shifted(m, h.data, i, i + 1, hdr.len - i) /\ call' = [op |-> "store", seen |-> h, at |-> i]
  BY <1>1
<1> HIDE DEF h, m
<1>5. /\ Behind(m, h.data) = m[h.data] /\ Len(m[h.data]) \in Nat
      /\ h.cap \in Nat /\ h.cap <= Len(m[h.data]) /\ hdr.len + 1 <= Len(m[h.data])
      /\ \A y \in Blocks : m[y] # <<>> => y = h.data
  <2>1. Behind(m, h.data) = m[h.data] /\ Len(m[h.data]) \in Nat
    BY <1>2, Known, BehindIs
  <2>2. h.cap \in Nat /\ h.cap <= Len(m[h.data]) /\ \A y \in Blocks : m[y] # <<>> => y = h.data
    BY <2>1, <1>2 DEF Headers, Covers
  <2> QED BY <2>1, <2>2, <1>0, <1>2
<1>6. /\ mem' \in Memories /\ Len(mem'[h.data]) = Len(m[h.data])
      /\ \A y \in Blocks : mem'[y] # <<>> => y = h.data
      /\ \A k \in 1..Len(m[h.data]) : mem'[h.data][k] =
           IF i + 1 < k /\ k <= i + 1 + (hdr.len - i) THEN m[h.data][k - (i + 1) + i] ELSE m[h.data][k]
  <2>1. i \in Nat /\ i + 1 \in Nat /\ hdr.len - i \in Nat /\ i + (hdr.len - i) <= Len(m[h.data])
    BY <1>0, <1>5
  <2>2. IsShift(m, h.data, i, i + 1, hdr.len - i, mem')
    BY <2>1, <1>2, <1>4, <1>5, Known, ShiftedIs
  <2> QED BY <2>2 DEF IsShift
<1>7. Behind(mem', h.data) = mem'[h.data]
  BY <1>2, <1>6, Known, BehindIs
<1>8. Covers(h, mem')
  BY <1>0, <1>2, <1>5, <1>6, <1>7 DEF Covers
<1>9. CallOf(h, call')
  BY <1>0, <1>2, <1>4 DEF CallOf
<1>10. ASSUME NEW k \in 1..hdr.len
       PROVE  mem'[h.data][Kept(call', k)] = Contents[k]
  <2>1. Contents[k] = m[h.data][k]
    <3>1. Kept(call, k) = k
      BY <1>0 DEF Kept
    <3> QED BY <3>1, <1>2, Known
  <2>2. CASE k > i
    <3>1. Kept(call', k) = k + 1
      BY <1>4, <2>2 DEF Kept
    <3>2. /\ k + 1 \in 1..Len(m[h.data]) /\ i + 1 < k + 1 /\ k + 1 <= i + 1 + (hdr.len - i)
          /\ (k + 1) - (i + 1) + i = k
      BY <1>0, <1>5, <2>2
    <3> QED BY <3>1, <3>2, <2>1, <1>6
  <2>3. CASE ~(k > i)
    <3>1. Kept(call', k) = k
      BY <1>4, <2>3 DEF Kept
    <3>2. k \in 1..Len(m[h.data]) /\ ~(i + 1 < k)
      BY <1>0, <1>5, <2>3
    <3> QED BY <3>1, <3>2, <2>1, <1>6
  <2> QED BY <2>2, <2>3
<1>11. Sound(h, mem', call') /\ View(h, mem', call') = Contents
  <2>1. \A k \in 1..h.len : Behind(mem', h.data)[Kept(call', k)] = Contents[k]
    BY <1>2, <1>7, <1>10
  <2>2. mem' \in Memories /\ Len(Contents) = h.len
    BY <1>2, <1>6, Known
  <2>3. NamesAssumption /\ MaxLen \in Nat /\ Contents \in Seq(Elems) /\ h \in Headers
    BY <1>2, Known
  <2> QED BY <2>1, <2>2, <2>3, <1>8, <1>9, Shows
<1> QED BY <1>3, <1>11, ContentsNext

LEMMA RemoveShows ==
  ASSUME Assumptions, IndInv, call.op = "remove", NEW i \in 0..(hdr.len - 1), Closes(i)
  PROVE  /\ Sound(hdr', mem', call') /\ i + 1 \in 1..Len(Contents)
         /\ Contents' = RemoveAt(Contents, i + 1)
<1> DEFINE b == hdr.data
<1>0. /\ hdr.len \in Nat /\ hdr.len > 0 /\ i \in Nat /\ b \in Blocks /\ mem[b] = Behind(mem, b)
      /\ Len(mem[b]) \in Nat /\ hdr.len <= Len(mem[b])
  BY Known
<1>1. /\ mem' \in Memories /\ Len(mem'[b]) = Len(mem[b])
      /\ \A y \in Blocks : mem'[y] # <<>> => y = b
      /\ \A k \in 1..Len(mem[b]) : mem'[b][k] =
           IF i < k /\ k <= i + (hdr.len - i - 1) THEN mem[b][k - i + (i + 1)] ELSE mem[b][k]
  <2>1. i + 1 \in Nat /\ hdr.len - i - 1 \in Nat /\ i + 1 + (hdr.len - i - 1) <= Len(mem[b])
    BY <1>0
  <2>2. IsShift(mem, b, i + 1, i, hdr.len - i - 1, mem')
    <3>1. mem' = Shifted(mem, b, i + 1, i, hdr.len - i - 1)
      BY DEF Closes
    <3>2. NamesAssumption /\ mem \in Memories /\ \A y \in Blocks : mem[y] # <<>> => y = b
      BY Known
    <3> HIDE DEF b
    <3> QED BY <3>1, <3>2, <2>1, <1>0, ShiftedIs
  <2> QED BY <2>2 DEF IsShift
<1>2. hdr' \in Headers /\ hdr'.len = hdr.len - 1 /\ hdr'.data = b /\ hdr'.cap = hdr.cap
  <2>1. hdr.len - 1 \in 0..MaxLen
    BY <1>0, Known
  <2> QED BY <2>1, Known DEF Headers, Closes
<1> HIDE DEF b
<1>3. Behind(mem', b) = mem'[b]
  BY <1>0, <1>1, Known, BehindIs
<1>4. Covers(hdr', mem')
  BY <1>0, <1>1, <1>2, <1>3, Known DEF Covers, b
<1>5. CallOf(hdr', call') /\ call'.op # "store"
  BY DEF CallOf, NoCall, Closes
<1>6. i + 1 \in 1..Len(Contents) /\ Len(Contents) = hdr.len
  BY <1>0, Known
<1>7. /\ RemoveAt(Contents, i + 1) \in Seq(Elems) /\ Len(RemoveAt(Contents, i + 1)) = hdr.len - 1
      /\ \A k \in 1..(hdr.len - 1) :
           RemoveAt(Contents, i + 1)[k] = IF k < i + 1 THEN Contents[k] ELSE Contents[k + 1]
  BY <1>6, Known, RemoveAtIs
<1>8. \A k \in 1..hdr.len : Contents[k] = mem[b][k]
  BY <1>0, Known DEF Kept, b
<1>9. ASSUME NEW k \in 1..(hdr.len - 1)
      PROVE  mem'[b][Kept(call', k)] = RemoveAt(Contents, i + 1)[k]
  <2>1. Kept(call', k) = k /\ k \in 1..Len(mem[b]) /\ k \in 1..hdr.len /\ k + 1 \in 1..hdr.len
    BY <1>0, <1>5 DEF Kept
  <2>2. CASE k < i + 1
    <3>1. ~(i < k)
      BY <2>2, <1>0
    <3> QED BY <3>1, <2>1, <2>2, <1>1, <1>7, <1>8
  <2>3. CASE ~(k < i + 1)
    <3>1. i < k /\ k <= i + (hdr.len - i - 1) /\ k - i + (i + 1) = k + 1
      BY <2>3, <1>0
    <3> QED BY <3>1, <2>1, <2>3, <1>1, <1>7, <1>8
  <2> QED BY <2>2, <2>3
<1>10. Sound(hdr', mem', call') /\ View(hdr', mem', call') = RemoveAt(Contents, i + 1)
  <2>1. \A k \in 1..hdr'.len : Behind(mem', hdr'.data)[Kept(call', k)] = RemoveAt(Contents, i + 1)[k]
    BY <1>2, <1>3, <1>9
  <2>2. mem' \in Memories /\ RemoveAt(Contents, i + 1) \in Seq(Elems) /\ Len(RemoveAt(Contents, i + 1)) = hdr'.len
    BY <1>1, <1>2, <1>7
  <2>3. /\ NamesAssumption /\ MaxLen \in Nat
        /\ hdr' \in Headers /\ Covers(hdr', mem') /\ CallOf(hdr', call')
    BY <1>2, <1>4, <1>5, Known
  <2> QED BY <2>1, <2>2, <2>3, Shows
<1> QED BY <1>6, <1>10, ContentsNext

LEMMA ResizeShows ==
  ASSUME Assumptions, IndInv, call.op # "store", NEW x \in Blocks,
         NEW n \in Nat, Slots(n) = n, n < Word, hdr.len <= n, Resizes(n, x)
  PROVE  Sound(hdr', mem', call') /\ Contents' = Contents
<1>1. /\ mem' \in Memories /\ Len(mem'[x]) = n
      /\ \A y \in Blocks : mem'[y] # <<>> => y = x
      /\ \A i \in 1..n : i <= Len(Behind(mem, hdr.data)) => mem'[x][i] = Behind(mem, hdr.data)[i]
  <2>1. mem' = Moved(mem, hdr.data, x, n)
    BY DEF Resizes
  <2> QED BY <2>1, Known, MovedIs
<1>2. hdr' \in Headers /\ hdr'.len = hdr.len /\ hdr'.cap = n /\ hdr'.data = x
  <2>1. n \in 0..(Word - 1)
    BY DEF Assumptions, RoomAssumption
  <2> QED BY <2>1, Known DEF Headers, Resizes
<1>3. Behind(mem', x) = mem'[x]
  BY <1>1, Known, BehindIs
<1>4. Covers(hdr', mem') /\ CallOf(hdr', call') /\ call'.op # "store"
  BY <1>1, <1>2, <1>3 DEF Covers, CallOf, NoCall, Resizes
<1>5. ASSUME NEW i \in 1..hdr.len
      PROVE  Behind(mem', x)[Kept(call', i)] = Contents[i]
  <2>1. Kept(call, i) = i /\ Kept(call', i) = i
    BY <1>4 DEF Kept
  <2>2. i \in 1..n /\ i <= Len(Behind(mem, hdr.data))
    BY Known
  <2> QED BY <2>1, <2>2, <1>1, <1>3, Known
<1>6. \A i \in 1..hdr'.len : Behind(mem', hdr'.data)[Kept(call', i)] = Contents[i]
  BY <1>2, <1>5
<1>7. mem' \in Memories /\ Len(Contents) = hdr'.len
  BY <1>1, <1>2, Known
<1>8. Sound(hdr', mem', call') /\ View(hdr', mem', call') = Contents
  BY <1>2, <1>4, <1>6, <1>7, Known, Shows
<1> QED BY <1>8, ContentsNext

LEMMA EmptyShows ==
  ASSUME Assumptions, hdr' \in Headers, hdr'.len = 0, mem' \in Memories, Covers(hdr', mem'), call' = NoCall
  PROVE  Sound(hdr', mem', call') /\ Contents' = <<>>
<1>1. CallOf(hdr', NoCall) /\ NamesAssumption /\ MaxLen \in Nat
  BY DEF CallOf, Assumptions, RoomAssumption
<1>2. <<>> \in Seq(Elems) /\ Len(<<>>) = 0
  BY EmptySeq
<1>3. \A i \in 1..hdr'.len : Behind(mem', hdr'.data)[Kept(NoCall, i)] = <<>>[i]
  OBVIOUS
<1>4. Sound(hdr', mem', NoCall) /\ View(hdr', mem', NoCall) = <<>>
  BY <1>1, <1>2, <1>3, Shows
<1> QED BY <1>4, ContentsNext

LEMMA FreedCovers ==
  ASSUME Assumptions, IndInv, mem' = Freed(mem, hdr.data), hdr' \in Headers,
         hdr'.len = 0, hdr'.cap = 0, hdr'.data = NULL
  PROVE  mem' \in Memories /\ Covers(hdr', mem')
<1>1. mem' \in Memories /\ \A y \in Blocks : mem'[y] = <<>>
  BY Known, FreedIs
<1>2. Len(Behind(mem', NULL)) = 0
  BY DEF Behind
<1> QED BY <1>1, <1>2 DEF Covers

LEMMA EmptyIs ==
  ASSUME Assumptions
  PROVE  /\ Empty \in Headers /\ Empty.len = 0 /\ Empty.cap = 0 /\ Empty.data = NULL
         /\ Word \in Nat /\ Word > 0
<1>1. 0 \in 0..MaxLen /\ 0 * ElemSize < Word /\ Word \in Nat
  <2>1. RoomAssumption
    BY DEF Assumptions
  <2>2. MaxLen \in Nat /\ Word \in Nat /\ InitialCapacity \in Nat /\ InitialCapacity * ElemSize < Word
    BY <2>1 DEF RoomAssumption
  <2>3. 0 \in 0..InitialCapacity
    BY <2>2
  <2> QED BY <2>1, <2>2, <2>3, Fits
<1>2. 0 < Word
  <2>1. ElemSize \in Nat
    BY DEF Assumptions, RoomAssumption
  <2> QED BY <1>1, <2>1
<1> QED BY <1>1, <1>2 DEF Empty, Headers

LEMMA ReserveShows ==
  ASSUME Assumptions, IndInv, NEW n \in Reserves, ListReserve(n)
  PROVE  Sound(hdr', mem', call') /\ Contents' = Contents
<1>1. /\ call.op = "reserve" /\ call.seen = hdr /\ call' = NoCall /\ call.op # "store"
  BY CallIs DEF ListReserve, Loaded
<1>2. /\ n \in Nat /\ (MaxLen + n) * ElemSize < Word /\ hdr.len + n \in 0..(MaxLen + n)
      /\ MaxLen + n \in Nat /\ hdr.len + n \in Nat /\ hdr.len <= hdr.len + n /\ Word \in Nat
  <2>1. n \in Nat /\ (MaxLen + n) * ElemSize < Word /\ Word \in Nat
    BY DEF Assumptions, RoomAssumption
  <2> QED BY <2>1, Known
<1>3. hdr.len + n < Word /\ Slots(hdr.len + n) = hdr.len + n
  BY <1>2, Known, Fits
<1>4. (hdr.len + n) % Word = hdr.len + n
  BY <1>2, <1>3
<1>5. CASE hdr' = hdr /\ mem' = mem
  BY <1>1, <1>5, AnswerShows
<1>6. CASE \E x \in Fresh(mem, hdr.data) : Resizes(hdr.len + n, x)
  <2>1. PICK x \in Fresh(mem, hdr.data) : Resizes(hdr.len + n, x)
    BY <1>6
  <2>2. x \in Blocks
    BY DEF Fresh
  <2> QED BY <2>1, <2>2, <1>1, <1>2, <1>3, ResizeShows
<1>7. \/ hdr' = hdr /\ mem' = mem
      \/ \E x \in Fresh(mem, hdr.data) : Resizes(hdr.len + n, x)
  BY <1>1, <1>4 DEF ListReserve, Resizes, Seen
<1> QED BY <1>5, <1>6, <1>7

LEMMA ShrinkShows ==
  ASSUME Assumptions, IndInv, ListShrink
  PROVE  Sound(hdr', mem', call') /\ Contents' = Contents
<1>1. call.op = "none" /\ call = NoCall /\ call' = NoCall /\ call.op # "store"
  BY CallIs DEF ListShrink, Callable
<1>2. CASE hdr' = hdr /\ mem' = mem
  BY <1>1, <1>2, AnswerShows
<1>3. CASE hdr.len = 0 /\ mem' = Freed(mem, hdr.data) /\ hdr' = [hdr EXCEPT !.cap = 0, !.data = NULL]
  <2>1. hdr' \in Headers /\ hdr'.len = 0 /\ hdr'.cap = 0 /\ hdr'.data = NULL
    <3>1. 0 \in 0..(Word - 1)
      BY EmptyIs
    <3> QED BY <3>1, <1>3, Known DEF Headers
  <2>2. Contents = <<>>
    BY <1>3, Known, EmptySeq
  <2> QED BY <2>1, <2>2, <1>1, <1>3, FreedCovers, EmptyShows
<1>4. CASE hdr.len > 0 /\ \E x \in Fresh(mem, hdr.data) : Resizes(hdr.len, x)
  <2>1. PICK x \in Fresh(mem, hdr.data) : Resizes(hdr.len, x)
    BY <1>4
  <2>2. x \in Blocks
    BY DEF Fresh
  <2>3. hdr.len < Word /\ Slots(hdr.len) = hdr.len /\ hdr.len \in Nat
    <3>1. MaxLen \in Nat /\ 2 * MaxLen * ElemSize < Word /\ 2 * MaxLen \in Nat /\ (2 * MaxLen) * ElemSize < Word
      BY DEF Assumptions, RoomAssumption
    <3>2. hdr.len \in 0..(2 * MaxLen)
      BY <3>1, Known
    <3> QED BY <3>1, <3>2, Known, Fits
  <2> QED BY <2>1, <2>2, <2>3, <1>1, ResizeShows
<1>5. \/ hdr' = hdr /\ mem' = mem
      \/ hdr.len = 0 /\ mem' = Freed(mem, hdr.data) /\ hdr' = [hdr EXCEPT !.cap = 0, !.data = NULL]
      \/ hdr.len > 0 /\ \E x \in Fresh(mem, hdr.data) : Resizes(hdr.len, x)
  BY <1>1 DEF ListShrink, Resizes
<1> QED BY <1>2, <1>3, <1>4, <1>5

LEMMA ShortenShows ==
  ASSUME Assumptions, IndInv, call = NoCall, hdr.len > 0, Shortens
  PROVE  Sound(hdr', mem', call') /\ Contents' = Front(Contents)
<1>1. /\ hdr' \in Headers /\ hdr'.len = hdr.len - 1 /\ hdr'.cap = hdr.cap /\ hdr'.data = hdr.data
      /\ mem' = mem /\ call' = NoCall
  <2>1. hdr.len - 1 \in 0..MaxLen
    BY Known
  <2> QED BY <2>1, Known DEF Headers, Shortens
<1>2. Covers(hdr', mem') /\ CallOf(hdr', call') /\ call'.op # "store" /\ call.op # "store"
  BY <1>1, Known DEF Covers, CallOf, NoCall
<1>3. /\ Front(Contents) \in Seq(Elems) /\ Len(Front(Contents)) = hdr.len - 1
      /\ \A i \in 1..(hdr.len - 1) : Front(Contents)[i] = Contents[i]
  BY Known, FrontIs
<1>4. ASSUME NEW i \in 1..(hdr.len - 1)
      PROVE  Behind(mem', hdr'.data)[Kept(call', i)] = Front(Contents)[i]
  <2>1. Kept(call, i) = i /\ Kept(call', i) = i /\ i \in 1..hdr.len
    BY <1>2, Known DEF Kept
  <2> QED BY <2>1, <1>1, <1>3, Known
<1>5. \A i \in 1..hdr'.len : Behind(mem', hdr'.data)[Kept(call', i)] = Front(Contents)[i]
  BY <1>1, <1>4
<1>6. Sound(hdr', mem', call') /\ View(hdr', mem', call') = Front(Contents)
  BY <1>1, <1>2, <1>3, <1>5, Known, Shows
<1> QED BY <1>6, ContentsNext

LEMMA ClearShows ==
  ASSUME Assumptions, IndInv, ListClear
  PROVE  Sound(hdr', mem', call') /\ Contents' = <<>>
<1>1. /\ hdr' \in Headers /\ hdr'.len = 0 /\ hdr'.cap = hdr.cap /\ hdr'.data = hdr.data
      /\ mem' = mem /\ call' = NoCall
  BY Known DEF ListClear, Callable, Headers
<1>2. Covers(hdr', mem')
  BY <1>1, Known DEF Covers
<1> QED BY <1>1, <1>2, Known, EmptyShows

LEMMA ReleaseShows ==
  ASSUME Assumptions, IndInv, NEW op, Release(op), call = NoCall
  PROVE  Sound(hdr', mem', call') /\ Contents' = <<>>
<1>1. hdr' = Empty /\ mem' = Freed(mem, hdr.data) /\ call' = NoCall
  BY DEF Release
<1>2. hdr' \in Headers /\ hdr'.len = 0 /\ hdr'.cap = 0 /\ hdr'.data = NULL
  BY <1>1, EmptyIs
<1> QED BY <1>1, <1>2, FreedCovers, EmptyShows

LEMMA ArrayPushShows ==
  ASSUME Assumptions, IndInv, NEW e \in Elems, ArrayPush(e)
  PROVE  Sound(hdr', mem', call') /\ Contents' = Append(Contents, e) /\ ~fault'
<1>1. call = NoCall /\ call' = NoCall /\ hdr.len < MaxLen /\ call.op # "store"
  BY CallIs DEF ArrayPush, Callable
<1>2. PICK x \in Fresh(mem, hdr.data) :
        LET h == GrownHdr(hdr, x)
            m == GrownMem(hdr, x)
        IN  /\ mem' = Write(m, h.data, h.len, e)
            /\ hdr' = [h EXCEPT !.len = @ + 1]
            /\ fault' = (fault \/ ~Reaches(m, h.data, h.len))
  BY DEF ArrayPush
<1> DEFINE h == GrownHdr(hdr, x)
           m == GrownMem(hdr, x)
<1>3. /\ h \in Headers /\ h.len = hdr.len /\ hdr.len < h.cap /\ h.data \in Blocks
      /\ m \in Memories /\ Covers(h, m)
      /\ \A k \in 1..hdr.len : m[h.data][k] = Behind(mem, hdr.data)[k]
  BY <1>1, Known, GrownIs DEF Fresh
<1>4. PutIn(h, m, h.len, e, hdr', mem') /\ fault' = (fault \/ ~Reaches(m, h.data, h.len))
  BY <1>2 DEF PutIn
<1> HIDE DEF h, m
<1>5. Behind(m, h.data) = m[h.data]
  BY <1>3, Known, BehindIs
<1>6. \A k \in 1..hdr.len : Kept(call, k) = k /\ ~(k > hdr.len)
  BY <1>1, Known DEF Kept
<1>7. HoldsAround(h, m, h.len, Contents)
  BY <1>3, <1>5, <1>6, Known DEF HoldsAround
<1>8. Append(Contents, e) \in Seq(Elems) /\ Placed(Contents, h.len + 1, e, Append(Contents, e))
  BY <1>3, Known, AppendPut
<1>9. h.len \in 0..h.len /\ Len(Contents) = h.len /\ h.len < MaxLen
  BY <1>1, <1>3, Known
<1>10. /\ Sound(hdr', mem', NoCall) /\ View(hdr', mem', NoCall) = Append(Contents, e)
       /\ Reaches(m, h.data, h.len)
  BY <1>3, <1>4, <1>7, <1>8, <1>9, Known, StoreShows
<1>11. ~fault'
  BY <1>4, <1>10 DEF IndInv
<1> QED BY <1>1, <1>10, <1>11, ContentsNext

LEMMA ArrayFreeShows ==
  ASSUME Assumptions, IndInv, ArrayFree
  PROVE  Sound(hdr', mem', call') /\ Contents' = <<>>
<1> DEFINE f == [i \in 1..Slots(InitialCapacity) |-> Garbage]
<1>1. PICK x \in Fresh(mem, hdr.data) :
         /\ mem' = [Freed(mem, hdr.data) EXCEPT ![x] = f]
         /\ hdr' = [len |-> 0, cap |-> InitialCapacity, data |-> x]
  BY DEF ArrayFree
<1>2. x \in Blocks /\ call' = NoCall
  BY DEF ArrayFree, Fresh, Callable
<1>3. /\ InitialCapacity \in Nat /\ InitialCapacity \in 0..(Word - 1)
      /\ Slots(InitialCapacity) = InitialCapacity
  <2>1. RoomAssumption /\ InitialCapacity \in Nat /\ InitialCapacity * ElemSize < Word /\ Word \in Nat
    BY DEF Assumptions, RoomAssumption
  <2>2. InitialCapacity \in 0..InitialCapacity
    BY <2>1
  <2>3. InitialCapacity < Word /\ Slots(InitialCapacity) = InitialCapacity
    BY <2>1, <2>2, Fits
  <2> QED BY <2>1, <2>3
<1>4. f \in [1..InitialCapacity -> Elems \cup {Garbage}]
  BY <1>3
<1> HIDE DEF f
<1>5. f \in Seq(Elems \cup {Garbage}) /\ Len(f) = InitialCapacity
  BY <1>3, <1>4, FunctionIsSeq
<1>6. mem' \in Memories /\ mem'[x] = f /\ \A y \in Blocks : mem'[y] # <<>> => y = x
  <2>1. Freed(mem, hdr.data) \in Memories /\ \A y \in Blocks : Freed(mem, hdr.data)[y] = <<>>
    BY Known, FreedIs
  <2> QED BY <2>1, <1>1, <1>2, <1>5 DEF Memories
<1>7. hdr' \in Headers /\ hdr'.len = 0 /\ hdr'.cap = InitialCapacity /\ hdr'.data = x
  BY <1>1, <1>2, <1>3, Known DEF Headers
<1>8. Behind(mem', x) = f
  BY <1>2, <1>6, Known, BehindIs
<1>9. Covers(hdr', mem')
  BY <1>3, <1>5, <1>6, <1>7, <1>8 DEF Covers
<1> QED BY <1>2, <1>6, <1>7, <1>9, EmptyShows

\* The buffer keeps its length and gets new contents.
LEMMA RewriteShows ==
  ASSUME Assumptions, IndInv, call = NoCall, hdr.len > 0, NEW f, NEW s \in Seq(Elems),
         Rewrites(f), f \in [DOMAIN mem[hdr.data] -> Elems \cup {Garbage}], Holds(f, s, hdr.len)
  PROVE  Sound(hdr', mem', call') /\ Contents' = s
<1> DEFINE b == hdr.data
           m == mem'
<1>0. m = [mem EXCEPT ![b] = f] /\ hdr' = hdr /\ call' = NoCall
  BY DEF Rewrites
<1> HIDE DEF m
<1>1. b \in Blocks /\ mem[b] = Behind(mem, b) /\ hdr.cap \in Nat /\ hdr.cap <= Len(mem[b])
  BY Known
<1>2. Len(mem[b]) \in Nat /\ DOMAIN mem[b] = 1..Len(mem[b])
  BY <1>1, Known, LenProperties DEF Memories
<1>3. f \in Seq(Elems \cup {Garbage}) /\ Len(f) = Len(mem[b])
  BY <1>2, FunctionIsSeq
<1>4. m \in Memories /\ m[b] = f /\ \A y \in Blocks : m[y] # <<>> => y = b
  BY <1>0, <1>1, <1>3, Known DEF Memories
<1>5. Behind(m, b) = f
  BY <1>1, <1>4, Known, BehindIs
<1>6. Covers(hdr, m) /\ CallOf(hdr, NoCall)
  BY <1>1, <1>3, <1>4, <1>5, Known, CallIs DEF Covers
<1>7. \A i \in 1..hdr.len : Behind(m, hdr.data)[Kept(NoCall, i)] = s[i]
  BY <1>5 DEF Kept, NoCall, Holds
<1>8. NamesAssumption /\ MaxLen \in Nat /\ hdr \in Headers /\ m \in Memories
  BY <1>4, Known
<1>9. Len(s) = hdr.len
  BY DEF Holds
<1> HIDE DEF b
<1>10. Sound(hdr, m, NoCall) /\ View(hdr, m, NoCall) = s
  BY <1>6, <1>7, <1>8, <1>9, Shows
<1> QED BY <1>0, <1>10, ContentsNext DEF m

LEMMA ReverseShows ==
  ASSUME Assumptions, IndInv, ArrayReverse
  PROVE  Sound(hdr', mem', call') /\ Contents' = Reverse(Contents)
<1> DEFINE n == hdr.len
           half == n \div 2
           Source(k) == IF k < half \/ (k < n /\ n - 1 - k < half) THEN n - 1 - k ELSE k
           f == [k \in DOMAIN mem[hdr.data] |-> Read(mem, hdr.data, Source(k - 1))]
<1>1. call = NoCall /\ call' = NoCall /\ hdr' = hdr /\ call.op # "store" /\ n \in Nat
  BY CallIs, Known DEF ArrayReverse, Callable
<1>2. /\ Reverse(Contents) \in Seq(Elems) /\ Len(Reverse(Contents)) = n
      /\ \A i \in 1..n : Reverse(Contents)[i] = Contents[n - i + 1]
  BY Known, ReverseIs
<1>3. CASE n < 2
  <2>1. mem' = mem
    BY <1>3 DEF ArrayReverse
  <2>2. \A i \in 1..n : Reverse(Contents)[i] = Contents[i]
    <3>1. \A i \in 1..n : n - i + 1 = i
      BY <1>1, <1>3
    <3> QED BY <3>1, <1>2
  <2>3. Reverse(Contents) = Contents
    BY <2>2, <1>2, Known, SeqEqual
  <2> QED BY <2>1, <2>3, <1>1, AnswerShows
<1>4. CASE ~(n < 2)
  <2>1. mem' = [mem EXCEPT ![hdr.data] = f]
    BY <1>4 DEF ArrayReverse
  <2>2. n > 0 /\ hdr.data \in Blocks /\ mem[hdr.data] = Behind(mem, hdr.data)
    BY <1>1, <1>4, Known
  <2>3. ASSUME NEW i \in 1..n
        PROVE  Source(i - 1) \in 0..(n - 1) /\ Source(i - 1) + 1 = n - i + 1
    <3>1. half \in Nat /\ 2 * half <= n /\ n < 2 * half + 2
      BY <1>1
    <3> HIDE DEF half
    <3> QED BY <3>1, <1>1
  <2>4. ASSUME NEW i \in DOMAIN mem[hdr.data]
        PROVE  Read(mem, hdr.data, Source(i - 1)) \in Elems \cup {Garbage}
    <3> HIDE DEF Source
    <3>1. CASE Reaches(mem, hdr.data, Source(i - 1))
      <4>1. Source(i - 1) \in 0..(Len(mem[hdr.data]) - 1)
        <5>1. i \in Int
          BY <2>2, Known, LenProperties
        <5>2. Source(i - 1) \in Int
          BY <5>1, <1>1 DEF Source
        <5> QED BY <5>2, <3>1, <2>2, Known DEF Reaches
      <4> QED BY <4>1, <2>2, <3>1, Known, BehindIs DEF Read
    <3>2. CASE ~Reaches(mem, hdr.data, Source(i - 1))
      BY <3>2 DEF Read
    <3> QED BY <3>1, <3>2
  <2>5. f \in [DOMAIN mem[hdr.data] -> Elems \cup {Garbage}]
    BY <2>4
  <2>6. ASSUME NEW i \in 1..n
        PROVE  f[i] = Reverse(Contents)[i]
    <3>1. i \in DOMAIN mem[hdr.data]
      BY <2>2, Known, LenProperties
    <3>2. f[i] = Read(mem, hdr.data, Source(i - 1))
      BY <3>1
    <3>3. Read(mem, hdr.data, Source(i - 1)) = Contents[Source(i - 1) + 1]
      <4> HIDE DEF Source
      <4> QED BY <2>3, <1>1, InUseShows
    <3> QED BY <3>2, <3>3, <2>3, <1>2
  <2> HIDE DEF f
  <2>7. Rewrites(f) /\ Holds(f, Reverse(Contents), hdr.len)
    BY <2>1, <2>6, <1>1, <1>2 DEF Rewrites, Holds
  <2> QED BY <2>2, <2>5, <2>7, <1>1, <1>2, RewriteShows
<1> QED BY <1>3, <1>4

LEMMA FillShows ==
  ASSUME Assumptions, IndInv, NEW e \in Elems, ArrayFill(e)
  PROVE  /\ Sound(hdr', mem', call') /\ Contents' = [i \in DOMAIN Contents |-> e]
         /\ ~owning
<1> DEFINE s == [i \in DOMAIN Contents |-> e]
           f == [k \in DOMAIN mem[hdr.data] |-> IF k <= hdr.len THEN e ELSE mem[hdr.data][k]]
<1>1. call = NoCall /\ call' = NoCall /\ hdr' = hdr /\ call.op # "store" /\ ~owning
  BY CallIs, Known DEF ArrayFill, Callable
<1>2. DOMAIN Contents = 1..hdr.len /\ hdr.len \in Nat
  BY Known, LenProperties
<1>3. s \in Seq(Elems) /\ Len(s) = hdr.len /\ \A i \in 1..hdr.len : s[i] = e
  <2>1. s \in [1..hdr.len -> Elems] /\ \A i \in 1..hdr.len : s[i] = e
    BY <1>2
  <2> HIDE DEF s
  <2> QED BY <2>1, <1>2, FunctionIsSeq
<1>4. CASE hdr.len = 0
  <2>1. mem' = mem
    BY <1>4 DEF ArrayFill
  <2>2. s = Contents
    <3> HIDE DEF s
    <3>1. \A i \in 1..Len(s) : s[i] = Contents[i]
      BY <1>3, <1>4
    <3> QED BY <3>1, <1>3, <1>4, Known, SeqEqual
  <2> QED BY <2>1, <2>2, <1>1, AnswerShows
<1>5. CASE hdr.len # 0
  <2>1. mem' = [mem EXCEPT ![hdr.data] = f] /\ hdr.len > 0
    BY <1>2, <1>5, Known DEF ArrayFill, Memories
  <2>2. /\ hdr.data \in Blocks /\ DOMAIN mem[hdr.data] = 1..Len(mem[hdr.data])
        /\ \A k \in 1..Len(mem[hdr.data]) : mem[hdr.data][k] \in Elems \cup {Garbage}
        /\ Len(mem[hdr.data]) \in Nat /\ hdr.len <= Len(mem[hdr.data])
    BY <2>1, Known, LenProperties DEF Memories
  <2>3. f \in [DOMAIN mem[hdr.data] -> Elems \cup {Garbage}] /\ \A i \in 1..hdr.len : f[i] = e
    BY <2>2, <1>2
  <2> HIDE DEF f, s
  <2>4. Rewrites(f) /\ Holds(f, s, hdr.len)
    BY <2>1, <2>3, <1>1, <1>3 DEF Rewrites, Holds
  <2>5. Sound(hdr', mem', call') /\ Contents' = s
    BY <2>1, <2>3, <2>4, <1>1, <1>3, RewriteShows
  <2> QED BY <2>5, <1>1 DEF s
<1> QED BY <1>1, <1>4, <1>5

-----------------------------------------------------------------------------
(* The invariant is kept. *)

LEMMA Keeps ==
  ASSUME Assumptions, IndInv, Sound(hdr', mem', call'), UNCHANGED <<kind, owning>>,
         kind = "array" => call' = NoCall, ~fault', OwnedNext
  PROVE  IndInv'
<1>1. kind' = kind /\ owning' = owning
  OBVIOUS
<1>2. SequenceTypeOK'
  <2>1. kind \in {"list", "array"} /\ owning \in BOOLEAN
    BY DEF IndInv, SequenceTypeOK
  <2>2. hdr' \in Headers /\ mem' \in Memories
    BY DEF Sound
  <2>3. live' \subseteq Elems /\ held' \subseteq Elems /\ lost' \subseteq Elems
    BY DEF OwnedNext
  <2>4. fault' \in BOOLEAN
    <3>1. fault' = FALSE
      OBVIOUS
    <3> QED BY <3>1
  <2>5. (hdr \in Headers)' /\ (mem \in Memories)'
    BY <2>2 DEF Headers, Memories
  <2> QED BY <1>1, <2>1, <2>3, <2>4, <2>5 DEF SequenceTypeOK
<1>3. /\ IF owning THEN Owned(View(hdr', mem', call'), live', held') ELSE live' = {} /\ held' = {}
      /\ lost' \cap live' = {} /\ (~owning => lost' = {})
  BY ContentsNext DEF OwnedNext
<1> QED BY <1>1, <1>2, <1>3 DEF IndInv, Sound

LEMMA OwnersNow ==
  ASSUME Assumptions, IndInv
  PROVE  /\ live \subseteq Elems /\ held \subseteq Elems /\ lost \subseteq Elems /\ ~fault
         /\ owning => Owned(Contents, live, held)
         /\ ~owning => live = {} /\ held = {} /\ lost = {}
         /\ lost \cap live = {}
  BY Known DEF IndInv, SequenceTypeOK

LEMMA OwnSame ==
  ASSUME Assumptions, IndInv, Contents' = Contents, live' = live, held' = held, lost' = lost
  PROVE  OwnedNext
  BY OwnersNow DEF OwnedNext

LEMMA OwnPut ==
  ASSUME Assumptions, IndInv, NEW e \in Elems, Given(e), Takes(e), lost' = lost,
         NEW p \in 1..(Len(Contents) + 1), Contents' \in Seq(Elems), Placed(Contents, p, e, Contents')
  PROVE  OwnedNext
<1>1. /\ live' = (IF owning THEN live \cup {e} ELSE live) /\ held' = held \ {e}
      /\ live' \subseteq Elems /\ held' \subseteq Elems
  BY OwnersNow DEF Takes
<1>2. CASE owning
  <2>1. e \notin live \/ e \in held
    BY <1>2 DEF Given
  <2>2. Owned(Contents', live \cup {e}, held \ {e})
    BY <1>2, <2>1, Known, OwnersNow, OwnedPut
  <2>3. e \notin lost
    BY <1>2, OwnersNow DEF Given, Owned
  <2> QED BY <1>1, <1>2, <2>2, <2>3, OwnersNow DEF OwnedNext
<1>3. CASE ~owning
  BY <1>1, <1>3, OwnersNow DEF OwnedNext
<1> QED BY <1>2, <1>3

LEMMA OwnHand ==
  ASSUME Assumptions, IndInv, NEW p \in 1..Len(Contents), Hands(Contents[p]), live' = live, lost' = lost,
         Contents' \in Seq(Elems), Taken(Contents, p, Contents')
  PROVE  OwnedNext
<1>1. Contents[p] \in Elems
  BY Known
<1>2. /\ held' = (IF owning THEN held \cup {Contents[p]} ELSE held)
      /\ live' \subseteq Elems /\ held' \subseteq Elems
  BY <1>1, OwnersNow DEF Hands
<1>3. CASE owning
  <2>1. Owned(Contents', live, held \cup {Contents[p]})
    BY <1>3, Known, OwnersNow, OwnedTaken
  <2> QED BY <1>2, <1>3, <2>1, OwnersNow DEF OwnedNext
<1>4. CASE ~owning
  BY <1>2, <1>4, OwnersNow DEF OwnedNext
<1> QED BY <1>3, <1>4

LEMMA OwnDestroy ==
  ASSUME Assumptions, IndInv, call = NoCall, Destroys(hdr), held' = held, lost' = lost, Contents' = <<>>
  PROVE  OwnedNext /\ ~fault'
<1>1. /\ live' = live \ ToSet(Contents)
      /\ fault' = (fault \/ (owning /\ ~(ToSet(Contents) \subseteq live /\ IsInjective(Contents))))
  BY CallIs, InUseShows DEF Destroys
<1>2. CASE owning
  <2>1. /\ ToSet(Contents) \subseteq live /\ IsInjective(Contents)
        /\ Owned(<<>>, live \ ToSet(Contents), held)
    BY <1>2, Known, OwnersNow, OwnedLost
  <2> QED BY <1>1, <1>2, <2>1, OwnersNow DEF OwnedNext
<1>3. CASE ~owning
  BY <1>1, <1>3, OwnersNow DEF OwnedNext
<1> QED BY <1>2, <1>3

LEMMA DropKeeps ==
  ASSUME Assumptions, IndInv, NEW e \in Elems, DropElement(e)
  PROVE  IndInv' /\ Contents' = Contents
<1>1. /\ e \in held /\ held' = held \ {e} /\ live' = live \ {e}
      /\ fault' = (fault \/ e \notin live)
      /\ hdr' = hdr /\ mem' = mem /\ call' = call /\ UNCHANGED fixed
  BY DEF DropElement
<1>2. owning /\ Owned(Contents, live, held)
  BY <1>1, OwnersNow
<1>3. held \subseteq live /\ Owned(Contents, live \ {e}, held \ {e})
  BY <1>1, <1>2, Known, OwnedLost
<1>4. ~fault'
  BY <1>1, <1>3, OwnersNow
<1>5. Sound(hdr', mem', call') /\ Contents' = Contents
  BY <1>1, ContentsNext, Known DEF IndInv
<1>6. OwnedNext
  BY <1>1, <1>2, <1>3, <1>5, OwnersNow DEF OwnedNext, fixed
<1>7. kind = "array" => call' = NoCall
  BY <1>1 DEF IndInv
<1> QED BY <1>1, <1>4, <1>5, <1>6, <1>7, Keeps DEF fixed

-----------------------------------------------------------------------------
(* One step for each call: the invariant is kept, and the step is one the   *)
(* abstract sequence may take, or none it can see.                          *)

Unseen == UNCHANGED <<owning, Contents, held, ret>>

LEMMA BeginStep ==
  ASSUME Assumptions, IndInv, NEW op \in {"insert", "get", "remove", "reserve"}, ListBegin(op)
  PROVE  IndInv' /\ Unseen
<1>1. /\ UNCHANGED <<fixed, live, held, ret>> /\ fault' = fault /\ kind = "list"
  BY DEF ListBegin, same, fixed
<1>2. Sound(hdr', mem', call') /\ Contents' = Contents
  BY BeginShows
<1>3. OwnedNext /\ ~fault'
  BY <1>1, <1>2, OwnSame, OwnersNow DEF fixed
<1>4. kind # "array"
  BY <1>1
<1> QED BY <1>1, <1>2, <1>3, <1>4, Keeps DEF Unseen, fixed

LEMMA PushBeginStep ==
  ASSUME Assumptions, IndInv, ListPushBegin
  PROVE  IndInv' /\ Unseen
<1>1. /\ UNCHANGED <<fixed, live, held, ret>> /\ fault' = fault /\ kind = "list"
  BY DEF ListPushBegin, fixed
<1>2. Sound(hdr', mem', call') /\ Contents' = Contents
  BY PushBeginShows
<1>3. OwnedNext /\ ~fault'
  BY <1>1, <1>2, OwnSame, OwnersNow DEF fixed
<1>4. kind # "array"
  BY <1>1
<1> QED BY <1>1, <1>2, <1>3, <1>4, Keeps DEF Unseen, fixed

LEMMA PushStep ==
  ASSUME Assumptions, IndInv, NEW e \in Elems, ListPush(e)
  PROVE  IndInv' /\ Promise!SAppend(e) /\ owning' = owning /\ Contents' = Append(Contents, e)
<1>1. UNCHANGED fixed /\ Given(e) /\ Takes(e) /\ call' = NoCall /\ ret' = Done("push")
  BY DEF ListPush, StoreAt
<1>2. Sound(hdr', mem', call') /\ Contents' = Append(Contents, e) /\ ~fault'
  BY PushShows
<1>3. OwnedNext
  <2>1. /\ Append(Contents, e) \in Seq(Elems) /\ Len(Contents) + 1 \in 1..(Len(Contents) + 1)
        /\ Placed(Contents, Len(Contents) + 1, e, Append(Contents, e))
    BY Known, AppendPut
  <2> QED BY <1>1, <1>2, <2>1, OwnPut DEF fixed
<1>4. IndInv'
  BY <1>1, <1>2, <1>3, Keeps DEF fixed
<1>5. Promise!SAppend(e)
  BY <1>1, <1>2 DEF Promise!SAppend, Promise!Done, Promise!Answer, Done, Answer, Takes
<1> QED BY <1>1, <1>2, <1>4, <1>5 DEF fixed

LEMMA InsertStep ==
  ASSUME Assumptions, IndInv, NEW e \in Elems, ListInsert(e)
  PROVE  IndInv' /\ call.at \in Indexes /\ Promise!SInsertAt(call.at, e) /\ owning' = owning
<1>1. /\ UNCHANGED fixed /\ Given(e) /\ Takes(e) /\ call' = NoCall
      /\ ret' = Answer("insert", call.at, "done") /\ call.op = "store"
  BY DEF ListInsert, StoreAt, Loaded
<1>2. /\ Sound(hdr', mem', call') /\ ~fault' /\ call.at + 1 \in 1..(Len(Contents) + 1)
      /\ Contents' = InsertAt(Contents, call.at + 1, e)
  BY InsertShows
<1>3. OwnedNext
  <2>1. /\ InsertAt(Contents, call.at + 1, e) \in Seq(Elems)
        /\ Placed(Contents, call.at + 1, e, InsertAt(Contents, call.at + 1, e))
    BY <1>2, Known, InsertPut
  <2> QED BY <1>1, <1>2, <2>1, OwnPut DEF fixed
<1>4. IndInv'
  BY <1>1, <1>2, <1>3, Keeps DEF fixed
<1>5. call.at \in 0..hdr.len
  BY <1>1, CallIs
<1>6. call.at \in Indexes /\ 0 <= call.at /\ call.at < Len(Contents) + 1
  BY <1>5, Known DEF Indexes
<1>7. Promise!SInsertAt(call.at, e)
  BY <1>1, <1>2, <1>6 DEF Promise!SInsertAt, Promise!InsertAt, InsertAt, Promise!Within, Promise!Answer, Answer, Takes
<1> QED BY <1>1, <1>4, <1>6, <1>7 DEF fixed

LEMMA InsertShiftStep ==
  ASSUME Assumptions, IndInv, NEW i \in Indexes, ListInsertShift(i)
  PROVE  IndInv' /\ Unseen
<1>1. /\ UNCHANGED <<fixed, live, held, ret>> /\ fault' = fault /\ call.op = "insert"
  BY DEF ListInsertShift, fixed, Loaded
<1>2. Sound(hdr', mem', call') /\ Contents' = Contents
  BY InsertShiftShows
<1>3. OwnedNext /\ ~fault'
  BY <1>1, <1>2, OwnSame, OwnersNow DEF fixed
<1>4. kind # "array"
  BY <1>1, CallIs DEF IndInv
<1> QED BY <1>1, <1>2, <1>3, <1>4, Keeps DEF Unseen, fixed

\* A call that answers and changes nothing, or the capacity only.
LEMMA AnswerStep ==
  ASSUME Assumptions, IndInv, Sound(hdr', mem', call'), Contents' = Contents, call' = NoCall,
         UNCHANGED <<fixed, live, held, fault>>
  PROVE  IndInv' /\ UNCHANGED <<owning, Contents, held>>
<1>1. OwnedNext /\ ~fault' /\ UNCHANGED fixed
  BY OwnSame, OwnersNow DEF fixed
<1> QED BY <1>1, Keeps DEF fixed

LEMMA RefusedStep ==
  ASSUME Assumptions, IndInv, NEW i \in Indexes, ListInsertRefused(i)
  PROVE  IndInv' /\ Promise!SRefuse("insert", i, "err") /\ owning' = owning
<1>1. /\ call.op = "insert" /\ call.seen = hdr /\ call' = NoCall /\ hdr' = hdr /\ mem' = mem
      /\ ret' = Answer("insert", i, "err") /\ ~(0 <= i /\ i <= hdr.len)
      /\ UNCHANGED <<kind, owning, fault>>
  BY CallIs DEF ListInsertRefused, Loaded, Seen
<1>2. Sound(hdr', mem', call') /\ Contents' = Contents
  BY <1>1, AnswerShows
<1>3. \/ UNCHANGED <<live, held, lost>>
      \/ owning /\ \E e \in held : held' = held \ {e} /\ live' = live \ {e} /\ lost' = lost \cup {e}
  BY DEF ListInsertRefused
<1>4. OwnedNext
  <2>1. CASE UNCHANGED <<live, held, lost>>
    BY <1>2, <2>1, OwnSame
  <2>2. ASSUME owning, NEW e \in held, held' = held \ {e}, live' = live \ {e}, lost' = lost \cup {e}
        PROVE  OwnedNext
    <3>1. Owned(Contents, live \ {e}, held \ {e}) /\ e \in Elems
      BY <2>2, Known, OwnersNow, OwnedLost
    <3> QED BY <1>2, <2>2, <3>1, OwnersNow DEF OwnedNext
  <2> QED BY <1>3, <2>1, <2>2
<1>5. IndInv'
  BY <1>1, <1>2, <1>4, OwnersNow, Keeps
<1>6. ~(0 <= i /\ i < Len(Contents) + 1)
  BY <1>1, Known DEF Indexes
<1>7. held' = held \/ (owning /\ \E e \in held : held' = held \ {e})
  BY <1>3
<1> QED BY <1>1, <1>2, <1>5, <1>6, <1>7 DEF Promise!SRefuse, Promise!Within, Promise!Answer, Answer

LEMMA GetStep ==
  ASSUME Assumptions, IndInv, NEW i \in Indexes, ListGet(i)
  PROVE  /\ IndInv' /\ owning' = owning
         /\ Promise!SRead("get", i) \/ Promise!SRefuse("get", i, "none")
<1>1. /\ call.op = "get" /\ call.seen = hdr /\ call' = NoCall /\ hdr' = hdr /\ mem' = mem
      /\ ret' = (IF InBounds(i, hdr.len) THEN Some("get", i, Read(mem, hdr.data, i))
                 ELSE Answer("get", i, "none"))
      /\ UNCHANGED <<fixed, live, held, fault>>
  BY CallIs DEF ListGet, same, fixed, Loaded, Seen
<1>2. Sound(hdr', mem', call') /\ Contents' = Contents
  BY <1>1, AnswerShows
<1>3. IndInv' /\ UNCHANGED <<owning, Contents, held>>
  BY <1>1, <1>2, AnswerStep
<1>4. CASE InBounds(i, hdr.len)
  <2>1. i \in 0..(hdr.len - 1) /\ 0 <= i /\ i < Len(Contents)
    BY <1>4, Known DEF InBounds, Indexes
  <2>2. Read(mem, hdr.data, i) = Contents[i + 1]
    BY <2>1, <1>1, InUseShows
  <2>3. Promise!SRead("get", i)
    BY <1>1, <1>3, <1>4, <2>1, <2>2 DEF Promise!SRead, Promise!Within, Promise!Some, Some
  <2> QED BY <1>3, <2>3
<1>5. CASE ~InBounds(i, hdr.len)
  <2>1. ~(0 <= i /\ i < Len(Contents) + 0)
    BY <1>5, Known DEF InBounds, Indexes
  <2>2. Promise!SRefuse("get", i, "none")
    BY <1>1, <1>3, <1>5, <2>1 DEF Promise!SRefuse, Promise!Within, Promise!Answer, Answer
  <2> QED BY <1>3, <2>2
<1> QED BY <1>4, <1>5

LEMMA RemoveStep ==
  ASSUME Assumptions, IndInv, NEW i \in Indexes, ListRemove(i)
  PROVE  /\ IndInv' /\ owning' = owning
         /\ Promise!SRemoveAt(i) \/ Promise!SRefuse("remove", i, "none")
<1>1. call.op = "remove" /\ call.seen = hdr /\ call' = NoCall
  BY CallIs DEF ListRemove, Loaded
<1>2. CASE InBounds(i, hdr.len)
  <2>1. /\ ret' = Some("remove", i, Read(mem, hdr.data, i)) /\ Hands(Read(mem, hdr.data, i))
        /\ Closes(i) /\ UNCHANGED fixed /\ live' = live /\ fault' = fault
    BY <1>1, <1>2 DEF ListRemove, Closes, Seen
  <2>2. i \in 0..(hdr.len - 1) /\ 0 <= i /\ i < Len(Contents)
    BY <1>2, Known DEF InBounds, Indexes
  <2>3. Read(mem, hdr.data, i) = Contents[i + 1]
    BY <2>2, <1>1, InUseShows
  <2>4. /\ Sound(hdr', mem', call') /\ i + 1 \in 1..Len(Contents)
        /\ Contents' = RemoveAt(Contents, i + 1)
    BY <1>1, <2>1, <2>2, RemoveShows
  <2>5. OwnedNext
    <3>1. RemoveAt(Contents, i + 1) \in Seq(Elems) /\ Taken(Contents, i + 1, RemoveAt(Contents, i + 1))
      BY <2>4, Known, RemoveTaken
    <3> QED BY <2>1, <2>3, <2>4, <3>1, OwnHand DEF fixed
  <2>6. IndInv'
    BY <1>1, <2>1, <2>4, <2>5, OwnersNow, Keeps DEF fixed
  <2>7. Promise!SRemoveAt(i)
    BY <2>1, <2>2, <2>3, <2>4
       DEF Promise!SRemoveAt, Promise!RemoveAt, RemoveAt, Promise!Within, Promise!Some, Some, Promise!HandOver, Hands
  <2> QED BY <2>1, <2>6, <2>7 DEF fixed
<1>3. CASE ~InBounds(i, hdr.len)
  <2>1. /\ ret' = Answer("remove", i, "none") /\ hdr' = hdr /\ mem' = mem
        /\ UNCHANGED <<fixed, live, held, fault>>
    BY <1>1, <1>3 DEF ListRemove, same, fixed, Seen
  <2>2. Sound(hdr', mem', call') /\ Contents' = Contents
    BY <1>1, <2>1, AnswerShows
  <2>3. IndInv' /\ UNCHANGED <<owning, Contents, held>>
    BY <1>1, <2>1, <2>2, AnswerStep
  <2>4. ~(0 <= i /\ i < Len(Contents) + 0)
    BY <1>3, Known DEF InBounds, Indexes
  <2>5. Promise!SRefuse("remove", i, "none")
    BY <2>1, <2>3, <2>4 DEF Promise!SRefuse, Promise!Within, Promise!Answer, Answer
  <2> QED BY <2>3, <2>5
<1> QED BY <1>2, <1>3

LEMMA ReserveStep ==
  ASSUME Assumptions, IndInv, NEW n \in Reserves, ListReserve(n)
  PROVE  IndInv' /\ owning' = owning /\ Promise!SKeep("reserve")
<1>1. call' = NoCall /\ ret' = Done("reserve") /\ UNCHANGED <<fixed, live, held, fault>>
  BY DEF ListReserve, fixed
<1>2. IndInv' /\ UNCHANGED <<owning, Contents, held>>
  BY <1>1, ReserveShows, AnswerStep
<1> QED BY <1>1, <1>2 DEF Promise!SKeep, Promise!Done, Promise!Answer, Done, Answer

LEMMA ShrinkStep ==
  ASSUME Assumptions, IndInv, ListShrink
  PROVE  IndInv' /\ owning' = owning /\ Promise!SKeep("shrink")
<1>1. call' = NoCall /\ ret' = Done("shrink") /\ UNCHANGED <<fixed, live, held, fault>>
  BY DEF ListShrink, Callable, fixed
<1>2. IndInv' /\ UNCHANGED <<owning, Contents, held>>
  BY <1>1, ShrinkShows, AnswerStep
<1> QED BY <1>1, <1>2 DEF Promise!SKeep, Promise!Done, Promise!Answer, Done, Answer

LEMMA PopStep ==
  ASSUME Assumptions, IndInv, call = NoCall, Pop
  PROVE  IndInv' /\ owning' = owning /\ Promise!STakeLast
<1>1. UNCHANGED fixed /\ mem' = mem /\ live' = live /\ call' = call /\ fault' = fault /\ call.op # "store"
  BY CallIs DEF Pop, fixed
<1>2. CASE hdr.len = 0
  <2>1. hdr' = hdr /\ held' = held /\ ret' = Answer("pop", 0, "none")
    BY <1>2 DEF Pop
  <2>2. Sound(hdr', mem', call') /\ Contents' = Contents
    BY <1>1, <2>1, AnswerShows
  <2>3. IndInv' /\ UNCHANGED <<owning, Contents, held>>
    BY <1>1, <2>1, <2>2, AnswerStep DEF fixed
  <2>4. Contents = <<>>
    BY <1>2, Known, EmptySeq
  <2> QED BY <2>1, <2>3, <2>4 DEF Promise!STakeLast, Promise!Answer, Answer
<1>3. CASE hdr.len # 0
  <2>1. /\ hdr.len > 0 /\ Len(Contents) > 0 /\ Len(Contents) = hdr.len /\ hdr.len \in Nat
        /\ Contents # <<>>
    BY <1>3, Known
  <2>2. /\ Shortens /\ ret' = Some("pop", 0, Read(mem, hdr.data, hdr.len - 1))
        /\ Hands(Read(mem, hdr.data, hdr.len - 1))
    BY <1>3 DEF Pop, Shortens
  <2>3. /\ Front(Contents) \in Seq(Elems) /\ Last(Contents) = Contents[hdr.len]
        /\ hdr.len \in 1..Len(Contents) /\ Taken(Contents, hdr.len, Front(Contents))
    BY <2>1, Known, FrontTaken
  <2>4. Read(mem, hdr.data, hdr.len - 1) = Contents[hdr.len]
    <3>1. hdr.len - 1 \in 0..(hdr.len - 1) /\ (hdr.len - 1) + 1 = hdr.len
      BY <2>1
    <3>2. Read(mem, hdr.data, hdr.len - 1) = Contents[(hdr.len - 1) + 1]
      BY <3>1, <1>1, InUseShows
    <3> QED BY <3>1, <3>2
  <2>5. Sound(hdr', mem', call') /\ Contents' = Front(Contents)
    BY <2>1, <2>2, ShortenShows
  <2>6. OwnedNext
    BY <1>1, <2>2, <2>3, <2>4, <2>5, OwnHand DEF fixed
  <2>7. IndInv'
    BY <1>1, <2>5, <2>6, OwnersNow, Keeps DEF fixed
  <2>8. Promise!STakeLast
    BY <2>1, <2>2, <2>3, <2>4, <2>5
       DEF Promise!STakeLast, Promise!Front, Promise!Last, Front, Last, Promise!Some, Some,
           Promise!HandOver, Hands
  <2> QED BY <1>1, <2>7, <2>8 DEF fixed
<1> QED BY <1>2, <1>3

LEMMA EmptyStep ==
  ASSUME Assumptions, IndInv, call = NoCall, call' = NoCall, Sound(hdr', mem', call'), Contents' = <<>>,
         Destroys(hdr), UNCHANGED <<fixed, held>>, NEW op, ret' = Done(op)
  PROVE  IndInv' /\ owning' = owning /\ Promise!SEmpty(op)
<1>1. OwnedNext /\ ~fault' /\ UNCHANGED fixed
  BY OwnDestroy DEF fixed
<1>2. IndInv'
  BY <1>1, Keeps DEF fixed
<1> QED BY <1>2 DEF fixed, Promise!SEmpty, Promise!Done, Promise!Answer, Done, Answer

LEMMA ClearStep ==
  ASSUME Assumptions, IndInv, ListClear
  PROVE  IndInv' /\ owning' = owning /\ Promise!SEmpty("clear")
<1>1. /\ call = NoCall /\ call' = NoCall /\ Destroys(hdr) /\ UNCHANGED <<fixed, held>> /\ ret' = Done("clear")
  BY DEF ListClear, Callable
<1> QED BY <1>1, ClearShows, EmptyStep

LEMMA ReleaseStep ==
  ASSUME Assumptions, IndInv, NEW op, Release(op), call = NoCall
  PROVE  IndInv' /\ owning' = owning /\ Promise!SEmpty(op)
<1>1. /\ call' = NoCall /\ Destroys(hdr) /\ UNCHANGED <<fixed, held>> /\ ret' = Done(op)
  BY DEF Release
<1> QED BY <1>1, ReleaseShows, EmptyStep

LEMMA ArrayFreeStep ==
  ASSUME Assumptions, IndInv, ArrayFree
  PROVE  IndInv' /\ owning' = owning /\ Promise!SEmpty("free")
<1>1. /\ call = NoCall /\ call' = NoCall /\ Destroys(hdr) /\ UNCHANGED <<fixed, held>> /\ ret' = Done("free")
  BY DEF ArrayFree, Callable
<1> QED BY <1>1, ArrayFreeShows, EmptyStep

LEMMA ArrayPushStep ==
  ASSUME Assumptions, IndInv, NEW e \in Elems, ArrayPush(e)
  PROVE  IndInv' /\ Promise!SAppend(e) /\ owning' = owning
<1>1. UNCHANGED fixed /\ Given(e) /\ Takes(e) /\ call' = NoCall /\ ret' = Done("push")
  BY DEF ArrayPush, Callable
<1>2. Sound(hdr', mem', call') /\ Contents' = Append(Contents, e) /\ ~fault'
  BY ArrayPushShows
<1>3. OwnedNext
  <2>1. /\ Append(Contents, e) \in Seq(Elems) /\ Len(Contents) + 1 \in 1..(Len(Contents) + 1)
        /\ Placed(Contents, Len(Contents) + 1, e, Append(Contents, e))
    BY Known, AppendPut
  <2> QED BY <1>1, <1>2, <2>1, OwnPut DEF fixed
<1>4. IndInv'
  BY <1>1, <1>2, <1>3, Keeps DEF fixed
<1>5. Promise!SAppend(e)
  BY <1>1, <1>2 DEF Promise!SAppend, Promise!Done, Promise!Answer, Done, Answer, Takes
<1> QED BY <1>1, <1>4, <1>5 DEF fixed

LEMMA ArrayReadStep ==
  ASSUME Assumptions, IndInv, NEW i \in Indexes, NEW op, NEW t, ArrayRead(op, i, t),
         <<op, t>> \in {<<"get", "none">>, <<"index", "trap">>}
  PROVE  /\ IndInv' /\ owning' = owning
         /\ Promise!SRead(op, i) \/ Promise!SRefuse(op, i, t)
<1>1. /\ call = NoCall /\ call' = NoCall /\ hdr' = hdr /\ mem' = mem /\ call.op # "store"
      /\ ret' = (IF InBounds(i, hdr.len) THEN Some(op, i, Read(mem, hdr.data, i))
                 ELSE Answer(op, i, t))
      /\ UNCHANGED <<fixed, live, held, fault>>
  BY CallIs DEF ArrayRead, same, fixed, Callable
<1>2. Sound(hdr', mem', call') /\ Contents' = Contents
  BY <1>1, AnswerShows
<1>3. IndInv' /\ UNCHANGED <<owning, Contents, held>>
  BY <1>1, <1>2, AnswerStep
<1>4. CASE InBounds(i, hdr.len)
  <2>1. i \in 0..(hdr.len - 1) /\ 0 <= i /\ i < Len(Contents)
    BY <1>4, Known DEF InBounds, Indexes
  <2>2. Read(mem, hdr.data, i) = Contents[i + 1]
    BY <2>1, <1>1, InUseShows
  <2>3. Promise!SRead(op, i)
    BY <1>1, <1>3, <1>4, <2>1, <2>2 DEF Promise!SRead, Promise!Within, Promise!Some, Some
  <2> QED BY <1>3, <2>3
<1>5. CASE ~InBounds(i, hdr.len)
  <2>1. ~(0 <= i /\ i < Len(Contents) + 0) /\ op # "insert"
    BY <1>5, Known DEF InBounds, Indexes
  <2>2. Promise!SRefuse(op, i, t)
    BY <1>1, <1>3, <1>5, <2>1 DEF Promise!SRefuse, Promise!Within, Promise!Answer, Answer
  <2> QED BY <1>3, <2>2
<1> QED BY <1>4, <1>5

LEMMA ReverseStep ==
  ASSUME Assumptions, IndInv, ArrayReverse
  PROVE  IndInv' /\ owning' = owning /\ Promise!SReverse
<1>1. /\ call' = NoCall /\ UNCHANGED fixed /\ live' = live /\ held' = held /\ fault' = fault
      /\ ret' = Done("reverse")
  BY DEF ArrayReverse, Callable
<1>2. Sound(hdr', mem', call') /\ Contents' = Reverse(Contents)
  BY ReverseShows
<1>3. OwnedNext
  BY <1>1, <1>2, Known, OwnersNow, OwnedReversed DEF OwnedNext, fixed
<1>4. IndInv'
  BY <1>1, <1>2, <1>3, OwnersNow, Keeps DEF fixed
<1> QED BY <1>1, <1>2, <1>4
       DEF fixed, Promise!SReverse, Promise!Reverse, Reverse, Promise!Done, Promise!Answer, Done, Answer

LEMMA FillStep ==
  ASSUME Assumptions, IndInv, NEW e \in Elems, ArrayFill(e)
  PROVE  IndInv' /\ owning' = owning /\ Promise!SFill(e)
<1>1. /\ call' = NoCall /\ UNCHANGED fixed /\ held' = held /\ fault' = fault
      /\ ret' = Done("fill") /\ live' = IF owning THEN live \cup {e} ELSE live
  BY DEF ArrayFill, Callable
<1>2. Sound(hdr', mem', call') /\ Contents' = [i \in DOMAIN Contents |-> e] /\ ~owning
  BY FillShows
<1>3. OwnedNext
  BY <1>1, <1>2, OwnersNow DEF OwnedNext, fixed
<1>4. IndInv'
  BY <1>1, <1>2, <1>3, OwnersNow, Keeps DEF fixed
<1> QED BY <1>1, <1>2, <1>4 DEF fixed, Promise!SFill, Promise!Done, Promise!Answer, Done, Answer

-----------------------------------------------------------------------------
(* The initial states, the steps, and what follows for every behaviour. *)

LEMMA BufferIs ==
  ASSUME NEW b \in Blocks, NEW s \in Seq(Elems), NEW n \in Nat
  PROVE  /\ Buffer(b, s, n) \in Memories /\ Len(Buffer(b, s, n)[b]) = n
         /\ \A y \in Blocks : Buffer(b, s, n)[y] # <<>> => y = b
         /\ \A i \in 1..n : i <= Len(s) => Buffer(b, s, n)[b][i] = s[i]
<1> DEFINE f == [i \in 1..n |-> IF i <= Len(s) THEN s[i] ELSE Garbage]
<1>1. Len(s) \in Nat /\ \A i \in 1..Len(s) : s[i] \in Elems
  BY LenProperties
<1>2. f \in [1..n -> Elems \cup {Garbage}] /\ \A i \in 1..n : i <= Len(s) => f[i] = s[i]
  BY <1>1
<1>3. Buffer(b, s, n) = [x \in Blocks |-> IF x = b THEN f ELSE <<>>]
  BY DEF Buffer
<1> HIDE DEF f
<1>4. f \in Seq(Elems \cup {Garbage}) /\ Len(f) = n
  BY <1>2, FunctionIsSeq
<1> QED BY <1>2, <1>3, <1>4 DEF Memories

LEMMA InitShows ==
  ASSUME Assumptions, NEW s \in Seq(Elems), NEW b \in Blocks, NEW n \in Nat,
         n < Word, Len(s) <= n, Len(s) \in 0..MaxLen,
         hdr = [len |-> Len(s), cap |-> n, data |-> b], mem = Buffer(b, s, n), call = NoCall
  PROVE  Sound(hdr, mem, call) /\ View(hdr, mem, call) = s
<1>1. NamesAssumption /\ MaxLen \in Nat /\ Word \in Nat
  BY DEF Assumptions, RoomAssumption
<1>2. hdr \in Headers /\ hdr.len = Len(s) /\ hdr.cap = n /\ hdr.data = b
  BY <1>1 DEF Headers
<1>3. /\ mem \in Memories /\ Len(mem[b]) = n /\ \A y \in Blocks : mem[y] # <<>> => y = b
      /\ \A i \in 1..n : i <= Len(s) => mem[b][i] = s[i]
  BY BufferIs
<1>4. Behind(mem, b) = mem[b]
  BY <1>1, <1>3, BehindIs
<1>5. Covers(hdr, mem)
  BY <1>2, <1>3, <1>4 DEF Covers
<1>6. CallOf(hdr, call)
  BY DEF CallOf
<1>7. ASSUME NEW i \in 1..hdr.len
      PROVE  Behind(mem, hdr.data)[Kept(call, i)] = s[i]
  <2>1. Kept(call, i) = i /\ i \in 1..n /\ i <= Len(s)
    BY <1>1, <1>2 DEF Kept, NoCall
  <2> QED BY <2>1, <1>2, <1>3, <1>4
<1> DEFINE h == hdr
           m == mem
           c == call
<1>8. h \in Headers /\ m \in Memories /\ Covers(h, m) /\ CallOf(h, c) /\ Len(s) = h.len
        /\ \A i \in 1..h.len : Behind(m, h.data)[Kept(c, i)] = s[i]
  BY <1>2, <1>3, <1>5, <1>6, <1>7
<1> HIDE DEF h, m, c
<1>9. Sound(h, m, c) /\ View(h, m, c) = s
  BY <1>1, <1>8, Shows
<1> QED BY <1>9 DEF h, m, c

LEMMA Begins ==
  ASSUME Assumptions, SequenceInit
  PROVE  IndInv /\ Contents \in Seq(Elems)
<1>1. /\ owning \in BOOLEAN /\ held = {} /\ lost = {} /\ call = NoCall /\ fault = FALSE
      /\ kind \in {"list", "array"}
  BY DEF SequenceInit
<1>2. MaxLen \in Nat /\ Word \in Nat /\ NamesAssumption
  BY DEF Assumptions, RoomAssumption
<1>3. ASSUME NEW s \in Seq(Elems), Sound(hdr, mem, call), View(hdr, mem, call) = s,
             owning => IsInjective(s), live = IF owning THEN ToSet(s) ELSE {}
      PROVE  IndInv /\ Contents \in Seq(Elems)
  <2>1. live \subseteq Elems
    BY <1>3, ToSetIs
  <2>2. SequenceTypeOK
    BY <2>1, <1>1, <1>3 DEF SequenceTypeOK, Sound
  <2>3. IF owning THEN Owned(View(hdr, mem, call), live, held) ELSE live = {} /\ held = {}
    BY <1>1, <1>3 DEF Owned
  <2>4. Contents = View(hdr, mem, call)
    BY DEF Contents, View, Loaded
  <2> QED BY <1>1, <1>3, <2>2, <2>3, <2>4 DEF IndInv
<1>4. /\ <<>> \in Seq(Elems) /\ Len(<<>>) = 0 /\ IsInjective(<<>>) /\ ToSet(<<>>) = {}
  BY EmptySeq DEF IsInjective, ToSet
<1>5. CASE NewList /\ live = {}
  <2>1. hdr \in Headers /\ hdr.len = 0 /\ hdr.cap = 0 /\ hdr.data = NULL
    BY <1>5, EmptyIs DEF NewList
  <2>2. mem \in Memories /\ \A b \in Blocks : mem[b] = <<>>
    BY <1>5 DEF NewList, Memories
  <2>3. Covers(hdr, mem)
    <3>1. Len(Behind(mem, NULL)) = 0
      BY DEF Behind
    <3> QED BY <2>1, <2>2, <3>1 DEF Covers
  <2>4. CallOf(hdr, call)
    BY <1>1 DEF CallOf
  <2> DEFINE s == <<>>
             h == hdr
             m == mem
             c == call
  <2>5. /\ h \in Headers /\ m \in Memories /\ Covers(h, m) /\ CallOf(h, c) /\ s \in Seq(Elems)
        /\ Len(s) = h.len
        /\ \A i \in 1..h.len : Behind(m, h.data)[Kept(c, i)] = s[i]
    BY <1>4, <2>1, <2>2, <2>3, <2>4
  <2> HIDE DEF s, h, m, c
  <2>6. Sound(h, m, c) /\ View(h, m, c) = s
    BY <1>2, <2>5, Shows
  <2> QED BY <1>3, <1>4, <1>5, <2>6 DEF s, h, m, c
<1>6. CASE \E n \in Reserves, b \in Blocks : ListWithCapacity(n, b) /\ live = {}
  <2>1. PICK n \in Reserves, b \in Blocks : ListWithCapacity(n, b) /\ live = {}
    BY <1>6
  <2>2. n \in Nat /\ n < Word
    <3>1. n \in Nat /\ (MaxLen + n) * ElemSize < Word /\ RoomAssumption
      BY DEF Assumptions, RoomAssumption
    <3>2. MaxLen + n \in Nat /\ n \in 0..(MaxLen + n)
      BY <3>1, <1>2
    <3> QED BY <3>1, <3>2, Fits
  <2> DEFINE s == <<>>
  <2>3. /\ hdr = [len |-> Len(s), cap |-> n, data |-> b] /\ mem = Buffer(b, s, n)
        /\ Len(s) <= n /\ Len(s) \in 0..MaxLen /\ s \in Seq(Elems)
    BY <2>1, <2>2, <1>2, <1>4 DEF ListWithCapacity
  <2> HIDE DEF s
  <2>5. Sound(hdr, mem, call) /\ View(hdr, mem, call) = s
    BY <1>1, <2>2, <2>3, InitShows
  <2> QED BY <1>3, <1>4, <2>1, <2>5 DEF s
<1>7. ASSUME NEW s \in Seq(Elems), Len(s) \in 0..MaxLen, NEW b \in Blocks,
             owning => IsInjective(s), live = (IF owning THEN ToSet(s) ELSE {}), ArrayFrom(s, b)
      PROVE  IndInv /\ Contents \in Seq(Elems)
  <2>1. CASE s = <<>>
    <3>1. NewList /\ live = {}
      BY <1>4, <1>7, <2>1 DEF ArrayFrom
    <3> QED BY <3>1, <1>5
  <2>2. CASE s # <<>>
    <3> DEFINE n == PowerFor(Len(s))
    <3>1. hdr = [len |-> Len(s), cap |-> n, data |-> b] /\ mem = Buffer(b, s, Slots(n))
      BY <1>7, <2>2 DEF ArrayFrom
    <3>2. Len(s) \in 1..MaxLen
      BY <1>2, <1>7, <2>2, EmptySeq
    <3>3. n \in Len(s)..(2 * Len(s))
      BY <3>2, <1>2, PowerForBounds
    <3> HIDE DEF n
    <3>4. n \in Nat /\ Len(s) <= n /\ n \in 0..(2 * MaxLen)
      BY <3>2, <3>3, <1>2
    <3>5. n < Word /\ Slots(n) = n
      <4>1. RoomAssumption /\ 2 * MaxLen \in Nat /\ (2 * MaxLen) * ElemSize < Word
        BY DEF Assumptions, RoomAssumption
      <4> QED BY <4>1, <3>4, Fits
    <3>6. mem = Buffer(b, s, n)
      BY <3>1, <3>5
    <3>7. Sound(hdr, mem, call) /\ View(hdr, mem, call) = s
      BY <1>1, <1>7, <3>1, <3>4, <3>5, <3>6, InitShows
    <3> QED BY <1>3, <1>7, <3>7
  <2> QED BY <2>1, <2>2
<1>8. CASE kind = "array"
  <2>1. PICK s \in BoundedSeq(Elems, MaxLen), b \in Blocks :
           /\ owning => IsInjective(s)
           /\ live = IF owning THEN ToSet(s) ELSE {}
           /\ ArrayFrom(s, b)
    BY <1>8 DEF SequenceInit
  <2>2. PICK k \in 0..MaxLen : s \in [1..k -> Elems]
    BY DEF BoundedSeq, SeqOf
  <2>3. s \in Seq(Elems) /\ Len(s) = k
    BY <1>2, <2>2, FunctionIsSeq
  <2> QED BY <2>1, <2>2, <2>3, <1>7
<1>9. CASE kind = "list"
  BY <1>9, <1>5, <1>6 DEF SequenceInit
<1> QED BY <1>1, <1>8, <1>9

LEMMA StutterKeeps ==
  ASSUME IndInv, UNCHANGED sequenceVars
  PROVE  IndInv' /\ Unseen
<1>1. /\ kind' = kind /\ owning' = owning /\ hdr' = hdr /\ mem' = mem /\ live' = live
      /\ held' = held /\ lost' = lost /\ call' = call /\ ret' = ret /\ fault' = fault
  BY DEF sequenceVars
<1> QED BY <1>1, ContentsNext DEF IndInv, SequenceTypeOK, Headers, Memories, Sound, Unseen,
            Contents, View, Loaded, Covers, CallOf, InUse

LEMMA Step ==
  ASSUME Assumptions, IndInv, [SequenceNext]_sequenceVars
  PROVE  IndInv' /\ (Promise!SNext \/ Unseen)
<1> USE DEF Promise!SNext, Promise!SCall
<1>1. CASE UNCHANGED sequenceVars
  BY <1>1, StutterKeeps
<1>2. ASSUME NEW op \in {"insert", "get", "remove", "reserve"}, ListBegin(op)
      PROVE  IndInv' /\ (Promise!SNext \/ Unseen)
  BY <1>2, BeginStep
<1>3. CASE ListPushBegin
  BY <1>3, PushBeginStep
<1>4. ASSUME NEW e \in Elems, ListPush(e)
      PROVE  IndInv' /\ (Promise!SNext \/ Unseen)
  BY <1>4, PushStep
<1>5. ASSUME NEW e \in Elems, ListInsert(e)
      PROVE  IndInv' /\ (Promise!SNext \/ Unseen)
  BY <1>5, InsertStep
<1>6. ASSUME NEW i \in Indexes, ListInsertRefused(i)
      PROVE  IndInv' /\ (Promise!SNext \/ Unseen)
  BY <1>6, RefusedStep
<1>7. ASSUME NEW i \in Indexes, ListInsertShift(i)
      PROVE  IndInv' /\ (Promise!SNext \/ Unseen)
  BY <1>7, InsertShiftStep
<1>8. ASSUME NEW i \in Indexes, ListGet(i)
      PROVE  IndInv' /\ (Promise!SNext \/ Unseen)
  BY <1>8, GetStep
<1>9. ASSUME NEW i \in Indexes, ListRemove(i)
      PROVE  IndInv' /\ (Promise!SNext \/ Unseen)
  BY <1>9, RemoveStep
<1>10. ASSUME NEW n \in Reserves, ListReserve(n)
       PROVE  IndInv' /\ (Promise!SNext \/ Unseen)
  BY <1>10, ReserveStep
<1>11. CASE ListPop
  <2>1. call = NoCall /\ Pop
    BY <1>11, Known DEF ListPop
  <2> QED BY <2>1, PopStep
<1>12. CASE ListClear
  BY <1>12, ClearStep
<1>13. CASE ListFree
  <2>1. call = NoCall /\ Release("free")
    BY <1>13 DEF ListFree, Callable
  <2> QED BY <2>1, ReleaseStep
<1>14. CASE ListDestroy
  <2>1. call = NoCall /\ Release("destroy")
    BY <1>14 DEF ListDestroy, Callable
  <2> QED BY <2>1, ReleaseStep
<1>15. CASE ListShrink
  BY <1>15, ShrinkStep
<1>16. ASSUME NEW e \in Elems, ArrayPush(e)
       PROVE  IndInv' /\ (Promise!SNext \/ Unseen)
  BY <1>16, ArrayPushStep
<1>17. ASSUME NEW e \in Elems, ArrayFill(e)
       PROVE  IndInv' /\ (Promise!SNext \/ Unseen)
  BY <1>17, FillStep
<1>18. ASSUME NEW i \in Indexes, ArrayGet(i)
       PROVE  IndInv' /\ (Promise!SNext \/ Unseen)
  <2>1. ArrayRead("get", i, "none")
    BY <1>18 DEF ArrayGet
  <2>2. /\ IndInv' /\ owning' = owning
        /\ Promise!SRead("get", i) \/ Promise!SRefuse("get", i, "none")
    BY <2>1, ArrayReadStep
  <2> QED BY <2>2
<1>19. ASSUME NEW i \in Indexes, ArrayIndex(i)
       PROVE  IndInv' /\ (Promise!SNext \/ Unseen)
  <2>1. ArrayRead("index", i, "trap")
    BY <1>19 DEF ArrayIndex
  <2>2. /\ IndInv' /\ owning' = owning
        /\ Promise!SRead("index", i) \/ Promise!SRefuse("index", i, "trap")
    BY <2>1, ArrayReadStep
  <2> QED BY <2>2
<1>20. CASE ArrayPop
  <2>1. call = NoCall /\ Pop
    BY <1>20 DEF ArrayPop, Callable
  <2> QED BY <2>1, PopStep
<1>21. CASE ArrayFree
  BY <1>21, ArrayFreeStep
<1>22. CASE ArrayDestroy
  <2>1. call = NoCall /\ Release("destroy")
    BY <1>22 DEF ArrayDestroy, Callable
  <2> QED BY <2>1, ReleaseStep
<1>23. CASE ArrayReverse
  BY <1>23, ReverseStep
<1>24. ASSUME NEW e \in Elems, DropElement(e)
       PROVE  IndInv' /\ (Promise!SNext \/ Unseen)
  <2>1. IndInv' /\ Contents' = Contents
    BY <1>24, DropKeeps
  <2>2. Promise!SDrop(e) /\ owning' = owning
    BY <1>24, <2>1 DEF DropElement, fixed, Promise!SDrop
  <2> QED BY <2>1, <2>2
<1> QED BY <1>1, <1>2, <1>3, <1>4, <1>5, <1>6, <1>7, <1>8, <1>9, <1>10, <1>11, <1>12, <1>13,
           <1>14, <1>15, <1>16, <1>17, <1>18, <1>19, <1>20, <1>21, <1>22, <1>23, <1>24
        DEF SequenceNext, ListNext, ArrayNext

LEMMA Invariant ==
  ASSUME Assumptions
  PROVE  SequenceSpec => []IndInv
<1>1. SequenceInit => IndInv
  BY Begins
<1>2. IndInv /\ [SequenceNext]_sequenceVars => IndInv'
  BY Step
<1> QED BY <1>1, <1>2, PTL DEF SequenceSpec

\* Header, buffer and owners have the shapes the model gives them.
THEOREM TypeCorrect ==
  ASSUME RoomAssumption, NamesAssumption, WellBehaved
  PROVE  SequenceSpec => []SequenceTypeOK
<1>1. Assumptions
  BY DEF Assumptions
<1>2. IndInv => SequenceTypeOK
  BY DEF IndInv
<1> QED BY <1>1, <1>2, Invariant, PTL

\* No call of a list or of an array reaches outside the buffer, whatever the
\* program stored, reserved or shrank before; no other buffer is left behind;
\* and an element that owns storage is in one slot or with the caller, unless a
\* refused insert lost it.  WellBehaved: no argument calls the receiver of its own
\* call, and fill is not used on elements that own storage.
THEOREM BuffersCover ==
  ASSUME RoomAssumption, NamesAssumption, WellBehaved
  PROVE  SequenceSpec => []BufferExact
<1>1. Assumptions
  BY DEF Assumptions
<1>2. IndInv => BufferExact
  <2> SUFFICES ASSUME IndInv PROVE BufferExact
    OBVIOUS
  <2>1. BufferCovers
    BY <1>1, Known, OwnersNow DEF BufferCovers
  <2>2. OneHolder
    BY <1>1, OwnersNow DEF OneHolder, Owned
  <2> QED BY <2>1, <2>2 DEF BufferExact
<1> QED BY <1>1, <1>2, Invariant, PTL

\* Seen from the program, a list or an array is the sequence of SeqSpec: a call
\* appends, takes, reads, refuses or hands over what that sequence would, wherever
\* the buffer is and however often it moved, as long as no argument calls the
\* receiver of its own call and fill is not used on elements that own storage.
THEOREM Implements ==
  ASSUME RoomAssumption, NamesAssumption, WellBehaved
  PROVE  SequenceSpec => ImplementsSeq
<1>1. Assumptions
  BY DEF Assumptions
<1>2. SequenceInit => Promise!SInit
  <2> SUFFICES ASSUME SequenceInit PROVE Promise!SInit
    OBVIOUS
  <2>1. Contents \in Seq(Elems)
    BY <1>1, Begins
  <2> QED BY <2>1 DEF SequenceInit, Promise!SInit, Promise!Done, Promise!Answer, Done, Answer
<1>3. IndInv /\ [SequenceNext]_sequenceVars => [Promise!SNext]_<<owning, Contents, held, ret>>
  BY <1>1, Step DEF Unseen
<1> QED BY <1>1, <1>2, <1>3, Invariant, PTL DEF SequenceSpec, ImplementsSeq

-----------------------------------------------------------------------------
(* Files: the buffer that read grows. *)

\* The capacities before the bytes 0 to k are stored.
Grows(k, g) ==
  /\ g \in [0..k -> Nat] /\ g[0] = ReadBuffer
  /\ \A i \in 1..k : g[i] = IF i >= g[i - 1] THEN 2 * g[i - 1] ELSE g[i - 1]

LEMMA GrowsExists == \A k \in Nat : \E g : Grows(k, g)
<1> DEFINE T == {k \in Nat : \E g : Grows(k, g)}
<1>1. 0 \in T
  <2>1. Grows(0, [i \in 0..0 |-> ReadBuffer])
    BY FilesAssumption DEF Grows
  <2> QED BY <2>1
<1>2. ASSUME NEW k \in Nat, k \in T PROVE k + 1 \in T
  <2>1. PICK g : Grows(k, g)
    BY <1>2
  <2> DEFINE next == IF k + 1 >= g[k] THEN 2 * g[k] ELSE g[k]
             h == [i \in 0..(k + 1) |-> IF i = k + 1 THEN next ELSE g[i]]
  <2>2. /\ g \in [0..k -> Nat] /\ g[0] = ReadBuffer
        /\ \A i \in 1..k : g[i] = IF i >= g[i - 1] THEN 2 * g[i - 1] ELSE g[i - 1]
    BY <2>1 DEF Grows
  <2>3. h \in [0..(k + 1) -> Nat]
    BY <2>2
  <2>4. h[0] = ReadBuffer
    BY <2>2
  <2>5. ASSUME NEW i \in 1..(k + 1)
        PROVE  h[i] = IF i >= h[i - 1] THEN 2 * h[i - 1] ELSE h[i - 1]
    <3>1. CASE i = k + 1
      BY <3>1
    <3>2. CASE i # k + 1
      <4>1. i \in 1..k /\ i - 1 \in 0..k /\ i \in 0..(k + 1) /\ i - 1 # k + 1
        BY <3>2
      <4>2. h[i] = g[i] /\ h[i - 1] = g[i - 1]
        BY <4>1, <3>2
      <4> QED BY <4>1, <4>2, <2>2
    <3> QED BY <3>1, <3>2
  <2> HIDE DEF h
  <2>6. Grows(k + 1, h)
    BY <2>3, <2>4, <2>5 DEF Grows
  <2> QED BY <2>6
<1> HIDE DEF T
<1>3. Nat \subseteq T
  BY <1>1, <1>2, AllNumbers
<1> QED BY <1>3 DEF T

LEMMA GrowsUnique ==
  ASSUME NEW k \in Nat, NEW m \in Nat, NEW g, NEW h, Grows(k, g), Grows(m, h)
  PROVE  \A i \in Nat : i <= k /\ i <= m => g[i] = h[i]
<1> DEFINE T == {i \in Nat : i <= k /\ i <= m => g[i] = h[i]}
<1>1. 0 \in T
  BY DEF Grows
<1>2. ASSUME NEW i \in Nat, i \in T PROVE i + 1 \in T
  <2>1. SUFFICES ASSUME i + 1 <= k, i + 1 <= m PROVE g[i + 1] = h[i + 1]
    OBVIOUS
  <2>2. i + 1 \in 1..k /\ i + 1 \in 1..m /\ (i + 1) - 1 = i /\ i <= k /\ i <= m
    BY <2>1
  <2>3. g[i] = h[i]
    BY <1>2, <2>2
  <2> QED BY <2>2, <2>3 DEF Grows
<1> HIDE DEF T
<1>3. Nat \subseteq T
  BY <1>1, <1>2, AllNumbers
<1> QED BY <1>3 DEF T

\* The capacity is a function of the bytes stored.
LEMMA CapacityDefined ==
  Capacity = [k \in Nat |-> IF k = 0 THEN ReadBuffer
                            ELSE IF k >= Capacity[k - 1] THEN 2 * Capacity[k - 1]
                                 ELSE Capacity[k - 1]]
<1> DEFINE upTo(k) == CHOOSE g : Grows(k, g)
           f == [k \in Nat |-> upTo(k)[k]]
<1>1. \A k \in Nat : Grows(k, upTo(k))
  BY GrowsExists
<1> HIDE DEF upTo
<1>2. f[0] = ReadBuffer
  BY <1>1 DEF Grows
<1>3. ASSUME NEW k \in Nat, k # 0
      PROVE  f[k] = IF k >= f[k - 1] THEN 2 * f[k - 1] ELSE f[k - 1]
  <2>1. k \in 1..k /\ k - 1 \in Nat
    BY <1>3
  <2>2. upTo(k)[k] = IF k >= upTo(k)[k - 1] THEN 2 * upTo(k)[k - 1] ELSE upTo(k)[k - 1]
    BY <1>1, <2>1 DEF Grows
  <2>3. Grows(k, upTo(k)) /\ Grows(k - 1, upTo(k - 1))
    BY <1>1, <2>1
  <2>4. upTo(k)[k - 1] = upTo(k - 1)[k - 1]
    BY <2>1, <2>3, GrowsUnique
  <2> QED BY <2>1, <2>2, <2>4
<1>4. f = [k \in Nat |-> IF k = 0 THEN ReadBuffer
                         ELSE LET before == f[k - 1] IN IF k >= before THEN 2 * before ELSE before]
  BY <1>2, <1>3
<1> HIDE DEF f
<1>5. Capacity = [k \in Nat |-> IF k = 0 THEN ReadBuffer
                  ELSE LET before == Capacity[k - 1] IN IF k >= before THEN 2 * before ELSE before]
  BY <1>4 DEF Capacity
<1> QED BY <1>5

\* A byte is stored in the buffer, the closing NUL after it included.
LEMMA CapacitySuffices == \A k \in Nat : Capacity[k] \in Nat /\ k < Capacity[k]
<1> DEFINE T == {k \in Nat : Capacity[k] \in Nat /\ k < Capacity[k]}
<1>1. 0 \in T
  BY CapacityDefined, FilesAssumption
<1>2. ASSUME NEW k \in Nat, k \in T PROVE k + 1 \in T
  <2>1. k + 1 \in Nat /\ k + 1 # 0 /\ (k + 1) - 1 = k
    OBVIOUS
  <2>2. Capacity[k + 1] = IF k + 1 >= Capacity[k] THEN 2 * Capacity[k] ELSE Capacity[k]
    BY <2>1, CapacityDefined
  <2> QED BY <1>2, <2>2
<1> HIDE DEF T
<1>3. Nat \subseteq T
  BY <1>1, <1>2, AllNumbers
<1> QED BY <1>3 DEF T

-----------------------------------------------------------------------------
(* Files: the inductive invariant. *)

Byte == Letters \cup {NL, NUL}
Handle == [path : Paths, mode : {"r", "w", "a"}, pos : Nat]
Job == [src : Paths, dst : Paths, step : {"openDst", "read", "write"},
        rpos : Nat, chunk : Seq(Byte), was : Seq(Byte)]

\* No copy runs while a file is open.
FilesTypeOK ==
  /\ disk \in [Paths -> {Absent, Dir} \cup Seq(Byte)]
  /\ file = Shut \/ file \in Handle
  /\ job = Shut \/ job \in Job
  /\ written \in [Paths -> {Absent} \cup Seq(Seq(Letters))]
  /\ file # Shut => job = Shut

\* The bytes d are the lines w, and at[i] is where the first i of them end.
Cuts(d, w, at) ==
  /\ at \in [0..Len(w) -> 0..Len(d)] /\ at[0] = 0 /\ at[Len(w)] = Len(d)
  /\ \A i \in 1..Len(w) :
       /\ Len(w[i]) <= LineBuffer - 2
       /\ at[i] = at[i - 1] + Len(w[i]) + 1
       /\ d[at[i]] = NL
       /\ \A k \in 1..Len(w[i]) : d[at[i - 1] + k] = w[i][k]

\* A file whose lines are known holds them and nothing else.
LinesOnDisk ==
  \A p \in Paths :
    written[p] # Absent => IsFileNow(p) /\ \E at : Cuts(disk[p], written[p], at)

\* What was heard ends where the file stands.
Reached(n, at) ==
  /\ Cuts(disk[file.path], written[file.path], at)
  /\ n \in 0..Len(written[file.path])
  /\ heard = SubSeq(written[file.path], 1, n)
  /\ file.pos = at[n]

HeardSoFar ==
  heard # Absent =>
    /\ file \in Handle /\ file.mode = "r"
    /\ written[file.path] # Absent => \E n, at : Reached(n, at)

\* A copy has moved what it read but the chunk it holds.
CopiedSoFar ==
  /\ job.step = "read" => /\ job.rpos <= Len(job.was)
                          /\ disk[job.dst] = SubSeq(job.was, 1, job.rpos)
  /\ job.step = "write" => /\ job.rpos <= Len(job.was)
                           /\ disk[job.dst] \o job.chunk = SubSeq(job.was, 1, job.rpos)

CopySoFar ==
  /\ job = Shut => fds = {}
  /\ job # Shut =>
       /\ job.step = "openDst" => fds = {"src"} /\ disk[job.src] = job.was /\ job.rpos = 0
       /\ job.step # "openDst" =>
            /\ fds = {"src", "dst"} /\ written[job.dst] = Absent
            /\ disk[job.dst] \in Seq(Byte)
            /\ job.src # job.dst => disk[job.src] = job.was /\ CopiedSoFar

FilesInv == FilesTypeOK /\ LinesOnDisk /\ HeardSoFar /\ CopySoFar

LEMMA HandlesAreOpen == \A h \in Handle : h # Shut
  BY DEF Handle, Shut

LEMMA JobsRun == \A j \in Job : j # Shut
<1> SUFFICES ASSUME NEW j \in Job PROVE j # Shut
  OBVIOUS
<1>1. "src" \in DOMAIN j
  BY DEF Job
<1>2. "src" \notin DOMAIN Shut
  BY DEF Shut
<1> QED BY <1>1, <1>2

\* The bytes of what is no file are none.
LEMMA BytesIs ==
  ASSUME FilesTypeOK
  PROVE  /\ \A p \in Paths : Bytes(p) \in Seq(Byte)
         /\ \A p \in Paths : IsFileNow(p) => Bytes(p) = disk[p] /\ disk[p] \in Seq(Byte)
         /\ \A p \in Paths : disk[p] \in Seq(Byte) => IsFileNow(p)
<1>1. << >> \in Seq(Byte)
  BY EmptySeq
<1> QED BY <1>1, FilesAssumption DEF FilesTypeOK, Bytes, IsFileNow, Byte

LEMMA MinPair == \A a, b \in Int : Min({a, b}) = IF a <= b THEN a ELSE b
<1> SUFFICES ASSUME NEW a \in Int, NEW b \in Int PROVE Min({a, b}) = IF a <= b THEN a ELSE b
  OBVIOUS
<1>1. \E x \in {a, b} : \A y \in {a, b} : x <= y
  OBVIOUS
<1>2. Min({a, b}) \in {a, b} /\ \A y \in {a, b} : Min({a, b}) <= y
  BY <1>1 DEF Min
<1> QED BY <1>2

LEMMA FilesStart == FilesInit => FilesInv
<1> SUFFICES ASSUME FilesInit PROVE FilesInv
  OBVIOUS
<1>1. FilesTypeOK
  BY DEF FilesInit, FilesTypeOK
<1>2. LinesOnDisk /\ HeardSoFar
  BY DEF FilesInit, LinesOnDisk, HeardSoFar
<1>3. CopySoFar
  BY DEF FilesInit, CopySoFar
<1> QED BY <1>1, <1>2, <1>3 DEF FilesInv

\* No lines are no bytes.
LEMMA NoCuts == Cuts(<< >>, << >>, [i \in 0..0 |-> 0])
<1>1. Len(<< >>) = 0
  BY EmptySeq
<1> QED BY <1>1 DEF Cuts

LEMMA HeardNothing ==
  ASSUME FilesInv, file' \in Handle, heard' = << >>, file'.pos = 0, disk' = disk, written' = written,
         file'.mode = "r"
  PROVE  HeardSoFar'
<1> SUFFICES ASSUME written[file'.path] # Absent PROVE \E n, at : Reached(n, at)'
  BY DEF HeardSoFar
<1>1. file'.path \in Paths
  BY DEF Handle
<1>2. PICK at : Cuts(disk[file'.path], written[file'.path], at)
  BY <1>1 DEF FilesInv, LinesOnDisk
<1>3. written[file'.path] \in Seq(Seq(Letters))
  BY <1>1 DEF FilesInv, FilesTypeOK
<1>4. PICK w : w = written[file'.path]
  OBVIOUS
<1>5. SubSeq(w, 1, 0) = << >> /\ 0 \in 0..Len(w)
  BY <1>3, <1>4, SubSeqEmpty, LenProperties
<1>6. Reached(0, at)'
  BY <1>2, <1>4, <1>5 DEF Reached, Cuts
<1> QED BY <1>6

LEMMA OpenKeeps == ASSUME FilesInv, NEW p \in Paths, NEW mode \in {"r", "w", "a"}, Open(p, mode) PROVE FilesInv'
<1>0. job = Shut /\ job' = Shut /\ fds' = fds /\ file = Shut
  BY DEF Open, Opened, Idle
<1>c. CopySoFar'
  BY <1>0 DEF FilesInv, CopySoFar
<1>1. CASE UNCHANGED <<disk, file, written, heard>>
  BY <1>0, <1>1, <1>c DEF FilesInv, FilesTypeOK, LinesOnDisk, HeardSoFar, IsFileNow, Reached
<1>2. CASE ~ UNCHANGED <<disk, file, written, heard>>
  <2>1. /\ mode = "r" => disk[p] # Absent
        /\ mode \in {"w", "a"} => disk[p] # Dir
        /\ file' = [path |-> p, mode |-> mode, pos |-> 0]
        /\ disk' = [disk EXCEPT ![p] = CASE mode = "r" -> disk[p]
                                         [] mode = "w" -> <<>>
                                         [] mode = "a" -> Bytes(p)]
        /\ written' = IF mode = "w" \/ disk[p] = Absent
                      THEN [written EXCEPT ![p] = <<>>] ELSE written
        /\ heard' = IF mode = "r" THEN <<>> ELSE Absent
    BY <1>2 DEF Open
  <2>2. file' \in Handle
    BY <2>1 DEF Handle
  <2>3. /\ << >> \in Seq(Byte) /\ << >> \in Seq(Seq(Letters)) /\ Bytes(p) \in Seq(Byte)
        /\ Absent \notin Seq(Byte) /\ Dir \notin Seq(Byte)
    BY EmptySeq, BytesIs, FilesAssumption DEF FilesInv, Byte
  <2>4. /\ mode = "r" => disk' = disk /\ written' = written
        /\ mode = "w" => disk' = [disk EXCEPT ![p] = << >>] /\ written' = [written EXCEPT ![p] = << >>]
        /\ mode = "a" => disk' = [disk EXCEPT ![p] = Bytes(p)]
    BY <2>1 DEF FilesInv, FilesTypeOK
  <2>5. FilesTypeOK'
    BY <1>0, <2>1, <2>2, <2>3, <2>4 DEF FilesInv, FilesTypeOK
  <2>6. LinesOnDisk'
    <3> SUFFICES ASSUME NEW q \in Paths, written'[q] # Absent
                 PROVE  IsFileNow(q)' /\ \E at : Cuts(disk'[q], written'[q], at)
      BY DEF LinesOnDisk
    <3>1. CASE disk'[q] = disk[q] /\ written'[q] = written[q]
      BY <3>1 DEF FilesInv, LinesOnDisk, IsFileNow
    <3>2. CASE disk'[q] = << >> /\ written'[q] = << >>
      BY <3>2, <2>3, NoCuts DEF IsFileNow
    <3>3. CASE q # p
      BY <3>1, <3>3, <2>4, <2>1 DEF FilesInv, FilesTypeOK
    <3>4. CASE q = p /\ mode = "r"
      BY <3>1, <3>4, <2>4
    <3>5. CASE q = p /\ mode = "w"
      BY <3>2, <3>5, <2>4 DEF FilesInv, FilesTypeOK
    <3>6. CASE q = p /\ mode = "a" /\ disk[p] = Absent
      BY <3>2, <3>6, <2>1, <2>4 DEF FilesInv, FilesTypeOK, Bytes
    <3>7. CASE q = p /\ mode = "a" /\ disk[p] # Absent
      BY <3>1, <3>7, <2>1, <2>4 DEF FilesInv, FilesTypeOK, Bytes
    <3> QED BY <3>3, <3>4, <3>5, <3>6, <3>7
  <2>7. HeardSoFar'
    <3>1. CASE mode = "r"
      BY <3>1, <2>1, <2>2, <2>4, HeardNothing
    <3>2. CASE mode # "r"
      BY <3>2, <2>1 DEF HeardSoFar
    <3> QED BY <3>1, <3>2
  <2> QED BY <1>c, <2>5, <2>6, <2>7 DEF FilesInv
<1> QED BY <1>1, <1>2

LEMMA CloseKeeps == ASSUME FilesInv, Close PROVE FilesInv'
<1>1. /\ file # Shut /\ file' = Shut /\ heard' = Absent /\ disk' = disk /\ job' = job
      /\ fds' = fds /\ written' = written
  BY DEF Close, Opened
<1> QED BY <1>1 DEF FilesInv, FilesTypeOK, LinesOnDisk, HeardSoFar, CopySoFar, CopiedSoFar, IsFileNow

\* A read that ends the record of what was heard, and a seek.
LEMMA PosKeeps ==
  ASSUME FilesInv, NEW n \in Nat, Opened, file' = [file EXCEPT !.pos = n], heard' = Absent,
         UNCHANGED <<disk, job, fds, written>>
  PROVE  FilesInv'
<1>1. file \in Handle /\ file' \in Handle
  BY DEF FilesInv, FilesTypeOK, Opened, Handle
<1> QED BY <1>1 DEF FilesInv, FilesTypeOK, LinesOnDisk, HeardSoFar, CopySoFar, CopiedSoFar, IsFileNow, Opened

LEMMA AvailableIs ==
  ASSUME FilesInv, Opened
  PROVE  /\ file \in Handle /\ Available \in Seq(Byte) /\ Len(Available) \in Nat
         /\ file.mode = "r" =>
              /\ Len(Available) = IF file.pos < Len(Bytes(file.path)) THEN Len(Bytes(file.path)) - file.pos ELSE 0
              /\ \A k \in 1..Len(Available) : Available[k] = Bytes(file.path)[file.pos + k]
<1>1. file \in Handle /\ file.path \in Paths /\ file.pos \in Nat
  BY DEF FilesInv, FilesTypeOK, Opened, Handle
<1>2. PICK d \in Seq(Byte) : d = Bytes(file.path)
  BY <1>1, BytesIs DEF FilesInv
<1>3. PICK o \in Nat : o = file.pos
  BY <1>1
<1>4. Len(d) \in Nat /\ \A i \in 1..Len(d) : d[i] \in Byte
  BY <1>2, LenProperties
<1>5. \A i \in (o + 1)..Len(d) : d[i] \in Byte
  BY <1>3, <1>4
<1>6. /\ SubSeq(d, o + 1, Len(d)) \in Seq(Byte)
      /\ Len(SubSeq(d, o + 1, Len(d))) = IF o + 1 <= Len(d) THEN Len(d) - (o + 1) + 1 ELSE 0
      /\ \A i \in 1..(Len(d) - (o + 1) + 1) : SubSeq(d, o + 1, Len(d))[i] = d[(o + 1) + i - 1]
  BY <1>3, <1>4, <1>5, SubSeqProperties
<1>7. << >> \in Seq(Byte)
  BY EmptySeq
<1>8. Available = IF file.mode = "r" THEN SubSeq(d, o + 1, Len(d)) ELSE << >>
  BY <1>2, <1>3 DEF Available, Ahead
<1>9. Available \in Seq(Byte)
  BY <1>6, <1>7, <1>8
<1>10. ASSUME file.mode = "r"
       PROVE  /\ Len(Available) = IF o < Len(d) THEN Len(d) - o ELSE 0
              /\ \A k \in 1..Len(Available) : Available[k] = d[o + k]
  <2>1. Available = SubSeq(d, o + 1, Len(d))
    BY <1>8, <1>10
  <2>2. Len(Available) = IF o < Len(d) THEN Len(d) - o ELSE 0
    BY <2>1, <1>3, <1>4, <1>6
  <2>3. ASSUME NEW k \in 1..Len(Available) PROVE Available[k] = d[o + k]
    <3>1. o < Len(d) /\ k \in 1..(Len(d) - (o + 1) + 1) /\ (o + 1) + k - 1 = o + k
      BY <2>2, <2>3, <1>3, <1>4
    <3> QED BY <3>1, <2>1, <1>6
  <2> QED BY <2>2, <2>3
<1>11. Len(Available) \in Nat
  BY <1>9, LenProperties
<1> QED BY <1>1, <1>2, <1>3, <1>9, <1>10, <1>11

\* The line that readln takes when the n-th line is where the file stands.
LEMMA LineIs ==
  ASSUME FilesInv, Opened, file.mode = "r", Available # << >>,
         NEW w \in Seq(Seq(Letters)), NEW at, NEW n \in 0..Len(w),
         Cuts(Bytes(file.path), w, at), file.pos = at[n]
  PROVE  /\ n + 1 \in 1..Len(w) /\ Len(Fetched) = Len(w[n + 1]) + 1
         /\ WithoutNewline(CString(Fetched)) = w[n + 1]
<1>0. PICK d \in Seq(Byte) : d = Bytes(file.path)
  BY BytesIs DEF FilesInv, FilesTypeOK, Opened, Handle
<1>1. /\ Cuts(d, w, at) /\ Len(d) \in Nat /\ Len(w) \in Nat
  BY <1>0, LenProperties
<1>2. PICK A \in Seq(Byte) : A = Available
  BY AvailableIs
<1>3. /\ Len(A) \in Nat
      /\ Len(A) = IF at[n] < Len(d) THEN Len(d) - at[n] ELSE 0
      /\ \A k \in 1..Len(A) : A[k] = d[at[n] + k]
  BY <1>0, <1>2, AvailableIs
<1>4. Len(A) # 0
  <2>1. A # << >>
    BY <1>2
  <2> QED BY <2>1, <1>2, EmptySeq
<1>5. n + 1 \in 1..Len(w) /\ (n + 1) - 1 = n /\ at[n] \in 0..Len(d) /\ at[n + 1] \in 0..Len(d)
  <2>1. at \in [0..Len(w) -> 0..Len(d)] /\ at[Len(w)] = Len(d)
    BY <1>1 DEF Cuts
  <2>2. at[n] \in 0..Len(d)
    BY <2>1
  <2>3. at[n] < Len(d)
    BY <2>2, <1>1, <1>3, <1>4
  <2>4. n # Len(w)
    BY <2>1, <2>3, <1>1
  <2>5. n + 1 \in 1..Len(w) /\ n + 1 \in 0..Len(w) /\ (n + 1) - 1 = n
    BY <2>4, <1>1
  <2>6. at[n + 1] \in 0..Len(d)
    BY <2>1, <2>5
  <2> QED BY <2>2, <2>5, <2>6, <1>1
<1>6. PICK s \in Seq(Letters) : s = w[n + 1]
  BY <1>5, ElementOfSeq
<1>7. PICK l \in Nat : l = Len(s)
  BY LenProperties
<1>8. /\ l <= LineBuffer - 2 /\ at[n + 1] = at[n] + l + 1 /\ d[at[n + 1]] = NL
      /\ \A k \in 1..l : d[at[n] + k] = s[k]
  BY <1>1, <1>5, <1>6, <1>7 DEF Cuts
<1>e. PICK a \in Nat, b \in Nat : a = at[n] /\ b = at[n + 1] /\ a <= Len(d) /\ b <= Len(d)
  BY <1>1, <1>5
<1>f. b = a + l + 1
  <2>1. at[n + 1] = at[n] + l + 1
    BY <1>8
  <2>2. at[n + 1] = a + l + 1
    BY <2>1, <1>e
  <2> QED BY <2>2, <1>e
<1>9. Len(A) >= l + 1
  <2>1. a < Len(d)
    BY <1>e, <1>f, <1>1, <1>7
  <2>2. Len(A) = Len(d) - a
    BY <1>e, <2>1, <1>3
  <2> QED BY <2>2, <1>e, <1>f, <1>1, <1>7
<1>10. A[l + 1] = NL /\ \A k \in 1..l : A[k] = s[k] /\ s[k] \in Letters
  <2>1. A[l + 1] = d[at[n] + (l + 1)]
    <3>1. l + 1 \in 1..Len(A)
      BY <1>3, <1>9
    <3> QED BY <3>1, <1>3
  <2>2. at[n] + (l + 1) = at[n + 1]
    <3>1. a + (l + 1) = b
      BY <1>f
    <3> QED BY <3>1, <1>e
  <2>3. \A k \in 1..l : A[k] = d[at[n] + k]
    BY <1>3, <1>7, <1>9
  <2>4. \A k \in 1..l : s[k] \in Letters
    BY <1>7, ElementOfSeq
  <2> QED BY <2>1, <2>2, <2>3, <2>4, <1>8
<1>11. PICK f \in Nat : f = Min({Len(A), LineBuffer - 1}) /\ f >= l + 1 /\ f <= Len(A)
  <2>1. LineBuffer - 1 \in Int /\ Len(A) \in Int /\ LineBuffer - 1 >= l + 1
    BY <1>3, <1>7, <1>8, FilesAssumption
  <2>2. Min({Len(A), LineBuffer - 1}) = IF Len(A) <= LineBuffer - 1 THEN Len(A) ELSE LineBuffer - 1
    BY <2>1, MinPair
  <2> QED BY <2>1, <2>2, <1>3, <1>7, <1>9
<1> DEFINE ends == {k \in 1..f : A[k] = NL}
<1>12. l + 1 \in ends /\ \A k \in ends : l + 1 <= k
  <2>1. l + 1 \in ends
    BY <1>7, <1>10, <1>11
  <2>2. ASSUME NEW k \in 1..l PROVE A[k] # NL
    BY <1>10, FilesAssumption
  <2> QED BY <2>1, <2>2, <1>7
<1>13. Min(ends) = l + 1
  <2> DEFINE least(x) == x \in ends /\ \A y \in ends : x <= y
  <2>1. \E x \in ends : \A y \in ends : x <= y
    BY <1>12
  <2>2. Min(ends) \in ends /\ \A y \in ends : Min(ends) <= y
    BY <2>1 DEF Min
  <2>3. Min(ends) <= l + 1 /\ l + 1 <= Min(ends) /\ Min(ends) \in Int
    BY <2>2, <1>12
  <2> QED BY <2>3, <1>7
<1>14. Fetched = SubSeq(A, 1, l + 1)
  <2>1. ends # {}
    BY <1>12
  <2>2. ends = {k \in 1..Min({Len(Available), LineBuffer - 1}) : Available[k] = NL}
    BY <1>2, <1>11
  <2> HIDE DEF ends
  <2>3. Fetched = SubSeq(Available, 1, IF ends = {} THEN Min({Len(Available), LineBuffer - 1}) ELSE Min(ends))
    BY <2>2 DEF Fetched
  <2> QED BY <2>1, <2>3, <1>2, <1>13
<1> HIDE DEF ends
<1>15. PICK t \in Seq(Byte) : /\ t = Fetched /\ Len(t) = l + 1
                             /\ \A k \in 1..(l + 1) : t[k] = A[k]
  <2>1. \A k \in 1..(l + 1) : A[k] \in Byte
    BY <1>2, <1>3, <1>7, <1>9, ElementOfSeq
  <2>2. /\ SubSeq(A, 1, l + 1) \in Seq(Byte)
        /\ Len(SubSeq(A, 1, l + 1)) = IF 1 <= l + 1 THEN (l + 1) - 1 + 1 ELSE 0
        /\ \A k \in 1..((l + 1) - 1 + 1) : SubSeq(A, 1, l + 1)[k] = A[1 + k - 1]
    BY <2>1, <1>7, SubSeqProperties
  <2>3. Len(SubSeq(A, 1, l + 1)) = l + 1 /\ \A k \in 1..(l + 1) : SubSeq(A, 1, l + 1)[k] = A[k]
    BY <2>2, <1>7
  <2> QED BY <2>2, <2>3, <1>14
<1>16. CString(t) = t
  <2>1. \A k \in 1..Len(t) : t[k] # NUL
    <3>1. \A k \in 1..l : t[k] = s[k] /\ s[k] # NUL
      BY <1>7, <1>10, <1>15, FilesAssumption
    <3>2. t[l + 1] # NUL
      BY <1>7, <1>10, <1>15, FilesAssumption
    <3> SUFFICES ASSUME NEW k \in 1..Len(t) PROVE t[k] # NUL
      OBVIOUS
    <3>3. k \in 1..l \/ k = l + 1
      BY <1>7, <1>15
    <3> QED BY <3>1, <3>2, <3>3
  <2>2. {k \in 1..Len(t) : t[k] = NUL} = {}
    BY <2>1
  <2> QED BY <2>2 DEF CString
<1>17. WithoutNewline(t) = s
  <2>1. Last(t) = NL /\ Len(t) > 0
    BY <1>7, <1>10, <1>15 DEF Last
  <2>2. t # << >>
    BY <2>1, EmptySeq
  <2>3. WithoutNewline(t) = Front(t)
    BY <2>1, <2>2 DEF WithoutNewline
  <2>4. /\ Front(t) \in Seq(Byte) /\ Len(Front(t)) = l
        /\ \A k \in 1..l : Front(t)[k] = t[k]
    <3>1. Len(t) > 0 /\ Len(t) - 1 = l
      BY <2>1, <1>7, <1>15
    <3>2. /\ Front(t) \in Seq(Byte) /\ Len(Front(t)) = Len(t) - 1
          /\ \A k \in 1..(Len(t) - 1) : Front(t)[k] = t[k]
      BY <3>1, FrontIs
    <3> QED BY <3>1, <3>2
  <2>5. s \in Seq(Byte)
    BY SeqMonotonic DEF Byte
  <2>6. \A k \in 1..l : Front(t)[k] = s[k]
    <3> SUFFICES ASSUME NEW k \in 1..l PROVE Front(t)[k] = s[k]
      OBVIOUS
    <3>1. k \in 1..(l + 1)
      BY <1>7
    <3> QED BY <3>1, <2>4, <1>10, <1>15
  <2> QED BY <2>3, <2>4, <2>5, <2>6, <1>7, SeqEqual
<1> QED BY <1>5, <1>6, <1>7, <1>15, <1>16, <1>17

LEMMA FetchedLength == ASSUME FilesInv, Opened PROVE Len(Fetched) \in Nat
<1>1. PICK A \in Seq(Byte) : A = Available
  BY AvailableIs
<1>2. Len(A) \in Nat
  BY <1>1, LenProperties
<1> DEFINE f == Min({Len(A), LineBuffer - 1})
           ends == {k \in 1..f : A[k] = NL}
<1>3. f \in Int /\ f <= Len(A)
  BY <1>2, MinPair, FilesAssumption
<1> DEFINE m == IF ends = {} THEN f ELSE Min(ends)
<1>4. m \in Int /\ m <= Len(A)
  <2>1. CASE ends = {}
    BY <2>1, <1>3
  <2>2. CASE ends # {}
    <3>1. ends \subseteq Nat
      BY <1>3
    <3> HIDE DEF ends
    <3>2. PICK e \in ends : \A k \in ends : ~(<<k, e>> \in Less)
      BY <2>2, <3>1, LessWellFounded, WFMin
    <3>3. \A k \in ends : e <= k
      <4> SUFFICES ASSUME NEW k \in ends PROVE e <= k
        OBVIOUS
      <4>1. k \in Nat /\ e \in Nat
        BY <3>1
      <4>2. <<k, e>> \notin Less
        BY <3>2
      <4>3. ~(k < e)
        BY <4>1, <4>2 DEF Less
      <4> QED BY <4>1, <4>3
    <3>4. Min(ends) \in ends
      BY <3>3 DEF Min
    <3>5. Min(ends) \in 1..f
      BY <3>4 DEF ends
    <3> QED BY <2>2, <3>5, <1>3, <1>2
  <2> QED BY <2>1, <2>2
<1>5. Fetched = SubSeq(A, 1, m)
  BY <1>1 DEF Fetched
<1> HIDE DEF m, f
<1>6. \A k \in 1..m : A[k] \in Byte
  BY <1>2, <1>4, ElementOfSeq
<1>7. SubSeq(A, 1, m) \in Seq(Byte)
  BY <1>4, <1>6, SubSeqProperties
<1> QED BY <1>5, <1>7, LenProperties

LEMMA ReadLineKeeps == ASSUME FilesInv, ReadLine PROVE FilesInv'
<1>1. PICK buffer, line :
        /\ buffer \in IF Available = <<>> THEN Junk ELSE {Fetched}
        /\ line = WithoutNewline(CString(buffer))
        /\ Reads(Len(Fetched), line,
                 IF heard = Absent \/ Available = <<>> THEN Absent ELSE Append(heard, line))
  BY DEF ReadLine
<1>2. /\ Opened /\ file' = [file EXCEPT !.pos = file.pos + Len(Fetched)]
      /\ heard' = IF heard = Absent \/ Available = <<>> THEN Absent ELSE Append(heard, line)
      /\ disk' = disk /\ job' = job /\ fds' = fds /\ written' = written
  BY <1>1 DEF Reads
<1>3. Len(Fetched) \in Nat
  BY <1>2, FetchedLength
<1>4. file \in Handle /\ file' \in Handle /\ file'.path = file.path /\ file'.mode = file.mode
      /\ file.pos \in Nat /\ file'.pos = file.pos + Len(Fetched) /\ file.path \in Paths
  <2>1. file \in Handle
    BY <1>2 DEF FilesInv, FilesTypeOK, Opened
  <2>2. PICK m \in Nat : m = file.pos + Len(Fetched)
    BY <2>1, <1>3 DEF Handle
  <2>3. file' = [file EXCEPT !.pos = m]
    BY <2>2, <1>2
  <2> QED BY <2>1, <2>2, <2>3 DEF Handle
<1>5. CASE heard = Absent \/ Available = <<>>
  BY <1>2, <1>3, <1>4, <1>5, PosKeeps
<1>6. CASE heard # Absent /\ Available # <<>>
  <2>1. FilesTypeOK' /\ LinesOnDisk' /\ CopySoFar'
    BY <1>2, <1>4 DEF FilesInv, FilesTypeOK, LinesOnDisk, CopySoFar, CopiedSoFar, IsFileNow, Opened
  <2>2. HeardSoFar'
    <3> SUFFICES ASSUME written[file.path] # Absent PROVE \E n, at : Reached(n, at)'
      BY <1>2, <1>4, <1>6 DEF FilesInv, HeardSoFar
    <3>1. PICK n, at : Reached(n, at)
      BY <1>6 DEF FilesInv, HeardSoFar
    <3>2. PICK w \in Seq(Seq(Letters)) : w = written[file.path]
      BY <1>4 DEF FilesInv, FilesTypeOK
    <3>3. Bytes(file.path) = disk[file.path]
      BY <1>4, BytesIs DEF FilesInv, LinesOnDisk
    <3>4. /\ Cuts(Bytes(file.path), w, at) /\ n \in 0..Len(w) /\ file.pos = at[n]
          /\ heard = SubSeq(w, 1, n)
      BY <3>1, <3>2, <3>3 DEF Reached
    <3>5. file.mode = "r"
      BY <1>6 DEF FilesInv, HeardSoFar
    <3>6. /\ n + 1 \in 1..Len(w) /\ Len(Fetched) = Len(w[n + 1]) + 1
          /\ WithoutNewline(CString(Fetched)) = w[n + 1]
      BY <3>4, <3>5, <1>2, <1>6, LineIs
    <3>7. line = w[n + 1] /\ heard' = Append(heard, line)
      BY <1>1, <1>2, <1>6, <3>6
    <3>8. Append(SubSeq(w, 1, n), w[n + 1]) = SubSeq(w, 1, n + 1)
      <4>1. n \in Nat /\ Len(w) \in Nat /\ (n + 1) - 1 = n
        BY <3>4, LenProperties
      <4>2. SubSeq(w, 1, n + 1) = SubSeq(w, 1, (n + 1) - 1) \o << w[n + 1] >>
        <5>1. 1 \in 1..Len(w) /\ n + 1 \in 1..Len(w)
          BY <3>6, <4>1
        <5> QED BY <5>1, SubSeqRecursiveSecond
      <4>3. SubSeq(w, 1, n) \in Seq(Seq(Letters)) /\ w[n + 1] \in Seq(Letters)
        <5>1. \A k \in 1..n : w[k] \in Seq(Letters)
          BY <3>4, <4>1, ElementOfSeq
        <5>2. w[n + 1] \in Seq(Letters)
          BY <3>6, ElementOfSeq
        <5> QED BY <5>1, <5>2, <4>1, SubSeqProperties
      <4> QED BY <4>1, <4>2, <4>3, AppendIsConcat
    <3>9. file'.pos = at[n + 1]
      <4>1. at[n + 1] = at[n] + Len(w[n + 1]) + 1
        BY <3>4, <3>6 DEF Cuts
      <4>2. at[n] \in Nat /\ at[n + 1] \in Nat /\ Len(w[n + 1]) \in Nat
        <5>1. n + 1 \in 0..Len(w)
          BY <3>6, <3>4
        <5>2. w[n + 1] \in Seq(Letters)
          BY <3>6, ElementOfSeq
        <5>3. Len(w[n + 1]) \in Nat
          BY <5>2, LenProperties
        <5>4. at \in [0..Len(w) -> 0..Len(Bytes(file.path))]
          BY <3>4 DEF Cuts
        <5>5. at[n] \in 0..Len(Bytes(file.path)) /\ at[n + 1] \in 0..Len(Bytes(file.path))
          BY <5>1, <5>4, <3>4
        <5> QED BY <5>3, <5>5
      <4> QED BY <4>1, <4>2, <1>4, <3>4, <3>6
    <3>10. Reached(n + 1, at)'
      <4>1. n + 1 \in 0..Len(w)
        BY <3>6, <3>4
      <4> QED BY <1>2, <1>4, <3>1, <3>2, <3>4, <3>7, <3>8, <3>9, <4>1 DEF Reached
    <3> QED BY <3>10
  <2> QED BY <2>1, <2>2 DEF FilesInv
<1> QED BY <1>5, <1>6

LEMMA ReadsKeeps ==
  ASSUME FilesInv, NEW n \in Nat, NEW value, Reads(n, value, Absent) PROVE FilesInv'
<1>1. file \in Handle
  BY DEF FilesInv, FilesTypeOK, Reads, Opened
<1>2. file.pos + n \in Nat
  BY <1>1 DEF Handle
<1> QED BY <1>2, PosKeeps DEF Reads

LEMMA ReadStep == ASSUME FilesInv, ReadAll \/ ReadChar \/ \E n \in 0..MaxBytes : ReadBytes(n) PROVE FilesInv'
<1>1. Opened
  BY DEF ReadAll, ReadChar, ReadBytes, Reads
<1>2. Len(Available) \in Nat
  BY <1>1, AvailableIs
<1>3. \A n \in Nat : Min({n, Len(Available)}) \in Nat
  BY <1>2, MinPair
<1>4. CASE ReadAll
  BY <1>2, <1>4, ReadsKeeps DEF ReadAll
<1>5. CASE ReadChar
  BY <1>3, <1>5, ReadsKeeps DEF ReadChar
<1>6. CASE \E n \in 0..MaxBytes : ReadBytes(n)
  <2>1. PICK n \in Nat : ReadBytes(n)
    BY <1>6, FilesAssumption
  <2> QED BY <2>1, <1>3, ReadsKeeps DEF ReadBytes
<1> QED BY <1>4, <1>5, <1>6

LEMMA SeekKeeps == ASSUME FilesInv, NEW n \in Int, NEW from, Seek(n, from) PROVE FilesInv'
<1>1. PICK to \in Int :
        /\ Opened /\ file' = [file EXCEPT !.pos = IF to < 0 THEN file.pos ELSE to]
        /\ heard' = Absent /\ UNCHANGED <<disk, job, fds, written>>
  BY DEF Seek
<1>2. file.pos \in Nat
  BY <1>1 DEF FilesInv, FilesTypeOK, Opened, Handle
<1>3. PICK m \in Nat : m = IF to < 0 THEN file.pos ELSE to
  BY <1>2
<1> QED BY <1>1, <1>3, PosKeeps

-----------------------------------------------------------------------------
(* Files: writing. *)

LEMMA EmptyFunction == ASSUME NEW f, f \in [1..0 -> Byte] PROVE f = << >>
<1>1. f \in Seq(Byte) /\ Len(f) = 0
  BY FunctionIsSeq
<1> QED BY <1>1, EmptySeq

\* What is written at the end is added.
LEMMA OverwrittenIs ==
  ASSUME FilesInv, file \in Handle, NEW s \in Seq(Byte)
  PROVE  /\ Overwritten(s) \in Seq(Byte)
         /\ file.mode = "a" \/ file.pos = Len(Bytes(file.path)) =>
              Overwritten(s) = Bytes(file.path) \o s
<1>1. PICK d \in Seq(Byte) : d = Bytes(file.path)
  BY BytesIs DEF FilesInv, Handle
<1>2. Len(d) \in Nat /\ Len(s) \in Nat /\ \A k \in 1..Len(d) : d[k] \in Byte
  BY LenProperties
<1>3. PICK at \in Nat : at = IF file.mode = "a" THEN Len(d) ELSE file.pos
  BY <1>2 DEF Handle
<1>4. PICK m \in Nat : m = Min({at, Len(d)}) /\ m <= Len(d) /\ (at = Len(d) => m = Len(d))
  BY <1>2, <1>3, MinPair
<1>5. PICK z \in Nat : z = IF at > Len(d) THEN at - Len(d) ELSE 0
  BY <1>2, <1>3
<1> DEFINE holes == [k \in 1..z |-> NUL]
           left == SubSeq(d, 1, m)
           rest == SubSeq(d, at + Len(s) + 1, Len(d))
<1>6. Overwritten(s) = ((left \o holes) \o s) \o rest
  BY <1>1, <1>3, <1>4, <1>5 DEF Overwritten
<1>7. holes \in [1..z -> Byte]
  BY DEF Byte
<1>8. holes \in Seq(Byte)
  BY <1>7, FunctionIsSeq
<1>9. left \in Seq(Byte)
  <2>1. \A k \in 1..m : d[k] \in Byte
    BY <1>2, <1>4
  <2> QED BY <2>1, SubSeqProperties
<1>10. rest \in Seq(Byte)
  <2>1. PICK o \in Int : o = at + Len(s) + 1 /\ o >= 1
    BY <1>2, <1>3
  <2>2. \A k \in o..Len(d) : d[k] \in Byte
    BY <1>2, <2>1
  <2>3. SubSeq(d, o, Len(d)) \in Seq(Byte)
    BY <1>2, <2>1, <2>2, SubSeqProperties
  <2> QED BY <2>1, <2>3
<1>11. Overwritten(s) \in Seq(Byte)
  <2> HIDE DEF holes, left, rest
  <2>1. left \o holes \in Seq(Byte)
    BY <1>8, <1>9, ConcatProperties
  <2>2. (left \o holes) \o s \in Seq(Byte)
    BY <2>1, ConcatProperties
  <2>3. ((left \o holes) \o s) \o rest \in Seq(Byte)
    BY <2>2, <1>10, ConcatProperties
  <2> QED BY <1>6, <2>3
<1>12. ASSUME file.mode = "a" \/ file.pos = Len(d) PROVE Overwritten(s) = d \o s
  <2>1. at = Len(d)
    BY <1>3, <1>12
  <2>7. m = Len(d) /\ z = 0
    BY <2>1, <1>4, <1>5, <1>2
  <2>2. left = d
    BY <2>7, SubSeqFull
  <2>3. holes = << >>
    BY <2>7, <1>7, EmptyFunction
  <2>4. rest = << >>
    <3>1. at + Len(s) + 1 \in Int /\ Len(d) < at + Len(s) + 1
      BY <2>1, <1>2
    <3> QED BY <3>1, <1>2, SubSeqEmpty
  <2>5. d \o s \in Seq(Byte)
    BY ConcatProperties
  <2> HIDE DEF holes, left, rest
  <2>6. d \o << >> = d /\ (d \o s) \o << >> = d \o s
    BY <2>5, ConcatEmptySeq
  <2> QED BY <1>6, <2>2, <2>3, <2>4, <2>6
<1> QED BY <1>1, <1>11, <1>12

\* Another line at the end of known lines.
LEMMA CutsExtend ==
  ASSUME NEW d \in Seq(Byte), NEW w \in Seq(Seq(Letters)), NEW at, Cuts(d, w, at),
         NEW s \in Seq(Letters), Len(s) <= LineBuffer - 2
  PROVE  \E to : Cuts(d \o (s \o << NL >>), Append(w, s), to)
<1>1. PICK n \in Nat, l \in Nat, m \in Nat : n = Len(w) /\ l = Len(s) /\ m = Len(d)
  BY LenProperties
<1>2. s \in Seq(Byte) /\ << NL >> \in Seq(Byte) /\ Len(<< NL >>) = 1 /\ << NL >>[1] = NL
  BY SeqMonotonic DEF Byte
<1>3. PICK t \in Seq(Byte) : /\ t = s \o << NL >> /\ Len(t) = l + 1 /\ t[l + 1] = NL
                             /\ \A k \in 1..l : t[k] = s[k]
  <2>1. /\ s \o << NL >> \in Seq(Byte) /\ Len(s \o << NL >>) = Len(s) + Len(<< NL >>)
        /\ \A i \in 1..Len(s) + Len(<< NL >>) :
             (s \o << NL >>)[i] = IF i <= Len(s) THEN s[i] ELSE << NL >>[i - Len(s)]
    BY <1>2, ConcatProperties
  <2>2. (s \o << NL >>)[l + 1] = NL
    <3>1. l + 1 \in 1..Len(s) + Len(<< NL >>) /\ ~(l + 1 <= Len(s)) /\ (l + 1) - Len(s) = 1
      BY <1>1, <1>2
    <3> QED BY <2>1, <3>1, <1>2
  <2>3. \A k \in 1..l : (s \o << NL >>)[k] = s[k]
    BY <2>1, <1>1, <1>2
  <2> QED BY <2>1, <2>2, <2>3, <1>1, <1>2
<1>4. PICK e \in Seq(Byte) : /\ e = d \o t /\ Len(e) = m + (l + 1)
                             /\ \A k \in 1..m : e[k] = d[k]
                             /\ \A k \in 1..(l + 1) : e[m + k] = t[k]
  <2>1. /\ d \o t \in Seq(Byte) /\ Len(d \o t) = Len(d) + Len(t)
        /\ \A i \in 1..Len(d) + Len(t) : (d \o t)[i] = IF i <= Len(d) THEN d[i] ELSE t[i - Len(d)]
    BY ConcatProperties
  <2>2. \A k \in 1..m : (d \o t)[k] = d[k]
    BY <2>1, <1>1, <1>3
  <2>3. ASSUME NEW k \in 1..(l + 1) PROVE (d \o t)[m + k] = t[k]
    <3>1. m + k \in 1..Len(d) + Len(t) /\ ~(m + k <= Len(d)) /\ (m + k) - Len(d) = k
      BY <1>1, <1>3
    <3> QED BY <2>1, <3>1
  <2>4. Len(d \o t) = m + (l + 1)
    BY <2>1, <1>1, <1>3
  <2>5. d \o t \in Seq(Byte)
    BY <2>1
  <2> QED BY <2>2, <2>3, <2>4, <2>5
<1>5. PICK v \in Seq(Seq(Letters)) : /\ v = Append(w, s) /\ Len(v) = n + 1
                                     /\ v[n + 1] = s /\ \A i \in 1..n : v[i] = w[i]
  <2>1. /\ Append(w, s) \in Seq(Seq(Letters)) /\ Len(Append(w, s)) = Len(w) + 1
        /\ \A i \in 1..(Len(w) + 1) : Append(w, s)[i] = IF i = Len(w) + 1 THEN s ELSE w[i]
    BY AppendIs
  <2>2. Append(w, s)[n + 1] = s
    <3>1. n + 1 \in 1..(Len(w) + 1) /\ n + 1 = Len(w) + 1
      BY <1>1
    <3> QED BY <2>1, <3>1
  <2>3. \A i \in 1..n : Append(w, s)[i] = w[i]
    <3> SUFFICES ASSUME NEW i \in 1..n PROVE Append(w, s)[i] = w[i]
      OBVIOUS
    <3>1. i \in 1..(Len(w) + 1) /\ i # Len(w) + 1
      BY <1>1
    <3> QED BY <2>1, <3>1
  <2> QED BY <2>1, <2>2, <2>3, <1>1
<1>6. /\ at \in [0..n -> 0..m] /\ at[0] = 0 /\ at[n] = m
      /\ \A i \in 1..n :
           /\ Len(w[i]) <= LineBuffer - 2
           /\ at[i] = at[i - 1] + Len(w[i]) + 1
           /\ d[at[i]] = NL
           /\ \A k \in 1..Len(w[i]) : d[at[i - 1] + k] = w[i][k]
  BY <1>1 DEF Cuts
<1> DEFINE to == [i \in 0..(n + 1) |-> IF i = n + 1 THEN m + (l + 1) ELSE at[i]]
<1>7. to \in [0..Len(v) -> 0..Len(e)] /\ to[0] = 0 /\ to[Len(v)] = Len(e)
  <2>1. to \in [0..(n + 1) -> 0..(m + (l + 1))]
    BY <1>6
  <2>2. to[0] = 0 /\ to[n + 1] = m + (l + 1)
    BY <1>6
  <2> QED BY <2>1, <2>2, <1>4, <1>5
<1>8. ASSUME NEW i \in 1..Len(v)
      PROVE  /\ Len(v[i]) <= LineBuffer - 2
             /\ to[i] = to[i - 1] + Len(v[i]) + 1
             /\ e[to[i]] = NL
             /\ \A k \in 1..Len(v[i]) : e[to[i - 1] + k] = v[i][k]
  <2>1. CASE i = n + 1
    <3>1. v[i] = s /\ to[i] = m + (l + 1) /\ to[i - 1] = m
      BY <2>1, <1>5, <1>6
    <3> HIDE DEF to
    <3>2. e[m + (l + 1)] = NL
      <4>1. l + 1 \in 1..(l + 1)
        OBVIOUS
      <4>2. e[m + (l + 1)] = t[l + 1]
        BY <4>1, <1>4
      <4> QED BY <4>2, <1>3
    <3>3. \A k \in 1..l : e[m + k] = s[k]
      <4> SUFFICES ASSUME NEW k \in 1..l PROVE e[m + k] = s[k]
        OBVIOUS
      <4>1. k \in 1..(l + 1)
        OBVIOUS
      <4> QED BY <4>1, <1>3, <1>4
    <3> QED BY <3>1, <3>2, <3>3, <1>1
  <2>2. CASE i # n + 1
    <3>1. i \in 1..n /\ i \in 0..(n + 1) /\ i - 1 \in 0..(n + 1) /\ i - 1 # n + 1 /\ i - 1 \in 0..n
          /\ i \in 0..n
      BY <2>2, <1>5
    <3>2. v[i] = w[i] /\ to[i] = at[i] /\ to[i - 1] = at[i - 1]
      BY <2>2, <3>1, <1>5
    <3> HIDE DEF to
    <3>3. PICK x \in 0..m, y \in 0..m : x = at[i - 1] /\ y = at[i]
      BY <3>1, <1>6
    <3>4. PICK c \in Nat : c = Len(w[i])
      BY <3>1, <1>1, ElementOfSeq, LenProperties
    <3>5. /\ c <= LineBuffer - 2 /\ at[i] = at[i - 1] + c + 1 /\ d[at[i]] = NL
          /\ \A k \in 1..c : d[at[i - 1] + k] = w[i][k]
      BY <3>1, <3>4, <1>6
    <3>6. y = x + c + 1
      <4>1. at[i] = at[i - 1] + c + 1
        BY <3>5
      <4>2. at[i] = x + c + 1
        BY <4>1, <3>3
      <4> QED BY <4>2, <3>3
    <3>7. d[y] = NL /\ \A k \in 1..c : d[x + k] = w[i][k]
      BY <3>3, <3>5
    <3>8. e[y] = NL
      <4>1. y \in 1..m
        BY <3>6
      <4> QED BY <4>1, <3>7, <1>4
    <3>9. \A k \in 1..c : e[x + k] = w[i][k]
      <4> SUFFICES ASSUME NEW k \in 1..c PROVE e[x + k] = w[i][k]
        OBVIOUS
      <4>1. x + k \in 1..m
        BY <3>6
      <4> QED BY <4>1, <3>7, <1>4
    <3>10. c <= LineBuffer - 2 /\ to[i] = to[i - 1] + c + 1
      <4>1. c <= LineBuffer - 2
        BY <3>5
      <4>2. to[i] = y /\ to[i - 1] = x
        BY <3>2, <3>3
      <4> QED BY <4>1, <4>2, <3>6
    <3> QED BY <3>2, <3>3, <3>4, <3>8, <3>9, <3>10
  <2> QED BY <2>1, <2>2
<1> HIDE DEF to
<1>9. Cuts(e, v, to)
  BY <1>7, <1>8 DEF Cuts
<1> QED BY <1>3, <1>4, <1>5, <1>9

LEMMA TextsAre == \A s \in Texts : s \in Seq(Letters) /\ Len(s) <= LineBuffer - 2
<1> SUFFICES ASSUME NEW s \in Texts PROVE s \in Seq(Letters) /\ Len(s) <= LineBuffer - 2
  OBVIOUS
<1>1. PICK m \in 0..(LineBuffer - 2) : s \in [1..m -> Letters]
  BY DEF Texts, BoundedSeq, SeqOf
<1>2. s \in Seq(Letters) /\ Len(s) = m
  BY <1>1, FunctionIsSeq
<1> QED BY <1>1, <1>2, FilesAssumption

\* A write to an open file whose lines, if they are known, are those on disk.
LEMMA WritesKeeps ==
  ASSUME FilesInv, NEW s \in Seq(Byte), NEW lines \in {Absent} \cup Seq(Seq(Letters)), Writes(s, lines),
         file.mode \in {"w", "a"} /\ lines # Absent => \E at : Cuts(Overwritten(s), lines, at)
  PROVE  FilesInv'
<1>1. /\ file \in Handle /\ file # Shut /\ job = Shut /\ job' = job /\ fds' = fds /\ heard' = heard
  BY DEF Writes, Opened, FilesInv, FilesTypeOK
<1>2. CASE UNCHANGED <<disk, file, written>>
  BY <1>1, <1>2 DEF FilesInv, FilesTypeOK, LinesOnDisk, HeardSoFar, CopySoFar, Reached, IsFileNow
<1>3. CASE ~ UNCHANGED <<disk, file, written>>
  <2>1. /\ file.mode \in {"w", "a"}
        /\ disk' = [disk EXCEPT ![file.path] = Overwritten(s)]
        /\ file' = [file EXCEPT !.pos = (IF file.mode = "a" THEN Len(Bytes(file.path)) ELSE file.pos) + Len(s)]
        /\ written' = [written EXCEPT ![file.path] = lines]
    BY <1>3 DEF Writes
  <2>2. Overwritten(s) \in Seq(Byte)
    BY <1>1, OverwrittenIs
  <2>3. file' \in Handle
    <3>1. Len(s) \in Nat /\ Len(Bytes(file.path)) \in Nat /\ file.pos \in Nat
      <4>1. Bytes(file.path) \in Seq(Byte)
        BY <1>1, BytesIs DEF FilesInv, Handle
      <4> QED BY <1>1, <4>1, LenProperties DEF Handle
    <3>2. PICK m \in Nat : m = (IF file.mode = "a" THEN Len(Bytes(file.path)) ELSE file.pos) + Len(s)
      BY <3>1
    <3>3. file' = [file EXCEPT !.pos = m]
      BY <2>1, <3>2
    <3> QED BY <1>1, <3>3 DEF Handle
  <2>4. FilesTypeOK'
    BY <1>1, <2>1, <2>2, <2>3 DEF FilesInv, FilesTypeOK
  <2>5. LinesOnDisk'
    <3> SUFFICES ASSUME NEW p \in Paths, written'[p] # Absent
                 PROVE  IsFileNow(p)' /\ \E at : Cuts(disk'[p], written'[p], at)
      BY DEF LinesOnDisk
    <3>1. CASE p = file.path
      <4>1. disk'[p] = Overwritten(s) /\ written'[p] = lines
        BY <2>1, <3>1 DEF FilesInv, FilesTypeOK
      <4>2. IsFileNow(p)'
        BY <4>1, <2>2, FilesAssumption DEF IsFileNow, Byte
      <4> QED BY <4>1, <4>2, <2>1
    <3>2. CASE p # file.path
      <4>1. disk'[p] = disk[p] /\ written'[p] = written[p]
        BY <2>1, <3>2 DEF FilesInv, FilesTypeOK
      <4> QED BY <4>1 DEF FilesInv, LinesOnDisk, IsFileNow
    <3> QED BY <3>1, <3>2
  <2>6. HeardSoFar'
    <3>1. heard = Absent
      BY <2>1 DEF FilesInv, HeardSoFar
    <3> QED BY <1>1, <3>1 DEF HeardSoFar
  <2>7. CopySoFar'
    BY <1>1 DEF FilesInv, CopySoFar
  <2> QED BY <2>4, <2>5, <2>6, <2>7 DEF FilesInv
<1> QED BY <1>2, <1>3

LEMMA TextBytes == \A s \in Texts \cup {<< NUL >>} : s \in Seq(Byte) /\ s \o << NL >> \in Seq(Byte)
<1> SUFFICES ASSUME NEW s \in Texts \cup {<< NUL >>} PROVE s \in Seq(Byte) /\ s \o << NL >> \in Seq(Byte)
  OBVIOUS
<1>1. << NUL >> \in Seq(Byte) /\ << NL >> \in Seq(Byte)
  BY DEF Byte
<1>2. s \in Seq(Byte)
  <2>1. CASE s \in Texts
    <3>1. s \in Seq(Letters)
      BY <2>1, TextsAre
    <3> QED BY <3>1, SeqMonotonic DEF Byte
  <2> QED BY <2>1, <1>1
<1> QED BY <1>1, <1>2, ConcatProperties

LEMMA WriteTextKeeps ==
  ASSUME FilesInv, NEW s \in Texts \cup {<< NUL >>}, WriteText(s) PROVE FilesInv'
<1>1. s \in Seq(Byte)
  BY TextBytes
<1> QED BY <1>1, WritesKeeps DEF WriteText

LEMMA WriteLineKeeps ==
  ASSUME FilesInv, NEW s \in Texts \cup {<< NUL >>}, WriteLine(s) PROVE FilesInv'
<1>1. s \o << NL >> \in Seq(Byte)
  BY TextBytes
<1> DEFINE known == IF Opened THEN written[file.path] ELSE Absent
           atEnd == Opened /\ (file.mode = "a" \/ file.pos = Len(Bytes(file.path)))
<1>2. PICK lines : lines = IF known = Absent \/ ~atEnd \/ s \notin Texts THEN Absent ELSE Append(known, s)
  OBVIOUS
<1>3. Writes(s \o << NL >>, lines)
  BY <1>2 DEF WriteLine
<1>4. Opened /\ file \in Handle /\ file.path \in Paths
  BY <1>3 DEF Writes, FilesInv, FilesTypeOK, Opened, Handle
<1>5. CASE lines = Absent
  BY <1>1, <1>3, <1>5, WritesKeeps
<1>6. CASE lines # Absent
  <2>1. PICK w : w = written[file.path]
    OBVIOUS
  <2>2. w # Absent /\ atEnd /\ s \in Texts /\ lines = Append(w, s)
    BY <1>2, <1>4, <1>6, <2>1
  <2>3. w \in Seq(Seq(Letters)) /\ s \in Seq(Letters) /\ Len(s) <= LineBuffer - 2
    BY <1>4, <2>1, <2>2, TextsAre DEF FilesInv, FilesTypeOK
  <2>4. lines \in Seq(Seq(Letters))
    BY <2>2, <2>3, AppendIs
  <2>5. Bytes(file.path) = disk[file.path] /\ Bytes(file.path) \in Seq(Byte)
    BY <1>4, <2>1, <2>2, BytesIs DEF FilesInv, LinesOnDisk
  <2>6. PICK at : Cuts(Bytes(file.path), w, at)
    BY <1>4, <2>1, <2>2, <2>5 DEF FilesInv, LinesOnDisk
  <2>7. PICK d \in Seq(Byte) : d = Bytes(file.path)
    BY <2>5
  <2>8. \E to : Cuts(d \o (s \o << NL >>), Append(w, s), to)
    BY <2>3, <2>6, <2>7, CutsExtend
  <2>9. Overwritten(s \o << NL >>) = d \o (s \o << NL >>)
    BY <1>1, <1>4, <2>2, <2>7, OverwrittenIs
  <2>10. \E to : Cuts(Overwritten(s \o << NL >>), lines, to)
    BY <2>2, <2>8, <2>9
  <2> QED BY <1>1, <1>3, <2>4, <2>10, WritesKeeps
<1> QED BY <1>5, <1>6

-----------------------------------------------------------------------------
(* Files: the functions on paths. *)

\* What a path names now, with what is known of its lines, some path named
\* before.
LEMMA PathsKeep ==
  ASSUME FilesInv, ~Opened, UNCHANGED <<file, job, fds, heard>>, job = Shut,
         FilesTypeOK',
         \A p \in Paths : written'[p] # Absent =>
           \E q \in Paths : written'[p] = written[q] /\ disk'[p] = disk[q]
  PROVE  FilesInv'
<1>1. LinesOnDisk'
  BY DEF FilesInv, LinesOnDisk, IsFileNow
<1>2. HeardSoFar'
  BY HandlesAreOpen DEF FilesInv, HeardSoFar, Opened
<1>3. CopySoFar'
  BY DEF FilesInv, CopySoFar
<1> QED BY <1>1, <1>2, <1>3 DEF FilesInv

LEMMA UnlinkKeeps == ASSUME FilesInv, NEW p \in Paths, Unlink(p) PROVE FilesInv'
<1>1. ~Opened /\ UNCHANGED <<file, job, fds, heard>> /\ job = Shut
  BY DEF Unlink, OnPaths, Idle
<1>2. \/ disk' = [disk EXCEPT ![p] = Absent] /\ written' = [written EXCEPT ![p] = Absent]
      \/ UNCHANGED <<disk, written>>
  BY DEF Unlink, Attempt
<1>3. FilesTypeOK'
  BY <1>1, <1>2 DEF FilesInv, FilesTypeOK
<1>4. \A q \in Paths : written'[q] # Absent => written'[q] = written[q] /\ disk'[q] = disk[q]
  BY <1>2 DEF FilesInv, FilesTypeOK
<1> QED BY <1>1, <1>3, <1>4, PathsKeep

\* A directory takes the place of nothing, and nothing of a directory.
LEMMA DirKeeps == ASSUME FilesInv, NEW p \in Paths, Mkdir(p) \/ Rmdir(p) PROVE FilesInv'
<1>1. ~Opened /\ UNCHANGED <<file, job, fds, heard>> /\ job = Shut
  BY DEF Mkdir, Rmdir, OnPaths, Idle
<1>2. /\ written' = written
      /\ \/ /\ disk[p] \in {Absent, Dir}
            /\ disk' = [disk EXCEPT ![p] = Dir] \/ disk' = [disk EXCEPT ![p] = Absent]
         \/ disk' = disk
  BY DEF Mkdir, Rmdir, Attempt
<1>3. FilesTypeOK'
  BY <1>1, <1>2 DEF FilesInv, FilesTypeOK
<1>4. disk[p] \in {Absent, Dir} => written[p] = Absent
  BY DEF FilesInv, LinesOnDisk, IsFileNow
<1>5. \A q \in Paths : written'[q] # Absent => written'[q] = written[q] /\ disk'[q] = disk[q]
  BY <1>2, <1>4 DEF FilesInv, FilesTypeOK
<1> QED BY <1>1, <1>3, <1>5, PathsKeep

LEMMA RenameKeeps == ASSUME FilesInv, NEW p \in Paths, NEW q \in Paths, Rename(p, q) PROVE FilesInv'
<1>1. ~Opened /\ UNCHANGED <<file, job, fds, heard>> /\ job = Shut
  BY DEF Rename, OnPaths, Idle
<1>2. CASE UNCHANGED <<disk, written>>
  <2>1. FilesTypeOK'
    BY <1>1, <1>2 DEF FilesInv, FilesTypeOK
  <2> QED BY <1>1, <1>2, <2>1, PathsKeep
<1>3. CASE ~ UNCHANGED <<disk, written>>
  <2>1. /\ disk' = [disk EXCEPT ![p] = IF p = q THEN disk[p] ELSE Absent, ![q] = disk[p]]
        /\ written' = [written EXCEPT ![p] = IF p = q THEN written[p] ELSE Absent, ![q] = written[p]]
    BY <1>3 DEF Rename, Attempt
  <2>2. ASSUME NEW r \in Paths
        PROVE  /\ disk'[r] = IF r = q THEN disk[p] ELSE IF r = p THEN Absent ELSE disk[r]
               /\ written'[r] = IF r = q THEN written[p] ELSE IF r = p THEN Absent ELSE written[r]
    BY <2>1 DEF FilesInv, FilesTypeOK
  <2>3. FilesTypeOK'
    BY <1>1, <2>1 DEF FilesInv, FilesTypeOK
  <2> QED BY <1>1, <2>2, <2>3, PathsKeep
<1> QED BY <1>2, <1>3

LEMMA FileSizeKeeps == ASSUME FilesInv, NEW p \in Paths, FileSize(p) PROVE FilesInv'
<1>1. ~Opened /\ UNCHANGED <<file, job, fds, heard>> /\ job = Shut /\ UNCHANGED <<disk, written>>
  BY DEF FileSize, OnPaths, Idle
<1>2. FilesTypeOK'
  BY <1>1 DEF FilesInv, FilesTypeOK
<1> QED BY <1>1, <1>2, PathsKeep

-----------------------------------------------------------------------------
(* Files: copy. *)

\* While a copy runs no file is open.
LEMMA CopyAlone ==
  ASSUME FilesInv, job # Shut
  PROVE  job \in Job /\ file = Shut /\ heard = Absent
<1>1. job \in Job /\ file = Shut
  BY DEF FilesInv, FilesTypeOK
<1> QED BY <1>1, HandlesAreOpen DEF FilesInv, HeardSoFar

\* A copy that ends, for whatever reason, closes what it opened.
LEMMA EndKeeps ==
  ASSUME FilesInv, NEW ended, NEW result, CopyEnds(ended, result), job # Shut, fds \subseteq ended,
         UNCHANGED <<disk, written, file, heard>>
  PROVE  FilesInv' /\ fds' = {}
<1>1. job' = Shut /\ fds' = {}
  BY DEF CopyEnds
<1> QED BY <1>1, CopyAlone DEF FilesInv, FilesTypeOK, LinesOnDisk, HeardSoFar, CopySoFar, IsFileNow

LEMMA CopyOpenSourceKeeps ==
  ASSUME FilesInv, NEW p \in Paths, NEW q \in Paths, CopyOpenSource(p, q) PROVE FilesInv'
<1>1. file = Shut /\ job = Shut /\ UNCHANGED <<disk, file, written, heard>>
  BY DEF CopyOpenSource, Opened, Idle
<1>2. heard = Absent
  BY <1>1, HandlesAreOpen DEF FilesInv, HeardSoFar
<1>3. CASE UNCHANGED <<job, fds>>
  BY <1>1, <1>2, <1>3 DEF FilesInv, FilesTypeOK, LinesOnDisk, HeardSoFar, CopySoFar, IsFileNow
<1>4. CASE ~ UNCHANGED <<job, fds>>
  <2>1. /\ IsFileNow(p) /\ fds' = {"src"}
        /\ job' = [src |-> p, dst |-> q, step |-> "openDst", rpos |-> 0,
                   chunk |-> <<>>, was |-> disk[p]]
    BY <1>4 DEF CopyOpenSource
  <2>2. disk[p] \in Seq(Byte) /\ << >> \in Seq(Byte)
    BY <2>1, BytesIs, EmptySeq DEF FilesInv
  <2>3. job' \in Job
    BY <2>1, <2>2 DEF Job
  <2>4. FilesTypeOK'
    BY <1>1, <2>3 DEF FilesInv, FilesTypeOK
  <2>5. CopySoFar'
    BY <1>1, <2>1, <2>3, JobsRun DEF CopySoFar
  <2> QED BY <1>1, <1>2, <2>4, <2>5 DEF FilesInv, LinesOnDisk, HeardSoFar, IsFileNow
<1> QED BY <1>3, <1>4

LEMMA CopyOpenTargetKeeps ==
  ASSUME FilesInv, CopyOpenTarget
  PROVE  /\ FilesInv'
         /\ \A p \in Paths \ {job.dst} : disk'[p] = disk[p]
         /\ job' = Shut => fds' = {} /\ answer'[1] # "ok"
<1>1. job # Shut /\ job.step = "openDst" /\ UNCHANGED <<file, heard>>
  BY DEF CopyOpenTarget, Copying
<1>2. job \in Job /\ file = Shut /\ heard = Absent /\ fds = {"src"} /\ disk[job.src] = job.was
      /\ job.rpos = 0 /\ job.was \in Seq(Byte) /\ job.dst \in Paths /\ job.src \in Paths
  BY <1>1, CopyAlone DEF FilesInv, CopySoFar, Job
<1>3. CASE CopyEnds({"src"}, Err("NotFound")) /\ UNCHANGED <<disk, written>>
  <2>1. FilesInv' /\ fds' = {}
    BY <1>1, <1>2, <1>3, EndKeeps
  <2>2. answer'[1] = "err"
    BY <1>3 DEF CopyEnds, Err
  <2> QED BY <1>3, <2>1, <2>2
<1>4. CASE ~(CopyEnds({"src"}, Err("NotFound")) /\ UNCHANGED <<disk, written>>)
  <2>1. /\ disk' = [disk EXCEPT ![job.dst] = <<>>]
        /\ written' = [written EXCEPT ![job.dst] = Absent]
        /\ job' = [job EXCEPT !.step = "read"]
        /\ fds' = fds \cup {"dst"}
    BY <1>4 DEF CopyOpenTarget
  <2>2. << >> \in Seq(Byte)
    BY EmptySeq
  <2>3. /\ job' \in Job /\ job'.step = "read" /\ job'.src = job.src /\ job'.dst = job.dst
        /\ job'.was = job.was /\ job'.rpos = job.rpos
    BY <1>2, <2>1 DEF Job
  <2>4. FilesTypeOK'
    BY <1>1, <1>2, <2>1, <2>2, <2>3 DEF FilesInv, FilesTypeOK
  <2>5. \A p \in Paths \ {job.dst} : disk'[p] = disk[p] /\ written'[p] = written[p]
    BY <2>1 DEF FilesInv, FilesTypeOK
  <2>6. disk'[job.dst] = << >> /\ written'[job.dst] = Absent
    BY <1>2, <2>1 DEF FilesInv, FilesTypeOK
  <2>7. LinesOnDisk'
    BY <2>5, <2>6 DEF FilesInv, LinesOnDisk, IsFileNow
  <2>8. HeardSoFar'
    BY <1>1, <1>2 DEF HeardSoFar
  <2>9. CopySoFar'
    <3>1. job' # Shut /\ fds' = {"src", "dst"}
      BY <1>2, <2>1, <2>3, JobsRun
    <3>2. ASSUME job.src # job.dst PROVE disk'[job.src] = job.was
      BY <1>2, <2>5, <3>2
    <3>3. SubSeq(job'.was, 1, job'.rpos) = << >> /\ job'.rpos <= Len(job'.was)
      <4>1. SubSeq(job.was, 1, 0) = << >> /\ 0 <= Len(job.was)
        BY <1>2, SubSeqEmpty, LenProperties
      <4> QED BY <4>1, <1>2, <2>3
    <3>4. CopiedSoFar'
      BY <2>3, <2>6, <3>3 DEF CopiedSoFar
    <3> QED BY <3>1, <3>2, <3>4, <2>2, <2>3, <2>6 DEF CopySoFar
  <2> QED BY <2>3, <2>4, <2>5, <2>7, <2>8, <2>9, JobsRun DEF FilesInv
<1> QED BY <1>3, <1>4

LEMMA CopyReadKeeps ==
  ASSUME FilesInv, CopyRead
  PROVE  /\ FilesInv'
         /\ disk' = disk
         /\ job' = Shut => fds' = {}
         /\ job' = Shut /\ answer'[1] = "ok" /\ job.src # job.dst => disk'[job.dst] = job.was
<1>1. job # Shut /\ job.step = "read" /\ UNCHANGED <<file, heard, disk, written>>
  BY DEF CopyRead, Copying
<1>2. job \in Job /\ file = Shut /\ heard = Absent /\ fds = {"src", "dst"}
      /\ job.dst \in Paths /\ job.src \in Paths /\ job.was \in Seq(Byte) /\ job.rpos \in Nat
  BY <1>1, CopyAlone DEF FilesInv, CopySoFar, Job
<1>3. disk[job.dst] \in Seq(Byte) /\ written[job.dst] = Absent
      /\ (job.src # job.dst => disk[job.src] = job.was /\ job.rpos <= Len(job.was)
                               /\ disk[job.dst] = SubSeq(job.was, 1, job.rpos))
  BY <1>1 DEF FilesInv, CopySoFar, CopiedSoFar
<1>4. PICK d \in Seq(Byte) : d = Bytes(job.src)
  BY <1>2, BytesIs DEF FilesInv
<1>5. job.src # job.dst => d = job.was
  BY <1>2, <1>3, <1>4, BytesIs DEF FilesInv
<1>6. PICK r \in Nat : r = job.rpos
  BY <1>2
<1>7. Len(d) \in Nat /\ \A k \in 1..Len(d) : d[k] \in Byte
  BY LenProperties
<1>8. PICK m \in Nat : m = Min({r + CopyBuffer, Len(d)}) /\ m <= Len(d) /\ (m <= r => Len(d) <= r)
  BY <1>7, MinPair, FilesAssumption
<1>9. PICK chunk : chunk = SubSeq(d, r + 1, m)
  OBVIOUS
<1>10. /\ chunk \in Seq(Byte) /\ Len(chunk) = IF r < m THEN m - r ELSE 0
  <2>1. \A k \in (r + 1)..m : d[k] \in Byte
    BY <1>7, <1>8
  <2>2. SubSeq(d, r + 1, m) \in Seq(Byte)
        /\ Len(SubSeq(d, r + 1, m)) = IF r + 1 <= m THEN m - (r + 1) + 1 ELSE 0
    BY <2>1, SubSeqProperties
  <2> QED BY <2>2, <1>9
<1>11. \/ chunk = <<>> /\ CopyEnds({"src", "dst"}, Ok(<<>>))
       \/ /\ chunk # <<>> /\ UNCHANGED <<fds, answer>>
          /\ job' = [job EXCEPT !.step = "write", !.chunk = chunk, !.rpos = job.rpos + Len(chunk)]
       \/ CopyEnds({"src", "dst"}, Err("NotFound"))
  <2>1. chunk = SubSeq(Bytes(job.src), job.rpos + 1, Min({job.rpos + CopyBuffer, Len(Bytes(job.src))}))
    BY <1>4, <1>6, <1>8, <1>9
  <2> QED BY <2>1 DEF CopyRead
<1>12. CASE chunk = <<>> /\ CopyEnds({"src", "dst"}, Ok(<<>>))
  <2>1. FilesInv' /\ fds' = {}
    BY <1>1, <1>2, <1>12, EndKeeps
  <2>2. ASSUME job.src # job.dst PROVE disk[job.dst] = job.was
    <3>1. Len(chunk) = 0
      BY <1>12, EmptySeq
    <3>2. Len(d) <= r
      <4>1. m <= r
        BY <3>1, <1>10
      <4> QED BY <4>1, <1>8
    <3>3. r = Len(job.was)
      BY <2>2, <3>2, <1>3, <1>5, <1>6, <1>7
    <3> QED BY <2>2, <3>3, <1>2, <1>3, <1>6, SubSeqFull
  <2> QED BY <1>1, <2>1, <2>2
<1>13. CASE CopyEnds({"src", "dst"}, Err("NotFound"))
  <2>1. FilesInv' /\ fds' = {}
    BY <1>1, <1>2, <1>13, EndKeeps
  <2>2. answer'[1] = "err"
    BY <1>13 DEF CopyEnds, Err
  <2> QED BY <1>1, <2>1, <2>2
<1>14. CASE /\ chunk # <<>> /\ UNCHANGED <<fds, answer>>
            /\ job' = [job EXCEPT !.step = "write", !.chunk = chunk, !.rpos = job.rpos + Len(chunk)]
  <2>1. r < m /\ Len(chunk) = m - r
    <3>1. Len(chunk) # 0
      BY <1>10, <1>14, EmptySeq
    <3> QED BY <3>1, <1>10
  <2>2. job.rpos + Len(chunk) = m
    BY <2>1, <1>6
  <2>3. /\ job' \in Job /\ job'.step = "write" /\ job'.src = job.src /\ job'.dst = job.dst
        /\ job'.was = job.was /\ job'.rpos = m /\ job'.chunk = chunk
    <3>1. job' = [job EXCEPT !.step = "write", !.chunk = chunk, !.rpos = m]
      BY <1>14, <2>2
    <3> QED BY <3>1, <1>2, <1>10 DEF Job
  <2>4. FilesTypeOK'
    BY <1>1, <1>2, <2>3 DEF FilesInv, FilesTypeOK
  <2>5. LinesOnDisk' /\ HeardSoFar'
    BY <1>1, <1>2 DEF FilesInv, LinesOnDisk, HeardSoFar, IsFileNow
  <2>6. ASSUME job.src # job.dst PROVE CopiedSoFar'
    <3>1. m <= Len(job.was)
      BY <2>6, <1>5, <1>8
    <3>2. SubSeq(d, 1, r) \o SubSeq(d, r + 1, m) = SubSeq(d, 1, m)
      <4>1. 1 \in 1..Len(d) + 1 /\ r \in (1 - 1)..Len(d) /\ m \in r..Len(d)
        BY <1>7, <1>8, <2>1
      <4> QED BY <4>1, ConcatAdjacentSubSeq
    <3>3. disk[job.dst] \o chunk = SubSeq(job.was, 1, m)
      BY <2>6, <3>2, <1>3, <1>5, <1>6, <1>9
    <3> QED BY <1>1, <2>3, <3>1, <3>3 DEF CopiedSoFar
  <2>7. CopySoFar'
    BY <1>1, <1>2, <1>3, <1>14, <2>3, <2>6, JobsRun DEF CopySoFar
  <2> QED BY <1>1, <2>3, <2>4, <2>5, <2>7, JobsRun DEF FilesInv
<1> QED BY <1>11, <1>12, <1>13, <1>14

LEMMA CopyWriteKeeps ==
  ASSUME FilesInv, CopyWrite
  PROVE  /\ FilesInv'
         /\ \A p \in Paths \ {job.dst} : disk'[p] = disk[p]
         /\ job' = Shut => fds' = {} /\ answer'[1] # "ok"
<1>1. job # Shut /\ job.step = "write" /\ UNCHANGED <<file, heard, written>>
  BY DEF CopyWrite, Copying
<1>2. job \in Job /\ file = Shut /\ heard = Absent /\ fds = {"src", "dst"}
      /\ job.dst \in Paths /\ job.src \in Paths /\ job.was \in Seq(Byte) /\ job.chunk \in Seq(Byte)
  BY <1>1, CopyAlone DEF FilesInv, CopySoFar, Job
<1>3. disk[job.dst] \in Seq(Byte) /\ written[job.dst] = Absent
      /\ (job.src # job.dst => disk[job.src] = job.was /\ job.rpos <= Len(job.was)
                               /\ disk[job.dst] \o job.chunk = SubSeq(job.was, 1, job.rpos))
  BY <1>1 DEF FilesInv, CopySoFar, CopiedSoFar
<1>4. PICK n \in 0..Len(job.chunk) :
        /\ disk' = [disk EXCEPT ![job.dst] = disk[job.dst] \o SubSeq(job.chunk, 1, n)]
        /\ IF n = Len(job.chunk)
           THEN job' = [job EXCEPT !.step = "read"] /\ UNCHANGED <<fds, answer>>
           ELSE CopyEnds({"src", "dst"}, Err("NotFound"))
  BY DEF CopyWrite
<1>5. PICK moved \in Seq(Byte) : moved = disk[job.dst] \o SubSeq(job.chunk, 1, n)
                                /\ (n = Len(job.chunk) => moved = disk[job.dst] \o job.chunk)
  <2>1. PICK c \in Seq(Byte) : c = job.chunk
    BY <1>2
  <2>2. Len(c) \in Nat /\ \A k \in 1..n : c[k] \in Byte
    BY <2>1, LenProperties
  <2>3. SubSeq(c, 1, n) \in Seq(Byte)
    BY <2>1, <2>2, SubSeqProperties
  <2>4. disk[job.dst] \o SubSeq(c, 1, n) \in Seq(Byte)
    BY <1>3, <2>3, ConcatProperties
  <2>5. n = Len(c) => SubSeq(c, 1, n) = c
    BY SubSeqFull
  <2> QED BY <2>1, <2>4, <2>5
<1>6. disk'[job.dst] = moved /\ \A p \in Paths \ {job.dst} : disk'[p] = disk[p]
  BY <1>2, <1>4, <1>5 DEF FilesInv, FilesTypeOK
<1>7. disk' \in [Paths -> {Absent, Dir} \cup Seq(Byte)]
  BY <1>4, <1>5 DEF FilesInv, FilesTypeOK
<1>8. LinesOnDisk' /\ HeardSoFar'
  BY <1>1, <1>2, <1>3, <1>6 DEF FilesInv, LinesOnDisk, HeardSoFar, IsFileNow
<1>9. CASE n # Len(job.chunk)
  <2>1. CopyEnds({"src", "dst"}, Err("NotFound"))
    BY <1>4, <1>9
  <2>2. job' = Shut /\ fds' = {} /\ answer'[1] = "err"
    BY <1>2, <2>1 DEF CopyEnds, Err
  <2>3. FilesTypeOK'
    BY <1>1, <1>2, <1>7, <2>2 DEF FilesInv, FilesTypeOK
  <2>4. CopySoFar'
    BY <2>2 DEF CopySoFar
  <2> QED BY <1>6, <1>8, <2>2, <2>3, <2>4 DEF FilesInv
<1>10. CASE n = Len(job.chunk)
  <2>1. job' = [job EXCEPT !.step = "read"] /\ UNCHANGED <<fds, answer>>
    BY <1>4, <1>10
  <2>2. /\ job' \in Job /\ job'.step = "read" /\ job'.src = job.src /\ job'.dst = job.dst
        /\ job'.was = job.was /\ job'.rpos = job.rpos
    BY <1>2, <2>1 DEF Job
  <2>3. FilesTypeOK'
    BY <1>1, <1>2, <1>7, <2>2 DEF FilesInv, FilesTypeOK
  <2>4. ASSUME job.src # job.dst PROVE disk'[job.src] = job.was /\ CopiedSoFar'
    BY <1>2, <1>3, <1>5, <1>6, <1>10, <2>2, <2>4 DEF CopiedSoFar
  <2>5. CopySoFar'
    BY <1>1, <1>2, <1>3, <1>5, <1>6, <2>1, <2>2, <2>4, JobsRun DEF CopySoFar
  <2> QED BY <1>6, <1>8, <2>2, <2>3, <2>5, JobsRun DEF FilesInv
<1> QED BY <1>9, <1>10

-----------------------------------------------------------------------------
(* Files: the theorems. *)

\* Only a step of the copy is taken while one runs.
LEMMA CopySteps ==
  ASSUME FilesInv, job # Shut, [FilesNext]_fileVars
  PROVE  CopyOpenTarget \/ CopyRead \/ CopyWrite \/ UNCHANGED fileVars
<1>1. file = Shut
  BY CopyAlone
<1> QED
  BY <1>1 DEF FilesNext, Open, Close, ReadAll, ReadLine, ReadChar, ReadBytes, Reads, Seek, WriteText,
     WriteLine, Writes, Unlink, Mkdir, Rmdir, FileSize, Rename, CopyOpenSource, OnPaths, Opened, Idle

LEMMA FilesStep == FilesInv /\ [FilesNext]_fileVars => FilesInv'
<1> SUFFICES ASSUME FilesInv, [FilesNext]_fileVars PROVE FilesInv'
  OBVIOUS
<1>1. CASE UNCHANGED fileVars
  BY <1>1 DEF fileVars, FilesInv, FilesTypeOK, LinesOnDisk, HeardSoFar, CopySoFar, CopiedSoFar, Reached,
     IsFileNow
<1>2. CASE \E p \in Paths, mode \in {"r", "w", "a"} : Open(p, mode)
  BY <1>2, OpenKeeps
<1>3. CASE Close
  BY <1>3, CloseKeeps
<1>4. CASE ReadAll \/ ReadChar \/ \E n \in 0..MaxBytes : ReadBytes(n)
  BY <1>4, ReadStep
<1>5. CASE ReadLine
  BY <1>5, ReadLineKeeps
<1>6. CASE \E n \in -MaxBytes..MaxBytes, from \in {"Start", "Current", "End"} : Seek(n, from)
  BY <1>6, SeekKeeps, FilesAssumption
<1>7. CASE \E s \in Texts \cup {<<NUL>>} : WriteText(s) \/ WriteLine(s)
  BY <1>7, WriteTextKeeps, WriteLineKeeps
<1>8. CASE \E p \in Paths : Unlink(p) \/ Mkdir(p) \/ Rmdir(p) \/ FileSize(p)
  BY <1>8, UnlinkKeeps, DirKeeps, FileSizeKeeps
<1>9. CASE \E p, q \in Paths : Rename(p, q) \/ CopyOpenSource(p, q)
  BY <1>9, RenameKeeps, CopyOpenSourceKeeps
<1>10. CASE CopyOpenTarget \/ CopyRead \/ CopyWrite
  BY <1>10, CopyOpenTargetKeeps, CopyReadKeeps, CopyWriteKeeps
<1> QED
  BY <1>1, <1>2, <1>3, <1>4, <1>5, <1>6, <1>7, <1>8, <1>9, <1>10 DEF FilesNext

LEMMA FilesInvariant == FilesSpec => []FilesInv
<1>1. FilesInit => FilesInv
  BY FilesStart
<1>2. FilesInv /\ [FilesNext]_fileVars => FilesInv'
  BY FilesStep
<1> QED BY <1>1, <1>2, PTL DEF FilesSpec

\* Every path names nothing, a directory or bytes, whatever was called; and no
\* copy runs while a file is open.
THEOREM FilesTypeCorrect == FilesSpec => []FilesTypeOK
<1>1. FilesInv => FilesTypeOK
  BY DEF FilesInv
<1> QED BY <1>1, FilesInvariant, PTL

\* What readln reads from the start of a file whose lines are known is those
\* lines, whatever their number and length up to what the buffer of readln
\* takes; and read never stores a byte outside its buffer.
THEOREM LinesRoundTrip == FilesSpec => []LinesComeBack
<1>1. FilesInv => LinesComeBack
  <2> SUFFICES ASSUME FilesInv PROVE LinesComeBack
    OBVIOUS
  <2>1. ASSUME heard # Absent, written[file.path] # Absent PROVE IsPrefix(heard, written[file.path])
    <3>1. file.path \in Paths
      BY <2>1 DEF FilesInv, HeardSoFar, Handle
    <3>2. PICK w \in Seq(Seq(Letters)) : w = written[file.path]
      BY <2>1, <3>1 DEF FilesInv, FilesTypeOK
    <3>3. PICK n, at : Reached(n, at)
      BY <2>1 DEF FilesInv, HeardSoFar
    <3>4. n \in 0..Len(w) /\ heard = SubSeq(w, 1, n)
      BY <3>2, <3>3 DEF Reached
    <3>5. Len(w) \in Nat /\ n \in Nat /\ n <= Len(w)
      BY <3>4, LenProperties
    <3>6. \A k \in 1..n : w[k] \in Seq(Letters)
      BY <3>5, ElementOfSeq
    <3>7. heard \in Seq(Seq(Letters)) /\ Len(heard) = n
      <4>1. SubSeq(w, 1, n) \in Seq(Seq(Letters))
            /\ Len(SubSeq(w, 1, n)) = IF 1 <= n THEN n - 1 + 1 ELSE 0
        BY <3>5, <3>6, SubSeqProperties
      <4> QED BY <4>1, <3>4, <3>5
    <3>8. SubSeq(heard, 1, Len(heard)) = heard
      BY <3>7, SubSeqFull
    <3> QED BY <3>2, <3>4, <3>5, <3>7, <3>8 DEF IsPrefix
  <2>2. \A k \in 0..MaxBytes : k < Capacity[k]
    BY CapacitySuffices, FilesAssumption
  <2> QED BY <2>1, <2>2 DEF LinesComeBack
<1> QED BY <1>1, FilesInvariant, PTL

\* A copy that answers Ok has made the target what the source was, whatever its
\* size and the buffer's; and on every way out nothing stays open and no third
\* path has changed.
THEOREM CopiesAreWhole == FilesSpec => CopyExact
<1>1. FilesInv /\ [FilesNext]_fileVars => [CopyStepExact]_fileVars
  <2> SUFFICES ASSUME FilesInv, [FilesNext]_fileVars, job # Shut, ~ UNCHANGED fileVars
               PROVE  CopyStepExact
    BY DEF CopyStepExact
  <2>1. CASE CopyOpenTarget
    BY <2>1, CopyOpenTargetKeeps DEF CopyStepExact
  <2>2. CASE CopyRead
    BY <2>2, CopyReadKeeps DEF CopyStepExact
  <2>3. CASE CopyWrite
    BY <2>3, CopyWriteKeeps DEF CopyStepExact
  <2> QED BY <2>1, <2>2, <2>3, CopySteps
<1> QED BY <1>1, FilesInvariant, PTL DEF FilesSpec, CopyExact

=============================================================================
