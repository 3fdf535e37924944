------------------------------ MODULE HashMap ------------------------------
(***************************************************************************)
(* The runtime of HashMap@(K, V) that the backend emits: open addressing   *)
(* with linear probing, tombstones, growth at a load factor of 3/4 and a   *)
(* resize that re-inserts the old table entry by entry                     *)
(* (sushi_lang/backend/generics/hashmap).  One action per method, except   *)
(* that a resize is the loop the code runs: one step per old bucket.       *)
(***************************************************************************)
EXTENDS Integers, FiniteSets

CONSTANTS
  Keys,     \* the keys a program uses
  Vals,     \* the values it stores
  Absent,   \* "no value": Maybe.None, and the content of a slot that holds none
  NoKey,    \* the key field of a slot that holds none
  Hash,     \* key |-> its hash, before it is reduced to a bucket index
  InitCap,  \* the capacity of a fresh map (16 in the code)
  MaxCap    \* bound: no resize beyond this capacity

ASSUME HashAssumption == Hash \in [Keys -> Nat]
ASSUME CapAssumption  == InitCap \in Nat /\ InitCap >= 8 /\ MaxCap \in Nat
ASSUME MaskAssumption == \E e \in 3 .. 30 : InitCap = 2 ^ e
ASSUME NilAssumption  == Absent \notin Vals /\ NoKey \notin Keys

VARIABLES
  buckets,    \* index |-> Entry{state, key, val}, the live table
  size,       \* the field `size`
  capacity,   \* the field `capacity`; 0 once destroyed
  tombstones, \* the field `tombstones`
  pc,         \* "idle", inside a resize ("moving"), after it ("placing"), "trapped"
  fresh,      \* the table a resize is filling
  freshCap,   \* its capacity
  oldI,       \* the next old bucket to move
  pending     \* the entry `insert` stores after its resize; NoEntry for `rehash`

vars == <<buckets, size, capacity, tombstones, pc, fresh, freshCap, oldI, pending>>

-----------------------------------------------------------------------------
(* Entries and tables. *)

Blank(s) == [state |-> s, key |-> NoKey, val |-> Absent]
Live(k, v) == [state |-> "OCCUPIED", key |-> k, val |-> v]

Entry == { Blank("EMPTY"), Blank("TOMBSTONE") }
           \cup [state : {"OCCUPIED"}, key : Keys, val : Vals]

NoEntry == Blank("EMPTY")

\* A fresh malloc, every bucket marked EMPTY.
EmptyTable(cap) == [i \in 0 .. cap - 1 |-> Blank("EMPTY")]

SlotsIn(b, cap, s) == { i \in 0 .. cap - 1 : b[i].state = s }

-----------------------------------------------------------------------------
(* The linear probe.  A probe for key k looks at offsets 0, 1, ... from the *)
(* key's home bucket; it stops at an EMPTY bucket or at k's own entry, and  *)
(* is exhausted when the offset reaches the capacity.                       *)

\* (hash + offset) & (capacity - 1), for a power-of-two capacity.
Index(k, off, cap) == (Hash[k] + off) % cap

At(b, cap, k, off) == b[Index(k, off, cap)]

Stops(b, cap, k, off) ==
  LET e == At(b, cap, k, off)
  IN  e.state = "EMPTY" \/ (e.state = "OCCUPIED" /\ e.key = k)

ProbeEnd(b, cap, k, off) ==
  /\ off \in 0 .. cap - 1
  /\ Stops(b, cap, k, off)
  /\ \A p \in 0 .. off - 1 : ~Stops(b, cap, k, p)

Found(b, cap, k, off) ==
  ProbeEnd(b, cap, k, off) /\ At(b, cap, k, off).state = "OCCUPIED"

Exhausted(b, cap, k) == \A off \in 0 .. cap - 1 : ~Stops(b, cap, k, off)

\* Where an insert stores a key its probe did not find: the first tombstone
\* the chain passed, or the EMPTY bucket (offset end) that ended it.
InsertOffset(b, cap, k, end, off) ==
  /\ off \in 0 .. end
  /\ \A p \in 0 .. off - 1 : At(b, cap, k, p).state # "TOMBSTONE"
  /\ off = end \/ At(b, cap, k, off).state = "TOMBSTONE"

\* Mutant: a lookup that takes a tombstone for the end of the chain.
LookupStopsAtTombstone(k) ==
  LET Hit(off) == /\ Found(buckets, capacity, k, off)
                  /\ \A p \in 0 .. off - 1 : At(buckets, capacity, k, p).state # "TOMBSTONE"
  IN  IF \E off \in 0 .. capacity - 1 : Hit(off)
      THEN At(buckets, capacity, k, CHOOSE off \in 0 .. capacity - 1 : Hit(off)).val
      ELSE Absent

\* `.get(k)` and `.contains_key(k)`, which change nothing.
Lookup(k) ==
  IF \E off \in 0 .. capacity - 1 : Found(buckets, capacity, k, off)
  THEN At(buckets, capacity, k,
          CHOOSE off \in 0 .. capacity - 1 : Found(buckets, capacity, k, off)).val
  ELSE Absent

-----------------------------------------------------------------------------
Init ==
  /\ buckets = EmptyTable(InitCap)
  /\ size = 0
  /\ capacity = InitCap
  /\ tombstones = 0
  /\ pc = "idle"
  /\ fresh = EmptyTable(0)
  /\ freshCap = 0
  /\ oldI = 0
  /\ pending = NoEntry

moveVars == <<fresh, freshCap, oldI>>

\* The end of `insert`: probe, then update in place, or store and count.
Store(k, v) ==
  \E end \in 0 .. capacity - 1 :
    /\ ProbeEnd(buckets, capacity, k, end)
    /\ \/ /\ At(buckets, capacity, k, end).state = "OCCUPIED"
          /\ buckets' = [buckets EXCEPT ![Index(k, end, capacity)] = Live(k, v)]
          /\ UNCHANGED <<size, tombstones>>
       \/ /\ At(buckets, capacity, k, end).state = "EMPTY"
          /\ \E off \in 0 .. end :
               /\ InsertOffset(buckets, capacity, k, end, off)
               /\ buckets' = [buckets EXCEPT ![Index(k, off, capacity)] = Live(k, v)]
               /\ size' = size + 1
               /\ tombstones' = IF off = end THEN tombstones ELSE tombstones - 1

\* Mutant: the resize loop starts at old bucket 1.
StartMoveAtOne(cap, entry) ==
  /\ pc' = "moving"
  /\ fresh' = EmptyTable(cap)
  /\ freshCap' = cap
  /\ oldI' = IF capacity > 0 THEN 1 ELSE 0
  /\ pending' = entry
  /\ UNCHANGED <<buckets, size, capacity, tombstones>>

StartMove(cap, entry) ==
  /\ pc' = "moving"
  /\ fresh' = EmptyTable(cap)
  /\ freshCap' = cap
  /\ oldI' = 0
  /\ pending' = entry
  /\ UNCHANGED <<buckets, size, capacity, tombstones>>

\* Mutants: the load factor of the live entries alone; a threshold of 1.
OverloadedByLive == size * 4 > capacity * 3
OverloadedWhenFull == size + tombstones > capacity

\* Load factor above 3/4, tombstones included, before the new entry.
Overloaded == (size + tombstones) * 4 > capacity * 3

\* `.insert(k, v)` that needs no resize.
Insert(k, v) ==
  /\ pc = "idle"
  /\ ~Overloaded
  /\ Store(k, v)
  /\ UNCHANGED <<capacity, pc, pending, moveVars>>

\* `.insert(k, v)` that first doubles the capacity.
InsertGrow(k, v) ==
  /\ pc = "idle"
  /\ Overloaded
  /\ 2 * capacity <= MaxCap
  /\ StartMove(2 * capacity, Live(k, v))

\* `.rehash()`
Rehash ==
  /\ pc = "idle"
  /\ StartMove(capacity, NoEntry)

\* Mutant: only the branch that re-inserts an entry advances the index.
MoveOneStuckOnGap ==
  /\ pc = "moving"
  /\ oldI < capacity
  /\ LET e == buckets[oldI] IN
       \/ e.state # "OCCUPIED" /\ UNCHANGED <<fresh, oldI>>
       \/ /\ e.state = "OCCUPIED"
          /\ oldI' = oldI + 1
          /\ \E off \in 0 .. freshCap - 1 :
               /\ At(fresh, freshCap, e.key, off).state = "EMPTY"
               /\ \A p \in 0 .. off - 1 : At(fresh, freshCap, e.key, p).state # "EMPTY"
               /\ fresh' = [fresh EXCEPT ![Index(e.key, off, freshCap)] = e]
  /\ UNCHANGED <<buckets, size, capacity, tombstones, pc, freshCap, pending>>

\* One turn of the resize loop: an OCCUPIED old bucket goes to the first EMPTY
\* bucket of its chain in the new table.
MoveOne ==
  /\ pc = "moving"
  /\ oldI < capacity
  /\ oldI' = oldI + 1
  /\ LET e == buckets[oldI] IN
       \/ /\ e.state # "OCCUPIED"
          /\ UNCHANGED fresh
       \/ /\ e.state = "OCCUPIED"
          /\ \E off \in 0 .. freshCap - 1 :
               /\ At(fresh, freshCap, e.key, off).state = "EMPTY"
               /\ \A p \in 0 .. off - 1 : At(fresh, freshCap, e.key, p).state # "EMPTY"
               /\ fresh' = [fresh EXCEPT ![Index(e.key, off, freshCap)] = e]
  /\ UNCHANGED <<buckets, size, capacity, tombstones, pc, freshCap, pending>>

\* The end of the resize: the new table replaces the old one.
FinishMove ==
  /\ pc = "moving"
  /\ oldI = capacity
  /\ buckets' = fresh
  /\ capacity' = freshCap
  /\ tombstones' = 0
  /\ pc' = IF pending = NoEntry THEN "idle" ELSE "placing"
  /\ fresh' = EmptyTable(0)
  /\ freshCap' = 0
  /\ oldI' = 0
  /\ UNCHANGED <<size, pending>>

\* The rest of an `insert` that grew the table.
PlacePending ==
  /\ pc = "placing"
  /\ Store(pending.key, pending.val)
  /\ pc' = "idle"
  /\ pending' = NoEntry
  /\ UNCHANGED <<capacity, moveVars>>

\* `.remove(k)` of a key that is there.
RemoveEntry(k) ==
  /\ pc = "idle"
  /\ \E off \in 0 .. capacity - 1 :
       /\ Found(buckets, capacity, k, off)
       /\ buckets' = [buckets EXCEPT ![Index(k, off, capacity)] = Blank("TOMBSTONE")]
  /\ size' = size - 1
  /\ tombstones' = tombstones + 1
  /\ UNCHANGED <<capacity, pc, pending, moveVars>>

\* Mutant: the tombstone count is not reset.
ResetKeepsCount(cap) ==
  /\ buckets' = EmptyTable(cap)
  /\ size' = 0
  /\ capacity' = cap
  /\ UNCHANGED <<tombstones, pc, pending, moveVars>>

Reset(cap) ==
  /\ buckets' = EmptyTable(cap)
  /\ size' = 0
  /\ capacity' = cap
  /\ tombstones' = 0
  /\ UNCHANGED <<pc, pending, moveVars>>

\* `.free()`: every entry is destroyed, the map is usable again.
Free == pc = "idle" /\ Reset(InitCap)

\* `.destroy()`: no buckets are left.
Destroy == pc = "idle" /\ Reset(0)

\* RE2022: an insert whose probe, or a resize whose re-insertion, finds no slot.
Trap ==
  /\ \/ /\ pc = "idle"
        /\ ~Overloaded
        /\ \E k \in Keys : Exhausted(buckets, capacity, k)
     \/ /\ pc = "placing"
        /\ Exhausted(buckets, capacity, pending.key)
     \/ /\ pc = "moving"
        /\ oldI < capacity
        /\ buckets[oldI].state = "OCCUPIED"
        /\ \A off \in 0 .. freshCap - 1 :
             At(fresh, freshCap, buckets[oldI].key, off).state # "EMPTY"
  /\ pc' = "trapped"
  /\ UNCHANGED <<buckets, size, capacity, tombstones, pending, moveVars>>

\* The process has exited.
Exited == pc = "trapped" /\ UNCHANGED vars

Resize == MoveOne \/ FinishMove \/ PlacePending

Next ==
  \/ \E k \in Keys, v \in Vals : Insert(k, v) \/ InsertGrow(k, v)
  \/ \E k \in Keys : RemoveEntry(k)
  \/ Rehash
  \/ MoveOne
  \/ FinishMove
  \/ PlacePending
  \/ Free
  \/ Destroy
  \/ Trap
  \/ Exited

Spec == Init /\ [][Next]_vars

\* A resize runs inside one call of one thread: nothing can stop it half way.
FairSpec == Spec /\ WF_vars(Resize)
-----------------------------------------------------------------------------
TypeOK ==
  /\ capacity \in Nat
  /\ buckets \in [0 .. capacity - 1 -> Entry]
  /\ size \in Nat
  /\ tombstones \in Nat
  /\ pc \in {"idle", "moving", "placing", "trapped"}
  /\ freshCap \in Nat
  /\ fresh \in [0 .. freshCap - 1 -> Entry]
  /\ oldI \in 0 .. capacity
  /\ pending \in Entry

\* The counters never drift from the table, through every mix of updates,
\* tombstone reuse, growth and rehash; the load factor is computed from them.
CountersExact ==
  /\ size = Cardinality(SlotsIn(buckets, capacity, "OCCUPIED"))
  /\ tombstones = Cardinality(SlotsIn(buckets, capacity, "TOMBSTONE"))

\* No key has two entries: an insert that reuses a tombstone has first looked
\* for the key in the rest of the chain.
Unique(b, cap) ==
  \A i, j \in 0 .. cap - 1 :
    /\ b[i].state = "OCCUPIED"
    /\ b[j].state = "OCCUPIED"
    /\ b[i].key = b[j].key
    => i = j
UniqueKeys == Unique(buckets, capacity)

\* Every bucket from a live key's home to its entry is in use, so no probe for
\* it ends early: removal leaves a tombstone, never a gap.
Reachable(b, cap) ==
  \A k \in Keys : \A off \in 0 .. cap - 1 :
    At(b, cap, k, off).state = "OCCUPIED" /\ At(b, cap, k, off).key = k
    => \A p \in 0 .. off - 1 : At(b, cap, k, p).state # "EMPTY"
ChainsUnbroken == Reachable(buckets, capacity)

\* "A live map always resizes below a 0.75 load factor, so there is always an
\* empty slot and the probe always ends" (methods/mutations.py, on the
\* RE2022 guard of insert).
EmptySlotRemains ==
  capacity > 0 => SlotsIn(buckets, capacity, "EMPTY") # {}

\* RE2022 is the answer to an insert into a destroyed map and to nothing else.
TrapOnlyWhenDestroyed == pc = "trapped" => capacity = 0

-----------------------------------------------------------------------------
(* The map a table represents, read off the buckets and not by probing. *)
Holds(b, i, k) == b[i].state = "OCCUPIED" /\ b[i].key = k

ContentsOf(b, cap) ==
  [k \in Keys |->
     IF \E i \in 0 .. cap - 1 : Holds(b, i, k)
     THEN b[CHOOSE i \in 0 .. cap - 1 : Holds(b, i, k)].val
     ELSE Absent]

Contents == ContentsOf(buckets, capacity)

\* A lookup by probing answers what the table holds, for every key.
LookupExact == \A k \in Keys : Lookup(k) = Contents[k]

\* The call a resize works for.
InProgress ==
  IF pc \notin {"moving", "placing"} THEN <<>>
  ELSE IF pending = NoEntry THEN <<"rebuild">>
  ELSE <<pending.key, pending.val>>

Abstract == INSTANCE MapSpec WITH map <- Contents, busy <- InProgress

\* The table implements the abstract map: a resize neither loses, adds nor
\* changes an entry, and an insert takes effect in one step.
ImplementsMap == Abstract!Spec

\* A resize that started ends (in an idle map, or in a trap that
\* TrapOnlyWhenDestroyed rules out).
ResizeEnds == pc = "moving" ~> pc \in {"idle", "trapped"}
-----------------------------------------------------------------------------
(* The inductive invariant behind the safety properties (HashMapProofs).   *)

Table(b, cap) == cap \in Nat /\ b \in [0 .. cap - 1 -> Entry]

LiveTable ==
  /\ Table(buckets, capacity)
  /\ UniqueKeys
  /\ ChainsUnbroken
  /\ CountersExact
  /\ size \in Nat /\ tombstones \in Nat

\* One insert beyond the 3/4 check is the most a table ever holds.
LoadBound ==
  /\ (size + tombstones) * 4 <= capacity * 3 + 4
  /\ capacity = 0 \/ capacity >= 8

Quiet ==
  /\ pc \in {"idle", "moving", "placing", "trapped"}
  /\ pc # "moving" => fresh = EmptyTable(0) /\ freshCap = 0 /\ oldI = 0
  /\ pc \in {"idle", "trapped"} => pending = NoEntry
  /\ pc = "placing" => pending.state = "OCCUPIED" /\ ~Overloaded /\ capacity >= 8
  /\ pc = "trapped" => capacity = 0
  /\ pending \in Entry
  /\ oldI \in 0 .. capacity

\* Half-way through a resize the new table holds exactly the entries of the
\* old buckets below oldI, and it has room for the rest.
HalfMoved ==
  /\ Table(fresh, freshCap)
  /\ Unique(fresh, freshCap)
  /\ Reachable(fresh, freshCap)
  /\ \/ freshCap = capacity /\ pending = NoEntry
     \/ freshCap = 2 * capacity /\ pending.state = "OCCUPIED" /\ capacity >= 8
  /\ SlotsIn(fresh, freshCap, "TOMBSTONE") = {}
  /\ Cardinality(SlotsIn(fresh, freshCap, "OCCUPIED"))
       = Cardinality(SlotsIn(buckets, oldI, "OCCUPIED"))
  /\ \A j \in 0 .. freshCap - 1 : fresh[j].state = "OCCUPIED" =>
       \E i \in 0 .. oldI - 1 : buckets[i] = fresh[j]
  /\ \A i \in 0 .. oldI - 1 : buckets[i].state = "OCCUPIED" =>
       \E j \in 0 .. freshCap - 1 : fresh[j] = buckets[i]

IndInv ==
  /\ LiveTable
  /\ LoadBound
  /\ Quiet
  /\ pc = "moving" => HalfMoved
=============================================================================
