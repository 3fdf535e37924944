-------------------------- MODULE HashMapOwnership --------------------------
(***************************************************************************)
(* Who owns the heap objects that pass through a HashMap<K, V>.            *)
(*                                                                         *)
(* HashMap.tla models where an entry lives; this module models what is     *)
(* consumed, handed back and destroyed when the entries are heap values.   *)
(* An object is a heap allocation (a string, a list, ...); a variable of   *)
(* the program owns it, or an entry does, as its key or as its value.      *)
(* .insert() consumes both arguments, .remove() destroys the stored key    *)
(* and moves the value out, .free()/.destroy() and the scope exit destroy  *)
(* every occupied entry.                                                   *)
(***************************************************************************)
EXTENDS Integers, Functions

CONSTANTS Keys,         \* the distinct key values
          MaxObjects    \* bound: heap objects the program allocates

ASSUME ObjectsAssumption == MaxObjects \in Nat

Objects == 1 .. MaxObjects

VARIABLES entries,  \* the occupied entries, by key value
          buckets,  \* "live", or "null" after .destroy()
          owned,    \* objects the program's variables own
          freed,    \* how often each object was freed
          made,     \* objects allocated so far
          closed    \* the scope that owns the map has ended

vars == <<entries, buckets, owned, freed, made, closed>>

Entry == [key : Objects, value : Objects]

Held(k) == {entries[k].key, entries[k].value}

Stored == UNION {Held(k) : k \in DOMAIN entries}

Init == /\ entries = << >>
        /\ buckets = "live"
        /\ owned = {}
        /\ freed = [o \in Objects |-> 0]
        /\ made = 0
        /\ closed = FALSE

\* free() of every object of S.
Freeing(S) == [o \in Objects |-> freed[o] + IF o \in S THEN 1 ELSE 0]

Put(k, e) == [x \in DOMAIN entries \cup {k} |-> IF x = k THEN e ELSE entries[x]]

\* A variable of the program is given a new heap value.
Make == /\ ~closed /\ made < MaxObjects
        /\ made' = made + 1
        /\ owned' = owned \cup {made'}
        /\ UNCHANGED <<entries, buckets, freed, closed>>

\* A mutant: only the value argument is consumed.
InsertKeepsKey(k, ko, vo) ==
    /\ ~closed /\ buckets = "live" /\ k \notin DOMAIN entries
    /\ entries' = Put(k, [key |-> ko, value |-> vo])
    /\ owned' = owned \ {vo}
    /\ UNCHANGED <<buckets, freed, made, closed>>

\* insert of an absent key: both arguments are consumed and stored.  (On a
\* destroyed map the call ends the program with RE2022.)
Insert(k, ko, vo) ==
    /\ ~closed /\ buckets = "live" /\ k \notin DOMAIN entries
    /\ entries' = Put(k, [key |-> ko, value |-> vo])
    /\ owned' = owned \ {ko, vo}
    /\ UNCHANGED <<buckets, freed, made, closed>>

\* insert of a present key: both arguments are consumed, the new value is
\* stored over the old one and the stored key stays.  Neither the old value nor
\* the key that was passed is destroyed.
Update(k, ko, vo) ==
    /\ ~closed /\ k \in DOMAIN entries
    /\ entries' = [entries EXCEPT ![k].value = vo]
    /\ owned' = owned \ {ko, vo}
    /\ UNCHANGED <<buckets, freed, made, closed>>

\* A mutant: remove destroys the value it also hands to the caller.
RemoveDestroysBoth(k) ==
    /\ ~closed /\ k \in DOMAIN entries
    /\ freed' = Freeing(Held(k))
    /\ owned' = owned \cup {entries[k].value}
    /\ entries' = Restrict(entries, DOMAIN entries \ {k})
    /\ UNCHANGED <<buckets, made, closed>>

\* remove: the key is destroyed, the value goes to the caller.
RemoveEntry(k) ==
    /\ ~closed /\ k \in DOMAIN entries
    /\ freed' = Freeing({entries[k].key})
    /\ owned' = owned \cup {entries[k].value}
    /\ entries' = Restrict(entries, DOMAIN entries \ {k})
    /\ UNCHANGED <<buckets, made, closed>>

\* A variable's own scope ends, or it is rebound: its object is freed.
Drop(o) == /\ ~closed
           /\ owned' = owned \ {o}
           /\ freed' = Freeing({o})
           /\ UNCHANGED <<entries, buckets, made, closed>>

\* free(): every entry is destroyed and the map gets fresh empty buckets.
Free == /\ ~closed
        /\ freed' = Freeing(Stored)
        /\ entries' = << >>
        /\ buckets' = "live"
        /\ UNCHANGED <<owned, made, closed>>

\* destroy(): every entry is destroyed, the bucket pointer becomes null and the
\* capacity 0, so the destructor at the scope exit finds nothing to do.
Destroy == /\ ~closed
           /\ freed' = Freeing(Stored)
           /\ entries' = << >>
           /\ buckets' = "null"
           /\ UNCHANGED <<owned, made, closed>>

\* The scope ends: the destructor walks the map and the program's variables go.
ScopeExit == /\ ~closed
             /\ closed' = TRUE
             /\ freed' = Freeing(Stored \cup owned)
             /\ entries' = << >>
             /\ owned' = {}
             /\ UNCHANGED <<buckets, made>>

Next == \/ Make
        \/ \E k \in Keys, ko, vo \in owned :
               ko # vo /\ (Insert(k, ko, vo) \/ Update(k, ko, vo))
        \/ \E k \in Keys : RemoveEntry(k)
        \/ \E o \in owned : Drop(o)
        \/ Free
        \/ Destroy
        \/ ScopeExit

Spec == Init /\ [][Next]_vars

-----------------------------------------------------------------------------

\* The variables keep their types, and a map with null buckets holds no entry.
TypeOK == /\ DOMAIN entries \subseteq Keys
          /\ \A k \in DOMAIN entries : entries[k] \in Entry
          /\ buckets \in {"live", "null"}
          /\ owned \subseteq Objects
          /\ freed \in [Objects -> 0 .. 1]
          /\ made \in 0 .. MaxObjects
          /\ closed \in BOOLEAN
          /\ buckets = "null" => entries = << >>

\* Every live object has one owner: no object is in two entries, or is the key
\* and the value of one, or is stored while a variable of the program owns it.
\* It is what consuming BOTH arguments of insert, and moving the value out of
\* remove, are for.
OneOwner ==
    /\ Stored \cap owned = {}
    /\ \A k \in DOMAIN entries : entries[k].key # entries[k].value
    /\ \A j, k \in DOMAIN entries : j # k => Held(j) \cap Held(k) = {}

\* Nothing that is stored or owned has been freed, so no later destructor frees
\* it again and no lookup hands out a dangling pointer.
NothingDangles == \A o \in Stored \cup owned : freed[o] = 0

\* Every object is freed, stored or owned by a variable: the documented
\* "RAII cleanup: Automatic recursive cleanup of entries".
NothingLost == \A o \in 1 .. made : freed[o] > 0 \/ o \in Stored \cup owned
=============================================================================
