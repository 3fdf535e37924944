------------------------------ MODULE MapSpec ------------------------------
(***************************************************************************)
(* What docs/stdlib/collections/hashmap.md promises of HashMap@(K, V): a   *)
(* partial function from keys to values.  No buckets, no tombstones, no    *)
(* probing.  A call either takes effect at once, or is seen to begin and   *)
(* to end; between the two the map is what it was, and nothing else is     *)
(* served.                                                                 *)
(***************************************************************************)

CONSTANTS
  Keys,    \* the keys a program uses
  Vals,    \* the values it stores
  Absent   \* the value of a key that is not in the map (Maybe.None)

VARIABLES
  map,     \* key |-> value
  busy     \* the call in progress: <<>>, <<"rebuild">>, or <<k, v>> for an insert

Init ==
  /\ map = [k \in Keys |-> Absent]
  /\ busy = <<>>

\* `.insert(k, v)`: insert or update.
Put(k, v) ==
  /\ busy = <<>>
  /\ map' = [map EXCEPT ![k] = v]
  /\ UNCHANGED busy

\* An insert that has to make room first.
BeginPut(k, v) ==
  /\ busy = <<>>
  /\ busy' = <<k, v>>
  /\ UNCHANGED map

EndPut(k, v) ==
  /\ busy = <<k, v>>
  /\ map' = [map EXCEPT ![k] = v]
  /\ busy' = <<>>

\* `.rehash()`: nothing a program can see through the map.
BeginRebuild == busy = <<>> /\ busy' = <<"rebuild">> /\ UNCHANGED map
EndRebuild   == busy = <<"rebuild">> /\ busy' = <<>> /\ UNCHANGED map

\* `.remove(k)` of a key that is there.
Delete(k) ==
  /\ busy = <<>>
  /\ map[k] # Absent
  /\ map' = [map EXCEPT ![k] = Absent]
  /\ UNCHANGED busy

\* `.free()` and `.destroy()`.
Clear ==
  /\ busy = <<>>
  /\ map' = [k \in Keys |-> Absent]
  /\ UNCHANGED busy

Next ==
  \/ \E k \in Keys, v \in Vals : Put(k, v) \/ BeginPut(k, v) \/ EndPut(k, v)
  \/ \E k \in Keys : Delete(k)
  \/ BeginRebuild
  \/ EndRebuild
  \/ Clear

Spec == Init /\ [][Next]_<<map, busy>>
=============================================================================
