----------------------------- MODULE MCHashMap -----------------------------
(* Instances of HashMap for TLC. *)
EXTENDS HashMap

\* Eight keys in eight buckets, in clusters that meet across the wrap: a map
\* that ignored its load factor could fill every bucket.
GrowKeys == 1 .. 8
GrowHash == [k \in GrowKeys |-> CASE k = 1 -> 0 [] k = 2 -> 8 [] k = 3 -> 9
                                  [] k = 4 -> 6 [] k = 5 -> 15 [] k = 6 -> 23
                                  [] k = 7 -> 3 [] k = 8 -> 12]

\* Three keys that collide at the last bucket, two values: updates, tombstone
\* reuse and chains that wrap.
SmallKeys == 1 .. 3
SmallHash == [k \in SmallKeys |-> IF k = 3 THEN 0 ELSE 7]
=============================================================================
