------------------------- MODULE MCHashMapOwnership -------------------------
(* Two key values and seven objects: enough for an update, a remove whose      *)
(* value is inserted again under the other key, and a destroy of both.       *)
EXTENDS HashMapOwnership, TLC

KeySymmetry == Permutations(Keys)
=============================================================================
