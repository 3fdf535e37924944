------------------------------ MODULE MCForeach ------------------------------
(* Constants for Foreach: integers of 4 bits.                              *)
EXTENDS Foreach

AllEnds == MinInt .. MaxInt
=============================================================================
