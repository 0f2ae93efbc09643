------------------------------- MODULE MCHub -------------------------------
(* Model checking of Hub, and the fan-out as an implementation of Feed.     *)
EXTENDS Hub, TLC

ConnSymmetry == Permutations(Conns)
=============================================================================
