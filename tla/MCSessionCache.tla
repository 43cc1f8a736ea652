--------------------------- MODULE MCSessionCache ---------------------------
(* Model-checking instance of SessionCache. *)
EXTENDS SessionCache, TLC

CONSTANTS p, q

ProcSymmetry == Permutations(Procs)
=============================================================================
