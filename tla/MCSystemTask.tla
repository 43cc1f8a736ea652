---------------------------- MODULE MCSystemTask ----------------------------
(* Model-checking instance of SystemTask. *)
EXTENDS SystemTask, TLC

CONSTANTS a, b, c

RunnerSymmetry == Permutations(Runners)
=============================================================================
