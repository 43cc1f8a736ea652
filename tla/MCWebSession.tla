---------------------------- MODULE MCWebSession ----------------------------
(* Model-checking instance of WebSession. *)
EXTENDS WebSession, TLC

CONSTANTS a, b

TabSymmetry == Permutations(Tabs)
=============================================================================
