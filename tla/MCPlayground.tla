---------------------------- MODULE MCPlayground ----------------------------
(* Model-checking instance of Playground: the first two tokens of a content  *)
(* read the same, those of a reasoning differ.                               *)
EXTENDS Playground

MCLetter(t) == IF t.type = "content" /\ t.n = 2 THEN 1 ELSE t.n
=============================================================================
