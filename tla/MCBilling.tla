----------------------------- MODULE MCBilling -----------------------------
(* Model-checking instances of Billing: two requests of one user. *)
EXTENDS Billing

CONSTANTS r1, r2
=============================================================================
