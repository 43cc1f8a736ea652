------------------------------ MODULE Charging ------------------------------
(***************************************************************************)
(* What billing promises a client, request by request: while a request is  *)
(* open the amount it holds may move, then it is closed exactly once, by a *)
(* charge or by a release, and from then on its amount is final.  A        *)
(* released request has cost nothing.                                      *)
(***************************************************************************)
EXTENDS Naturals

CONSTANT Requests

VARIABLES phase, amount

Phases == {"open", "charged", "released"}

ChargingInit ==
    /\ phase = [r \in Requests |-> "open"]
    /\ amount = [r \in Requests |-> 0]

\* Only the amount of r changes, and it stays a natural number.
Moves(r) ==
    /\ amount'[r] \in Nat
    /\ amount' = [amount EXCEPT ![r] = amount'[r]]

Hold(r) ==
    /\ phase[r] = "open"
    /\ Moves(r)
    /\ UNCHANGED phase

Charge(r) ==
    /\ phase[r] = "open"
    /\ phase' = [phase EXCEPT ![r] = "charged"]
    /\ Moves(r)

Release(r) ==
    /\ phase[r] = "open"
    /\ phase' = [phase EXCEPT ![r] = "released"]
    /\ amount' = [amount EXCEPT ![r] = 0]

ChargingNext == \E r \in Requests : Hold(r) \/ Charge(r) \/ Release(r)

ChargingSpec == ChargingInit /\ [][ChargingNext]_<<phase, amount>>
=============================================================================
