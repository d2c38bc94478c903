----------------------------- MODULE DeliveryMC -----------------------------
(***************************************************************************)
(* Small instances of Delivery for TLC.                                    *)
(***************************************************************************)
EXTENDS Delivery, TLC

CONSTANTS d1, d2, d3, s1, r1, r2

OneTarget == {<<s1>>}
OneOrTwo  == {1, 2}
JustTwo   == {2}

AllSymmetry == Permutations(Deliveries) \cup Permutations(Requests)
=============================================================================
