-------------------------------- MODULE LoginMC --------------------------------
(***************************************************************************)
(* A small instance of Login for TLC.                                      *)
(***************************************************************************)
EXTENDS Login

CONSTANTS r1, r2, h1, h2, a1
=============================================================================
