---------------------------- MODULE AdminServerMC ----------------------------
(***************************************************************************)
(* A small instance of AdminServer for TLC.                                *)
(***************************************************************************)
EXTENDS AdminServer

CONSTANTS h1, h2, r1, r2, v0, v1
=============================================================================
