------------------------------ MODULE SendingMC ------------------------------
(***************************************************************************)
(* Small instances of Sending for TLC: every kind, with numbers that are   *)
(* the success of one kind and a refusal of another.                       *)
(***************************************************************************)
EXTENDS Sending

Codes == {0, 200, 1000, 310000}
=============================================================================
