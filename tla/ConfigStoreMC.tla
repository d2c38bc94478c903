---------------------------- MODULE ConfigStoreMC ----------------------------
(***************************************************************************)
(* Small instances of ConfigStore for TLC.                                 *)
(***************************************************************************)
EXTENDS ConfigStore, TLC

CONSTANTS d1, d2

DeleterSymmetry == Permutations(Deleters)
=============================================================================
