---------------------------- MODULE MailPollerMC ----------------------------
(***************************************************************************)
(* Small instances of MailPoller for TLC.                                  *)
(***************************************************************************)
EXTENDS MailPoller, TLC

CONSTANTS s1, s2, m1, m2, m3, w1, w2, w3

InBox1 == [m \in Mails |-> s1]
SlotSymmetry == Permutations(Slots)
=============================================================================
