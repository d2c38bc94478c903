---------------------------- MODULE ForwardingMC ----------------------------
(***************************************************************************)
(* Small instances of Forwarding for TLC.                                  *)
(***************************************************************************)
EXTENDS Forwarding, TLC

CONSTANTS hookA, hookB, mailbox, a, b, c

\* Two webhook sources that forward to each other, one of them to a
\* mailbox that is polled and forwarded back.
Circles == {<<hookA, hookB>>, <<hookB, hookA>>, <<hookB, mailbox>>, <<mailbox, hookA>>}

Named == {(hookA :> a) @@ (hookB :> b) @@ (mailbox :> NoSlug)}
=============================================================================
