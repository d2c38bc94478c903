------------------------------ MODULE Backoff ------------------------------
(***************************************************************************)
(* The waiting time after a failed attempt, engine.backoff: the base is    *)
(* doubled once per earlier failure until it reaches the cap.              *)
(***************************************************************************)
EXTENDS Integers

CONSTANTS MaxBackoff,    \* maxSec, one hour in the code
          DefaultBase    \* what a base below 1 is replaced by, 10 in the code

ASSUME BackoffAssumption ==
  /\ MaxBackoff \in Nat \ {0}
  /\ DefaultBase \in Nat \ {0}

Twice(sec) == IF sec < MaxBackoff THEN 2 * sec ELSE sec

\* sec after n rounds of the loop.
Doubled(first) == LET sec[n \in Nat] == IF n = 0 THEN first ELSE Twice(sec[n - 1]) IN sec

backoff(base, attempt) ==
  LET first == IF base < 1 THEN DefaultBase ELSE base
      sec   == Doubled(first)[IF attempt < 1 THEN 0 ELSE attempt - 1]
  IN  IF sec > MaxBackoff THEN MaxBackoff ELSE sec
=============================================================================
