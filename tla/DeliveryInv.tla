---------------------------- MODULE DeliveryInv ----------------------------
(***************************************************************************)
(* The inductive invariant behind the safety properties of Delivery: what  *)
(* is true of the table, the copies the worker holds and the history       *)
(* whenever a step is over.                                                *)
(***************************************************************************)
EXTENDS Delivery

Held(d) == d \in batch \/ d = cur

\* Where the worker is says what it holds.
Control ==
  /\ cur \in Deliveries <=> pc \in {"send", "record"}
  /\ cur \notin batch
  /\ batch # {} => pc \in {"next", "send", "record"}
  /\ pc \in {"next", "send", "record"} => round < MaxRounds

\* A copy agrees with its row until the operator touches the row, and the row
\* being sent already counts the message that is about to leave.
AccountInv ==
  \A d \in Deliveries :
    /\ status[d] = "none" => sends[d] = 0
    /\ replay[d] = "never" /\ status[d] \in Present =>
         /\ sends[d] <= attempt[d]
         /\ Held(d) => snap[d] = attempt[d]
         /\ d = cur /\ pc = "send" => sends[d] < attempt[d]

\* An unfinished record that is not being sent has an attempt left.
BoundInv ==
  \A d \in Deliveries :
    /\ attempt[d] <= RetryCap + lost[d]
    /\ status[d] \in Live /\ d # cur => attempt[d] < RetryCap + lost[d]
    /\ status[d] \in Present /\ d \in batch => snap[d] < RetryCap + lost[d]
    /\ status[d] \in Present /\ d = cur => snap[d] <= RetryCap + lost[d]

\* A replay of the record being sent is marked as a race, never as owed.
ReplayInv == ReplayTaken /\ \A d \in Deliveries : d = cur => replay[d] # "owed"

LeaseInv ==
  pc = "send" /\ status[cur] \in Live /\ replay[cur] # "raced" => wait[cur] = Lease - elapsed

\* An answer of success is one the target gave or one that was misread.
VerdictInv ==
  pc = "record" /\ verdict = "ok" => cur \in delivered \cup misread

\* Only the answers of lax targets are misread, and a record keeps its target.
MisreadInv ==
  \A d \in misread : out[d] \in Lax /\ status[d] # "none"

TypeInv == TypeOK /\ Control
IInv == TypeInv /\ WorkLive /\ AccountInv /\ BoundInv /\ ReplayInv /\ LeaseInv /\ VerdictInv
        /\ MisreadInv
=============================================================================
