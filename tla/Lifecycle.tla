----------------------------- MODULE Lifecycle -----------------------------
(***************************************************************************)
(* What a delivery record promises to whoever reads the delivery log: the  *)
(* state machine drawn in store/delivery.go and in the README, without the *)
(* worker, the batches, the leases and the clock that implement it.        *)
(***************************************************************************)
CONSTANT Deliveries

VARIABLES
  status,      \* what the log shows for each record
  delivered,   \* the records whose target has accepted the message at least once
  misread      \* those of which a refusal was taken for an acceptance

lifecycleVars == <<status, delivered, misread>>

Live     == {"pending", "failed"}
Terminal == {"success", "dead", "dropped"}
Status   == {"none", "deleted"} \cup Live \cup Terminal

LifecycleTypeOK ==
  /\ status \in [Deliveries -> Status]
  /\ delivered \in SUBSET Deliveries
  /\ misread \in SUBSET Deliveries

Init ==
  /\ status = [d \in Deliveries |-> "none"]
  /\ delivered = {}
  /\ misread = {}

\* A matching rule queues a message, or loop detection intercepts one.
Accept(d) ==
  /\ status[d] = "none"
  /\ \E s \in {"pending", "dropped"} : status' = [status EXCEPT ![d] = s]
  /\ UNCHANGED <<delivered, misread>>

\* The target takes the message.  The record is still unfinished then, or it
\* was deleted while the message was on its way; a settled record is not sent.
Deliver(d) ==
  /\ status[d] \in Live \cup {"deleted"}
  /\ delivered' = delivered \cup {d}
  /\ UNCHANGED <<status, misread>>

\* The target refuses the message, in words that read as a yes.
Misread(d) ==
  /\ status[d] \in Live \cup {"deleted"}
  /\ misread' = misread \cup {d}
  /\ UNCHANGED <<status, delivered>>

\* An attempt is recorded.  Success is only ever recorded of a message that
\* the target has taken, or seemed to have taken.
Settle(d) ==
  /\ status[d] \in Live
  /\ \E s \in {"success", "failed", "dead"} :
       /\ s = "success" => d \in delivered \cup misread
       /\ status' = [status EXCEPT ![d] = s]
  /\ UNCHANGED <<delivered, misread>>

\* The operator queues a record again, whatever became of it.
Replay(d) ==
  /\ status[d] \in Live \cup Terminal
  /\ status' = [status EXCEPT ![d] = "pending"]
  /\ UNCHANGED <<delivered, misread>>

\* The operator deletes a record.
Remove(d) ==
  /\ status[d] \in Live \cup Terminal
  /\ status' = [status EXCEPT ![d] = "deleted"]
  /\ UNCHANGED <<delivered, misread>>

Next == \E d \in Deliveries :
          Accept(d) \/ Deliver(d) \/ Misread(d) \/ Settle(d) \/ Replay(d) \/ Remove(d)

\* What the log shows as delivered, the target has taken or seemed to have taken.
SuccessTrue == \A d \in Deliveries : status[d] = "success" => d \in delivered \cup misread

\* An unfinished record does not stay unfinished for ever: README, "进程重启后
\* 自动接管未完成的投递", and a bounded number of retries.
Conclude(d) ==
  /\ status[d] \in Live
  /\ (Settle(d) /\ status'[d] \in Terminal) \/ Remove(d)

SafeSpec == Init /\ [][Next]_lifecycleVars

Spec == SafeSpec /\ \A d \in Deliveries : WF_lifecycleVars(Conclude(d))
=============================================================================
