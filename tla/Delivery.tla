------------------------------ MODULE Delivery ------------------------------
(***************************************************************************)
(* The forwarding engine (internal/engine/engine.go) over the deliveries   *)
(* table (internal/store/delivery.go): inbound events are written to the   *)
(* table one record per target, a single worker goroutine takes what is    *)
(* due in batches, accounts for the attempt in the table, sends, and       *)
(* writes the result back, while HTTP handlers insert, replay and delete   *)
(* the same records and the process may be stopped or killed.              *)
(*                                                                         *)
(* Time.  next_retry_at is kept as the time that is left until it:         *)
(* Now (-1) stands for the value 0 the code writes for "at once", 0 for a  *)
(* time that has come, k > 0 for a time k ticks ahead.  "next_retry_at <=  *)
(* now" is wait <= 0, and 0 sorts before every real time.                  *)
(***************************************************************************)
EXTENDS Backoff, Sequences, FiniteSets

CONSTANTS
  Deliveries,    \* the record ids the table hands out; AUTOINCREMENT reuses none
  Sources,       \* the target sources
  Lax,           \* those whose refusal may read as a yes: see Sending, TextCode
  NoSource,      \* out_source_id = 0, of a record that has no target
  Requests,      \* the handlers that run beside the worker, each used once
  Fanouts,       \* the target lists that matching rules yield, sequences of sources
  NoDelivery,    \* the worker holds no record
  BatchSize,     \* drainBatch
  MaxRounds,     \* maxDrainRounds
  Lease,         \* sendLease, in ticks
  SendTimeout,   \* clientTimeout, in ticks
  BackoffBase,   \* the retry_backoff_seconds setting, in ticks
  RetryCap,      \* the largest retry_max the settings page accepts
  RetryLimits,   \* the values of retry_max that are saved
  MaxCrashes,    \* bound: how often the process is killed
  MaxStops,      \* bound: how often it is told to stop
  MaxFaults      \* bound: how many database calls fail

\* A table has finitely many rows.
ASSUME DeliveriesFinite == IsFiniteSet(Deliveries)

ASSUME DeliveryAssumption ==
  /\ NoSource \notin Sources /\ Lax \subseteq Sources
  /\ NoDelivery \notin Deliveries
  /\ Fanouts \subseteq Seq(Sources)
  /\ BatchSize \in Nat \ {0}
  /\ MaxRounds \in Nat \ {0}
  /\ SendTimeout \in Nat
  /\ Lease \in Nat /\ Lease > SendTimeout
  /\ BackoffBase \in Nat
  /\ RetryCap \in Nat /\ RetryLimits \subseteq 1 .. RetryCap
  /\ MaxCrashes \in Nat
  /\ MaxStops \in Nat
  /\ MaxFaults \in Nat

VARIABLES
  \* the database
  status, attempt, wait, out,   \* columns of deliveries; wait is next_retry_at
  target,      \* the sources as targets: "on", "off" (disabled or receive-only), "gone"
  retryMax,    \* the retry_max setting
  \* the worker goroutine and the engine's channels
  pc,          \* where the worker is
  batch,       \* ids read by DueDeliveries and not yet attempted
  snap,        \* the attempt column of the copies the worker holds
  cur,         \* the record being attempted
  full,        \* the batch had drainBatch records
  round,       \* the rounds of this drain
  limit,       \* retry_max as read when the attempt began
  verdict,     \* what the send returned
  elapsed,     \* ticks since the send began
  notify,      \* a token is in the notify channel (capacity 1)
  stopping,    \* the stop channel is closed
  \* the handlers
  req,
  \* counters and history
  crashes, stops, faults,
  sends,       \* how often each message left for its target
  delivered,   \* the records whose target accepted the message
  misread,     \* those of which a refusal was read as an acceptance
  lost,        \* attempts whose result was never written
  quiet,       \* ticks before a record that was claimed may be claimed again
  replay       \* what became of the last replay of a record

dbVars      == <<status, attempt, wait, out>>
configVars  == <<target, retryMax>>
workVars    == <<batch, snap, cur, full, round, limit, verdict, elapsed>>
historyVars == <<sends, delivered, misread, lost, quiet, replay>>
vars == <<dbVars, configVars, pc, workVars, notify, stopping, req,
          crashes, stops, faults, historyVars>>

Live     == {"pending", "failed"}                  \* what DueDeliveries looks for
Terminal == {"success", "dead", "dropped"}
Present  == Live \cup Terminal
Status   == Present \cup {"none", "deleted"}
Now      == -1

\* The least time between two claims of a record that nobody replayed.
Gap == LET b == backoff(BackoffBase, 1) IN IF Lease < b THEN Lease ELSE b

Idle == [at |-> "idle", todo |-> <<>>, made |-> 0]

DbTypeOK ==
  /\ status \in [Deliveries -> Status]
  /\ attempt \in [Deliveries -> Nat]
  /\ wait \in [Deliveries -> Int]
  /\ out \in [Deliveries -> Sources \cup {NoSource}]
  /\ target \in [Sources -> {"on", "off", "gone"}]
  /\ retryMax \in RetryLimits

WorkTypeOK ==
  /\ pc \in {"drain", "next", "send", "record", "idle", "exited", "down"}
  /\ batch \in SUBSET Deliveries
  /\ snap \in [Deliveries -> Nat]
  /\ cur \in Deliveries \cup {NoDelivery}
  /\ full \in BOOLEAN
  /\ round \in 0 .. MaxRounds
  /\ limit \in 0 .. RetryCap
  /\ verdict \in {"ok", "failed"}
  /\ elapsed \in 0 .. SendTimeout

HandlerTypeOK ==
  /\ notify \in BOOLEAN
  /\ stopping \in BOOLEAN
  /\ req \in [Requests -> [at : {"idle", "fanout", "done"}, todo : Seq(Sources), made : Nat]]

HistoryTypeOK ==
  /\ crashes \in 0 .. MaxCrashes
  /\ stops \in 0 .. MaxStops
  /\ faults \in 0 .. MaxFaults
  /\ sends \in [Deliveries -> Nat]
  /\ delivered \in SUBSET Deliveries
  /\ misread \in SUBSET Deliveries
  /\ lost \in [Deliveries -> Nat]
  /\ quiet \in [Deliveries -> Int]
  /\ replay \in [Deliveries -> {"never", "owed", "raced", "taken"}]

TypeOK == DbTypeOK /\ WorkTypeOK /\ HandlerTypeOK /\ HistoryTypeOK

\* The engine starts on a database that holds no record yet.
Init ==
  /\ status = [d \in Deliveries |-> "none"]
  /\ attempt = [d \in Deliveries |-> 0]
  /\ wait = [d \in Deliveries |-> Now]
  /\ out = [d \in Deliveries |-> NoSource]
  /\ target \in [Sources -> {"on", "off"}]
  /\ retryMax \in RetryLimits
  /\ pc = "drain"
  /\ batch = {} /\ snap = [d \in Deliveries |-> 0] /\ cur = NoDelivery
  /\ full = FALSE /\ round = 0 /\ limit = 0 /\ verdict = "failed" /\ elapsed = 0
  /\ notify = FALSE /\ stopping = FALSE
  /\ req = [r \in Requests |-> Idle]
  /\ crashes = 0 /\ stops = 0 /\ faults = 0
  /\ sends = [d \in Deliveries |-> 0] /\ delivered = {} /\ misread = {}
  /\ lost = [d \in Deliveries |-> 0] /\ quiet = [d \in Deliveries |-> 0]
  /\ replay = [d \in Deliveries |-> "never"]

-----------------------------------------------------------------------------
(* Seeded bugs: definitions that follow, with the slip the name tells of.    *)
(* Each is put in the place of the true one to see a property fail.          *)

CreateReusingIds(d, s, st) ==
  /\ status[d] \in {"none", "deleted"}
  /\ status' = [status EXCEPT ![d] = st] /\ attempt' = [attempt EXCEPT ![d] = 0]
  /\ wait' = [wait EXCEPT ![d] = Now] /\ out' = [out EXCEPT ![d] = s]

ClaimWithoutCount(d, n) == wait' = [wait EXCEPT ![d] = Lease] /\ UNCHANGED <<status, attempt, out>>
ClaimWithoutLease(d, n) == attempt' = [attempt EXCEPT ![d] = n] /\ UNCHANGED <<status, wait, out>>

ReplayWithoutStatus(d) ==
  /\ attempt' = [attempt EXCEPT ![d] = 0] /\ wait' = [wait EXCEPT ![d] = Now]
  /\ UNCHANGED <<status, out>>

SourceEnabled(s)  == s \in Sources /\ target[s] = "on"
DueAnyStatus      == {d \in Deliveries : status[d] \in Present /\ wait[d] <= 0}
DueAtOnce         == {d \in Deliveries : status[d] \in Live /\ wait[d] = Now}
MoreRoundsByOne   == round <= MaxRounds
wakeUnbuffered(n) == notify' = (notify \/ (n > 0 /\ pc = "idle"))

HaltOnToken ==
  /\ pc = "idle" /\ stopping /\ notify /\ pc' = "exited"
  /\ UNCHANGED <<dbVars, configVars, workVars, notify, stopping, req, crashes, stops, faults, historyVars>>

-----------------------------------------------------------------------------
(* The database calls *)

\* A call fails: disk full, busy past the timeout, I/O error.
Fault == faults < MaxFaults /\ faults' = faults + 1
NoFault == UNCHANGED faults

SourceExists(s) == s \in Sources /\ target[s] # "gone"

CreateDelivery(d, s, st) ==
  /\ status[d] = "none"
  /\ status' = [status EXCEPT ![d] = st]
  /\ attempt' = [attempt EXCEPT ![d] = 0]
  /\ wait' = [wait EXCEPT ![d] = Now]
  /\ out' = [out EXCEPT ![d] = s]

\* ClaimDelivery: the WHERE clause names the id alone, whatever the status.
ClaimDelivery(d, n) ==
  /\ attempt' = [attempt EXCEPT ![d] = n]
  /\ wait' = [wait EXCEPT ![d] = Lease]
  /\ UNCHANGED <<status, out>>

\* UpdateDelivery writes the worker's copy over the row; of a row that was
\* deleted it finds nothing to write, and reports no error.
UpdateDelivery(d, st, n, w) ==
  IF status[d] \in Present
  THEN /\ status' = [status EXCEPT ![d] = st]
       /\ attempt' = [attempt EXCEPT ![d] = n]
       /\ wait' = [wait EXCEPT ![d] = w]
       /\ UNCHANGED out
  ELSE UNCHANGED dbVars

\* ReplayDelivery, of a row that is there.
ReplayDelivery(d) ==
  /\ status' = [status EXCEPT ![d] = "pending"]
  /\ attempt' = [attempt EXCEPT ![d] = 0]
  /\ wait' = [wait EXCEPT ![d] = Now]
  /\ UNCHANGED out

Due == {d \in Deliveries : status[d] \in Live /\ wait[d] <= 0}

\* DueDeliveries: ORDER BY next_retry_at LIMIT n.  Records to be sent at once
\* come before records whose time has come.
DueDeliveries(n) ==
  {B \in SUBSET Due :
     /\ Cardinality(B) = IF Cardinality(Due) < n THEN Cardinality(Due) ELSE n
     /\ \A d \in B, e \in Due \ B : wait[d] <= wait[e]}

-----------------------------------------------------------------------------
(* The handlers *)

Up == pc # "down"

Handler(r, at, todo, made) ==
  req' = [req EXCEPT ![r] = [at |-> at, todo |-> todo, made |-> made]]

\* Submit reads the settings and the rules; a failed read ends it with an error.
\* The targets whose filters match and whose templates render are the fanout.
Submit(r) ==
  /\ Up /\ req[r].at = "idle"
  /\ \/ NoFault /\ \E f \in Fanouts : Handler(r, "fanout", f, 0)
     \/ Fault /\ Handler(r, "done", <<>>, 0)
  /\ UNCHANGED <<dbVars, configVars, pc, workVars, notify, stopping, crashes, stops, historyVars>>

\* One target of Submit: a target that is not there, disabled or not a sender
\* is skipped, and so is one that cannot be read or whose record is not written.
FanOut(r) ==
  /\ Up /\ req[r].at = "fanout" /\ req[r].todo # <<>>
  /\ LET s == Head(req[r].todo)
         rest == Tail(req[r].todo)
     IN  \/ /\ target[s] = "on" /\ NoFault
            /\ \E d \in Deliveries : CreateDelivery(d, s, "pending")
            /\ Handler(r, "fanout", rest, req[r].made + 1)
         \/ /\ IF target[s] = "on" THEN Fault ELSE NoFault
            /\ Handler(r, "fanout", rest, req[r].made)
            /\ UNCHANGED dbVars
  /\ UNCHANGED <<configVars, pc, workVars, notify, stopping, crashes, stops, historyVars>>

\* A token for the worker, if there is work for it: the send on the channel does
\* not block, and one token is enough.
wake(n) == notify' = (notify \/ n > 0)

\* The end of Submit, PostTest and handleDeliveryReplay.
Wake(r) ==
  /\ Up /\ req[r].at = "fanout" /\ req[r].todo = <<>>
  /\ wake(req[r].made)
  /\ Handler(r, "done", <<>>, 0)
  /\ UNCHANGED <<dbVars, configVars, pc, workVars, stopping, crashes, stops, faults, historyVars>>

\* The test button queues a record for one source, enabled or not.
PostTest(r) ==
  /\ Up /\ req[r].at = "idle"
  /\ \/ /\ NoFault
        /\ \E d \in Deliveries, s \in Sources :
             target[s] # "gone" /\ CreateDelivery(d, s, "pending")
        /\ Handler(r, "fanout", <<>>, 1)
     \/ Fault /\ Handler(r, "done", <<>>, 0) /\ UNCHANGED dbVars
  /\ UNCHANGED <<configVars, pc, workVars, notify, stopping, crashes, stops, historyVars>>

\* A looping message leaves a record without a target.
RecordDropped(r) ==
  /\ Up /\ req[r].at = "idle"
  /\ \/ NoFault /\ \E d \in Deliveries : CreateDelivery(d, NoSource, "dropped")
     \/ Fault /\ UNCHANGED dbVars
  /\ Handler(r, "done", <<>>, 0)
  /\ UNCHANGED <<configVars, pc, workVars, notify, stopping, crashes, stops, historyVars>>

\* ReplayDelivery, of a record in any status; of a deleted one it changes nothing.
Replay(r, d) ==
  /\ Up /\ req[r].at = "idle" /\ status[d] # "none"
  /\ \/ /\ NoFault
        /\ Handler(r, "fanout", <<>>, 1)
        /\ IF status[d] \in Present
           THEN /\ ReplayDelivery(d)
                /\ quiet' = [quiet EXCEPT ![d] = 0]
                /\ replay' = [replay EXCEPT ![d] = IF cur = d THEN "raced" ELSE "owed"]
                /\ UNCHANGED <<sends, delivered, misread, lost>>
           ELSE UNCHANGED <<dbVars, historyVars>>
     \/ Fault /\ Handler(r, "done", <<>>, 0) /\ UNCHANGED <<dbVars, historyVars>>
  /\ UNCHANGED <<configVars, pc, workVars, notify, stopping, crashes, stops>>

DeleteDelivery(d) ==
  /\ Up /\ status[d] \in Present
  /\ status' = [status EXCEPT ![d] = "deleted"]
  /\ attempt' = [attempt EXCEPT ![d] = 0]
  /\ wait' = [wait EXCEPT ![d] = Now]
  /\ sends' = [sends EXCEPT ![d] = 0] /\ lost' = [lost EXCEPT ![d] = 0]
  /\ quiet' = [quiet EXCEPT ![d] = 0] /\ replay' = [replay EXCEPT ![d] = "never"]
  /\ UNCHANGED <<out, configVars, pc, workVars, notify, stopping, req, crashes, stops, faults, delivered, misread>>

\* The administrator edits or deletes a source, or saves the settings.
EditSource(s) ==
  /\ Up /\ target[s] # "gone"
  /\ \E t \in {"on", "off", "gone"} \ {target[s]} : target' = [target EXCEPT ![s] = t]
  /\ UNCHANGED <<dbVars, retryMax, pc, workVars, notify, stopping, req, crashes, stops, faults, historyVars>>

SaveSettings ==
  /\ Up
  /\ \E n \in RetryLimits \ {retryMax} : retryMax' = n
  /\ UNCHANGED <<dbVars, target, pc, workVars, notify, stopping, req, crashes, stops, faults, historyVars>>

-----------------------------------------------------------------------------
(* The worker goroutine *)

\* maxDrainRounds keeps one drain from going on for ever.
MoreRounds == round < MaxRounds

\* The head of drain's loop: up to MaxRounds batches, none left, or a failed
\* read end the drain.
ReadDue ==
  /\ pc = "drain"
  /\ \/ /\ ~MoreRounds \/ Due = {}
        /\ pc' = "idle" /\ NoFault /\ UNCHANGED <<batch, snap, full>>
     \/ /\ MoreRounds /\ Fault
        /\ pc' = "idle" /\ UNCHANGED <<batch, snap, full>>
     \/ /\ MoreRounds /\ NoFault
        /\ \E B \in DueDeliveries(BatchSize) :
             /\ B # {}
             /\ batch' = B
             /\ snap' = [d \in Deliveries |-> IF d \in B THEN attempt[d] ELSE 0]
             /\ full' = (Cardinality(B) = BatchSize)
        /\ pc' = "next"
  /\ UNCHANGED <<dbVars, configVars, cur, round, limit, verdict, elapsed, notify,
                 stopping, req, crashes, stops, historyVars>>

\* The end of a batch: go round again only if it was full.
BatchDone ==
  /\ pc = "next" /\ batch = {}
  /\ IF full THEN pc' = "drain" /\ round' = round + 1
             ELSE pc' = "idle" /\ UNCHANGED round
  /\ full' = FALSE
  /\ UNCHANGED <<dbVars, configVars, batch, snap, cur, limit, verdict, elapsed, notify,
                 stopping, req, crashes, stops, faults, historyVars>>

Release(d) ==
  /\ batch' = batch \ {d}
  /\ snap' = [snap EXCEPT ![d] = 0]
  /\ UNCHANGED <<pc, cur, full, round, limit, verdict, elapsed>>

\* attempt, when GetSource returns an error, whichever error it is.
Bury(d) ==
  /\ pc = "next" /\ d \in batch
  /\ IF SourceExists(out[d]) THEN Fault ELSE NoFault
  /\ UpdateDelivery(d, "dead", snap[d], Now)
  /\ replay' = [replay EXCEPT ![d] = IF @ = "never" THEN @ ELSE "taken"]
  /\ Release(d)
  /\ UNCHANGED <<configVars, notify, stopping, req, crashes, stops, sends, delivered, misread, lost, quiet>>

\* attempt, when the settings cannot be read, or a write fails before the send,
\* or the record to claim is no longer there.
Skip(d) ==
  /\ pc = "next" /\ d \in batch
  /\ IF status[d] \in Present THEN Fault ELSE NoFault
  /\ Release(d)
  /\ UNCHANGED <<dbVars, configVars, notify, stopping, req, crashes, stops, historyVars>>

\* attempt, up to the send: the source and the settings are read, then the
\* attempt is accounted for.  The two reads commute with every other step, so
\* they happen here with the write.
Claim(d) ==
  /\ pc = "next" /\ d \in batch
  /\ SourceExists(out[d]) /\ status[d] \in Present
  /\ ClaimDelivery(d, snap[d] + 1)
  /\ pc' = "send" /\ cur' = d /\ batch' = batch \ {d}
  /\ snap' = [snap EXCEPT ![d] = @ + 1]
  /\ limit' = retryMax /\ elapsed' = 0
  /\ quiet' = [quiet EXCEPT ![d] = Gap]
  /\ replay' = [replay EXCEPT ![d] = IF @ = "never" THEN @ ELSE "taken"]
  /\ UNCHANGED <<configVars, full, round, verdict, notify, stopping, req, crashes, stops, faults,
                 sends, delivered, misread, lost>>

\* The send: the target takes the message or not, and the answer arrives or not;
\* or nothing leaves because the target is not usable as configured.  A yes that
\* was none comes from a lax target alone.  Sending has the answers themselves.
Send ==
  /\ pc = "send"
  /\ \/ \E took \in BOOLEAN, ok \in BOOLEAN :
          /\ ok /\ ~took => out[cur] \in Lax
          /\ verdict' = IF ok THEN "ok" ELSE "failed"
          /\ sends' = [sends EXCEPT ![cur] = @ + 1]
          /\ delivered' = IF took THEN delivered \cup {cur} ELSE delivered
          /\ misread' = IF ok /\ ~took THEN misread \cup {cur} ELSE misread
     \/ verdict' = "failed" /\ UNCHANGED <<sends, delivered, misread>>
  /\ pc' = "record" /\ elapsed' = 0
  /\ UNCHANGED <<dbVars, configVars, batch, snap, cur, full, round, limit, notify,
                 stopping, req, crashes, stops, faults, lost, quiet, replay>>

ResultUnchecked(n) == UpdateDelivery(cur, "success", n, Now)

ResultLimitByOne(n) ==
  IF verdict = "ok" THEN UpdateDelivery(cur, "success", n, Now)
  ELSE IF n > limit THEN UpdateDelivery(cur, "dead", n, Now)
  ELSE UpdateDelivery(cur, "failed", n, backoff(BackoffBase, n))

ResultAtOnce(n) ==
  IF verdict = "ok" THEN UpdateDelivery(cur, "success", n, Now)
  ELSE IF n >= limit THEN UpdateDelivery(cur, "dead", n, Now)
  ELSE UpdateDelivery(cur, "failed", n, Now)

\* What is written of an attempt: delivered, given up, or to be tried again.
Result(n) ==
  IF verdict = "ok" THEN UpdateDelivery(cur, "success", n, Now)
  ELSE IF n >= limit THEN UpdateDelivery(cur, "dead", n, Now)
  ELSE UpdateDelivery(cur, "failed", n, backoff(BackoffBase, n))

\* attempt, after the send: the result is written over the record.
Record ==
  /\ pc = "record"
  /\ \/ NoFault /\ Result(snap[cur]) /\ UNCHANGED lost
     \/ Fault /\ lost' = [lost EXCEPT ![cur] = @ + 1] /\ UNCHANGED dbVars
  /\ pc' = "next" /\ cur' = NoDelivery /\ snap' = [snap EXCEPT ![cur] = 0]
  /\ limit' = 0 /\ verdict' = "failed"
  /\ UNCHANGED <<configVars, batch, full, round, elapsed, notify, stopping, req, crashes, stops,
                 sends, delivered, misread, quiet, replay>>

\* The worker's select: a token, the ticker, or the stop channel.
StartDrain == pc' = "drain" /\ round' = 0

Notified ==
  /\ pc = "idle" /\ notify
  /\ notify' = FALSE /\ StartDrain
  /\ UNCHANGED <<dbVars, configVars, batch, snap, cur, full, limit, verdict, elapsed,
                 stopping, req, crashes, stops, faults, historyVars>>

Poll ==
  /\ pc = "idle" /\ StartDrain
  /\ UNCHANGED <<dbVars, configVars, batch, snap, cur, full, limit, verdict, elapsed,
                 notify, stopping, req, crashes, stops, faults, historyVars>>

Halt ==
  /\ pc = "idle" /\ stopping /\ pc' = "exited"
  /\ UNCHANGED <<dbVars, configVars, workVars, notify, stopping, req, crashes, stops, faults, historyVars>>

-----------------------------------------------------------------------------
(* The process and the clock *)

\* Engine.Stop, called on SIGTERM: it closes the channel and waits for the worker.
Stop ==
  /\ pc \notin {"down", "exited"} /\ ~stopping /\ stopping' = TRUE
  /\ stops < MaxStops /\ stops' = stops + 1
  /\ UNCHANGED <<dbVars, configVars, pc, workVars, notify, req, crashes, faults, historyVars>>

\* Whatever was not in the database is gone.
LoseMemory ==
  /\ pc' = "down"
  /\ batch' = {} /\ snap' = [d \in Deliveries |-> 0] /\ cur' = NoDelivery
  /\ full' = FALSE /\ round' = 0 /\ limit' = 0 /\ verdict' = "failed" /\ elapsed' = 0
  /\ notify' = FALSE /\ stopping' = FALSE
  /\ req' = [r \in Requests |-> IF req[r].at = "fanout" THEN [Idle EXCEPT !.at = "done"] ELSE req[r]]
  /\ lost' = [d \in Deliveries |-> IF d = cur THEN lost[d] + 1 ELSE lost[d]]
  /\ UNCHANGED <<dbVars, configVars, faults, sends, delivered, misread, quiet, replay>>

Exit == pc = "exited" /\ LoseMemory /\ UNCHANGED <<crashes, stops>>

Crash == Up /\ crashes < MaxCrashes /\ crashes' = crashes + 1 /\ UNCHANGED stops /\ LoseMemory

\* Start: the worker drains before it waits for anything.
Restart ==
  /\ pc = "down" /\ pc' = "drain"
  /\ UNCHANGED <<dbVars, configVars, workVars, notify, stopping, req, crashes, stops, faults, historyVars>>

Countdown(f) == [d \in Deliveries |-> IF f[d] > 0 THEN f[d] - 1 ELSE f[d]]

\* One tick.  A send is over by the client's timeout.
Tick ==
  /\ pc = "send" => elapsed < SendTimeout
  /\ pc = "send" \/ \E d \in Deliveries : wait[d] > 0 \/ quiet[d] > 0
  /\ wait' = Countdown(wait) /\ quiet' = Countdown(quiet)
  /\ elapsed' = IF pc = "send" THEN elapsed + 1 ELSE elapsed
  /\ UNCHANGED <<status, attempt, out, configVars, pc, batch, snap, cur, full, round, limit,
                 verdict, notify, stopping, req, crashes, stops, faults, sends, delivered, misread, lost, replay>>

-----------------------------------------------------------------------------
Worker == \/ ReadDue \/ BatchDone \/ Send \/ Record
          \/ \E d \in Deliveries : Bury(d) \/ Skip(d) \/ Claim(d)

Select == Notified \/ Poll \/ Halt

Admin == \/ \E d \in Deliveries : DeleteDelivery(d)
         \/ \E s \in Sources : EditSource(s)
         \/ SaveSettings

Handlers == \E r \in Requests :
              \/ Submit(r) \/ FanOut(r) \/ Wake(r) \/ PostTest(r) \/ RecordDropped(r)
              \/ \E d \in Deliveries : Replay(r, d)

Process == Stop \/ Exit \/ Crash \/ Restart

Next == Worker \/ Select \/ Handlers \/ Admin \/ Process \/ Tick

SafeSpec == Init /\ [][Next]_vars

\* The goroutines run and the clock advances.  select takes a random ready case,
\* so the stop case is taken sooner or later when it stays ready.  The process
\* is started again (restart: unless-stopped).  Nothing is assumed of operators.
Fairness ==
  /\ WF_vars(Worker) /\ WF_vars(Poll) /\ SF_vars(Halt)
  /\ WF_vars(Exit) /\ WF_vars(Restart) /\ WF_vars(Tick)
  /\ \A r \in Requests : WF_vars(FanOut(r)) /\ WF_vars(Wake(r))

Spec == SafeSpec /\ Fairness
-----------------------------------------------------------------------------
(* Properties *)

\* The worker never holds a settled record: what is in its batch or being
\* attempted is still unfinished, or was deleted under its hands.  (drain and
\* attempt work on copies and write them back without looking at the status.
\* That a write reaches no other record is SettledStays.)
WorkLive ==
  \A d \in Deliveries :
    d \in batch \/ d = cur => status[d] \in Live \cup {"deleted"}

\* No message leaves that the table does not account for: of a record nobody
\* replayed, the attempt column is never less than the number of sends, crashes
\* and failed writes included.  (The order "claim, then send" of attempt.)
Accounted ==
  \A d \in Deliveries :
    replay[d] = "never" /\ status[d] \in Present => sends[d] <= attempt[d]

\* The largest limit that may be set is exceeded only by attempts whose result was
\* never written: a crash or a failed UpdateDelivery costs one more attempt, nothing
\* else does.  Of the limit in force, which may be a smaller one, it says nothing.
AttemptBound ==
  \A d \in Deliveries : attempt[d] <= RetryCap + lost[d]

\* A record whose message is under way is leased: nobody who reads the table
\* finds it due, unless it was replayed meanwhile.  (sendLease > clientTimeout.)
LeaseHolds ==
  pc = "send" /\ status[cur] \in Live /\ replay[cur] # "raced" => wait[cur] > 0

\* A replay of a record that was not being sent is never swallowed: until a new
\* attempt on it begins the record stays unfinished.  (With which attempt number
\* it begins is another matter: one whose copy was in the batch keeps the old.)
ReplayTaken ==
  \A d \in Deliveries : replay[d] = "owed" => status[d] \in Live \cup {"deleted"}

\* Two attempts on a record that nobody replayed are at least the shorter of the
\* lease and the first backoff apart, whatever crashes or fails in between.
Spacing ==
  [][\A d \in Deliveries : cur' = d /\ cur # d => quiet[d] <= 0]_vars

\* A settled record changes only by the operator's hand: a step that changes its
\* status or its attempt deletes it or replays it.
SettledUnlessReplayed ==
  \A d \in Deliveries :
    status[d] \in Terminal /\ <<status[d], attempt[d]>>' # <<status[d], attempt[d]>>
      => \/ status'[d] = "deleted"
         \/ status'[d] = "pending" /\ replay'[d] = "owed"

SettledStays == [][SettledUnlessReplayed]_vars

\* A record is given up only when it is hopeless: its target is gone or a retry
\* limit in force was reached (engine.go:340 "目标源被删了，这条记录永远不可能成功";
\* README, "dead: 重试次数用尽").  An error of GetSource counts as a target that is
\* gone, so this speaks of the time before the first failing call.
DeadJustified ==
  \A d \in Deliveries :
    status[d] = "dead" => \/ faults > 0
                          \/ out[d] = NoSource
                          \/ target[out[d]] = "gone"
                          \/ \E n \in RetryLimits : attempt[d] >= n

\* No wake-up is lost: while the worker waits, a record to be sent at once has a
\* token in the channel, or a handler still to put one there, or the drain
\* stopped at its round limit or at a failing call.  (wake's non-blocking send on
\* a channel of one.)
Prompt ==
  pc = "idle" /\ (\E d \in Deliveries : status[d] \in Live /\ wait[d] = Now)
    => \/ notify
       \/ \E r \in Requests : req[r].at = "fanout" /\ req[r].made > 0
       \/ round = MaxRounds
       \/ faults > 0

\* What the page says after a replay, "已重新入队，稍后可在日志里看到结果"
\* (web/server.go:285): a replayed record is unfinished until it is tried anew.
ReplayHonoured ==
  \A d \in Deliveries :
    replay[d] \in {"owed", "raced"} => status[d] \in Live \cup {"deleted"}

\* Engine.Stop returns: the worker finishes its drain and sees the stop channel.
StopReturns == stopping ~> pc \in {"exited", "down"}

\* Success is shown only of what the target has taken, unless the target is one
\* whose refusal may read as a yes (channel.go:318).
SuccessTaken ==
  \A d \in Deliveries : status[d] = "success" => d \in delivered \/ out[d] \in Lax

\* The engine implements the life cycle of a record that the log documents.
Lifecycle == INSTANCE Lifecycle WITH Deliveries <- Deliveries, status <- status,
                                     delivered <- delivered, misread <- misread
LifecycleSafety   == Lifecycle!SafeSpec
LifecycleLiveness == Lifecycle!Spec
=============================================================================
