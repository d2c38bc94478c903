----------------------------- MODULE MailPoller -----------------------------
(***************************************************************************)
(* The mail poller (internal/mailin).  A supervisor goroutine compares the *)
(* mail sources in the database with the workers it has started, when it   *)
(* is woken (Reload) and every 30 seconds, and cancels and starts workers. *)
(* A worker waits, logs in, searches the mailbox for unread mail, fetches  *)
(* it through a channel, hands each message to the engine and marks those  *)
(* it dealt with as read.  A cancelled worker notices only when it waits   *)
(* or takes a message, so it and its successor may be in the mailbox at    *)
(* the same time.                                                          *)
(*                                                                         *)
(* The IMAP server is external.  A FETCH of BODY[] sets \Seen by RFC 3501  *)
(* (SeenByFetch); the in-memory server of the tests does not.              *)
(***************************************************************************)
EXTENDS Naturals, FiniteSets

CONSTANTS
  Sources,      \* the mail sources
  Mails,        \* the messages, unread at first
  Box,          \* [Mails -> Sources]: whose mailbox a message is in
  Broken,       \* messages normalize refuses
  Looped,       \* messages with the source's own slug in their hop chain
  Slots,        \* bound: workers that exist at the same time
  None,
  ChanCap,      \* capacity of the fetch channel, 10 in the code
  MaxPerCycle,  \* maxPerCycle, 50 in the code
  SeenByFetch,  \* the server marks what it sends as read
  MaySilence,   \* the server may stop answering without closing the connection
  MaxEdits, MaxSeconds, MaxErrors, MaxCrashes  \* bounds

ASSUME MailPollerAssumption ==
  /\ Box \in [Mails -> Sources] /\ Broken \subseteq Mails /\ Looped \subseteq Mails
  /\ None \notin Slots \cup Sources \cup Mails /\ IsFiniteSet(Slots) /\ IsFiniteSet(Mails)
  /\ ChanCap \in Nat \ {0} /\ MaxPerCycle \in Nat \ {0}
  /\ SeenByFetch \in BOOLEAN /\ MaySilence \in BOOLEAN
  /\ MaxEdits \in Nat /\ MaxSeconds \in Nat /\ MaxErrors \in Nat /\ MaxCrashes \in Nat

VARIABLES
  row,       \* the sources table: [polls, gen, stamp] per source
  second,    \* the clock updated_at is taken from
  owed,      \* Reload calls still to come from handlers that have saved
  sup,       \* the supervisor: "read" | "apply" | "select" | "down"
  want,      \* what it read
  workers,   \* p.workers: the slot of each source's worker, or None
  wake,      \* the token in p.wake
  stopping,  \* p.stop is closed
  work,      \* the worker goroutines
  seen,      \* the messages flagged \Seen
  taken,     \* history: how often a message was handed to the engine
  failed,    \* history: messages whose Submit failed
  twice,     \* history: sources saved again with the stamp they had
  missed,    \* history: the last reconcile could not read the table
  edits, errors, crashes

store == <<row, second, owed, twice, edits>>
super == <<sup, want, workers, wake, stopping, missed>>
mail  == <<seen, taken, failed>>
vars  == <<store, super, work, mail, errors, crashes>>

Row == [polls : BOOLEAN, gen : 0 .. MaxEdits, stamp : 0 .. MaxSeconds]

\* todo: what the server has not sent yet; chan: what is in the channel; cur: the
\* message in hand; ended: what UidFetch returned.
Worker == [pc : {"none", "wait", "dial", "search", "fetch", "process", "drained", "mark", "hung"},
           src : Sources \cup {None}, gen : 0 .. MaxEdits, stamp : 0 .. MaxSeconds,
           cancelled : BOOLEAN, todo : SUBSET Mails, chan : SUBSET Mails,
           cur : Mails \cup {None}, handled : SUBSET Mails, ended : {"no", "ok", "err"}]

Idle == [pc |-> "none", src |-> None, gen |-> 0, stamp |-> 0, cancelled |-> FALSE,
         todo |-> {}, chan |-> {}, cur |-> None, handled |-> {}, ended |-> "no"]

\* want is local to reconcile, and this its value at other times.
Nothing == [s \in Sources |-> [polls |-> FALSE, gen |-> 0, stamp |-> 0]]

TypeOK ==
  /\ row \in [Sources -> Row] /\ second \in 0 .. MaxSeconds /\ owed \in 0 .. MaxEdits
  /\ sup \in {"read", "apply", "select", "down"} /\ want \in [Sources -> Row]
  /\ workers \in [Sources -> Slots \cup {None}] /\ wake \in BOOLEAN /\ stopping \in BOOLEAN
  /\ work \in [Slots -> Worker] /\ \A w \in Slots : Cardinality(work[w].chan) <= ChanCap
  /\ seen \subseteq Mails /\ taken \in [Mails -> Nat] /\ failed \subseteq Mails
  /\ twice \subseteq Sources /\ missed \in BOOLEAN
  /\ edits \in 0 .. MaxEdits /\ errors \in 0 .. MaxErrors /\ crashes \in 0 .. MaxCrashes

Init ==
  /\ row \in [Sources -> [polls : BOOLEAN, gen : {0}, stamp : {0}]]
  /\ second = 0 /\ owed = 0
  /\ sup = "read" /\ want = Nothing /\ workers = [s \in Sources |-> None]
  /\ wake = FALSE /\ stopping = FALSE /\ work = [w \in Slots |-> Idle]
  /\ seen = {} /\ taken = [m \in Mails |-> 0] /\ failed = {} /\ twice = {} /\ missed = FALSE
  /\ edits = 0 /\ errors = 0 /\ crashes = 0

\* One of the failures the environment may still cause.
Error == errors < MaxErrors /\ errors' = errors + 1

-----------------------------------------------------------------------------
\* Seeded bugs, each put in the place of a definition below.
ReloadUnbuffered == wake' = (wake \/ sup = "select")
StaleOnlyWhenGone(s) == workers[s] # None /\ ~want[s].polls
CancelNothing(S) == work
MayTakeAlways(w) == TRUE
NoDiscard(w) == FALSE /\ UNCHANGED vars
HandledAll(w, ok) == work[w].handled \cup {work[w].cur}
-----------------------------------------------------------------------------
(* Handlers *)

\* Reload leaves one token, or finds one there.
Reload == wake' = TRUE

\* A source is created, edited, disabled or deleted.  gen tells two versions of
\* its settings apart; the program has only the stamp, in seconds.
Save(s, polls) ==
  /\ edits < MaxEdits /\ edits' = edits + 1
  /\ row' = [row EXCEPT ![s] = [polls |-> polls, gen |-> @.gen + 1, stamp |-> second]]
  /\ twice' = IF row[s].stamp = second THEN twice \cup {s} ELSE twice \ {s}
  /\ owed' = owed + 1
  /\ UNCHANGED <<second, super, work, mail, errors, crashes>>

\* The handler's last call.
Saved ==
  /\ owed > 0 /\ owed' = owed - 1
  /\ Reload
  /\ UNCHANGED <<row, second, twice, edits, sup, want, workers, stopping, missed, work, mail,
                 errors, crashes>>

\* The clock moves on.
Tick ==
  /\ second < MaxSeconds /\ second' = second + 1
  /\ UNCHANGED <<row, owed, twice, edits, super, work, mail, errors, crashes>>

-----------------------------------------------------------------------------
(* The supervisor *)

\* The read of reconcile, outside the lock.
Read ==
  /\ sup = "read"
  /\ \/ want' = row /\ missed' = FALSE /\ sup' = "apply" /\ UNCHANGED errors
     \/ Error /\ missed' = TRUE /\ sup' = "select" /\ UNCHANGED want
  /\ UNCHANGED <<store, workers, wake, stopping, work, mail, crashes>>

\* A worker that polls with the settings that were read, as far as stamps tell.
UpToDate(w, s) == want[s].polls /\ want[s].stamp = work[w].stamp
Stale(s) == workers[s] # None /\ ~UpToDate(workers[s], s)
Starting(s) == want[s].polls /\ (workers[s] = None \/ Stale(s))

Cancelled(S) ==
  [w \in Slots |->
     IF \E s \in S : workers[s] = w THEN [work[w] EXCEPT !.cancelled = TRUE] ELSE work[w]]

\* The rest of reconcile, under the lock: cancel what is stale or no longer
\* wanted, start what is missing.
Apply ==
  /\ sup = "apply" /\ sup' = "select" /\ want' = Nothing
  /\ \E slot \in [{s \in Sources : Starting(s)} -> {w \in Slots : work[w].pc = "none"}] :
       /\ \A s, t \in DOMAIN slot : slot[s] = slot[t] => s = t
       /\ workers' = [s \in Sources |-> IF Starting(s) THEN slot[s]
                                        ELSE IF Stale(s) THEN None ELSE workers[s]]
       /\ work' = [w \in Slots |->
                     IF \E s \in DOMAIN slot : slot[s] = w
                       THEN LET s == CHOOSE s \in DOMAIN slot : slot[s] = w
                            IN  [Idle EXCEPT !.pc = "wait", !.src = s, !.gen = want[s].gen,
                                             !.stamp = want[s].stamp]
                       ELSE Cancelled({s \in Sources : Stale(s)})[w]]
  /\ UNCHANGED <<store, wake, stopping, missed, mail, errors, crashes>>

\* supervise's select: the token, the ticker, or the end.
Notified ==
  /\ sup = "select" /\ wake /\ wake' = FALSE
  /\ sup' = "read"
  /\ UNCHANGED <<store, want, workers, stopping, missed, work, mail, errors, crashes>>
Ticker ==
  /\ sup = "select" /\ sup' = "read"
  /\ UNCHANGED <<store, want, workers, wake, stopping, missed, work, mail, errors, crashes>>

\* stopAll.
StopAll ==
  /\ sup = "select" /\ stopping /\ sup' = "down"
  /\ work' = Cancelled(Sources)
  /\ workers' = [s \in Sources |-> None]
  /\ UNCHANGED <<store, want, wake, stopping, missed, mail, errors, crashes>>

\* Stop closes the channel and waits for the supervisor and the workers.
Stop ==
  /\ ~stopping /\ stopping' = TRUE
  /\ UNCHANGED <<store, sup, want, workers, wake, missed, work, mail, errors, crashes>>

\* The process dies and a new one starts.
Crash ==
  /\ crashes < MaxCrashes /\ crashes' = crashes + 1
  /\ sup' = "read" /\ want' = Nothing /\ workers' = [s \in Sources |-> None]
  /\ wake' = FALSE /\ stopping' = FALSE /\ missed' = FALSE /\ owed' = 0
  /\ work' = [w \in Slots |-> Idle]
  /\ UNCHANGED <<row, second, twice, edits, mail, errors>>

-----------------------------------------------------------------------------
(* A worker *)

others == <<store, super, crashes>>

\* poll's select, with the context done or the timer fired.
Quit(w) ==
  /\ work[w].pc = "wait" /\ work[w].cancelled
  /\ work' = [work EXCEPT ![w] = Idle]
  /\ UNCHANGED <<others, mail, errors>>

Begin(w) ==
  /\ work[w].pc = "wait"
  /\ work' = [work EXCEPT ![w].pc = "dial"]
  /\ UNCHANGED <<others, mail, errors>>

\* A cycle is over, with or without an error, and poll waits again.
Waiting(w) ==
  [work EXCEPT ![w] = [Idle EXCEPT !.pc = "wait", !.src = work[w].src, !.gen = work[w].gen,
                                   !.stamp = work[w].stamp, !.cancelled = work[w].cancelled]]

\* Connect, greet, log in and select the folder.
Dial(w) ==
  /\ work[w].pc = "dial"
  /\ \/ work' = [work EXCEPT ![w].pc = "search"] /\ UNCHANGED errors
     \/ work' = Waiting(w) /\ Error
  /\ UNCHANGED <<others, mail>>

Unread(s) == {m \in Mails : Box[m] = s /\ m \notin seen}

\* The first maxPerCycle of the unread messages.
Search(w) ==
  /\ work[w].pc = "search"
  /\ \/ /\ Unread(work[w].src) = {} /\ work' = Waiting(w) /\ UNCHANGED errors
     \/ /\ \E ids \in SUBSET Unread(work[w].src) :
             /\ ids # {} /\ Cardinality(ids) <= MaxPerCycle
             /\ ids # Unread(work[w].src) => Cardinality(ids) = MaxPerCycle
             /\ work' = [work EXCEPT ![w].pc = "fetch", ![w].todo = ids]
        /\ UNCHANGED errors
     \/ work' = Waiting(w) /\ Error
  /\ UNCHANGED <<others, mail>>

\* Until SetDeadline nothing bounds how long an answer may take.
Silence(w) ==
  /\ MaySilence /\ work[w].pc \in {"dial", "search"}
  /\ work' = [work EXCEPT ![w].pc = "hung"]
  /\ UNCHANGED <<others, mail, errors>>

Fetching(w) == work[w].pc \in {"fetch", "process", "drained"} /\ work[w].ended = "no"
Room(w) == Cardinality(work[w].chan) < ChanCap

\* UidFetch: the server sends a message, the client puts it into the channel.
Deliver(w) ==
  /\ Fetching(w) /\ Room(w)
  /\ \E m \in work[w].todo :
       /\ work' = [work EXCEPT ![w].todo = @ \ {m}, ![w].chan = @ \cup {m}]
       /\ seen' = IF SeenByFetch THEN seen \cup {m} ELSE seen
  /\ UNCHANGED <<others, taken, failed, errors>>

\* UidFetch returns and closes the channel: all is sent, or the connection broke
\* or ran into its deadline.  A client blocked on the full channel reads no more,
\* and so learns nothing of the deadline.
FetchEnds(w) ==
  /\ Fetching(w)
  /\ \/ work[w].todo = {} /\ work' = [work EXCEPT ![w].ended = "ok"] /\ UNCHANGED errors
     \/ Room(w) /\ Error /\ work' = [work EXCEPT ![w].ended = "err", ![w].todo = {}]
  /\ UNCHANGED <<others, mail>>

\* The loop takes a message if the context is not done.
MayTake(w) == ~work[w].cancelled
Take(w) ==
  /\ work[w].pc = "fetch" /\ MayTake(w)
  /\ \E m \in work[w].chan :
       work' = [work EXCEPT ![w].pc = "process", ![w].cur = m, ![w].chan = @ \ {m}]
  /\ UNCHANGED <<others, mail, errors>>

\* Otherwise it leaves, and drainInBackground empties the channel.
Abandon(w) ==
  /\ work[w].pc = "fetch" /\ work[w].cancelled
  /\ \E m \in work[w].chan :
       work' = [work EXCEPT ![w].pc = "drained", ![w].chan = @ \ {m}]
  /\ UNCHANGED <<others, mail, errors>>
Discard(w) ==
  /\ work[w].pc = "drained" /\ work[w].chan # {}
  /\ \E m \in work[w].chan : work' = [work EXCEPT ![w].chan = @ \ {m}]
  /\ UNCHANGED <<others, mail, errors>>

Handled(w, ok) == IF ok THEN work[w].handled \cup {work[w].cur} ELSE work[w].handled

\* Parse, drop as a loop (RecordDropped does not fail here), or submit.
Process(w) ==
  /\ work[w].pc = "process"
  /\ LET m == work[w].cur IN
     \/ /\ m \in Broken
        /\ work' = [work EXCEPT ![w].pc = "fetch", ![w].cur = None]
        /\ UNCHANGED <<mail, errors>>
     \/ /\ m \notin Broken
        /\ taken' = [taken EXCEPT ![m] = @ + 1] /\ failed' = failed \ {m}
        /\ work' = [work EXCEPT ![w].pc = "fetch", ![w].cur = None, ![w].handled = Handled(w, TRUE)]
        /\ UNCHANGED <<seen, errors>>
     \/ /\ m \notin Broken \cup Looped /\ Error
        /\ failed' = failed \cup {m}
        /\ work' = [work EXCEPT ![w].pc = "fetch", ![w].cur = None, ![w].handled = Handled(w, FALSE)]
        /\ UNCHANGED <<seen, taken>>
  /\ UNCHANGED others

\* The loop is over and done has UidFetch's answer.
Finish(w) ==
  /\ work[w].ended # "no"
  /\ \/ work[w].pc = "fetch" /\ work[w].chan = {}
     \/ work[w].pc = "drained"
  /\ work' = IF work[w].ended = "err" \/ work[w].handled = {} THEN Waiting(w)
             ELSE [work EXCEPT ![w].pc = "mark"]
  /\ UNCHANGED <<others, mail, errors>>

\* Flag what was dealt with.
Mark(w) ==
  /\ work[w].pc = "mark"
  /\ \/ seen' = seen \cup work[w].handled /\ UNCHANGED errors
     \/ Error /\ UNCHANGED seen
  /\ work' = Waiting(w)
  /\ UNCHANGED <<others, taken, failed>>

-----------------------------------------------------------------------------
Supervise == Read \/ Apply \/ Ticker \/ Notified
Cycle(w) == \/ Begin(w) \/ Dial(w) \/ Search(w) \/ Take(w) \/ Abandon(w)
            \/ Process(w) \/ Finish(w) \/ Mark(w)
Fetch(w) == Deliver(w) \/ FetchEnds(w)

Next ==
  \/ \E s \in Sources, polls \in BOOLEAN : Save(s, polls)
  \/ Saved \/ Tick \/ Supervise \/ StopAll \/ Stop \/ Crash
  \/ \E w \in Slots : Quit(w) \/ Cycle(w) \/ Fetch(w) \/ Discard(w) \/ Silence(w)

SafeSpec == Init /\ [][Next]_vars

\* Goroutines run, timers and deadlines fire, and a select that finds the same
\* channel ready again and again takes it some time.
Fairness ==
  /\ WF_vars(Saved) /\ WF_vars(Supervise) /\ SF_vars(StopAll)
  /\ \A w \in Slots : WF_vars(Cycle(w)) /\ WF_vars(Fetch(w)) /\ WF_vars(Discard(w))
                      /\ SF_vars(Quit(w))

Spec == SafeSpec /\ Fairness
-----------------------------------------------------------------------------
(* Properties *)

\* A message is handed to the engine once, whatever crashes, edits and failures
\* come in between, although a cancelled worker and its successor search and
\* fetch in the same mailbox.
TakenOnce == \A m \in Mails : taken[m] <= 1

\* Against a server that leaves the flag to the program, a message is flagged only
\* after it was handed to the engine: no failure, cancellation or crash in between
\* loses it, for the next cycle finds it unread.
MarkedTaken == ~SeenByFetch => \A m \in seen : taken[m] > 0

\* Two workers that are not cancelled never poll for the same source.
OneWorker ==
  \A v, w \in Slots :
    (/\ v # w /\ work[v].pc # "none" /\ work[v].src = work[w].src)
    => work[v].cancelled \/ work[w].cancelled

\* The worker of s runs with the settings in the table, or there is none.
Follows(s) ==
  IF row[s].polls THEN workers[s] # None /\ work[workers[s]].gen = row[s].gen
  ELSE workers[s] = None

\* No Reload is lost: when the supervisor sits in its select without a token, its
\* workers are those of the table - unless the table could not be read, a handler
\* has yet to call Reload, or a second save bears the stamp of the first.
ReloadKept ==
  (sup = "select" /\ ~wake /\ ~missed /\ owed = 0 /\ ~stopping)
  => \A s \in Sources : Follows(s) \/ s \in twice

\* Whatever a reconcile missed, a later one makes up for.
Converges ==
  \A s \in Sources : <>[](stopping \/ Follows(s) \/ s \in twice)

\* No worker waits for a channel or a fetch that nobody serves: whoever has left the
\* loop or was cancelled, there is a next step until the worker is gone - unless the
\* server has fallen silent.
NeverStuck ==
  \A w \in Slots :
    work[w].pc \notin {"none", "hung"}
    => ENABLED (Quit(w) \/ Cycle(w) \/ Fetch(w) \/ Discard(w))

\* After stopAll nobody polls that was not told to leave, and nobody starts any more:
\* no reconcile, and no Reload of a late handler, comes after it.
StoppedForGood ==
  sup = "down" => stopping /\ \A w \in Slots : work[w].pc # "none" => work[w].cancelled

\* What a cycle that fetches has before it: messages to send, to receive and to deal
\* with, each of them a step, and the return of UidFetch.
Underway(x) == x.pc \in {"fetch", "process", "drained"}
Left(x) == 3 * Cardinality(x.todo) + 2 * Cardinality(x.chan)
           + (IF x.pc = "process" THEN 1 ELSE 0) + (IF x.ended = "no" THEN 1 ELSE 0)

\* A cycle is short whoever it shares the mailbox with: it begins with no more than
\* maxPerCycle messages, and every step of it, of the fetch and of
\* drainInBackground takes it nearer to its end.
CycleBounded == \A w \in Slots : Underway(work[w]) => Left(work[w]) <= 3 * MaxPerCycle + 1
CycleShrinks ==
  [][\A w \in Slots :
       Underway(work[w]) /\ Underway(work'[w]) =>
         \/ Left(work'[w]) < Left(work[w])
         \/ work'[w] \in {work[w], [work[w] EXCEPT !.cancelled = TRUE]}]_vars

\* Poller.Stop returns: the supervisor and every worker come to their end.
StopReturns ==
  stopping ~> (~stopping \/ (sup = "down" /\ \A w \in Slots : work[w].pc = "none"))

\* README: "失败的邮件在下一轮重试", mail whose submission failed is taken in a later
\* cycle, for as long as its source is polled.
FailedRetried ==
  \A m \in Mails :
    (m \in failed /\ taken[m] = 0) ~> (taken[m] > 0 \/ stopping \/ ~row[Box[m]].polls)
=============================================================================
