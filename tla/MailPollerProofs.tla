--------------------------- MODULE MailPollerProofs ---------------------------
(***************************************************************************)
(* TypeOK, OneWorker, ReloadKept, TakenOnce, MarkedTaken, StoppedForGood,  *)
(* CycleBounded and CycleShrinks, for any                                  *)
(* sources, mails, workers, edits, failures and crashes; TakenOnce for a   *)
(* server that flags what it sends, as RFC 3501 demands, MarkedTaken for   *)
(* one that leaves the flag to the program.                                *)
(***************************************************************************)
EXTENDS MailPoller, FiniteSetTheorems, TLAPS

Version == [polls : BOOLEAN, gen : Nat, stamp : Nat]

WorkerRecord ==
  [pc : {"none", "wait", "dial", "search", "fetch", "process", "drained", "mark", "hung"},
   src : Sources \cup {None}, gen : Nat, stamp : Nat, cancelled : BOOLEAN,
   todo : SUBSET Mails, chan : SUBSET Mails, cur : Mails \cup {None},
   handled : SUBSET Mails, ended : {"no", "ok", "err"}]

AnyWorker == {x \in WorkerRecord : x.pc = "process" => x.cur \in Mails}

PollerType ==
  /\ row \in [Sources -> Version] /\ want \in [Sources -> Version]
  /\ second \in Nat /\ owed \in Nat
  /\ workers \in [Sources -> Slots \cup {None}]
  /\ work \in [Slots -> AnyWorker]

\* p.workers and the goroutines: a live worker that is not cancelled is the one
\* on record for its source, and whoever is on record is alive.
AssignInv ==
  /\ \A s \in Sources : workers[s] # None =>
       /\ work[workers[s]].pc # "none" /\ work[workers[s]].src = s
       /\ ~work[workers[s]].cancelled
  /\ \A w \in Slots : work[w].pc = "none" => work[w] = Idle
  /\ \A w \in Slots : work[w].pc # "none" =>
       /\ work[w].src \in Sources
       /\ work[w].cancelled \/ workers[work[w].src] = w

\* x is a version of s's settings, and the one in the table if the stamps agree.
Of(x, s) ==
  /\ x.stamp <= row[s].stamp
  /\ x.stamp = row[s].stamp /\ s \notin twice => x.gen = row[s].gen

StampInv ==
  /\ \A s \in Sources : row[s].stamp <= second
  /\ sup = "apply" => \A s \in Sources : Of(want[s], s)
  /\ \A s \in Sources : workers[s] # None => Of(work[workers[s]], s)

\* What the supervisor missed has left a token, or a handler that will leave one.
FreshInv ==
  /\ sup = "apply" => wake \/ owed > 0 \/ want = row
  /\ sup = "select" => \/ wake \/ missed \/ owed > 0 \/ stopping
                       \/ \A s \in Sources : Follows(s) \/ s \in twice

IInv == PollerType /\ AssignInv /\ StampInv /\ FreshInv

WorkerStep(w) == Quit(w) \/ Cycle(w) \/ Fetch(w) \/ Discard(w) \/ Silence(w)

WorkerDone(w) ==
  /\ UNCHANGED <<store, super, crashes>>
  /\ work[w].pc # "none"
  /\ work' \in [Slots -> AnyWorker]
  /\ \A v \in Slots : v # w => work'[v] = work[v]
  /\ \/ work'[w] = Idle /\ work[w].cancelled
     \/ /\ work'[w].pc # "none" /\ work'[w].src = work[w].src
        /\ work'[w].gen = work[w].gen /\ work'[w].stamp = work[w].stamp
        /\ work'[w].cancelled = work[w].cancelled

\* A goroutine changes nothing but its own state, which stays that of the same
\* source and settings, until a cancelled one is gone.
LEMMA WorkerEffect ==
  ASSUME PollerType, NEW w \in Slots, WorkerStep(w)
  PROVE  WorkerDone(w)
<1> USE DEF PollerType
<1>1. ASSUME NEW x \in AnyWorker, work' = [work EXCEPT ![w] = x]
      PROVE  /\ work' \in [Slots -> AnyWorker] /\ work'[w] = x
             /\ \A v \in Slots : v # w => work'[v] = work[v]
  BY <1>1
<1>2. Idle \in AnyWorker
  BY MailPollerAssumption DEF Idle, AnyWorker, WorkerRecord
<1>3. work[w] \in AnyWorker
  OBVIOUS
<1> DEFINE Rest == [Idle EXCEPT !.pc = "wait", !.src = work[w].src, !.gen = work[w].gen,
                                !.stamp = work[w].stamp, !.cancelled = work[w].cancelled]
<1>4. /\ Rest \in AnyWorker /\ Rest.pc = "wait" /\ Rest.src = work[w].src /\ Rest.gen = work[w].gen
      /\ Rest.stamp = work[w].stamp /\ Rest.cancelled = work[w].cancelled
  BY <1>2, <1>3 DEF Idle, AnyWorker, WorkerRecord, WorkerDone
<1>5. Waiting(w) = [work EXCEPT ![w] = Rest]
  BY DEF Waiting
<1> HIDE DEF Rest
<1>6. CASE Quit(w)
  BY <1>1, <1>2, <1>6 DEF Quit, others, WorkerDone
<1>7. ASSUME work' = Waiting(w), work[w].pc # "none", UNCHANGED <<store, super, crashes>>
      PROVE  WorkerDone(w)
  BY <1>1, <1>4, <1>5, <1>7 DEF WorkerDone
<1>8. CASE Begin(w)
  BY <1>3, <1>8 DEF Begin, others, AnyWorker, WorkerRecord, WorkerDone
<1>9. CASE Dial(w)
  BY <1>3, <1>7, <1>9 DEF Dial, others, AnyWorker, WorkerRecord, WorkerDone
<1>10. CASE Search(w)
  <2>1. CASE work' = Waiting(w)
    BY <1>7, <1>10, <2>1 DEF Search, others, WorkerDone
  <2>2. CASE work' # Waiting(w)
    <3>1. PICK ids \in SUBSET Unread(work[w].src) :
            work' = [work EXCEPT ![w].pc = "fetch", ![w].todo = ids]
      BY <1>10, <2>2 DEF Search
    <3>2. ids \subseteq Mails
      BY DEF Unread
    <3> QED BY <1>3, <1>10, <3>1, <3>2 DEF Search, others, AnyWorker, WorkerRecord, WorkerDone
  <2> QED BY <2>1, <2>2
<1>11. CASE Take(w)
  <2>1. PICK m \in work[w].chan :
          work' = [work EXCEPT ![w].pc = "process", ![w].cur = m, ![w].chan = @ \ {m}]
    BY <1>11 DEF Take
  <2>2. m \in Mails /\ work[w].chan \ {m} \subseteq Mails
    BY <1>3 DEF AnyWorker, WorkerRecord, WorkerDone
  <2> QED BY <1>3, <1>11, <2>1, <2>2 DEF Take, others, AnyWorker, WorkerRecord, WorkerDone
<1>12. CASE Abandon(w)
  <2>1. PICK m \in work[w].chan : work' = [work EXCEPT ![w].pc = "drained", ![w].chan = @ \ {m}]
    BY <1>12 DEF Abandon
  <2> QED BY <1>3, <1>12, <2>1 DEF Abandon, others, AnyWorker, WorkerRecord, WorkerDone
<1>13. CASE Discard(w)
  <2>1. PICK m \in work[w].chan : work' = [work EXCEPT ![w].chan = @ \ {m}]
    BY <1>13 DEF Discard
  <2> QED BY <1>3, <1>13, <2>1 DEF Discard, others, AnyWorker, WorkerRecord, WorkerDone
<1>14. CASE Process(w)
  <2>1. \/ work' = [work EXCEPT ![w].pc = "fetch", ![w].cur = None]
        \/ /\ work' = [work EXCEPT ![w].pc = "fetch", ![w].cur = None, ![w].handled = Handled(w, TRUE)]
           /\ work[w].cur \in Mails
        \/ work' = [work EXCEPT ![w].pc = "fetch", ![w].cur = None, ![w].handled = Handled(w, FALSE)]
    BY <1>3, <1>14 DEF Process, AnyWorker, WorkerRecord, WorkerDone
  <2> QED BY <1>3, <1>14, <2>1 DEF Process, others, AnyWorker, WorkerRecord, WorkerDone, Handled
<1>15. CASE Finish(w)
  BY <1>3, <1>7, <1>15 DEF Finish, others, AnyWorker, WorkerRecord, WorkerDone
<1>16. CASE Mark(w)
  BY <1>7, <1>16 DEF Mark, others, WorkerDone
<1>17. CASE Deliver(w)
  <2>1. PICK m \in work[w].todo :
          work' = [work EXCEPT ![w].todo = @ \ {m}, ![w].chan = @ \cup {m}]
    BY <1>17 DEF Deliver
  <2>2. m \in Mails
    BY <1>3 DEF AnyWorker, WorkerRecord, WorkerDone
  <2> QED BY ZenonT(40), <1>3, <1>17, <2>1, <2>2 DEF Deliver, Fetching, others, AnyWorker, WorkerRecord, WorkerDone
<1>18. CASE FetchEnds(w)
  BY <1>3, <1>18 DEF FetchEnds, Fetching, others, AnyWorker, WorkerRecord, WorkerDone
<1>19. CASE Silence(w)
  BY <1>3, <1>19 DEF Silence, others, AnyWorker, WorkerRecord, WorkerDone
<1> QED BY <1>6, <1>8, <1>9, <1>10, <1>11, <1>12, <1>13, <1>14, <1>15, <1>16, <1>17, <1>18, <1>19
        DEF WorkerStep, Cycle, Fetch

New(s) == [Idle EXCEPT !.pc = "wait", !.src = s, !.gen = want[s].gen, !.stamp = want[s].stamp]

\* What reconcile does, source by source and goroutine by goroutine.
Reconciled ==
  /\ UNCHANGED <<store, wake, stopping, missed, seen, taken>>
  /\ want' = Nothing /\ sup = "apply" /\ sup' = "select"
  /\ workers' \in [Sources -> Slots \cup {None}] /\ work' \in [Slots -> AnyWorker]
  /\ \A s \in Sources : Starting(s) => /\ workers'[s] \in Slots /\ work[workers'[s]].pc = "none"
                                       /\ work'[workers'[s]] = New(s)
  /\ \A s \in Sources : ~Starting(s) /\ Stale(s) => workers'[s] = None
  /\ \A s \in Sources : ~Starting(s) /\ ~Stale(s) =>
       workers'[s] = workers[s] /\ (workers[s] # None => work'[workers[s]] = work[workers[s]])
  /\ \A w \in Slots :
       \/ \E s \in Sources : Starting(s) /\ workers'[s] = w
       \/ /\ \A s \in Sources : workers[s] = w => ~Stale(s)
          /\ work'[w] = work[w]
       \/ /\ work[w].pc # "none"
          /\ work'[w] = [work[w] EXCEPT !.cancelled = TRUE]

LEMMA ApplyEffect ==
  ASSUME PollerType, AssignInv, Apply
  PROVE  Reconciled
<1> USE MailPollerAssumption
<1> DEFINE D == {s \in Sources : Starting(s)}
<1>1. PICK slot \in [D -> {w \in Slots : work[w].pc = "none"}] :
        /\ \A s, t \in DOMAIN slot : slot[s] = slot[t] => s = t
        /\ workers' = [s \in Sources |-> IF Starting(s) THEN slot[s]
                                         ELSE IF Stale(s) THEN None ELSE workers[s]]
        /\ work' = [w \in Slots |->
                      IF \E s \in DOMAIN slot : slot[s] = w
                        THEN LET s == CHOOSE s \in DOMAIN slot : slot[s] = w
                             IN  [Idle EXCEPT !.pc = "wait", !.src = s, !.gen = want[s].gen,
                                              !.stamp = want[s].stamp]
                        ELSE Cancelled({s \in Sources : Stale(s)})[w]]
  BY DEF Apply
<1>2. DOMAIN slot = D /\ \A s \in D : slot[s] \in Slots /\ work[slot[s]].pc = "none"
  OBVIOUS
<1>3. \A s \in D : work'[slot[s]] = New(s)
  <2> SUFFICES ASSUME NEW s \in D PROVE work'[slot[s]] = New(s)
    OBVIOUS
  <2>1. (CHOOSE r \in DOMAIN slot : slot[r] = slot[s]) = s
    BY <1>1, <1>2
  <2>2. work'[slot[s]] = LET r == CHOOSE r \in DOMAIN slot : slot[r] = slot[s]
                         IN  [Idle EXCEPT !.pc = "wait", !.src = r, !.gen = want[r].gen,
                                          !.stamp = want[r].stamp]
    BY <1>1, <1>2
  <2> QED BY <2>1, <2>2 DEF New
<1>4. ASSUME NEW w \in Slots, ~ \E s \in D : slot[s] = w
      PROVE  work'[w] = IF \E s \in Sources : Stale(s) /\ workers[s] = w
                        THEN [work[w] EXCEPT !.cancelled = TRUE] ELSE work[w]
  BY <1>1, <1>2, <1>4 DEF Cancelled
<1>5. \A s \in Sources : workers'[s] = IF Starting(s) THEN slot[s]
                                       ELSE IF Stale(s) THEN None ELSE workers[s]
  BY <1>1
<1>6. workers' \in [Sources -> Slots \cup {None}]
  BY <1>1, <1>2 DEF PollerType
<1>7. \A s \in D : New(s) \in AnyWorker
  BY DEF New, Idle, AnyWorker, WorkerRecord, PollerType, Version
<1>8. \A w \in Slots : work[w] \in AnyWorker /\ [work[w] EXCEPT !.cancelled = TRUE] \in AnyWorker
  <2> SUFFICES ASSUME NEW w \in Slots
               PROVE  work[w] \in AnyWorker /\ [work[w] EXCEPT !.cancelled = TRUE] \in AnyWorker
    OBVIOUS
  <2> DEFINE x == work[w]
             y == [x EXCEPT !.cancelled = TRUE]
  <2>1. x \in WorkerRecord /\ (x.pc = "process" => x.cur \in Mails) /\ work[w] \in AnyWorker
    BY DEF AnyWorker, PollerType
  <2>2. y \in WorkerRecord /\ y.pc = x.pc /\ y.cur = x.cur
    BY <2>1 DEF WorkerRecord
  <2> QED BY <2>1, <2>2 DEF AnyWorker
<1>9. work' \in [Slots -> AnyWorker]
  <2>1. ASSUME NEW w \in Slots PROVE work'[w] \in AnyWorker
    <3>1. CASE \E s \in D : slot[s] = w
      BY <1>3, <1>7, <3>1
    <3>2. CASE ~ \E s \in D : slot[s] = w
      BY <1>4, <1>8, <3>2
    <3> QED BY <3>1, <3>2
  <2> QED BY <1>1, <2>1
<1>10. ASSUME NEW s \in Sources, ~Starting(s), ~Stale(s), workers[s] # None
       PROVE  work'[workers[s]] = work[workers[s]]
  <2>1. workers[s] \in Slots /\ work[workers[s]].pc # "none" /\ work[workers[s]].src = s
    BY <1>10 DEF PollerType, AssignInv
  <2>2. \A r \in Sources : workers[r] = workers[s] => r = s
    BY <1>10, <2>1 DEF AssignInv
  <2>3. ~ \E r \in D : slot[r] = workers[s]
    BY <1>2, <2>1
  <2> QED BY ZenonT(40), <1>4, <1>10, <2>1, <2>2, <2>3
<1>11. ASSUME NEW w \in Slots
       PROVE  \/ \E s \in Sources : Starting(s) /\ workers'[s] = w
              \/ (\A s \in Sources : workers[s] = w => ~Stale(s)) /\ work'[w] = work[w]
              \/ work[w].pc # "none" /\ work'[w] = [work[w] EXCEPT !.cancelled = TRUE]
  <2>1. CASE \E s \in D : slot[s] = w
    BY <1>5, <2>1
  <2>2. CASE ~ (\E s \in D : slot[s] = w) /\ \E s \in Sources : Stale(s) /\ workers[s] = w
    <3>1. PICK s \in Sources : Stale(s) /\ workers[s] = w
      BY <2>2
    <3>2. work[w].pc # "none"
      BY <3>1 DEF AssignInv
    <3>3. work'[w] = [work[w] EXCEPT !.cancelled = TRUE]
      BY <1>4, <2>2
    <3> QED BY <3>2, <3>3
  <2>3. CASE ~ (\E s \in D : slot[s] = w) /\ ~ \E s \in Sources : Stale(s) /\ workers[s] = w
    BY <1>4, <2>3
  <2> QED BY <2>1, <2>2, <2>3
<1>12. \A s \in Sources : Starting(s) => s \in D /\ workers'[s] = slot[s]
  BY <1>5
<1>13. UNCHANGED <<store, wake, stopping, missed, seen, taken>> /\ want' = Nothing
       /\ sup = "apply" /\ sup' = "select"
  BY DEF Apply, mail
<1> HIDE DEF D
<1> QED BY <1>2, <1>3, <1>5, <1>6, <1>9, <1>10, <1>11, <1>12, <1>13 DEF Reconciled

-----------------------------------------------------------------------------
(* OneWorker and ReloadKept *)

\* A save leaves a handler that will call Reload; the new stamp is not older than any.
LEMMA SaveStep ==
  ASSUME IInv, NEW s \in Sources, NEW polls \in BOOLEAN, Save(s, polls)
  PROVE  IInv'
<1>1. /\ row' = [row EXCEPT ![s] = [polls |-> polls, gen |-> row[s].gen + 1, stamp |-> second]]
      /\ twice' = (IF row[s].stamp = second THEN twice \cup {s} ELSE twice \ {s})
      /\ owed' = owed + 1
      /\ UNCHANGED <<second, sup, want, workers, wake, stopping, missed, work>>
  BY DEF Save, super
<1>2. row[s] \in Version /\ second \in Nat /\ owed \in Nat
  BY DEF IInv, PollerType
<1>3. /\ row'[s].stamp = second /\ row'[s].gen = row[s].gen + 1 /\ row'[s] \in Version
      /\ \A r \in Sources : r # s => row'[r] = row[r] /\ (r \in twice' <=> r \in twice)
      /\ row' \in [Sources -> Version]
  BY <1>1, <1>2 DEF IInv, PollerType, Version
<1>4. PollerType'
  BY <1>1, <1>2, <1>3 DEF IInv, PollerType
<1>5. AssignInv'
  BY <1>1 DEF IInv, AssignInv
<1>6. ASSUME NEW x \in {want[r] : r \in Sources} \cup {work[w] : w \in Slots}, NEW r \in Sources, Of(x, r)
      PROVE  Of(x, r)'
  <2>1. x.stamp \in Nat /\ row[r].stamp \in Nat /\ row[r].stamp <= second
    BY <1>2 DEF IInv, PollerType, StampInv, AnyWorker, WorkerRecord, Version
  <2>2. CASE r # s
    BY <1>3, <1>6, <2>2 DEF Of
  <2>3. CASE r = s /\ row[s].stamp = second
    BY <1>1, <1>3, <1>6, <2>3 DEF Of
  <2>4. CASE r = s /\ row[s].stamp # second
    <3>1. x.stamp < second
      BY <1>2, <1>6, <2>1, <2>4 DEF Of
    <3> QED BY <1>2, <1>3, <2>1, <2>4, <3>1 DEF Of
  <2> QED BY <2>2, <2>3, <2>4
<1>7. \A r \in Sources : (Of(want[r], r) => Of(want[r], r)')
                         /\ (workers[r] # None /\ Of(work[workers[r]], r) => Of(work[workers[r]], r)')
  <2> SUFFICES ASSUME NEW r \in Sources
               PROVE  /\ Of(want[r], r) => Of(want[r], r)'
                      /\ workers[r] # None /\ Of(work[workers[r]], r) => Of(work[workers[r]], r)'
    OBVIOUS
  <2>1. Of(want[r], r) => Of(want[r], r)'
    BY <1>1, <1>6
  <2>2. workers[r] # None => workers[r] \in Slots
    BY DEF IInv, PollerType
  <2>3. workers[r] # None /\ Of(work[workers[r]], r) => Of(work[workers[r]], r)'
    BY <1>1, <1>6, <2>2
  <2> QED BY <2>1, <2>3
<1>8. StampInv'
  <2>1. \A r \in Sources : row'[r].stamp <= second
    BY <1>2, <1>3 DEF IInv, StampInv
  <2> QED BY <1>1, <1>7, <2>1 DEF IInv, StampInv
<1>9. FreshInv'
  BY <1>1, <1>2 DEF FreshInv
<1> QED BY <1>4, <1>5, <1>8, <1>9 DEF IInv

\* The other handlers and the clock.
LEMMA QuietSteps ==
  ASSUME IInv, Saved \/ Tick \/ Stop
  PROVE  IInv'
<1>1. UNCHANGED <<row, twice, sup, want, workers, work, missed>>
  BY DEF Saved, Tick, Stop, store, super
<1>2. PollerType' /\ AssignInv'
  BY <1>1 DEF IInv, PollerType, AssignInv, Saved, Tick, Stop, store
<1>3. second' \in Nat /\ second <= second' /\ second \in Nat
  BY DEF IInv, PollerType, Saved, Tick, Stop, store
<1>4. StampInv'
  <2>1. \A s \in Sources : row[s].stamp \in Nat
    BY DEF IInv, PollerType, Version
  <2> QED BY <1>1, <1>3, <2>1 DEF IInv, StampInv, Of
<1>5. (wake \/ owed > 0) => (wake' \/ owed' > 0)
  BY DEF IInv, PollerType, Saved, Tick, Stop, super, store, Reload
<1>6. stopping => stopping'
  BY DEF Saved, Tick, Stop, super
<1>7. FreshInv'
  BY <1>1, <1>5, <1>6 DEF IInv, FreshInv, Follows
<1> QED BY <1>2, <1>4, <1>7 DEF IInv

LEMMA ReadStep ==
  ASSUME IInv, Read
  PROVE  IInv'
<1>1. UNCHANGED <<row, second, owed, twice, workers, wake, stopping, work>>
  BY DEF Read, store
<1>2. \/ want' = row /\ sup' = "apply"
      \/ missed' /\ sup' = "select" /\ UNCHANGED want
  BY DEF Read
<1>3. PollerType' /\ AssignInv'
  BY <1>1, <1>2 DEF IInv, PollerType, AssignInv
<1>4. \A s \in Sources : row[s].stamp \in Nat
  BY DEF IInv, PollerType, Version
<1>5. StampInv'
  BY <1>1, <1>2, <1>4 DEF IInv, StampInv, Of
<1>6. FreshInv'
  BY <1>1, <1>2 DEF FreshInv
<1> QED BY <1>3, <1>5, <1>6 DEF IInv

\* The supervisor goes back to reading, or to its end.
LEMMA WakeSteps ==
  ASSUME IInv, Notified \/ Ticker
  PROVE  IInv'
<1>1. UNCHANGED <<row, second, owed, twice, want, workers, work>> /\ sup' = "read"
  BY DEF Notified, Ticker, store
<1> QED BY <1>1 DEF IInv, PollerType, AssignInv, StampInv, FreshInv, Of

LEMMA StopAllStep ==
  ASSUME IInv, StopAll
  PROVE  IInv'
<1> USE MailPollerAssumption
<1>1. /\ UNCHANGED <<row, second, owed, twice, want>> /\ sup' = "down"
      /\ workers' = [s \in Sources |-> None]
      /\ work' = [w \in Slots |-> IF \E s \in Sources : workers[s] = w
                                    THEN [work[w] EXCEPT !.cancelled = TRUE] ELSE work[w]]
  BY DEF StopAll, store, Cancelled
<1>2. ASSUME NEW w \in Slots
      PROVE  /\ work'[w] \in AnyWorker /\ work'[w].pc = work[w].pc /\ work'[w].src = work[w].src
             /\ work[w].cancelled => work'[w].cancelled
             /\ (\E s \in Sources : workers[s] = w) => work'[w].cancelled
             /\ work[w].pc = "none" => work'[w] = work[w]
  <2>1. work[w] \in WorkerRecord /\ (work[w].pc = "process" => work[w].cur \in Mails)
    BY DEF IInv, PollerType, AnyWorker
  <2>2. CASE \E s \in Sources : workers[s] = w
    <3>1. work'[w] = [work[w] EXCEPT !.cancelled = TRUE]
      BY <1>1, <2>2
    <3>2. work[w].pc # "none"
      BY <2>2 DEF IInv, AssignInv
    <3>3. work'[w] \in WorkerRecord /\ work'[w].pc = work[w].pc /\ work'[w].src = work[w].src
          /\ work'[w].cur = work[w].cur /\ work'[w].cancelled
      BY <2>1, <3>1 DEF WorkerRecord
    <3> QED BY <2>1, <3>2, <3>3 DEF AnyWorker
  <2>3. CASE ~ \E s \in Sources : workers[s] = w
    BY <1>1, <2>1, <2>3 DEF AnyWorker
  <2> QED BY <2>2, <2>3
<1>3. PollerType'
  BY <1>1, <1>2 DEF IInv, PollerType
<1>4. AssignInv'
  BY <1>1, <1>2 DEF IInv, AssignInv
<1> QED BY <1>1, <1>3, <1>4 DEF IInv, StampInv, FreshInv

LEMMA CrashStep ==
  ASSUME IInv, Crash
  PROVE  IInv'
<1> USE MailPollerAssumption
<1>1. /\ UNCHANGED <<row, second, twice>> /\ sup' = "read" /\ owed' = 0
      /\ want' = Nothing
      /\ workers' = [s \in Sources |-> None] /\ work' = [w \in Slots |-> Idle]
  BY DEF Crash
<1>2. Idle \in AnyWorker /\ Idle.pc = "none" /\ Nothing \in [Sources -> Version]
  BY DEF Idle, AnyWorker, WorkerRecord, Nothing, Version
<1>3. PollerType' /\ AssignInv'
  BY <1>1, <1>2 DEF IInv, PollerType, AssignInv
<1> QED BY <1>1, <1>3 DEF IInv, StampInv, FreshInv

LEMMA WorkerKeeps ==
  ASSUME IInv, NEW w \in Slots, WorkerStep(w)
  PROVE  IInv'
<1> USE MailPollerAssumption
<1>1. WorkerDone(w)
  BY WorkerEffect DEF IInv
<1>2. UNCHANGED <<row, second, owed, twice, sup, want, workers, wake, stopping, missed>>
  BY <1>1 DEF WorkerDone, store, super
<1>3. PollerType'
  BY <1>1, <1>2 DEF IInv, PollerType, WorkerDone
<1>4. Idle.pc = "none"
  BY DEF Idle
<1>5. ASSUME NEW s \in Sources, workers[s] # None
      PROVE  /\ workers[s] \in Slots
             /\ work'[workers[s]].pc # "none" /\ work'[workers[s]].src = work[workers[s]].src
             /\ work'[workers[s]].gen = work[workers[s]].gen
             /\ work'[workers[s]].stamp = work[workers[s]].stamp
             /\ work'[workers[s]].cancelled = work[workers[s]].cancelled
  <2>1. workers[s] \in Slots /\ work[workers[s]].pc # "none" /\ ~work[workers[s]].cancelled
    BY <1>5 DEF IInv, PollerType, AssignInv
  <2> QED BY <1>1, <2>1 DEF WorkerDone
<1>6. AssignInv'
  <2>1. \A s \in Sources : workers[s] # None =>
          /\ work'[workers[s]].pc # "none" /\ work'[workers[s]].src = s
          /\ ~work'[workers[s]].cancelled
    BY <1>5 DEF IInv, AssignInv
  <2>2. \A v \in Slots : work'[v].pc = "none" => work'[v] = Idle
    BY <1>1 DEF IInv, AssignInv, WorkerDone
  <2>3. \A v \in Slots : work'[v].pc # "none" =>
          work'[v].src \in Sources /\ (work'[v].cancelled \/ workers[work'[v].src] = v)
    BY <1>1, <1>4 DEF IInv, AssignInv, WorkerDone
  <2> QED BY <1>2, <2>1, <2>2, <2>3 DEF AssignInv
<1>7. StampInv'
  BY <1>2, <1>5 DEF IInv, StampInv, Of
<1>8. \A s \in Sources : Follows(s) => Follows(s)'
  BY <1>2, <1>5 DEF Follows
<1>9. FreshInv'
  BY <1>2, <1>8 DEF IInv, FreshInv
<1> QED BY <1>3, <1>6, <1>7, <1>9 DEF IInv

\* After a reconcile the workers on record follow what it has read, as far as stamps tell.
LEMMA ApplyStep ==
  ASSUME IInv, Apply
  PROVE  IInv'
<1> USE MailPollerAssumption
<1>1. Reconciled
  BY ApplyEffect DEF IInv
<1>2. UNCHANGED <<row, second, owed, twice, wake, stopping, missed>>
  BY <1>1 DEF Reconciled, store
<1>3. \A s \in Sources : /\ New(s).pc = "wait" /\ New(s).src = s /\ ~New(s).cancelled
                         /\ New(s).gen = want[s].gen /\ New(s).stamp = want[s].stamp
  BY DEF New, Idle
<1>4. PollerType'
  <2>1. Nothing \in [Sources -> Version]
    BY DEF Nothing, Version
  <2> QED BY <1>1, <1>2, <2>1 DEF IInv, PollerType, Reconciled
<1>5. ASSUME NEW w \in Slots, NEW x, x = [work[w] EXCEPT !.cancelled = TRUE]
      PROVE  x.pc = work[w].pc /\ x.src = work[w].src /\ x.cancelled
  <2>1. work[w] \in WorkerRecord
    BY DEF IInv, PollerType, AnyWorker
  <2> QED BY <1>5, <2>1 DEF WorkerRecord
<1>6. ASSUME NEW s \in Sources, workers'[s] # None
      PROVE  \/ /\ Starting(s) /\ workers'[s] \in Slots /\ work'[workers'[s]] = New(s)
             \/ /\ ~Starting(s) /\ ~Stale(s) /\ workers'[s] = workers[s]
                /\ work'[workers'[s]] = work[workers[s]]
  BY <1>1, <1>6 DEF Reconciled
<1>7. AssignInv'
  <2>1. \A s \in Sources : workers'[s] # None =>
          /\ work'[workers'[s]].pc # "none" /\ work'[workers'[s]].src = s
          /\ ~work'[workers'[s]].cancelled
    BY <1>3, <1>6 DEF IInv, AssignInv
  <2>2. ASSUME NEW w \in Slots
        PROVE  /\ work'[w].pc = "none" => work'[w] = Idle
               /\ work'[w].pc # "none" =>
                    work'[w].src \in Sources /\ (work'[w].cancelled \/ workers'[work'[w].src] = w)
    <3>1. CASE \E s \in Sources : Starting(s) /\ workers'[s] = w
      <4>1. PICK s \in Sources : Starting(s) /\ workers'[s] = w
        BY <3>1
      <4>2. work'[w] = New(s)
        BY <1>1, <4>1 DEF Reconciled
      <4> QED BY <1>3, <4>1, <4>2
    <3>2. CASE (\A s \in Sources : workers[s] = w => ~Stale(s)) /\ work'[w] = work[w]
      <4>1. ASSUME work[w].pc # "none", ~work[w].cancelled
            PROVE  workers'[work[w].src] = w
        <5> DEFINE s == work[w].src
        <5>1. s \in Sources /\ workers[s] = w /\ w # None
          BY <4>1 DEF IInv, AssignInv
        <5>2. ~Stale(s)
          BY <3>2, <5>1
        <5>3. ~Starting(s)
          BY <5>1, <5>2 DEF Starting
        <5> QED BY <1>1, <5>1, <5>2, <5>3 DEF Reconciled
      <4> QED BY <3>2, <4>1 DEF IInv, AssignInv
    <3>3. CASE work[w].pc # "none" /\ work'[w] = [work[w] EXCEPT !.cancelled = TRUE]
      BY <1>5, <3>3 DEF IInv, AssignInv
    <3> QED BY <1>1, <3>1, <3>2, <3>3 DEF Reconciled
  <2> QED BY <2>1, <2>2 DEF AssignInv
<1>8. StampInv'
  <2>1. \A s \in Sources : Of(want[s], s)
    BY <1>1 DEF IInv, StampInv, Reconciled
  <2>2. \A s \in Sources : workers'[s] # None => Of(work'[workers'[s]], s)
    BY <1>3, <1>6, <2>1 DEF IInv, StampInv, Of
  <2> QED BY <1>1, <1>2, <2>2 DEF IInv, StampInv, Of, Reconciled
<1>9. FreshInv'
  <2>1. CASE wake \/ owed > 0
    BY <1>1, <1>2, <2>1 DEF FreshInv, Reconciled
  <2>2. CASE want = row
    <3>1. ASSUME NEW s \in Sources PROVE Follows(s)' \/ s \in twice
      <4>1. CASE workers'[s] = None
        <5>1. ~Starting(s)
          BY <1>1, <4>1 DEF Reconciled
        <5>2. workers[s] = None \/ Stale(s)
          BY <1>1, <4>1, <5>1 DEF Reconciled
        <5>3. ~want[s].polls
          BY <5>1, <5>2 DEF Starting
        <5> QED BY <1>2, <2>2, <4>1, <5>3 DEF Follows
      <4>2. CASE workers'[s] # None /\ Starting(s)
        <5>1. want[s].polls /\ work'[workers'[s]].gen = want[s].gen
          BY <1>3, <1>6, <4>2 DEF Starting
        <5> QED BY <1>2, <2>2, <4>2, <5>1 DEF Follows
      <4>3. CASE workers'[s] # None /\ ~Starting(s)
        <5>1. ~Stale(s) /\ workers[s] # None /\ work'[workers'[s]] = work[workers[s]]
          BY <1>6, <4>3
        <5>2. want[s].polls /\ want[s].stamp = work[workers[s]].stamp
          BY <5>1 DEF Stale, UpToDate
        <5>3. Of(work[workers[s]], s)
          BY <5>1 DEF IInv, StampInv
        <5> QED BY <1>2, <2>2, <4>3, <5>1, <5>2, <5>3 DEF Follows, Of
      <4> QED BY <4>1, <4>2, <4>3
    <3> QED BY <1>1, <1>2, <3>1 DEF FreshInv, Reconciled
  <2> QED BY <1>1, <2>1, <2>2 DEF IInv, FreshInv, Reconciled
<1> QED BY <1>4, <1>7, <1>8, <1>9 DEF IInv

\* The inductive invariant holds in every reachable state.
LEMMA Invariant == SafeSpec => []IInv
<1>1. Init => IInv
  <2> SUFFICES ASSUME Init PROVE IInv
    OBVIOUS
  <2>1. Idle \in AnyWorker /\ Idle.pc = "none" /\ Nothing \in [Sources -> Version]
    BY MailPollerAssumption DEF Idle, AnyWorker, WorkerRecord, Nothing, Version
  <2>2. row \in [Sources -> Version] /\ \A s \in Sources : row[s].stamp = 0
    BY DEF Init, Version
  <2>3. PollerType
    BY <2>1, <2>2 DEF Init, PollerType
  <2> QED BY <2>1, <2>2, <2>3 DEF Init, IInv, AssignInv, StampInv, FreshInv
<1>2. IInv /\ [Next]_vars => IInv'
  <2>1. ASSUME IInv, UNCHANGED vars PROVE IInv'
    <3>1. UNCHANGED <<row, second, owed, twice, sup, want, workers, wake, stopping, missed, work>>
      BY <2>1 DEF vars, store, super
    <3> QED BY <2>1, <3>1 DEF IInv, PollerType, AssignInv, StampInv, FreshInv, Of, Follows
  <2> QED BY <2>1, SaveStep, QuietSteps, ReadStep, WakeSteps, StopAllStep, CrashStep, WorkerKeeps, ApplyStep
          DEF Next, Supervise, WorkerStep
<1> QED BY <1>1, <1>2, PTL DEF SafeSpec

\* Never do two workers that are not cancelled poll for one source.
THEOREM OneWorkerSafe == SafeSpec => []OneWorker
<1>1. IInv => OneWorker
  <2> SUFFICES ASSUME IInv, NEW v \in Slots, NEW w \in Slots,
                      v # w, work[v].pc # "none", work[v].src = work[w].src
               PROVE  work[v].cancelled \/ work[w].cancelled
    BY DEF OneWorker
  <2>1. work[v].src \in Sources
    BY DEF IInv, AssignInv
  <2>2. work[w].pc # "none"
    BY <2>1, MailPollerAssumption DEF IInv, AssignInv, Idle
  <2> QED BY <2>1, <2>2 DEF IInv, AssignInv
<1> QED BY <1>1, Invariant, PTL

\* No Reload is lost: a supervisor at rest has the workers the table asks for, up to
\* saves with equal stamps and a table it could not read.
THEOREM ReloadSafe == SafeSpec => []ReloadKept
<1>1. IInv => ReloadKept
  BY DEF IInv, FreshInv, ReloadKept, PollerType
<1> QED BY <1>1, Invariant, PTL

-----------------------------------------------------------------------------
(* TakenOnce *)

\* What a worker has yet to take; a cancelled one takes no more.
Held(w) == IF work[w].cancelled THEN {} ELSE work[w].todo \cup work[w].chan
Handling(w, m) == work[w].pc = "process" /\ work[w].cur = m

\* Messages are fetched from the worker's own mailbox, and flagged when they are sent.
FetchInv ==
  /\ seen \subseteq Mails /\ taken \in [Mails -> Nat]
  /\ \A w \in Slots :
       /\ \A m \in work[w].todo \cup work[w].chan : Box[m] = work[w].src
       /\ work[w].chan \subseteq seen /\ work[w].todo \cap work[w].chan = {}
       /\ work[w].pc = "process" => work[w].cur \in seen

\* A message that was taken is flagged, and nobody has it still to take or in hand;
\* one that is in hand is nobody else's, and was not taken before.
OnceInv ==
  /\ TakenOnce
  /\ \A m \in Mails : taken[m] # 0 => m \in seen /\ \A w \in Slots : m \notin Held(w) /\ ~Handling(w, m)
  /\ \A v, w \in Slots, m \in Mails :
       Handling(v, m) => m \notin Held(w) /\ (Handling(w, m) => v = w)

Once == FetchInv /\ OnceInv

\* y is x with less to take, and nothing new in hand.
Thinner(x, y) ==
  /\ y.todo \subseteq x.todo /\ y.chan \subseteq x.chan
  /\ y.todo \cup y.chan # {} => y.src = x.src /\ (x.cancelled => y.cancelled)
  /\ y.pc = "process" => x.pc = "process" /\ y.cur = x.cur

\* A step that only lets go of messages.
LEMMA ThinnerStep ==
  ASSUME Once, \A w \in Slots : Thinner(work[w], work'[w]),
         UNCHANGED taken, seen \subseteq seen', seen' \subseteq Mails
  PROVE  Once'
<1>1. FetchInv'
  <2>1. ASSUME NEW w \in Slots
        PROVE  /\ \A m \in work'[w].todo \cup work'[w].chan : Box[m] = work'[w].src
               /\ work'[w].chan \subseteq seen' /\ work'[w].todo \cap work'[w].chan = {}
               /\ work'[w].pc = "process" => work'[w].cur \in seen'
    BY DEF Once, FetchInv, Thinner
  <2> QED BY <2>1 DEF Once, FetchInv
<1>2. \A w \in Slots : Held(w)' \subseteq Held(w)
  BY DEF Held, Thinner
<1>3. \A w \in Slots : \A m \in Mails : Handling(w, m)' => Handling(w, m)
  BY DEF Handling, Thinner
<1>4. OnceInv'
  <2>1. ASSUME NEW m \in Mails, taken'[m] # 0
        PROVE  m \in seen' /\ \A w \in Slots : m \notin Held(w)' /\ ~Handling(w, m)'
    BY <1>2, <1>3, <2>1 DEF Once, OnceInv
  <2>2. ASSUME NEW v \in Slots, NEW w \in Slots, NEW m \in Mails, Handling(v, m)'
        PROVE  m \notin Held(w)' /\ (Handling(w, m)' => v = w)
    BY <1>2, <1>3, <2>2 DEF Once, OnceInv
  <2> QED BY <2>1, <2>2 DEF Once, OnceInv, TakenOnce
<1> QED BY <1>1, <1>4 DEF Once

\* What reconcile, the stop and a crash do to the workers.
LEMMA SupervisorOnce ==
  ASSUME IInv, Once, Apply \/ StopAll \/ Crash
  PROVE  Once'
<1> USE MailPollerAssumption
<1>1. UNCHANGED <<taken, seen>> /\ seen \subseteq Mails
  BY DEF Apply, StopAll, Crash, mail, Once, FetchInv
<1>2. \A w \in Slots : work[w] \in WorkerRecord
  BY DEF IInv, PollerType, AnyWorker
<1>3. ASSUME NEW w \in Slots, NEW y, y = work[w] \/ y = [work[w] EXCEPT !.cancelled = TRUE]
      PROVE  Thinner(work[w], y)
  BY <1>2, <1>3 DEF Thinner, WorkerRecord
<1>4. ASSUME NEW w \in Slots, NEW y, y.todo = {}, y.chan = {}, y.pc # "process"
      PROVE  Thinner(work[w], y)
  BY <1>4 DEF Thinner
<1>5. CASE Apply
  <2>1. Reconciled
    BY <1>5, ApplyEffect DEF IInv
  <2>2. \A s \in Sources : New(s).todo = {} /\ New(s).chan = {} /\ New(s).pc # "process"
    BY DEF New, Idle
  <2>3. ASSUME NEW w \in Slots PROVE Thinner(work[w], work'[w])
    BY <1>3, <1>4, <2>1, <2>2 DEF Reconciled
  <2> QED BY <1>1, <2>3, ThinnerStep
<1>6. CASE StopAll
  <2>1. ASSUME NEW w \in Slots PROVE Thinner(work[w], work'[w])
    BY <1>3, <1>6 DEF StopAll, Cancelled
  <2> QED BY <1>1, <2>1, ThinnerStep
<1>7. CASE Crash
  <2>1. ASSUME NEW w \in Slots PROVE Thinner(work[w], work'[w])
    BY <1>4, <1>7 DEF Crash, Idle
  <2> QED BY <1>1, <2>1, ThinnerStep
<1> QED BY <1>5, <1>6, <1>7

\* The steps of a worker that take nothing and fetch nothing.
LEMMA LetGo ==
  ASSUME IInv, Once, NEW w \in Slots,
         \/ Quit(w) \/ Begin(w) \/ Dial(w) \/ Silence(w) \/ FetchEnds(w) \/ Abandon(w)
         \/ Discard(w) \/ Finish(w) \/ Mark(w) \/ (Search(w) /\ work' = Waiting(w))
         \/ (Process(w) /\ UNCHANGED taken)
  PROVE  Once'
<1> USE MailPollerAssumption
<1>1. work \in [Slots -> AnyWorker] /\ work[w] \in WorkerRecord
  BY DEF IInv, PollerType, AnyWorker
<1>2. UNCHANGED taken /\ seen \subseteq seen' /\ seen' \subseteq Mails
  <2>1. work[w].handled \subseteq Mails /\ seen \subseteq Mails
    BY <1>1 DEF WorkerRecord, Once, FetchInv
  <2> QED BY <2>1 DEF Quit, Begin, Dial, Silence, FetchEnds, Abandon, Discard, Finish, Mark, Search,
             Process, mail
<1>3. ASSUME NEW v \in Slots, v # w PROVE Thinner(work[v], work'[v])
  <2>1. WorkerDone(w)
    BY WorkerEffect DEF IInv, WorkerStep, Cycle, Fetch
  <2> QED BY <1>3, <2>1 DEF WorkerDone, Thinner
<1>4. ASSUME NEW y, work' = [work EXCEPT ![w] = y], Thinner(work[w], y)
      PROVE  Once'
  <2>1. work'[w] = y
    BY <1>1, <1>4
  <2> QED BY <1>2, <1>3, <1>4, <2>1, ThinnerStep
<1>5. CASE work' = Waiting(w)
  <2> DEFINE y == [Idle EXCEPT !.pc = "wait", !.src = work[w].src, !.gen = work[w].gen,
                               !.stamp = work[w].stamp, !.cancelled = work[w].cancelled]
  <2>1. y.todo = {} /\ y.chan = {} /\ y.pc = "wait" /\ Thinner(work[w], y)
    BY DEF Idle, Thinner
  <2> QED BY <1>4, <1>5, <2>1 DEF Waiting
<1>6. CASE Quit(w)
  BY <1>4, <1>6 DEF Quit, Thinner, Idle
<1>7. ASSUME work'[w].todo \subseteq work[w].todo, work'[w].chan \subseteq work[w].chan,
             work'[w].src = work[w].src, work'[w].cancelled = work[w].cancelled,
             work'[w].pc # "process"
      PROVE  Once'
  BY <1>2, <1>3, <1>7, ThinnerStep DEF Thinner
<1>8. CASE Begin(w)
  BY <1>1, <1>7, <1>8 DEF Begin, WorkerRecord
<1>9. CASE Dial(w)
  BY <1>1, <1>5, <1>7, <1>9 DEF Dial, WorkerRecord
<1>10. CASE Silence(w)
  BY <1>1, <1>7, <1>10 DEF Silence, WorkerRecord
<1>11. CASE FetchEnds(w)
  <2>1. /\ work'[w].todo \subseteq work[w].todo /\ work'[w].chan = work[w].chan
        /\ work'[w].src = work[w].src /\ work'[w].cancelled = work[w].cancelled
        /\ work'[w].pc = work[w].pc /\ work'[w].cur = work[w].cur
    BY <1>1, <1>11 DEF FetchEnds, WorkerRecord
  <2> QED BY <1>2, <1>3, <2>1, ThinnerStep DEF Thinner
<1>12. CASE Abandon(w)
  <2>1. PICK m \in work[w].chan : work' = [work EXCEPT ![w].pc = "drained", ![w].chan = @ \ {m}]
    BY <1>12 DEF Abandon
  <2> QED BY <1>1, <1>7, <2>1 DEF WorkerRecord
<1>13. CASE Discard(w)
  <2>1. PICK m \in work[w].chan : work' = [work EXCEPT ![w].chan = @ \ {m}]
    BY <1>13 DEF Discard
  <2> QED BY <1>1, <1>7, <1>13, <2>1 DEF Discard, WorkerRecord
<1>14. CASE Finish(w)
  BY <1>1, <1>5, <1>7, <1>14 DEF Finish, WorkerRecord
<1>15. CASE Mark(w)
  BY <1>5, <1>15 DEF Mark
<1>16. CASE Process(w)
  <2>1. \/ work' = [work EXCEPT ![w].pc = "fetch", ![w].cur = None]
        \/ work' = [work EXCEPT ![w].pc = "fetch", ![w].cur = None, ![w].handled = Handled(w, TRUE)]
        \/ work' = [work EXCEPT ![w].pc = "fetch", ![w].cur = None, ![w].handled = Handled(w, FALSE)]
    BY <1>16 DEF Process
  <2>2. /\ work'[w].pc = "fetch" /\ work'[w].todo = work[w].todo /\ work'[w].chan = work[w].chan
        /\ work'[w].src = work[w].src /\ work'[w].cancelled = work[w].cancelled
    <3>1. ASSUME NEW h, work' = [work EXCEPT ![w].pc = "fetch", ![w].cur = None, ![w].handled = h]
          PROVE  <2>2!:
      BY <1>1, <3>1 DEF WorkerRecord
    <3>2. CASE work' = [work EXCEPT ![w].pc = "fetch", ![w].cur = None]
      BY <1>1, <3>2 DEF WorkerRecord
    <3> QED BY <2>1, <3>1, <3>2
  <2> QED BY <1>7, <2>2
<1> QED BY <1>5, <1>6, <1>8, <1>9, <1>10, <1>11, <1>12, <1>13, <1>14, <1>15, <1>16

\* The search finds messages that are not flagged, and so were not taken.
LEMMA SearchOnce ==
  ASSUME IInv, Once, NEW w \in Slots, Search(w), work' # Waiting(w)
  PROVE  Once'
<1>1. PICK ids \in SUBSET Unread(work[w].src) :
        work' = [work EXCEPT ![w].pc = "fetch", ![w].todo = ids]
  BY DEF Search
<1>2. work \in [Slots -> AnyWorker] /\ work[w] \in WorkerRecord
  BY DEF IInv, PollerType, AnyWorker
<1>3. /\ work'[w].pc = "fetch" /\ work'[w].todo = ids /\ work'[w].chan = work[w].chan
      /\ work'[w].src = work[w].src /\ work'[w].cancelled = work[w].cancelled
      /\ \A v \in Slots : v # w => work'[v] = work[v]
  BY <1>1, <1>2 DEF WorkerRecord
<1>4. UNCHANGED <<taken, seen>>
  BY DEF Search, mail
<1>5. ids \subseteq Mails \ seen /\ \A m \in ids : Box[m] = work[w].src
  BY DEF Unread
<1>6. FetchInv'
  BY <1>3, <1>4, <1>5 DEF Once, FetchInv
<1>7. \A v \in Slots, m \in Mails : /\ m \in Held(v)' => m \in Held(v) \/ m \notin seen
                                    /\ Handling(v, m)' => Handling(v, m)
  BY <1>3, <1>5 DEF Held, Handling
<1>8. \A v \in Slots, m \in Mails : Handling(v, m) => m \in seen
  BY DEF Once, FetchInv, Handling
<1>9. OnceInv'
  BY <1>4, <1>7, <1>8 DEF Once, OnceInv, TakenOnce
<1> QED BY <1>6, <1>9 DEF Once

\* A message that is sent is flagged, and held as before.
LEMMA DeliverOnce ==
  ASSUME IInv, Once, SeenByFetch, NEW w \in Slots, Deliver(w)
  PROVE  Once'
<1>1. PICK m \in work[w].todo :
        /\ work' = [work EXCEPT ![w].todo = @ \ {m}, ![w].chan = @ \cup {m}]
        /\ seen' = seen \cup {m}
  BY DEF Deliver
<1>2. work \in [Slots -> AnyWorker] /\ work[w] \in WorkerRecord
  BY DEF IInv, PollerType, AnyWorker
<1>3. /\ work'[w].pc = work[w].pc /\ work'[w].cur = work[w].cur
      /\ work'[w].todo = work[w].todo \ {m} /\ work'[w].chan = work[w].chan \cup {m}
      /\ work'[w].src = work[w].src /\ work'[w].cancelled = work[w].cancelled
      /\ \A v \in Slots : v # w => work'[v] = work[v]
  BY <1>1, <1>2 DEF WorkerRecord
<1>4. m \in Mails /\ UNCHANGED taken
  BY <1>2 DEF Deliver, WorkerRecord
<1>5. FetchInv'
  <2>1. ASSUME NEW v \in Slots
        PROVE  /\ \A n \in work'[v].todo \cup work'[v].chan : Box[n] = work'[v].src
               /\ work'[v].chan \subseteq seen' /\ work'[v].todo \cap work'[v].chan = {}
               /\ work'[v].pc = "process" => work'[v].cur \in seen'
    <3>1. /\ \A n \in work[v].todo \cup work[v].chan : Box[n] = work[v].src
          /\ work[v].chan \subseteq seen /\ work[v].todo \cap work[v].chan = {}
          /\ work[v].pc = "process" => work[v].cur \in seen
      BY DEF Once, FetchInv
    <3>2. CASE v = w
      <4>1. m \in work[w].todo
        OBVIOUS
      <4>2. work'[w].todo \cup work'[w].chan \subseteq work[w].todo \cup work[w].chan
        BY <1>3, <4>1
      <4>3. work'[w].chan \subseteq seen' /\ work'[w].todo \cap work'[w].chan = {}
        BY <1>1, <1>3, <3>1, <3>2
      <4>4. \A n \in work'[w].todo \cup work'[w].chan : Box[n] = work'[w].src
        BY <1>3, <3>1, <3>2, <4>2
      <4>5. work'[w].pc = "process" => work'[w].cur \in seen'
        BY <1>1, <1>3, <3>1, <3>2
      <4> QED BY <3>2, <4>3, <4>4, <4>5
    <3>3. CASE v # w
      <4>1. work'[v] = work[v]
        BY <1>3, <3>3
      <4>2. seen \subseteq seen'
        BY <1>1
      <4> QED BY <3>1, <4>1, <4>2
    <3> QED BY <3>2, <3>3
  <2>2. seen' \subseteq Mails /\ taken' \in [Mails -> Nat]
    BY <1>1, <1>4 DEF Once, FetchInv
  <2> QED BY <2>1, <2>2 DEF FetchInv
<1>6. \A v \in Slots, n \in Mails : /\ n \in Held(v)' => n \in Held(v)
                                    /\ Handling(v, n)' => Handling(v, n)
  BY <1>1, <1>3 DEF Held, Handling
<1>7. OnceInv'
  BY <1>1, <1>4, <1>6 DEF Once, OnceInv, TakenOnce
<1> QED BY <1>5, <1>7 DEF Once

\* What a live worker takes nobody else holds: it is the only one in its mailbox.
LEMMA TakeOnce ==
  ASSUME IInv, Once, NEW w \in Slots, Take(w)
  PROVE  Once'
<1>1. PICK m \in work[w].chan :
        work' = [work EXCEPT ![w].pc = "process", ![w].cur = m, ![w].chan = @ \ {m}]
  BY DEF Take
<1>2. work \in [Slots -> AnyWorker] /\ work[w] \in WorkerRecord
  BY DEF IInv, PollerType, AnyWorker
<1>3. /\ work'[w].pc = "process" /\ work'[w].cur = m
      /\ work'[w].todo = work[w].todo /\ work'[w].chan = work[w].chan \ {m}
      /\ work'[w].src = work[w].src /\ work'[w].cancelled = work[w].cancelled
      /\ \A v \in Slots : v # w => work'[v] = work[v]
  BY <1>1, <1>2 DEF WorkerRecord
<1>4. m \in Mails /\ UNCHANGED <<taken, seen>> /\ m \in seen /\ work[w].pc = "fetch" /\ ~work[w].cancelled
  BY <1>2 DEF Take, MayTake, mail, WorkerRecord, Once, FetchInv
<1>5. m \in Held(w) /\ Box[m] = work[w].src
  BY <1>4 DEF Held, Once, FetchInv
<1>6. taken[m] = 0 /\ \A v \in Slots : ~Handling(v, m)
  BY <1>4, <1>5 DEF Once, OnceInv
<1>7. ASSUME NEW v \in Slots, v # w PROVE m \notin Held(v)
  <2>1. SUFFICES ASSUME m \in Held(v) PROVE FALSE
    OBVIOUS
  <2>2. ~work[v].cancelled /\ work[v].src = work[w].src
    BY <1>5, <2>1 DEF Held, Once, FetchInv
  <2>3. work[v].pc # "none"
    BY <2>1 DEF Held, IInv, AssignInv, Idle
  <2> QED BY <1>4, <1>7, <2>2, <2>3 DEF IInv, AssignInv
<1>8. FetchInv'
  BY <1>3, <1>4 DEF Once, FetchInv
<1>9. m \notin Held(w)' /\ \A v \in Slots, n \in Mails : n \in Held(v)' => n \in Held(v)
  <2>1. m \notin work[w].todo
    BY <1>1 DEF Once, FetchInv
  <2> QED BY <1>3, <2>1 DEF Held
<1>10. \A v \in Slots, n \in Mails : Handling(v, n)' => Handling(v, n) \/ (v = w /\ n = m)
  BY <1>3 DEF Handling
<1>11. \A n \in Mails : taken'[n] # 0 => n \in seen' /\ \A v \in Slots : n \notin Held(v)' /\ ~Handling(v, n)'
  BY <1>4, <1>6, <1>9, <1>10 DEF Once, OnceInv
<1>12. \A v \in Slots : m \notin Held(v)'
  BY <1>4, <1>7, <1>9
<1>13. ASSUME NEW u \in Slots, NEW v \in Slots, NEW n \in Mails, Handling(u, n)'
       PROVE  n \notin Held(v)' /\ (Handling(v, n)' => u = v)
  <2>1. CASE n = m
    BY <1>6, <1>10, <1>12, <1>13, <2>1
  <2>2. CASE n # m
    BY <1>9, <1>10, <1>13, <2>2 DEF Once, OnceInv
  <2> QED BY <2>1, <2>2
<1>14. OnceInv'
  BY <1>4, <1>11, <1>13 DEF Once, OnceInv, TakenOnce
<1> QED BY <1>8, <1>14 DEF Once

\* A message that is handed over was in one worker's hand, and is in none's now.
LEMMA ProcessOnce ==
  ASSUME IInv, Once, NEW w \in Slots, Process(w), ~UNCHANGED taken
  PROVE  Once'
<1> DEFINE m == work[w].cur
<1>1. work \in [Slots -> AnyWorker] /\ work[w] \in WorkerRecord /\ work[w].pc = "process" /\ m \in Mails
  BY DEF IInv, PollerType, AnyWorker, Process
<1>2. /\ taken' = [taken EXCEPT ![m] = @ + 1] /\ UNCHANGED seen
      /\ work' = [work EXCEPT ![w].pc = "fetch", ![w].cur = None, ![w].handled = Handled(w, TRUE)]
  BY DEF Process, mail
<1>3. /\ work'[w].pc = "fetch"
      /\ work'[w].todo = work[w].todo /\ work'[w].chan = work[w].chan
      /\ work'[w].src = work[w].src /\ work'[w].cancelled = work[w].cancelled
      /\ \A v \in Slots : v # w => work'[v] = work[v]
  BY <1>1, <1>2 DEF WorkerRecord
<1>4. Handling(w, m) /\ m \in seen
  BY <1>1 DEF Handling, Once, FetchInv
<1>5. taken[m] = 0 /\ \A v \in Slots : m \notin Held(v) /\ (v # w => ~Handling(v, m))
  BY <1>1, <1>4 DEF Once, OnceInv
<1> HIDE DEF m
<1>6. taken'[m] = 1 /\ \A n \in Mails : n # m => taken'[n] = taken[n]
  BY <1>1, <1>2, <1>5 DEF Once, FetchInv
<1>7. FetchInv'
  BY <1>1, <1>2, <1>3, <1>6 DEF Once, FetchInv
<1>8. \A v \in Slots, n \in Mails : /\ n \in Held(v)' <=> n \in Held(v)
                                    /\ Handling(v, n)' => Handling(v, n) /\ v # w
  BY <1>3 DEF Held, Handling
<1>9. TakenOnce'
  BY <1>6 DEF Once, OnceInv, TakenOnce
<1>10. \A n \in Mails : taken'[n] # 0 => n \in seen' /\ \A v \in Slots : n \notin Held(v)' /\ ~Handling(v, n)'
  BY <1>2, <1>4, <1>5, <1>6, <1>8 DEF Once, OnceInv
<1>11. \A u, v \in Slots, n \in Mails : Handling(u, n)' => n \notin Held(v)' /\ (Handling(v, n)' => u = v)
  BY <1>8 DEF Once, OnceInv
<1>12. OnceInv'
  BY <1>9, <1>10, <1>11 DEF OnceInv
<1> QED BY <1>7, <1>12 DEF Once

\* Against a server that flags what it sends, nothing is handed to the engine twice,
\* whatever is edited, cancelled, lost or restarted.
THEOREM TakenSafe == SeenByFetch => (SafeSpec => []TakenOnce)
<1> SUFFICES ASSUME SeenByFetch PROVE SafeSpec => []TakenOnce
  OBVIOUS
<1>1. Init => Once
  <2> SUFFICES ASSUME Init PROVE Once
    OBVIOUS
  <2>1. Idle.todo = {} /\ Idle.chan = {} /\ Idle.pc = "none"
    BY DEF Idle
  <2> QED BY <2>1 DEF Init, Once, FetchInv, OnceInv, TakenOnce, Held, Handling
<1>2. IInv /\ Once /\ [Next]_vars => Once'
  <2>1. ASSUME Once, UNCHANGED <<work, taken, seen>> PROVE Once'
    BY <2>1 DEF Once, FetchInv, OnceInv, TakenOnce, Held, Handling
  <2>2. ASSUME \/ UNCHANGED vars \/ Saved \/ Tick \/ Read \/ Ticker \/ Notified \/ Stop
               \/ \E s \in Sources, polls \in BOOLEAN : Save(s, polls)
        PROVE  UNCHANGED <<work, taken, seen>>
    BY <2>2 DEF vars, mail, Saved, Tick, Read, Ticker, Notified, Stop, Save
  <2> QED BY <2>1, <2>2, SupervisorOnce, LetGo, SearchOnce, DeliverOnce, TakeOnce, ProcessOnce
          DEF Next, Supervise, Cycle, Fetch
<1>3. Once => TakenOnce
  BY DEF Once, OnceInv
<1> QED BY <1>1, <1>2, <1>3, Invariant, PTL DEF SafeSpec

-----------------------------------------------------------------------------
(* The channel, the flags and the types                                    *)

\* Nobody puts more into a fetch channel than it holds, what a worker dealt with was
\* taken, and so was what is flagged, unless the server flags what it sends.
FlowInv ==
  /\ seen \subseteq Mails /\ taken \in [Mails -> Nat]
  /\ \A w \in Slots : Cardinality(work[w].chan) <= ChanCap
  /\ \A w \in Slots : \A m \in work[w].handled : taken[m] > 0
  /\ MarkedTaken

\* y is x without new messages in the channel or dealt with.
Flows(x, y) == y.chan \subseteq x.chan /\ y.handled \subseteq x.handled

\* A worker's messages are finitely many.
LEMMA ChanFinite ==
  ASSUME PollerType, NEW w \in Slots
  PROVE  /\ work[w].chan \subseteq Mails /\ work[w].handled \subseteq Mails
         /\ IsFiniteSet(work[w].chan) /\ Cardinality(work[w].chan) \in Nat
<1>1. work[w].chan \subseteq Mails /\ work[w].handled \subseteq Mails
  BY DEF PollerType, AnyWorker, WorkerRecord
<1>2. IsFiniteSet(work[w].chan)
  BY <1>1, FS_Subset, MailPollerAssumption
<1> QED BY <1>1, <1>2, FS_CardinalityType

\* A step that adds nothing to a channel, and flags only what was taken.
LEMMA FlowsStep ==
  ASSUME PollerType, FlowInv, UNCHANGED taken, \A w \in Slots : Flows(work[w], work'[w]),
         seen' \subseteq Mails, \A m \in seen' \ seen : SeenByFetch \/ taken[m] > 0
  PROVE  FlowInv'
<1>1. ASSUME NEW w \in Slots PROVE Cardinality(work'[w].chan) <= ChanCap
  <2>1. work'[w].chan \subseteq work[w].chan /\ Cardinality(work[w].chan) <= ChanCap
    BY DEF Flows, FlowInv
  <2>2. IsFiniteSet(work[w].chan) /\ Cardinality(work[w].chan) \in Nat
    BY ChanFinite
  <2>3. Cardinality(work'[w].chan) <= Cardinality(work[w].chan) /\ IsFiniteSet(work'[w].chan)
    BY <2>1, <2>2, FS_Subset
  <2>4. Cardinality(work'[w].chan) \in Nat
    BY <2>3, FS_CardinalityType
  <2> QED BY <2>1, <2>2, <2>3, <2>4, MailPollerAssumption
<1>2. \A w \in Slots : \A m \in work'[w].handled : taken'[m] > 0
  BY DEF Flows, FlowInv
<1>3. MarkedTaken'
  BY DEF FlowInv, MarkedTaken
<1> QED BY <1>1, <1>2, <1>3 DEF FlowInv

\* What reconcile, the stop and a crash do to the workers.
LEMMA SupervisorFlow ==
  ASSUME IInv, FlowInv, Apply \/ StopAll \/ Crash
  PROVE  FlowInv'
<1>1. UNCHANGED <<taken, seen>> /\ seen \subseteq Mails
  BY DEF Apply, StopAll, Crash, mail, FlowInv
<1>2. \A w \in Slots : work[w] \in WorkerRecord
  BY DEF IInv, PollerType, AnyWorker
<1>3. ASSUME NEW w \in Slots, NEW y, y = work[w] \/ y = [work[w] EXCEPT !.cancelled = TRUE]
      PROVE  Flows(work[w], y)
  BY <1>2, <1>3 DEF Flows, WorkerRecord
<1>4. ASSUME NEW w \in Slots, NEW y, y.chan = {}, y.handled = {}
      PROVE  Flows(work[w], y)
  BY <1>4 DEF Flows
<1>5. CASE Apply
  <2>1. Reconciled
    BY <1>5, ApplyEffect DEF IInv
  <2>2. \A s \in Sources : New(s).chan = {} /\ New(s).handled = {}
    BY DEF New, Idle
  <2>3. \A w \in Slots : \/ \E s \in Sources : work'[w] = New(s)
                         \/ work'[w] = work[w] \/ work'[w] = [work[w] EXCEPT !.cancelled = TRUE]
    BY <2>1 DEF Reconciled
  <2>4. \A w \in Slots : Flows(work[w], work'[w])
    BY ZenonT(40), <1>3, <1>4, <2>2, <2>3
  <2> QED BY <1>1, <2>4, FlowsStep DEF IInv
<1>6. CASE StopAll
  <2>1. \A w \in Slots : work'[w] = work[w] \/ work'[w] = [work[w] EXCEPT !.cancelled = TRUE]
    BY <1>6 DEF StopAll, Cancelled
  <2>2. \A w \in Slots : Flows(work[w], work'[w])
    BY <1>3, <2>1
  <2> QED BY <1>1, <2>2, FlowsStep DEF IInv
<1>7. CASE Crash
  <2>1. \A w \in Slots : work'[w] = Idle
    BY <1>7 DEF Crash
  <2>2. Idle.chan = {} /\ Idle.handled = {}
    BY DEF Idle
  <2>3. \A w \in Slots : Flows(work[w], work'[w])
    BY <1>4, <2>1, <2>2
  <2> QED BY <1>1, <2>3, FlowsStep DEF IInv
<1> QED BY <1>5, <1>6, <1>7

\* A step of w that leaves the other workers and what was taken alone, and adds
\* nothing to w's channel.
LEMMA FlowsAlone ==
  ASSUME PollerType, FlowInv, NEW w \in Slots, NEW x, work' = [work EXCEPT ![w] = x],
         Flows(work[w], x), UNCHANGED <<taken, seen>>
  PROVE  FlowInv'
<1>1. \A v \in Slots : Flows(work[v], work'[v])
  BY DEF PollerType, Flows
<1> QED BY <1>1, FlowsStep DEF FlowInv

\* A cycle that is over leaves nothing behind.
LEMMA WaitingFlows ==
  ASSUME PollerType, NEW w \in Slots, work' = Waiting(w)
  PROVE  \A v \in Slots : Flows(work[v], work'[v])
<1> DEFINE Rest == [Idle EXCEPT !.pc = "wait", !.src = work[w].src, !.gen = work[w].gen,
                                !.stamp = work[w].stamp, !.cancelled = work[w].cancelled]
<1>1. Rest.chan = {} /\ Rest.handled = {}
  BY DEF Idle
<1> HIDE DEF Rest
<1>2. work' = [work EXCEPT ![w] = Rest]
  BY DEF Waiting, Rest
<1> QED BY <1>1, <1>2 DEF PollerType, Flows

\* The steps of a worker that take from the channel or leave it.
LEMMA LetGoFlow ==
  ASSUME IInv, FlowInv, NEW w \in Slots,
         \/ Quit(w) \/ Begin(w) \/ Dial(w) \/ Search(w) \/ Silence(w) \/ Take(w)
         \/ Abandon(w) \/ Discard(w) \/ Finish(w) \/ FetchEnds(w)
  PROVE  FlowInv'
<1> USE DEF IInv
<1>1. work[w] \in WorkerRecord /\ work \in [Slots -> AnyWorker]
  BY DEF PollerType, AnyWorker
<1>2. UNCHANGED <<taken, seen>> /\ seen \subseteq Mails
  BY DEF Quit, Begin, Dial, Search, Silence, Take, Abandon, Discard, Finish, FetchEnds, mail, FlowInv
<1>3. CASE work' = Waiting(w)
  BY <1>2, <1>3, WaitingFlows, FlowsStep
<1>4. ASSUME NEW x, work' = [work EXCEPT ![w] = x], Flows(work[w], x)
      PROVE  FlowInv'
  BY <1>2, <1>4, FlowsAlone
<1>5. CASE Quit(w)
  <2>1. Idle.chan = {} /\ Idle.handled = {}
    BY DEF Idle
  <2>2. Flows(work[w], Idle)
    BY <2>1 DEF Flows
  <2> QED BY <1>4, <1>5, <2>2 DEF Quit
<1>6. CASE Begin(w) \/ Silence(w) \/ (Dial(w) /\ work' # Waiting(w))
           \/ (Finish(w) /\ work' # Waiting(w))
  <2>1. PICK p \in {"dial", "hung", "search", "mark"} : work' = [work EXCEPT ![w].pc = p]
    BY <1>6 DEF Begin, Silence, Dial, Finish
  <2>2. work' = [work EXCEPT ![w] = [work[w] EXCEPT !.pc = p]]
    BY <1>1, <2>1
  <2>3. Flows(work[w], [work[w] EXCEPT !.pc = p])
    BY <1>1 DEF Flows, WorkerRecord
  <2> QED BY <1>4, <2>2, <2>3
<1>7. CASE Search(w) /\ work' # Waiting(w)
  <2>1. PICK ids \in SUBSET Unread(work[w].src) :
          work' = [work EXCEPT ![w].pc = "fetch", ![w].todo = ids]
    BY <1>7 DEF Search
  <2>2. work' = [work EXCEPT ![w] = [work[w] EXCEPT !.pc = "fetch", !.todo = ids]]
    BY <1>1, <2>1
  <2>3. Flows(work[w], [work[w] EXCEPT !.pc = "fetch", !.todo = ids])
    BY <1>1 DEF Flows, WorkerRecord
  <2> QED BY <1>4, <2>2, <2>3
<1>8. CASE Take(w)
  <2>1. PICK m \in work[w].chan :
          work' = [work EXCEPT ![w].pc = "process", ![w].cur = m, ![w].chan = @ \ {m}]
    BY <1>8 DEF Take
  <2>2. work' = [work EXCEPT ![w] = [work[w] EXCEPT !.pc = "process", !.cur = m, !.chan = @ \ {m}]]
    BY <1>1, <2>1
  <2>3. Flows(work[w], [work[w] EXCEPT !.pc = "process", !.cur = m, !.chan = @ \ {m}])
    BY <1>1 DEF Flows, WorkerRecord
  <2> QED BY <1>4, <2>2, <2>3
<1>9. CASE Abandon(w) \/ Discard(w)
  <2>1. PICK m \in work[w].chan, p \in {"drained", work[w].pc} :
          work' = [work EXCEPT ![w] = [work[w] EXCEPT !.pc = p, !.chan = @ \ {m}]]
    <3>1. CASE Abandon(w)
      <4>1. PICK m \in work[w].chan : work' = [work EXCEPT ![w].pc = "drained", ![w].chan = @ \ {m}]
        BY <3>1 DEF Abandon
      <4>2. work' = [work EXCEPT ![w] = [work[w] EXCEPT !.pc = "drained", !.chan = @ \ {m}]]
        BY <1>1, <4>1
      <4> QED BY <4>2
    <3>2. CASE Discard(w)
      <4>1. PICK m \in work[w].chan : work' = [work EXCEPT ![w].chan = @ \ {m}]
        BY <3>2 DEF Discard
      <4>2. work' = [work EXCEPT ![w] = [work[w] EXCEPT !.pc = work[w].pc, !.chan = @ \ {m}]]
        BY <1>1, <4>1 DEF WorkerRecord
      <4> QED BY <4>2
    <3> QED BY <1>9, <3>1, <3>2
  <2>2. Flows(work[w], [work[w] EXCEPT !.pc = p, !.chan = @ \ {m}])
    BY <1>1 DEF Flows, WorkerRecord
  <2> QED BY <1>4, <2>1, <2>2
<1>10. CASE FetchEnds(w)
  <2>1. PICK e, T : work' = [work EXCEPT ![w] = [work[w] EXCEPT !.ended = e, !.todo = T]]
    <3>1. CASE work' = [work EXCEPT ![w].ended = "ok"]
      <4>1. work' = [work EXCEPT ![w] = [work[w] EXCEPT !.ended = "ok", !.todo = work[w].todo]]
        BY <1>1, <3>1 DEF WorkerRecord
      <4> QED BY <4>1
    <3>2. CASE work' = [work EXCEPT ![w].ended = "err", ![w].todo = {}]
      <4>1. work' = [work EXCEPT ![w] = [work[w] EXCEPT !.ended = "err", !.todo = {}]]
        BY <1>1, <3>2
      <4> QED BY <4>1
    <3> QED BY <1>10, <3>1, <3>2 DEF FetchEnds
  <2>2. Flows(work[w], [work[w] EXCEPT !.ended = e, !.todo = T])
    BY <1>1 DEF Flows, WorkerRecord
  <2> QED BY <1>4, <2>1, <2>2
<1> QED BY <1>3, <1>5, <1>6, <1>7, <1>8, <1>9, <1>10 DEF Dial, Finish

\* The messages dealt with are flagged.
LEMMA MarkFlow ==
  ASSUME IInv, FlowInv, NEW w \in Slots, Mark(w)
  PROVE  FlowInv'
<1>1. work' = Waiting(w) /\ UNCHANGED taken
  BY DEF Mark
<1>2. seen' = seen \/ seen' = seen \cup work[w].handled
  BY DEF Mark
<1>3. work[w].handled \subseteq Mails /\ seen \subseteq Mails
  BY ChanFinite DEF IInv, FlowInv
<1>4. \A m \in seen' \ seen : taken[m] > 0
  BY <1>2 DEF FlowInv
<1>5. \A v \in Slots : Flows(work[v], work'[v])
  BY <1>1, WaitingFlows DEF IInv
<1>6. seen' \subseteq Mails
  BY <1>2, <1>3
<1> QED BY <1>1, <1>4, <1>5, <1>6, FlowsStep DEF IInv

\* The client puts a message into the channel only when there is room.
LEMMA DeliverFlow ==
  ASSUME IInv, FlowInv, NEW w \in Slots, Deliver(w)
  PROVE  FlowInv'
<1>1. PICK m \in work[w].todo :
        /\ work' = [work EXCEPT ![w].todo = @ \ {m}, ![w].chan = @ \cup {m}]
        /\ seen' = IF SeenByFetch THEN seen \cup {m} ELSE seen
  BY DEF Deliver
<1>2. UNCHANGED taken
  BY DEF Deliver
<1>3. work \in [Slots -> AnyWorker] /\ work[w] \in WorkerRecord /\ m \in Mails
  BY DEF IInv, PollerType, AnyWorker, WorkerRecord
<1>4. /\ work'[w].chan = work[w].chan \cup {m} /\ work'[w].handled = work[w].handled
      /\ \A v \in Slots : v # w => work'[v] = work[v]
  BY <1>1, <1>3 DEF WorkerRecord
<1>5. Cardinality(work'[w].chan) <= ChanCap
  <2>1. IsFiniteSet(work[w].chan) /\ Cardinality(work[w].chan) \in Nat
    BY ChanFinite DEF IInv
  <2>2. Cardinality(work[w].chan \cup {m}) =
          IF m \in work[w].chan THEN Cardinality(work[w].chan) ELSE Cardinality(work[w].chan) + 1
    BY <2>1, FS_AddElement
  <2>3. Cardinality(work[w].chan) < ChanCap
    BY DEF Deliver, Room
  <2> QED BY <1>4, <2>1, <2>2, <2>3, MailPollerAssumption
<1>6. \A v \in Slots : Cardinality(work'[v].chan) <= ChanCap
  BY <1>4, <1>5 DEF FlowInv
<1>7. \A v \in Slots : \A n \in work'[v].handled : taken'[n] > 0
  BY <1>2, <1>4 DEF FlowInv
<1>8. MarkedTaken'
  BY <1>1, <1>2 DEF FlowInv, MarkedTaken
<1> QED BY <1>1, <1>2, <1>3, <1>6, <1>7, <1>8 DEF FlowInv

\* A message is dealt with when it was handed to the engine, and not before.
LEMMA ProcessFlow ==
  ASSUME IInv, FlowInv, NEW w \in Slots, Process(w)
  PROVE  FlowInv'
<1> DEFINE c == work[w].cur
<1>1. work \in [Slots -> AnyWorker] /\ work[w] \in WorkerRecord /\ c \in Mails
  BY DEF IInv, PollerType, AnyWorker, Process
<1>2. UNCHANGED seen /\ \E H : /\ work' = [work EXCEPT ![w].pc = "fetch", ![w].cur = None, ![w].handled = H]
                               /\ \/ H = work[w].handled /\ UNCHANGED taken
                                  \/ H = work[w].handled \cup {c} /\ taken' = [taken EXCEPT ![c] = @ + 1]
  <2>1. CASE work' = [work EXCEPT ![w].pc = "fetch", ![w].cur = None] /\ UNCHANGED mail
    <3>1. work' = [work EXCEPT ![w].pc = "fetch", ![w].cur = None, ![w].handled = work[w].handled]
      BY <1>1, <2>1 DEF WorkerRecord
    <3> QED BY <2>1, <3>1 DEF mail
  <2>2. CASE /\ taken' = [taken EXCEPT ![c] = @ + 1] /\ UNCHANGED seen
             /\ work' = [work EXCEPT ![w].pc = "fetch", ![w].cur = None, ![w].handled = Handled(w, TRUE)]
    BY <2>2 DEF Handled
  <2>3. CASE /\ UNCHANGED <<seen, taken>>
             /\ work' = [work EXCEPT ![w].pc = "fetch", ![w].cur = None, ![w].handled = Handled(w, FALSE)]
    BY <2>3 DEF Handled
  <2> QED BY <2>1, <2>2, <2>3 DEF Process
<1>3. PICK H : /\ work' = [work EXCEPT ![w].pc = "fetch", ![w].cur = None, ![w].handled = H]
               /\ \/ H = work[w].handled /\ UNCHANGED taken
                  \/ H = work[w].handled \cup {c} /\ taken' = [taken EXCEPT ![c] = @ + 1]
  BY <1>2
<1>4. /\ work'[w].chan = work[w].chan /\ work'[w].handled = H
      /\ \A v \in Slots : v # w => work'[v] = work[v]
  BY <1>1, <1>3 DEF WorkerRecord
<1> HIDE DEF c
<1>5. /\ taken' \in [Mails -> Nat] /\ \A m \in Mails : taken[m] > 0 => taken'[m] > 0
      /\ \A m \in H \ work[w].handled : taken'[m] > 0
  BY <1>1, <1>3 DEF FlowInv
<1>6. \A v \in Slots : work[v].handled \subseteq Mails
  BY DEF IInv, PollerType, AnyWorker, WorkerRecord
<1>7. \A v \in Slots : \A m \in work'[v].handled : taken'[m] > 0
  BY <1>4, <1>5, <1>6 DEF FlowInv
<1>8. \A v \in Slots : Cardinality(work'[v].chan) <= ChanCap
  BY <1>4 DEF FlowInv
<1>9. seen' \subseteq Mails /\ MarkedTaken'
  BY <1>2, <1>5 DEF FlowInv, MarkedTaken
<1> QED BY <1>5, <1>7, <1>8, <1>9 DEF FlowInv

\* Every reachable state keeps the order of a message's way.
LEMMA FlowInvariant == SafeSpec => []FlowInv
<1>1. Init => FlowInv
  <2> SUFFICES ASSUME Init PROVE FlowInv
    OBVIOUS
  <2>1. Idle.chan = {} /\ Idle.handled = {}
    BY DEF Idle
  <2>2. Cardinality({}) = 0
    BY FS_EmptySet
  <2>3. seen \subseteq Mails /\ taken \in [Mails -> Nat] /\ MarkedTaken
    BY DEF Init, MarkedTaken
  <2>4. \A w \in Slots : work[w].chan = {} /\ work[w].handled = {}
    BY <2>1 DEF Init
  <2>5. \A w \in Slots : Cardinality(work[w].chan) <= ChanCap
    <3>1. \A w \in Slots : Cardinality(work[w].chan) = 0
      BY <2>2, <2>4, Zenon
    <3> QED BY <3>1, MailPollerAssumption
  <2> QED BY <2>3, <2>4, <2>5 DEF FlowInv
<1>2. IInv /\ FlowInv /\ [Next]_vars => FlowInv'
  <2>1. ASSUME FlowInv, UNCHANGED <<work, taken, seen>> PROVE FlowInv'
    BY <2>1 DEF FlowInv, MarkedTaken
  <2>2. ASSUME \/ UNCHANGED vars \/ Saved \/ Tick \/ Read \/ Ticker \/ Notified \/ Stop
               \/ \E s \in Sources, polls \in BOOLEAN : Save(s, polls)
        PROVE  UNCHANGED <<work, taken, seen>>
    BY <2>2 DEF vars, mail, Saved, Tick, Read, Ticker, Notified, Stop, Save
  <2> QED BY <2>1, <2>2, SupervisorFlow, LetGoFlow, MarkFlow, DeliverFlow, ProcessFlow
          DEF Next, Supervise, Cycle, Fetch
<1> QED BY <1>1, <1>2, Invariant, PTL DEF SafeSpec

\* Against a server that leaves the flag to the program (fetchUnread, markSeen), no
\* message is flagged that was not handed to the engine.
THEOREM MarkedSafe == SafeSpec => []MarkedTaken
<1>1. FlowInv => MarkedTaken
  BY DEF FlowInv
<1> QED BY <1>1, FlowInvariant, PTL

\* The bounds of the types: no version is newer than the edits made, none of the times
\* later than the clock may run.
BoundInv ==
  /\ edits \in 0 .. MaxEdits /\ errors \in 0 .. MaxErrors /\ crashes \in 0 .. MaxCrashes
  /\ second <= MaxSeconds /\ owed <= edits /\ failed \subseteq Mails /\ twice \subseteq Sources
  /\ sup \in {"read", "apply", "select", "down"}
  /\ \A s \in Sources : row[s].gen <= edits /\ row[s].stamp <= MaxSeconds
  /\ \A s \in Sources : want[s].gen <= MaxEdits /\ want[s].stamp <= MaxSeconds
  /\ \A w \in Slots : work[w].gen <= MaxEdits /\ work[w].stamp <= MaxSeconds

\* The variables that are flags.
Flags == wake \in BOOLEAN /\ stopping \in BOOLEAN /\ missed \in BOOLEAN

\* The flags of the supervisor stay Boolean.
LEMMA FlagsStep == Flags /\ [Next]_vars => Flags'
<1> USE DEF Flags
<1> SUFFICES ASSUME Flags, [Next]_vars PROVE Flags'
  OBVIOUS
<1>1. CASE \E s \in Sources, polls \in BOOLEAN : Save(s, polls)
  BY <1>1, Zenon DEF Save, super
<1>2. CASE Saved \/ Tick \/ Stop \/ Crash
  BY <1>2, Zenon DEF Saved, Reload, Tick, Stop, Crash, super
<1>3. CASE Supervise \/ StopAll
  BY <1>3, Zenon DEF Supervise, Read, Apply, Ticker, Notified, StopAll
<1>4. CASE \E w \in Slots : WorkerStep(w)
  BY <1>4, ZenonT(40) DEF WorkerStep, Quit, Cycle, Begin, Dial, Search, Take, Abandon, Process, Finish, Mark,
     Fetch, Deliver, FetchEnds, Discard, Silence, others, super
<1>5. CASE UNCHANGED vars
  BY <1>5, Zenon DEF vars, super
<1> QED BY <1>1, <1>2, <1>3, <1>4, <1>5, Zenon DEF Next, WorkerStep

\* What a worker changes besides itself.
LEMMA WorkerCounts ==
  ASSUME IInv, BoundInv, NEW w \in Slots, WorkerStep(w)
  PROVE  /\ errors' \in 0 .. MaxErrors /\ failed' \subseteq Mails
         /\ UNCHANGED <<store, super, crashes>>
<1>1. UNCHANGED <<store, super, crashes>>
  BY WorkerEffect DEF IInv, WorkerDone
<1>2. errors' = errors \/ Error
  BY DEF WorkerStep, Quit, Cycle, Begin, Dial, Search, Take, Abandon, Process, Finish, Mark,
     Fetch, Deliver, FetchEnds, Discard, Silence
<1>3. errors' \in 0 .. MaxErrors
  BY <1>2, MailPollerAssumption DEF BoundInv, Error
<1>4. failed' = failed \/ Process(w)
  BY DEF WorkerStep, Quit, Cycle, Begin, Dial, Search, Take, Abandon, Finish, Mark,
     Fetch, Deliver, FetchEnds, Discard, Silence, mail
<1>5. ASSUME Process(w) PROVE failed' \subseteq Mails
  <2>1. work[w].cur \in Mails
    BY <1>5 DEF IInv, PollerType, AnyWorker, Process
  <2> QED BY <1>5, <2>1 DEF Process, mail, BoundInv
<1>6. failed' \subseteq Mails
  BY <1>4, <1>5 DEF BoundInv
<1> QED BY <1>1, <1>3, <1>6

\* Channels stay within their capacity, and counters within their bounds.
LEMMA BoundStep ==
  ASSUME IInv, BoundInv, [Next]_vars
  PROVE  BoundInv'
<1> USE MailPollerAssumption DEF BoundInv
<1>0. /\ second \in Nat /\ owed \in Nat
      /\ \A s \in Sources : row[s] \in Version /\ want[s] \in Version
      /\ work \in [Slots -> AnyWorker]
  BY DEF IInv, PollerType
<1>1. ASSUME NEW s \in Sources, NEW polls \in BOOLEAN, Save(s, polls) PROVE BoundInv'
  <2>1. UNCHANGED <<second, sup, want, work, failed, errors, crashes>>
    BY <1>1 DEF Save, super, mail
  <2>2. edits' = edits + 1 /\ edits' \in 0 .. MaxEdits
    BY <1>1 DEF Save
  <2>3. owed' <= edits'
    BY <1>0, <1>1, <2>2 DEF Save
  <2>4. twice' \subseteq Sources
    BY <1>1 DEF Save
  <2>5. ASSUME NEW r \in Sources PROVE row'[r].gen <= edits' /\ row'[r].stamp <= MaxSeconds
    <3>1. row[r].gen \in Nat /\ row[r].gen <= edits /\ row[r].stamp <= MaxSeconds
      BY <1>0 DEF Version
    <3>2. row'[r] = IF r = s THEN [polls |-> polls, gen |-> row[s].gen + 1, stamp |-> second] ELSE row[r]
      BY <1>1 DEF Save, IInv, PollerType
    <3> QED BY <2>2, <3>1, <3>2
  <2> QED BY <2>1, <2>2, <2>3, <2>4, <2>5
<1>2. CASE Saved
  BY <1>0, <1>2 DEF Saved, mail
<1>3. CASE Tick
  BY <1>0, <1>3 DEF Tick, super, mail
<1>4. CASE Read
  <2>1. UNCHANGED <<row, second, owed, twice, edits, work, failed, crashes>>
    BY <1>4 DEF Read, store, mail
  <2>2. /\ errors' \in 0 .. MaxErrors /\ sup' \in {"apply", "select"}
        /\ want' = row \/ want' = want
    BY <1>4 DEF Read, Error
  <2>3. \A s \in Sources : row[s].gen <= MaxEdits
    BY <1>0 DEF Version
  <2> QED BY <2>1, <2>2, <2>3
<1>5. CASE Apply
  <2>1. Reconciled
    BY <1>5, ApplyEffect DEF IInv
  <2>2. UNCHANGED <<row, second, owed, twice, edits, failed, errors, crashes>> /\ sup' = "select"
    BY <1>5 DEF Apply, store, mail
  <2>3. \A s \in Sources : Nothing[s].gen = 0 /\ Nothing[s].stamp = 0
    BY DEF Nothing
  <2>4. \A s \in Sources : New(s).gen = want[s].gen /\ New(s).stamp = want[s].stamp
    BY DEF New, Idle
  <2>5. ASSUME NEW w \in Slots PROVE work'[w].gen <= MaxEdits /\ work'[w].stamp <= MaxSeconds
    <3>1. CASE \E s \in Sources : work'[w] = New(s)
      BY <2>4, <3>1
    <3>2. CASE work'[w] = work[w] \/ work'[w] = [work[w] EXCEPT !.cancelled = TRUE]
      <4>1. work[w] \in WorkerRecord
        BY <1>0 DEF AnyWorker
      <4>2. work'[w].gen = work[w].gen /\ work'[w].stamp = work[w].stamp
        BY <3>2, <4>1 DEF WorkerRecord
      <4> QED BY <4>2
    <3> QED BY <2>1, <3>1, <3>2 DEF Reconciled
  <2>6. \A s \in Sources : want'[s].gen <= MaxEdits /\ want'[s].stamp <= MaxSeconds
    BY <2>1, <2>3 DEF Reconciled
  <2> QED BY <2>2, <2>5, <2>6
<1>6. CASE Notified \/ Ticker \/ Stop
  BY <1>6 DEF Notified, Ticker, Stop, store, mail
<1>7. CASE StopAll
  <2>1. \A w \in Slots : work'[w] = work[w] \/ work'[w] = [work[w] EXCEPT !.cancelled = TRUE]
    BY <1>7 DEF StopAll, Cancelled
  <2>2. ASSUME NEW w \in Slots PROVE work'[w].gen = work[w].gen /\ work'[w].stamp = work[w].stamp
    <3>1. work[w] \in WorkerRecord
      BY <1>0 DEF AnyWorker
    <3> QED BY ZenonT(40), <2>1, <3>1 DEF WorkerRecord
  <2>3. UNCHANGED <<row, second, owed, twice, edits, want, failed, errors, crashes>> /\ sup' = "down"
    BY <1>7 DEF StopAll, store, mail
  <2> QED BY <2>2, <2>3
<1>8. CASE Crash
  <2>1. \A s \in Sources : Nothing[s].gen = 0 /\ Nothing[s].stamp = 0
    BY DEF Nothing
  <2>2. \A w \in Slots : work'[w] = Idle
    BY <1>8 DEF Crash
  <2>3. Idle.gen = 0 /\ Idle.stamp = 0
    BY DEF Idle
  <2>4. /\ UNCHANGED <<row, second, twice, edits, failed, errors>> /\ want' = Nothing
        /\ owed' = 0 /\ sup' = "read" /\ crashes' \in 0 .. MaxCrashes
    BY <1>8 DEF Crash, mail
  <2>5. \A w \in Slots : work'[w].gen <= MaxEdits /\ work'[w].stamp <= MaxSeconds
    BY <2>2, <2>3
  <2>6. \A s \in Sources : want'[s].gen <= MaxEdits /\ want'[s].stamp <= MaxSeconds
    BY <2>1, <2>4
  <2> QED BY <2>4, <2>5, <2>6
<1>9. ASSUME NEW w \in Slots, WorkerStep(w) PROVE BoundInv'
  <2>1. WorkerDone(w)
    BY <1>9, WorkerEffect DEF IInv
  <2>2. Idle.gen = 0 /\ Idle.stamp = 0
    BY DEF Idle
  <2>3. \A v \in Slots : work'[v].gen <= MaxEdits /\ work'[v].stamp <= MaxSeconds
    BY <2>1, <2>2 DEF WorkerDone
  <2>4. /\ errors' \in 0 .. MaxErrors /\ failed' \subseteq Mails
        /\ UNCHANGED <<row, second, owed, twice, edits, want, sup, crashes>>
    BY <1>9, WorkerCounts DEF store, super
  <2> QED BY <2>3, <2>4
<1>10. CASE UNCHANGED vars
  BY <1>10 DEF vars, store, super, mail
<1> QED BY <1>1, <1>2, <1>3, <1>4, <1>5, <1>6, <1>7, <1>8, <1>9, <1>10 DEF Next, Supervise, WorkerStep

\* Type correctness, and with it that no fetch channel ever holds more than ChanCap
\* messages.
THEOREM TypeSafe == SafeSpec => []TypeOK
<1>1. Init => BoundInv /\ Flags
  <2> SUFFICES ASSUME Init PROVE BoundInv /\ Flags
    OBVIOUS
  <2>1. Flags
    BY Zenon DEF Init, Flags
  <2>2. \A s \in Sources : row[s].gen = 0 /\ row[s].stamp = 0 /\ want[s].gen = 0 /\ want[s].stamp = 0
    BY DEF Init, Nothing
  <2>3. \A w \in Slots : work[w].gen = 0 /\ work[w].stamp = 0
    BY DEF Init, Idle
  <2>4. /\ edits = 0 /\ errors = 0 /\ crashes = 0 /\ second = 0 /\ owed = 0
        /\ failed = {} /\ twice = {} /\ sup = "read"
    BY DEF Init
  <2> QED BY <2>1, <2>2, <2>3, <2>4, MailPollerAssumption DEF BoundInv
<1>2. IInv /\ BoundInv /\ Flags /\ [Next]_vars => BoundInv' /\ Flags'
  BY BoundStep, FlagsStep
<1>3. IInv /\ FlowInv /\ BoundInv /\ Flags => TypeOK
  <2> SUFFICES ASSUME IInv, FlowInv, BoundInv, Flags PROVE TypeOK
    OBVIOUS
  <2> USE MailPollerAssumption
  <2>1. row \in [Sources -> Row] /\ want \in [Sources -> Row]
    <3>1. \A s \in Sources : row[s] \in Row /\ want[s] \in Row
      BY DEF IInv, PollerType, BoundInv, Version, Row
    <3> QED BY <3>1 DEF IInv, PollerType
  <2>2. work \in [Slots -> Worker]
    <3>1. ASSUME NEW w \in Slots PROVE work[w] \in Worker
      <4>1. work[w] \in WorkerRecord
        BY DEF IInv, PollerType, AnyWorker
      <4>2. work[w].gen \in 0 .. MaxEdits /\ work[w].stamp \in 0 .. MaxSeconds
        BY <4>1 DEF BoundInv, WorkerRecord
      <4> QED BY <4>1, <4>2 DEF WorkerRecord, Worker
    <3> QED BY <3>1 DEF IInv, PollerType
  <2>3. second \in 0 .. MaxSeconds /\ owed \in 0 .. MaxEdits
    BY DEF IInv, PollerType, BoundInv
  <2>4. workers \in [Sources -> Slots \cup {None}]
    BY DEF IInv, PollerType
  <2>5. wake \in BOOLEAN /\ stopping \in BOOLEAN /\ missed \in BOOLEAN
    BY Zenon DEF Flags
  <2>6. /\ edits \in 0 .. MaxEdits /\ errors \in 0 .. MaxErrors /\ crashes \in 0 .. MaxCrashes
        /\ failed \subseteq Mails /\ twice \subseteq Sources
        /\ sup \in {"read", "apply", "select", "down"}
    BY DEF BoundInv
  <2>7. /\ seen \subseteq Mails /\ taken \in [Mails -> Nat]
        /\ \A w \in Slots : Cardinality(work[w].chan) <= ChanCap
    BY DEF FlowInv
  <2> QED BY <2>1, <2>2, <2>3, <2>4, <2>5, <2>6, <2>7, Zenon DEF TypeOK
<1> QED BY <1>1, <1>2, <1>3, Invariant, FlowInvariant, PTL DEF SafeSpec

-----------------------------------------------------------------------------
(* The end                                                                 *)

\* A supervisor that has ended has nobody on record.
DownInv == sup = "down" => stopping /\ \A s \in Sources : workers[s] = None

\* Only StopAll ends it, and nothing that follows starts a worker.
LEMMA DownStep ==
  ASSUME IInv, DownInv, [Next]_vars
  PROVE  DownInv'
<1> USE DEF DownInv, super
<1>1. CASE \E s \in Sources, polls \in BOOLEAN : Save(s, polls)
  BY <1>1 DEF Save
<1>2. CASE Saved \/ Tick
  BY <1>2 DEF Saved, Tick
<1>3. CASE Stop
  <2>1. UNCHANGED <<sup, workers>> /\ stopping' = TRUE
    BY <1>3 DEF Stop
  <2> QED BY <2>1
<1>4. CASE Read \/ Apply \/ Ticker \/ Notified \/ Crash
  <2>1. sup' # "down"
    BY <1>4 DEF Read, Apply, Ticker, Notified, Crash
  <2> QED BY <2>1
<1>5. CASE StopAll
  <2>1. stopping /\ UNCHANGED stopping
    BY <1>5, Zenon DEF StopAll
  <2>2. \A s \in Sources : workers'[s] = None
    BY <1>5 DEF StopAll
  <2> QED BY <2>1, <2>2, Zenon
<1>6. CASE \E w \in Slots : WorkerStep(w)
  BY <1>6, WorkerEffect DEF IInv, WorkerDone
<1>7. CASE UNCHANGED vars
  BY <1>7 DEF vars
<1> QED BY <1>1, <1>2, <1>3, <1>4, <1>5, <1>6, <1>7 DEF Next, Supervise, WorkerStep

\* After stopAll every worker left was told to leave, whatever handlers and cycles were
\* under way when Poller.Stop was called: what is left to StopReturns is that they do.
THEOREM StoppedSafe == SafeSpec => []StoppedForGood
<1>1. Init => DownInv
  BY DEF Init, DownInv
<1>2. IInv /\ DownInv /\ [Next]_vars => DownInv'
  BY DownStep
<1>3. IInv /\ DownInv => StoppedForGood
  <2> SUFFICES ASSUME IInv, DownInv, sup = "down"
               PROVE  stopping /\ \A w \in Slots : work[w].pc # "none" => work[w].cancelled
    BY DEF StoppedForGood
  <2>1. stopping
    BY DEF DownInv
  <2>2. ASSUME NEW w \in Slots, work[w].pc # "none" PROVE work[w].cancelled
    <3>1. work[w].src \in Sources /\ (work[w].cancelled \/ workers[work[w].src] = w)
      BY <2>2 DEF IInv, AssignInv
    <3>2. workers[work[w].src] = None
      BY <3>1 DEF DownInv
    <3> QED BY <3>1, <3>2, MailPollerAssumption
  <2> QED BY <2>1, <2>2
<1> QED BY <1>1, <1>2, <1>3, Invariant, PTL DEF SafeSpec
-----------------------------------------------------------------------------
(* The length of a cycle                                                   *)

\* A worker that has not begun to fetch has nothing left from a cycle before.
Clean(x) == x.pc \in {"none", "wait", "dial", "search"}
            => x.todo = {} /\ x.chan = {} /\ x.ended = "no"
CycleInv == \A w \in Slots : Clean(work[w])
                             /\ (Underway(work[w]) => Left(work[w]) <= 3 * MaxPerCycle + 1)

\* One step of a goroutine: it is outside a cycle, enters one, or gets on with it.
Along(x, y) ==
  \/ y = x
  \/ x.pc # "none" /\ y = [x EXCEPT !.cancelled = TRUE]
  \/ ~Underway(y) /\ Clean(y)
  \/ ~Underway(x) /\ Underway(y) /\ Left(y) <= 3 * MaxPerCycle + 1
  \/ Underway(x) /\ Underway(y) /\ Left(y) < Left(x)

\* The messages of a worker are finitely many, so they can be counted.
LEMMA Counted ==
  ASSUME PollerType, NEW w \in Slots
  PROVE  /\ IsFiniteSet(work[w].todo) /\ Cardinality(work[w].todo) \in Nat
         /\ IsFiniteSet(work[w].chan) /\ Cardinality(work[w].chan) \in Nat
         /\ Left(work[w]) \in Nat
<1>1. work[w].todo \subseteq Mails /\ work[w].chan \subseteq Mails
  BY DEF PollerType, AnyWorker, WorkerRecord
<1>2. IsFiniteSet(work[w].todo) /\ IsFiniteSet(work[w].chan)
  BY <1>1, FS_Subset, MailPollerAssumption
<1>3. Cardinality(work[w].todo) \in Nat /\ Cardinality(work[w].chan) \in Nat
  BY <1>2, FS_CardinalityType
<1> QED BY <1>2, <1>3 DEF Left

\* What leaves a set makes it smaller by one.
LEMMA OneLess ==
  ASSUME NEW S, IsFiniteSet(S), NEW m \in S
  PROVE  /\ Cardinality(S) \in Nat /\ Cardinality(S \ {m}) \in Nat
         /\ Cardinality(S \ {m}) + 1 = Cardinality(S)
<1>1. IsFiniteSet(S \ {m})
  BY FS_RemoveElement
<1>2. Cardinality(S \ {m}) = Cardinality(S) - 1
  BY FS_RemoveElement
<1>3. Cardinality(S) \in Nat /\ Cardinality(S \ {m}) \in Nat
  BY <1>1, FS_CardinalityType
<1> QED BY <1>2, <1>3

\* A search finds no more than maxPerCycle messages.
LEMMA SearchBounded ==
  ASSUME PollerType, CycleInv, NEW w \in Slots, Search(w), work' # Waiting(w)
  PROVE  ~Underway(work[w]) /\ Underway(work'[w]) /\ Left(work'[w]) <= 3 * MaxPerCycle + 1
<1>1. PICK ids \in SUBSET Unread(work[w].src) :
        /\ Cardinality(ids) <= MaxPerCycle
        /\ work' = [work EXCEPT ![w].pc = "fetch", ![w].todo = ids]
  BY DEF Search
<1>2. work \in [Slots -> AnyWorker] /\ work[w] \in WorkerRecord /\ work[w].pc = "search"
  BY DEF PollerType, AnyWorker, Search
<1>3. work[w].chan = {} /\ work[w].ended = "no"
  BY <1>2 DEF CycleInv, Clean
<1>4. /\ work'[w].pc = "fetch" /\ work'[w].todo = ids /\ work'[w].chan = {}
      /\ work'[w].ended = "no"
  BY <1>1, <1>2, <1>3 DEF WorkerRecord
<1>5. ids \subseteq Mails
  BY DEF Unread
<1>6. IsFiniteSet(ids)
  BY <1>5, FS_Subset, MailPollerAssumption
<1>7. Cardinality(ids) \in Nat /\ Cardinality({}) = 0
  BY <1>6, FS_CardinalityType, FS_EmptySet
<1>8. Left(work'[w]) = 3 * Cardinality(ids) + 1
  BY <1>4, <1>7 DEF Left
<1> QED BY <1>1, <1>2, <1>4, <1>7, <1>8, MailPollerAssumption DEF Underway

\* A message on its way from the server to the engine comes one step nearer: it is
\* sent, taken, dropped or dealt with.
LEMMA MessageNearer ==
  ASSUME PollerType, NEW w \in Slots,
         Deliver(w) \/ Take(w) \/ Abandon(w) \/ Discard(w) \/ Process(w)
  PROVE  Underway(work[w]) /\ Underway(work'[w]) /\ Left(work'[w]) < Left(work[w])
<1> DEFINE x == work[w]
           y == work'[w]
<1> SUFFICES Underway(x) /\ Underway(y) /\ Left(y) < Left(x)
  OBVIOUS
<1>1. work \in [Slots -> AnyWorker] /\ x \in WorkerRecord
  BY DEF PollerType, AnyWorker
<1>2. /\ IsFiniteSet(x.todo) /\ Cardinality(x.todo) \in Nat
      /\ IsFiniteSet(x.chan) /\ Cardinality(x.chan) \in Nat
  BY Counted
<1>3. CASE Deliver(w)
  <2>1. PICK m \in x.todo : work' = [work EXCEPT ![w].todo = @ \ {m}, ![w].chan = @ \cup {m}]
    BY <1>3 DEF Deliver
  <2>2. /\ y.pc = x.pc /\ y.ended = x.ended /\ y.todo = x.todo \ {m} /\ y.chan = x.chan \cup {m}
    BY <1>1, <2>1 DEF WorkerRecord
  <2>3. Underway(x)
    BY <1>3 DEF Deliver, Fetching, Underway
  <2>4. Cardinality(x.todo \ {m}) \in Nat /\ Cardinality(x.todo \ {m}) + 1 = Cardinality(x.todo)
    BY <1>2, OneLess
  <2>5. Cardinality(x.chan \cup {m}) \in {Cardinality(x.chan), Cardinality(x.chan) + 1}
    BY <1>2, FS_AddElement
  <2> HIDE DEF x, y
  <2> QED BY <1>2, <2>2, <2>3, <2>4, <2>5 DEF Left, Underway
<1>4. CASE Take(w) \/ Abandon(w) \/ Discard(w)
  <2>1. /\ x.pc \in {"fetch", "drained"} /\ y.pc \in {"process", "drained"}
        /\ \E m \in x.chan : y.ended = x.ended /\ y.todo = x.todo /\ y.chan = x.chan \ {m}
    <3>1. CASE Take(w)
      <4>1. PICK m \in x.chan :
              work' = [work EXCEPT ![w].pc = "process", ![w].cur = m, ![w].chan = @ \ {m}]
        BY <3>1 DEF Take
      <4>2. x.pc = "fetch"
        BY <3>1 DEF Take
      <4>3. /\ y.pc = "process" /\ y.ended = x.ended /\ y.todo = x.todo
            /\ y.chan = x.chan \ {m}
        BY <1>1, <4>1 DEF WorkerRecord
      <4> QED BY <4>2, <4>3
    <3>2. CASE Abandon(w)
      <4>1. PICK m \in x.chan : work' = [work EXCEPT ![w].pc = "drained", ![w].chan = @ \ {m}]
        BY <3>2 DEF Abandon
      <4>2. x.pc = "fetch"
        BY <3>2 DEF Abandon
      <4>3. /\ y.pc = "drained" /\ y.ended = x.ended /\ y.todo = x.todo
            /\ y.chan = x.chan \ {m}
        BY <1>1, <4>1 DEF WorkerRecord
      <4> QED BY <4>2, <4>3
    <3>3. CASE Discard(w)
      <4>1. PICK m \in x.chan : work' = [work EXCEPT ![w].chan = @ \ {m}]
        BY <3>3 DEF Discard
      <4>2. x.pc = "drained"
        BY <3>3 DEF Discard
      <4>3. y.pc = x.pc /\ y.ended = x.ended /\ y.todo = x.todo /\ y.chan = x.chan \ {m}
        BY <1>1, <4>1 DEF WorkerRecord
      <4> QED BY <4>2, <4>3
    <3> QED BY <1>4, <3>1, <3>2, <3>3
  <2>2. PICK m \in x.chan : y.ended = x.ended /\ y.todo = x.todo /\ y.chan = x.chan \ {m}
    BY <2>1
  <2>3. Cardinality(x.chan \ {m}) \in Nat /\ Cardinality(x.chan \ {m}) + 1 = Cardinality(x.chan)
    BY <1>2, OneLess
  <2> HIDE DEF x, y
  <2> QED BY <1>2, <2>1, <2>2, <2>3 DEF Left, Underway
<1>5. CASE Process(w)
  <2>1. /\ y.ended = x.ended /\ y.todo = x.todo /\ y.chan = x.chan
        /\ x.pc = "process" /\ y.pc = "fetch"
    <3>1. PICK H : work' = [work EXCEPT ![w].pc = "fetch", ![w].cur = None, ![w].handled = H]
      <4>1. CASE work' = [work EXCEPT ![w].pc = "fetch", ![w].cur = None]
        <5>1. work' = [work EXCEPT ![w].pc = "fetch", ![w].cur = None, ![w].handled = x.handled]
          BY <1>1, <4>1 DEF WorkerRecord
        <5> QED BY <5>1
      <4> QED BY <1>5, <4>1 DEF Process
    <3>2. x.pc = "process"
      BY <1>5 DEF Process
    <3> QED BY <1>1, <3>1, <3>2 DEF WorkerRecord
  <2> HIDE DEF x, y
  <2> QED BY <1>2, <2>1 DEF Left, Underway
<1> QED BY <1>3, <1>4, <1>5

\* UidFetch returns once, and a connection that broke sends nothing any more.
LEMMA FetchNearer ==
  ASSUME PollerType, NEW w \in Slots, FetchEnds(w)
  PROVE  Underway(work[w]) /\ Underway(work'[w]) /\ Left(work'[w]) < Left(work[w])
<1> DEFINE x == work[w]
           y == work'[w]
<1> SUFFICES Underway(x) /\ Underway(y) /\ Left(y) < Left(x)
  OBVIOUS
<1>1. work \in [Slots -> AnyWorker] /\ x \in WorkerRecord
  BY DEF PollerType, AnyWorker
<1>2. Cardinality(x.todo) \in Nat /\ Cardinality(x.chan) \in Nat /\ Cardinality({}) = 0
  BY Counted, FS_EmptySet
<1>3. x.ended = "no" /\ Underway(x)
  BY DEF FetchEnds, Fetching, Underway
<1>4. y.pc = x.pc /\ y.chan = x.chan /\ y.ended # "no" /\ y.todo \in {x.todo, {}}
  BY <1>1 DEF FetchEnds, WorkerRecord
<1> HIDE DEF x, y
<1> QED BY <1>2, <1>3, <1>4 DEF Left, Underway

\* A goroutine's own step.
LEMMA WorkerAlong ==
  ASSUME PollerType, CycleInv, NEW w \in Slots, WorkerStep(w)
  PROVE  Along(work[w], work'[w])
<1>1. work \in [Slots -> AnyWorker] /\ work[w] \in WorkerRecord
  BY DEF PollerType, AnyWorker
<1>2. CASE work' = Waiting(w)
  <2>1. work'[w].pc = "wait" /\ work'[w].todo = {} /\ work'[w].chan = {} /\ work'[w].ended = "no"
    BY <1>1, <1>2 DEF Waiting, Idle
  <2> QED BY <2>1 DEF Along, Underway, Clean
<1>3. CASE Quit(w)
  <2>1. work'[w] = Idle
    BY <1>1, <1>3 DEF Quit
  <2> QED BY <2>1 DEF Along, Underway, Clean, Idle
<1>4. CASE Begin(w) \/ (Dial(w) /\ work' # Waiting(w))
  <2>1. /\ work'[w].pc \in {"dial", "search"} /\ work[w].pc \in {"wait", "dial"}
        /\ work'[w].todo = work[w].todo /\ work'[w].chan = work[w].chan
        /\ work'[w].ended = work[w].ended
    BY <1>1, <1>4 DEF Begin, Dial, WorkerRecord
  <2> QED BY <2>1 DEF Along, Underway, Clean, CycleInv
<1>5. CASE Silence(w) \/ (Finish(w) /\ work' # Waiting(w))
  <2>1. work'[w].pc \in {"hung", "mark"}
    BY <1>1, <1>5 DEF Silence, Finish, WorkerRecord
  <2> QED BY <2>1 DEF Along, Underway, Clean
<1>6. CASE Search(w) /\ work' # Waiting(w)
  BY <1>6, SearchBounded DEF Along
<1>7. CASE Deliver(w) \/ Take(w) \/ Abandon(w) \/ Discard(w) \/ Process(w)
  BY <1>7, MessageNearer DEF Along
<1>8. CASE FetchEnds(w)
  BY <1>8, FetchNearer DEF Along
<1> QED BY <1>2, <1>3, <1>4, <1>5, <1>6, <1>7, <1>8
        DEF WorkerStep, Cycle, Fetch, Mark, Dial, Finish, Search

\* What any step does to a goroutine.
LEMMA EveryoneAlong ==
  ASSUME IInv, CycleInv, [Next]_vars, NEW w \in Slots
  PROVE  Along(work[w], work'[w])
<1>1. Clean(Idle) /\ ~Underway(Idle)
  BY DEF Clean, Underway, Idle
<1>2. CASE \E v \in Slots : WorkerStep(v)
  <2>1. PICK v \in Slots : WorkerStep(v)
    BY <1>2
  <2>2. CASE v = w
    BY <2>1, <2>2, WorkerAlong DEF IInv
  <2>3. CASE v # w
    <3>1. work'[w] = work[w]
      BY <2>1, <2>3, WorkerEffect DEF IInv, WorkerDone
    <3> QED BY <3>1 DEF Along
  <2> QED BY <2>2, <2>3
<1>3. CASE Apply
  <2>1. Reconciled
    BY <1>3, ApplyEffect DEF IInv
  <2>2. \A s \in Sources : Clean(New(s)) /\ ~Underway(New(s))
    BY DEF New, Idle, Clean, Underway
  <2>3. \/ \E s \in Sources : work'[w] = New(s)
        \/ work'[w] = work[w]
        \/ work[w].pc # "none" /\ work'[w] = [work[w] EXCEPT !.cancelled = TRUE]
    BY <2>1 DEF Reconciled
  <2> QED BY <2>2, <2>3 DEF Along
<1>4. CASE StopAll
  <2>1. \/ work'[w] = work[w]
        \/ /\ \E s \in Sources : workers[s] = w
           /\ work'[w] = [work[w] EXCEPT !.cancelled = TRUE]
    BY <1>4 DEF StopAll, Cancelled
  <2>2. \A s \in Sources : workers[s] = w => work[w].pc # "none"
    BY MailPollerAssumption DEF IInv, AssignInv
  <2> QED BY <2>1, <2>2 DEF Along
<1>5. CASE Crash
  <2>1. work'[w] = Idle
    BY <1>5 DEF Crash
  <2> QED BY <1>1, <2>1 DEF Along
<1>6. CASE \/ UNCHANGED vars \/ Saved \/ Tick \/ Read \/ Ticker \/ Notified \/ Stop
           \/ \E s \in Sources, polls \in BOOLEAN : Save(s, polls)
  <2>1. work' = work
    BY <1>6 DEF vars, Saved, Tick, Read, Ticker, Notified, Stop, Save
  <2> QED BY <2>1 DEF Along
<1> QED BY <1>2, <1>3, <1>4, <1>5, <1>6 DEF Next, Supervise, WorkerStep

\* What was true of a worker's cycle stays true as it goes along.
LEMMA CycleStep ==
  ASSUME IInv, PollerType', CycleInv, [Next]_vars
  PROVE  CycleInv'
<1>1. ASSUME NEW w \in Slots
      PROVE  /\ Clean(work'[w])
             /\ Underway(work'[w]) => Left(work'[w]) <= 3 * MaxPerCycle + 1
  <2> DEFINE x == work[w]
             y == work'[w]
  <2> SUFFICES Clean(y) /\ (Underway(y) => Left(y) <= 3 * MaxPerCycle + 1)
    OBVIOUS
  <2>1. Along(x, y)
    BY EveryoneAlong
  <2>2. x \in WorkerRecord /\ Left(x) \in Nat
    BY Counted DEF IInv, PollerType, AnyWorker
  <2>3. Left(y) \in Nat
    <3>1. /\ work'[w].todo \subseteq Mails /\ work'[w].chan \subseteq Mails
      BY DEF PollerType, AnyWorker, WorkerRecord
    <3>2. IsFiniteSet(y.todo) /\ IsFiniteSet(y.chan)
      BY <3>1, FS_Subset, MailPollerAssumption
    <3>3. Cardinality(y.todo) \in Nat /\ Cardinality(y.chan) \in Nat
      BY <3>2, FS_CardinalityType
    <3> HIDE DEF y
    <3> QED BY <3>3 DEF Left
  <2>4. Clean(x) /\ (Underway(x) => Left(x) <= 3 * MaxPerCycle + 1)
    BY DEF CycleInv
  <2> HIDE DEF x, y
  <2>5. CASE y = x
    BY <2>4, <2>5
  <2>6. CASE y = [x EXCEPT !.cancelled = TRUE]
    <3>1. /\ y.pc = x.pc /\ y.todo = x.todo /\ y.chan = x.chan /\ y.ended = x.ended
      BY <2>2, <2>6 DEF WorkerRecord
    <3>2. (Clean(y) <=> Clean(x)) /\ (Underway(y) <=> Underway(x)) /\ Left(y) = Left(x)
      BY <3>1 DEF Clean, Underway, Left
    <3> QED BY <2>4, <3>2
  <2>7. CASE ~Underway(y) /\ Clean(y)
    BY <2>7
  <2>8. CASE /\ Underway(y) /\ Left(y) <= 3 * MaxPerCycle + 1
    BY <2>8 DEF Clean, Underway
  <2>9. CASE Underway(x) /\ Underway(y) /\ Left(y) < Left(x)
    <3>1. Left(y) <= 3 * MaxPerCycle + 1
      BY <2>2, <2>3, <2>4, <2>9, MailPollerAssumption
    <3> QED BY <2>9, <3>1 DEF Clean, Underway
  <2> QED BY <2>1, <2>5, <2>6, <2>7, <2>8, <2>9 DEF Along
<1> QED BY <1>1 DEF CycleInv

LEMMA CycleInvariant == SafeSpec => []CycleInv
<1>1. Init => CycleInv
  <2> SUFFICES ASSUME Init, NEW w \in Slots PROVE Clean(work[w]) /\ ~Underway(work[w])
    BY DEF CycleInv
  <2>1. work[w] = Idle
    BY DEF Init
  <2> QED BY <2>1 DEF Clean, Underway, Idle
<1>2. IInv /\ PollerType' /\ CycleInv /\ [Next]_vars => CycleInv'
  BY CycleStep
<1>3. IInv => PollerType
  BY DEF IInv
<1> QED BY <1>1, <1>2, <1>3, Invariant, PTL DEF SafeSpec

\* A cycle begins its fetch with three steps for each of at most maxPerCycle messages
\* and one for the return of UidFetch, and never has more before it.
THEOREM CycleBoundedSafe == SafeSpec => []CycleBounded
<1>1. CycleInv => CycleBounded
  BY DEF CycleInv, CycleBounded
<1> QED BY <1>1, CycleInvariant, PTL

\* Whatever a worker, its fetch or drainInBackground does between the search and the end
\* of a cycle brings the end nearer, and nobody else puts it off: with the bound, a cycle
\* ends after finitely many steps of goroutines that run.
THEOREM CycleShrinksSafe == SafeSpec => CycleShrinks
<1>1. IInv /\ CycleInv /\ [Next]_vars =>
        [\A w \in Slots :
           Underway(work[w]) /\ Underway(work'[w]) =>
             \/ Left(work'[w]) < Left(work[w])
             \/ work'[w] \in {work[w], [work[w] EXCEPT !.cancelled = TRUE]}]_vars
  BY EveryoneAlong DEF Along
<1> QED BY <1>1, Invariant, CycleInvariant, PTL DEF SafeSpec, CycleShrinks
=============================================================================
