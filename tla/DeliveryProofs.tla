--------------------------- MODULE DeliveryProofs ---------------------------
(***************************************************************************)
(* The safety properties of Delivery, proved for every number of records,  *)
(* sources and handlers and every setting: first what backoff computes,    *)
(* then the types, with Control, because the record being sent indexes the *)
(* tables only while the worker is at a send; then IInv, one lemma to a    *)
(* part, and with it the refinement of Lifecycle; then what becomes of a   *)
(* record, which needs invariants of its own.                              *)
(***************************************************************************)
EXTENDS DeliveryInv, FiniteSetTheorems, SequenceTheorems, WellFoundedInduction, TLAPS

-----------------------------------------------------------------------------
(* The backoff: what the loop computes, for every base and every number of *)
(* attempts.  The induction is one over sets of numbers, from the minimal  *)
(* elements of a well-founded relation.                                    *)

\* A set that holds 0 and the successor of each of its numbers holds all of them.
LEMMA NatSets ==
  ASSUME NEW S, 0 \in S, \A n \in Nat : n \in S => n + 1 \in S
  PROVE  \A n \in Nat : n \in S
<1> DEFINE R == OpToRel(<, Nat)
           T == Nat \ S
<1>1. IsWellFoundedOn(R, Nat)
  BY NatLessThanWellFounded
<1>2. \A x, y \in Nat : y < x => <<y, x>> \in R
  BY DEF OpToRel
<1> HIDE DEF R
<1>3. SUFFICES ASSUME T # {} PROVE FALSE
  OBVIOUS
<1>4. PICK x \in T : \A y \in T : <<y, x>> \notin R
  BY <1>1, <1>3, WFMin
<1>5. x # 0 /\ x - 1 \in Nat /\ x - 1 < x
  OBVIOUS
<1>6. x - 1 \in S
  BY <1>2, <1>4, <1>5
<1> QED BY <1>5, <1>6

\* f lists what becomes of a when v is applied to it again and again.
Iterated(f, v, a, D) == f \in [Nat -> D] /\ f[0] = a /\ \A n \in Nat : f[n + 1] = v[f[n]]

\* A function can be applied any number of times: there is a function like the one a
\* recursive definition describes.
LEMMA Iterates ==
  ASSUME NEW D, NEW v \in [D -> D], NEW a \in D
  PROVE  \E f : Iterated(f, v, a, D)
<1> DEFINE Upto(n, g) == g \in [0 .. n -> D] /\ g[0] = a /\ \A i \in 0 .. n - 1 : g[i + 1] = v[g[i]]
           S == {n \in Nat : \E g : Upto(n, g)}
           E == {i \in Nat : \A n, m \in Nat : \A g, h :
                   Upto(n, g) /\ Upto(m, h) /\ i <= n /\ i <= m => g[i] = h[i]}
<1>1. \A n \in Nat : n \in S
  <2>1. 0 \in S
    <3>1. Upto(0, [i \in 0 .. 0 |-> a])
      OBVIOUS
    <3> QED BY <3>1
  <2>2. ASSUME NEW n \in Nat, n \in S PROVE n + 1 \in S
    <3>1. PICK g : Upto(n, g)
      BY <2>2
    <3> DEFINE h == [i \in 0 .. n + 1 |-> IF i <= n THEN g[i] ELSE v[g[n]]]
    <3>2. h \in [0 .. n + 1 -> D] /\ h[0] = a
      BY <3>1
    <3>3. ASSUME NEW i \in 0 .. n PROVE h[i + 1] = v[h[i]]
      <4>1. CASE i = n
        BY <4>1
      <4>2. CASE i # n
        <5>1. i \in 0 .. n - 1 /\ i + 1 \in 0 .. n + 1 /\ i + 1 <= n /\ i \in 0 .. n + 1 /\ i <= n
          BY <4>2
        <5> QED BY <3>1, <5>1
      <4> QED BY <4>1, <4>2
    <3> HIDE DEF h
    <3>4. Upto(n + 1, h)
      BY <3>2, <3>3
    <3> QED BY <3>4
  <2> HIDE DEF S
  <2> QED BY <2>1, <2>2, NatSets
<1> HIDE DEF S
<1>2. \A i \in Nat : i \in E
  <2>1. 0 \in E
    <3>1. ASSUME NEW n \in Nat, NEW m \in Nat, NEW g, NEW h, Upto(n, g), Upto(m, h)
          PROVE  g[0] = h[0]
      BY <3>1
    <3> HIDE DEF Upto
    <3> QED BY <3>1
  <2>2. ASSUME NEW i \in Nat, i \in E PROVE i + 1 \in E
    <3>1. ASSUME NEW n \in Nat, NEW m \in Nat, NEW g, NEW h, Upto(n, g), Upto(m, h),
                 i + 1 <= n, i + 1 <= m
          PROVE  g[i + 1] = h[i + 1]
      <4>1. i \in 0 .. n - 1 /\ i \in 0 .. m - 1 /\ i <= n /\ i <= m
        BY <3>1
      <4>2. g[i + 1] = v[g[i]] /\ h[i + 1] = v[h[i]]
        BY <3>1, <4>1
      <4> HIDE DEF Upto
      <4>3. g[i] = h[i]
        BY <2>2, <3>1, <4>1
      <4> QED BY <4>2, <4>3
    <3> HIDE DEF Upto
    <3> QED BY <3>1
  <2> HIDE DEF E
  <2> QED BY <2>1, <2>2, NatSets
<1> DEFINE G(n) == CHOOSE g : Upto(n, g)
           f == [n \in Nat |-> G(n)[n]]
<1>3. ASSUME NEW n \in Nat PROVE Upto(n, G(n))
  <2>1. \E g : Upto(n, g)
    BY <1>1 DEF S
  <2> HIDE DEF Upto
  <2> QED BY <2>1
<1> HIDE DEF G
<1>4. ASSUME NEW n \in Nat PROVE f[n] \in D /\ f[n + 1] = v[f[n]]
  <2>1. Upto(n, G(n)) /\ Upto(n + 1, G(n + 1)) /\ n + 1 \in Nat /\ n \in 0 .. n /\ n \in 0 .. (n + 1) - 1
    BY <1>3
  <2>2. G(n)[n] = G(n + 1)[n]
    <3> HIDE DEF Upto
    <3> QED BY <1>2, <2>1
  <2>3. G(n)[n] \in D /\ G(n + 1)[n + 1] = v[G(n + 1)[n]]
    BY <2>1
  <2>4. f[n] = G(n)[n] /\ f[n + 1] = G(n + 1)[n + 1]
    BY <2>1
  <2> HIDE DEF f, Upto
  <2> QED BY <2>2, <2>3, <2>4
<1>5. f[0] = a
  <2>1. Upto(0, G(0))
    BY <1>3
  <2> QED BY <2>1
<1>6. f \in [Nat -> D]
  BY <1>4
<1> HIDE DEF f
<1> QED BY <1>4, <1>5, <1>6 DEF Iterated

\* The loop never gets below the number it starts from, and none of its rounds makes
\* it smaller.
LEMMA DoubledType ==
  ASSUME NEW a \in Nat \ {0}
  PROVE  /\ \A n \in Nat : Doubled(a)[n] \in Nat /\ Doubled(a)[n] >= a
         /\ \A n \in Nat : Doubled(a)[n + 1] = Twice(Doubled(a)[n])
         /\ Doubled(a)[0] = a
<1> DEFINE d == Doubled(a)
           S == {n \in Nat : d[n] \in Nat /\ d[n] >= a}
<1>1. PICK v \in [Nat -> Nat] : \A x \in Nat : v[x] = Twice(x)
  <2>1. [x \in Nat |-> Twice(x)] \in [Nat -> Nat]
    BY BackoffAssumption DEF Twice
  <2> QED BY <2>1
<1>2. PICK f : Iterated(f, v, a, Nat)
  <2>1. a \in Nat
    OBVIOUS
  <2> QED BY <2>1, Iterates
<1>3. f = [n \in Nat |-> IF n = 0 THEN a ELSE Twice(f[n - 1])]
  <2>1. ASSUME NEW n \in Nat \ {0} PROVE f[n] = Twice(f[n - 1])
    <3>1. n - 1 \in Nat /\ f[n - 1] \in Nat /\ (n - 1) + 1 = n
      BY <1>2 DEF Iterated
    <3> QED BY <1>1, <1>2, <3>1 DEF Iterated
  <2> QED BY <1>2, <2>1 DEF Iterated
<1>4. d = [n \in Nat |-> IF n = 0 THEN a ELSE Twice(d[n - 1])]
  BY <1>3 DEF Doubled
<1> HIDE DEF d
<1>5. d[0] = a /\ \A n \in Nat : d[n + 1] = Twice(d[n])
  BY <1>4
<1>6. 0 \in S
  BY <1>5
<1>7. ASSUME NEW n \in Nat, n \in S PROVE n + 1 \in S
  <2>1. d[n] \in Nat /\ d[n] >= a /\ d[n + 1] = Twice(d[n])
    BY <1>5, <1>7
  <2> QED BY <2>1, BackoffAssumption DEF Twice
<1>8. \A n \in Nat : n \in S
  <2> HIDE DEF S
  <2> QED BY <1>6, <1>7, NatSets
<1> QED BY <1>5, <1>8 DEF d

\* For every base and every attempt engine.backoff returns a whole positive number of
\* seconds, no less than after the first failure and no more than the cap.
THEOREM BackoffRange ==
  ASSUME NEW base \in Int, NEW n \in Int
  PROVE  /\ backoff(base, n) \in Nat \ {0} /\ backoff(base, n) <= MaxBackoff
         /\ backoff(base, n) >= backoff(base, 1)
<1> USE BackoffAssumption
<1> DEFINE first == IF base < 1 THEN DefaultBase ELSE base
           k == IF n < 1 THEN 0 ELSE n - 1
<1>1. first \in Nat \ {0} /\ k \in Nat
  OBVIOUS
<1> HIDE DEF first, k
<1>2. /\ Doubled(first)[k] \in Nat /\ Doubled(first)[k] >= first
      /\ Doubled(first)[0] \in Nat /\ Doubled(first)[0] = first
  BY <1>1, DoubledType
<1>3. /\ backoff(base, n) = IF Doubled(first)[k] > MaxBackoff THEN MaxBackoff ELSE Doubled(first)[k]
      /\ backoff(base, 1) = IF Doubled(first)[0] > MaxBackoff THEN MaxBackoff ELSE Doubled(first)[0]
  BY DEF backoff, first, k
<1> QED BY <1>1, <1>2, <1>3

\* Every failure doubles the wait until the cap is reached, where it stays: leaving the
\* loop early does not change what it computes, and the cap cuts no wait short of it.
THEOREM BackoffDoubles ==
  ASSUME NEW base \in Int, NEW n \in Nat \ {0}
  PROVE  backoff(base, n + 1) =
           IF 2 * backoff(base, n) > MaxBackoff THEN MaxBackoff ELSE 2 * backoff(base, n)
<1> USE BackoffAssumption
<1> DEFINE first == IF base < 1 THEN DefaultBase ELSE base
           k == n - 1
<1>1. first \in Nat \ {0} /\ k \in Nat /\ k + 1 = n /\ (n + 1) - 1 = n
  OBVIOUS
<1>2. /\ backoff(base, n) = IF Doubled(first)[k] > MaxBackoff THEN MaxBackoff ELSE Doubled(first)[k]
      /\ backoff(base, n + 1) = IF Doubled(first)[n] > MaxBackoff THEN MaxBackoff ELSE Doubled(first)[n]
  BY <1>1 DEF backoff
<1> HIDE DEF first, k
<1>3. Doubled(first)[k] \in Nat /\ Doubled(first)[n] = Twice(Doubled(first)[k])
  BY <1>1, DoubledType
<1> QED BY <1>2, <1>3 DEF Twice

\* A later attempt never waits less than an earlier one.
THEOREM BackoffMonotone ==
  ASSUME NEW base \in Int, NEW m \in Nat, NEW n \in Nat, m <= n
  PROVE  backoff(base, m) <= backoff(base, n)
<1> DEFINE S == {d \in Nat : backoff(base, m) <= backoff(base, m + d)}
<1>1. \A i \in Nat : backoff(base, i) \in Nat /\ backoff(base, i) <= backoff(base, i + 1)
  <2> SUFFICES ASSUME NEW i \in Nat
               PROVE  backoff(base, i) \in Nat /\ backoff(base, i) <= backoff(base, i + 1)
    OBVIOUS
  <2>1. backoff(base, i) \in Nat /\ backoff(base, i) <= MaxBackoff
    BY BackoffRange
  <2>2. CASE i = 0
    <3>1. backoff(base, 0) = backoff(base, 1)
      BY DEF backoff
    <3> QED BY <2>1, <2>2, <3>1
  <2>3. CASE i # 0
    <3>1. backoff(base, i + 1) =
            IF 2 * backoff(base, i) > MaxBackoff THEN MaxBackoff ELSE 2 * backoff(base, i)
      BY <2>3, BackoffDoubles
    <3> QED BY <2>1, <3>1, BackoffAssumption
  <2> QED BY <2>2, <2>3
<1>2. 0 \in S
  BY <1>1
<1>3. ASSUME NEW d \in Nat, d \in S PROVE d + 1 \in S
  <2>1. m + d \in Nat /\ m + (d + 1) = (m + d) + 1 /\ (m + d) + 1 \in Nat
    OBVIOUS
  <2> QED BY <1>1, <1>3, <2>1
<1>4. n - m \in Nat /\ m + (n - m) = n
  OBVIOUS
<1>5. n - m \in S
  <2> HIDE DEF S
  <2> QED BY <1>2, <1>3, <1>4, NatSets
<1> QED BY <1>4, <1>5

-----------------------------------------------------------------------------

\* The time until the next attempt is a positive number, and no shorter than the first.
LEMMA BackoffPositive ==
  ASSUME NEW n \in Nat
  PROVE  /\ backoff(BackoffBase, n) \in Int /\ backoff(BackoffBase, n) > 0
         /\ backoff(BackoffBase, n) >= backoff(BackoffBase, 1)
<1>1. BackoffBase \in Nat
  BY DeliveryAssumption
<1> QED BY <1>1, BackoffRange

\* CreateDelivery keeps the columns of the table typed.
LEMMA CreateType ==
  ASSUME DbTypeOK, UNCHANGED configVars, NEW d \in Deliveries,
         NEW s \in Sources \cup {NoSource}, NEW st \in Status, CreateDelivery(d, s, st)
  PROVE  DbTypeOK'
<1>1. /\ status' \in [Deliveries -> Status] /\ attempt' \in [Deliveries -> Nat]
      /\ wait' \in [Deliveries -> Int] /\ out' \in [Deliveries -> Sources \cup {NoSource}]
  BY DEF DbTypeOK, CreateDelivery, Now
<1> QED BY <1>1 DEF DbTypeOK, configVars

\* UpdateDelivery keeps them typed, whether it finds the row or not.
LEMMA UpdateType ==
  ASSUME DbTypeOK, UNCHANGED configVars, NEW d \in Deliveries, NEW st \in Live \cup Terminal,
         NEW n \in Nat, NEW w \in Int, UpdateDelivery(d, st, n, w)
  PROVE  DbTypeOK'
<1>1. CASE UNCHANGED dbVars
  BY <1>1 DEF DbTypeOK, dbVars, configVars
<1>2. CASE ~UNCHANGED dbVars
  <2>1. /\ status' \in [Deliveries -> Status] /\ attempt' \in [Deliveries -> Nat]
        /\ wait' \in [Deliveries -> Int] /\ out' = out
    BY <1>2 DEF DbTypeOK, UpdateDelivery, Status, Present
  <2> QED BY <2>1 DEF DbTypeOK, configVars
<1> QED BY <1>1, <1>2

\* A handler that moves on is in one of its states.
LEMMA HandlerType ==
  ASSUME HandlerTypeOK, NEW r \in Requests, NEW at \in {"idle", "fanout", "done"},
         NEW todo \in Seq(Sources), NEW n \in Nat, Handler(r, at, todo, n)
  PROVE  req' \in [Requests -> [at : {"idle", "fanout", "done"}, todo : Seq(Sources), made : Nat]]
  BY DEF HandlerTypeOK, Handler

\* Where the worker is and what it holds keep their types, whatever handler,
\* fault, crash or clock tick comes between two of its steps.
LEMMA TypeCorrect == SafeSpec => []TypeInv
<1> USE DeliveryAssumption
<1>1. Init => TypeInv
  <2> SUFFICES ASSUME Init PROVE TypeInv
    OBVIOUS
  <2>1. DbTypeOK
    BY DEF Init, DbTypeOK, Status, Present, Live, Terminal, Now
  <2>2. WorkTypeOK
    <3>1. full \in BOOLEAN
      BY Zenon DEF Init
    <3> QED BY <3>1 DEF Init, WorkTypeOK
  <2>3. HandlerTypeOK
    <3>1. notify \in BOOLEAN /\ stopping \in BOOLEAN
      BY Zenon DEF Init
    <3> QED BY <3>1, EmptySeq DEF Init, HandlerTypeOK, Idle
  <2>4. HistoryTypeOK
    BY DEF Init, HistoryTypeOK
  <2>5. Control
    BY DEF Init, Control
  <2> QED BY <2>1, <2>2, <2>3, <2>4, <2>5 DEF TypeInv, TypeOK
<1>2. TypeInv /\ [Next]_vars => TypeInv'
  <2> SUFFICES ASSUME TypeInv, [Next]_vars PROVE TypeInv'
    OBVIOUS
  <2> USE DEF TypeInv, TypeOK, dbVars, configVars, workVars, historyVars, Fault, NoFault
  <2>1. ASSUME ReadDue PROVE TypeInv'
    <3>1. DbTypeOK'
      BY <2>1 DEF ReadDue, MoreRounds, DueDeliveries, Status, Present, Live, Terminal, Now, DbTypeOK
    <3>2. WorkTypeOK'
      <4>1. full' \in BOOLEAN
        BY <2>1, Zenon DEF ReadDue, MoreRounds, WorkTypeOK
      <4>2. batch' \in SUBSET Deliveries /\ snap' \in [Deliveries -> Nat]
        <5>1. CASE UNCHANGED <<batch, snap>>
          BY <5>1 DEF WorkTypeOK
        <5>2. CASE \E B \in SUBSET Deliveries :
                     /\ batch' = B
                     /\ snap' = [d \in Deliveries |-> IF d \in B THEN attempt[d] ELSE 0]
          BY <5>2 DEF DbTypeOK
        <5> QED BY <2>1, <5>1, <5>2 DEF ReadDue, MoreRounds, DueDeliveries, Due
      <4> QED BY <2>1, <4>1, <4>2 DEF ReadDue, MoreRounds, WorkTypeOK
    <3>3. HandlerTypeOK'
      BY <2>1 DEF ReadDue, MoreRounds, DueDeliveries, HandlerTypeOK
    <3>4. HistoryTypeOK'
      BY <2>1 DEF ReadDue, MoreRounds, DueDeliveries, HistoryTypeOK
    <3>5. Control'
      BY <2>1 DEF ReadDue, MoreRounds, DueDeliveries, Due, WorkTypeOK, Control
    <3> QED BY <3>1, <3>2, <3>3, <3>4, <3>5
  <2>2. ASSUME BatchDone PROVE TypeInv'
    <3>1. DbTypeOK'
      BY <2>2 DEF BatchDone, Status, Present, Live, Terminal, Now, DbTypeOK
    <3>2. WorkTypeOK'
      <4>1. full' \in BOOLEAN
        BY <2>2, Zenon DEF BatchDone
      <4> QED BY <2>2, <4>1 DEF BatchDone, WorkTypeOK, Control
    <3>3. HandlerTypeOK'
      BY <2>2 DEF BatchDone, HandlerTypeOK
    <3>4. HistoryTypeOK'
      BY <2>2 DEF BatchDone, HistoryTypeOK
    <3>5. Control'
      BY <2>2 DEF BatchDone, WorkTypeOK, Control
    <3> QED BY <3>1, <3>2, <3>3, <3>4, <3>5
  <2>3. ASSUME Send PROVE TypeInv'
    <3>1. DbTypeOK'
      BY <2>3 DEF Send, Status, Present, Live, Terminal, Now, DbTypeOK
    <3>2. WorkTypeOK'
      BY <2>3 DEF Send, WorkTypeOK
    <3>3. HandlerTypeOK'
      BY <2>3 DEF Send, HandlerTypeOK
    <3>4. HistoryTypeOK'
      <4>1. cur \in Deliveries
        BY <2>3 DEF Send, Control
      <4>2. delivered' = delivered \/ delivered' = delivered \cup {cur}
        BY <2>3, Zenon DEF Send
      <4>3. sends' = sends \/ sends' = [sends EXCEPT ![cur] = @ + 1]
        BY <2>3, Zenon DEF Send
      <4>4. misread' = misread \/ misread' = misread \cup {cur}
        BY <2>3, Zenon DEF Send
      <4>5. sends' \in [Deliveries -> Nat]
        <5>1. sends \in [Deliveries -> Nat] /\ sends[cur] + 1 \in Nat
          BY <4>1 DEF HistoryTypeOK
        <5>2. CASE sends' = [sends EXCEPT ![cur] = @ + 1]
          BY <4>1, <5>1, <5>2
        <5> QED BY <4>3, <5>1, <5>2
      <4>6. delivered' \in SUBSET Deliveries /\ misread' \in SUBSET Deliveries
        BY <4>1, <4>2, <4>4 DEF HistoryTypeOK
      <4>7. UNCHANGED <<crashes, stops, faults, lost, quiet, replay>>
        BY <2>3, Zenon DEF Send
      <4> QED BY <4>5, <4>6, <4>7 DEF HistoryTypeOK
    <3>5. Control'
      BY <2>3 DEF Send, WorkTypeOK, Control
    <3> QED BY <3>1, <3>2, <3>3, <3>4, <3>5
  <2>4. ASSUME Record PROVE TypeInv'
    <3>1. DbTypeOK'
      <4> cur \in Deliveries /\ snap[cur] \in Nat
        BY <2>4 DEF Record, Result, WorkTypeOK, Control
      <4>1. backoff(BackoffBase, snap[cur]) \in Int
        BY BackoffPositive
      <4>2. PICK st \in Live \cup Terminal, w \in Int :
                 UpdateDelivery(cur, st, snap[cur], w) \/ UNCHANGED dbVars
        BY <2>4, <4>1 DEF Record, Result, Live, Terminal, Now
      <4> QED BY <2>4, <4>2, UpdateType DEF Record, Result, DbTypeOK
    <3>2. WorkTypeOK'
      <4>1. /\ pc' = "next" /\ cur' = NoDelivery /\ snap' = [snap EXCEPT ![cur] = 0]
            /\ limit' = 0 /\ verdict' = "failed" /\ UNCHANGED <<batch, full, round, elapsed>>
        BY <2>4, Zenon DEF Record, Result
      <4>2. snap' \in [Deliveries -> Nat]
        BY <4>1 DEF WorkTypeOK
      <4> QED BY <4>1, <4>2 DEF WorkTypeOK
    <3>3. HandlerTypeOK'
      BY <2>4 DEF Record, Result, UpdateDelivery, HandlerTypeOK
    <3>4. HistoryTypeOK'
      <4>1. cur \in Deliveries
        BY <2>4 DEF Record, Control
      <4>2. \/ UNCHANGED <<lost, faults>>
            \/ lost' = [lost EXCEPT ![cur] = @ + 1] /\ faults < MaxFaults /\ faults' = faults + 1
        BY <2>4, Zenon DEF Record
      <4>3. UNCHANGED <<crashes, stops, sends, delivered, misread, quiet, replay>>
        BY <2>4 DEF Record
      <4> QED BY <4>1, <4>2, <4>3 DEF HistoryTypeOK
    <3>5. Control'
      BY <2>4 DEF Record, Result, UpdateDelivery, WorkTypeOK, Control
    <3> QED BY <3>1, <3>2, <3>3, <3>4, <3>5
  <2>5. ASSUME NEW d \in Deliveries, Bury(d) PROVE TypeInv'
    <3>1. DbTypeOK'
      <4>1. snap[d] \in Nat /\ Now \in Int /\ "dead" \in Live \cup Terminal
        BY DEF WorkTypeOK, Now, Terminal
      <4> QED BY <2>5, <4>1, UpdateType DEF Bury
    <3>2. WorkTypeOK'
      BY <2>5 DEF Bury, UpdateDelivery, Release, WorkTypeOK
    <3>3. HandlerTypeOK'
      BY <2>5 DEF Bury, UpdateDelivery, Release, HandlerTypeOK
    <3>4. HistoryTypeOK'
      BY <2>5 DEF Bury, UpdateDelivery, Release, HistoryTypeOK
    <3>5. Control'
      BY <2>5 DEF Bury, UpdateDelivery, Release, WorkTypeOK, Control
    <3> QED BY <3>1, <3>2, <3>3, <3>4, <3>5
  <2>6. ASSUME NEW d \in Deliveries, Skip(d) PROVE TypeInv'
    <3>1. DbTypeOK'
      BY <2>6 DEF Skip, Release, Status, Present, Live, Terminal, Now, DbTypeOK
    <3>2. WorkTypeOK'
      BY <2>6 DEF Skip, Release, WorkTypeOK
    <3>3. HandlerTypeOK'
      BY <2>6 DEF Skip, Release, HandlerTypeOK
    <3>4. HistoryTypeOK'
      BY <2>6 DEF Skip, Release, HistoryTypeOK
    <3>5. Control'
      BY <2>6 DEF Skip, Release, WorkTypeOK, Control
    <3> QED BY <3>1, <3>2, <3>3, <3>4, <3>5
  <2>7. ASSUME NEW d \in Deliveries, Claim(d) PROVE TypeInv'
    <3>1. DbTypeOK'
      <4>1. /\ attempt' = [attempt EXCEPT ![d] = snap[d] + 1]
            /\ wait' = [wait EXCEPT ![d] = Lease] /\ UNCHANGED <<status, out, configVars>>
        BY <2>7, Zenon DEF Claim, ClaimDelivery
      <4>2. attempt' \in [Deliveries -> Nat] /\ wait' \in [Deliveries -> Int]
        BY <4>1 DEF DbTypeOK, WorkTypeOK
      <4> QED BY <4>1, <4>2 DEF DbTypeOK
    <3>2. WorkTypeOK'
      <4>1. /\ pc' = "send" /\ cur' = d /\ batch' = batch \ {d} /\ limit' = retryMax
            /\ snap' = [snap EXCEPT ![d] = snap[d] + 1]
            /\ elapsed' = 0 /\ UNCHANGED <<full, round, verdict>>
        BY <2>7 DEF Claim
      <4>2. snap' \in [Deliveries -> Nat]
        BY <4>1 DEF WorkTypeOK
      <4>3. limit' \in 0 .. RetryCap
        BY <4>1 DEF DbTypeOK
      <4> QED BY <4>1, <4>2, <4>3 DEF WorkTypeOK
    <3>3. HandlerTypeOK'
      BY <2>7 DEF Claim, ClaimDelivery, HandlerTypeOK
    <3>4. HistoryTypeOK'
      <4>1. Gap \in Int
        BY BackoffPositive DEF Gap
      <4> QED BY <2>7, <4>1 DEF Claim, HistoryTypeOK
    <3>5. Control'
      BY <2>7 DEF Claim, ClaimDelivery, WorkTypeOK, Control
    <3> QED BY <3>1, <3>2, <3>3, <3>4, <3>5
  <2>8. ASSUME Notified PROVE TypeInv'
    <3>1. DbTypeOK'
      BY <2>8 DEF Notified, StartDrain, Status, Present, Live, Terminal, Now, DbTypeOK
    <3>2. WorkTypeOK'
      BY <2>8 DEF Notified, StartDrain, WorkTypeOK
    <3>3. HandlerTypeOK'
      BY <2>8 DEF Notified, StartDrain, HandlerTypeOK
    <3>4. HistoryTypeOK'
      BY <2>8 DEF Notified, StartDrain, HistoryTypeOK
    <3>5. Control'
      BY <2>8 DEF Notified, StartDrain, WorkTypeOK, Control
    <3> QED BY <3>1, <3>2, <3>3, <3>4, <3>5
  <2>9. ASSUME Poll PROVE TypeInv'
    <3>1. DbTypeOK'
      BY <2>9 DEF Poll, StartDrain, Status, Present, Live, Terminal, Now, DbTypeOK
    <3>2. WorkTypeOK'
      BY <2>9 DEF Poll, StartDrain, WorkTypeOK
    <3>3. HandlerTypeOK'
      BY <2>9 DEF Poll, StartDrain, HandlerTypeOK
    <3>4. HistoryTypeOK'
      BY <2>9 DEF Poll, StartDrain, HistoryTypeOK
    <3>5. Control'
      BY <2>9 DEF Poll, StartDrain, WorkTypeOK, Control
    <3> QED BY <3>1, <3>2, <3>3, <3>4, <3>5
  <2>10. ASSUME Halt PROVE TypeInv'
    <3>1. DbTypeOK'
      BY <2>10 DEF Halt, Status, Present, Live, Terminal, Now, DbTypeOK
    <3>2. WorkTypeOK'
      BY <2>10 DEF Halt, WorkTypeOK
    <3>3. HandlerTypeOK'
      BY <2>10 DEF Halt, HandlerTypeOK
    <3>4. HistoryTypeOK'
      BY <2>10 DEF Halt, HistoryTypeOK
    <3>5. Control'
      BY <2>10 DEF Halt, WorkTypeOK, Control
    <3> QED BY <3>1, <3>2, <3>3, <3>4, <3>5
  <2>11. ASSUME NEW r \in Requests, Submit(r) PROVE TypeInv'
    <3>1. DbTypeOK'
      BY <2>11 DEF Submit, Handler, Status, Present, Live, Terminal, Now, DbTypeOK
    <3>2. WorkTypeOK'
      BY <2>11 DEF Submit, Handler, WorkTypeOK
    <3>3. HandlerTypeOK'
      <4>1. PICK at \in {"fanout", "done"}, f \in Seq(Sources) : Handler(r, at, f, 0)
        BY <2>11, EmptySeq DEF Submit
      <4> QED BY <2>11, <4>1, HandlerType DEF Submit, HandlerTypeOK
    <3>4. HistoryTypeOK'
      BY <2>11 DEF Submit, Handler, HistoryTypeOK
    <3>5. Control'
      BY <2>11 DEF Submit, Handler, WorkTypeOK, Control
    <3> QED BY <3>1, <3>2, <3>3, <3>4, <3>5
  <2>12. ASSUME NEW r \in Requests, FanOut(r) PROVE TypeInv'
    <3>1. DbTypeOK'
      <4>1. CASE \E e \in Deliveries, s \in Sources \cup {NoSource}, st \in Status :
                    CreateDelivery(e, s, st)
        BY <2>12, <4>1, CreateType DEF FanOut
      <4>2. CASE UNCHANGED dbVars
        BY <2>12, <4>2 DEF FanOut, DbTypeOK
      <4> QED BY <2>12, <4>1, <4>2 DEF FanOut, HandlerTypeOK, Status, Present, Live, Terminal
    <3>2. WorkTypeOK'
      BY <2>12 DEF FanOut, Handler, CreateDelivery, WorkTypeOK
    <3>3. HandlerTypeOK'
      <4>1. req[r].made \in Nat /\ req[r].made + 1 \in Nat /\ Tail(req[r].todo) \in Seq(Sources)
        BY <2>12 DEF FanOut, HandlerTypeOK
      <4> QED BY <2>12, <4>1, HandlerType DEF FanOut, HandlerTypeOK
    <3>4. HistoryTypeOK'
      <4>1. faults' \in 0 .. MaxFaults
        BY <2>12 DEF FanOut, HistoryTypeOK
      <4> QED BY <2>12, <4>1 DEF FanOut, HistoryTypeOK
    <3>5. Control'
      BY <2>12 DEF FanOut, Handler, CreateDelivery, WorkTypeOK, Control
    <3> QED BY <3>1, <3>2, <3>3, <3>4, <3>5
  <2>13. ASSUME NEW r \in Requests, Wake(r) PROVE TypeInv'
    <3>1. DbTypeOK'
      BY <2>13 DEF Wake, wake, Handler, Status, Present, Live, Terminal, Now, DbTypeOK
    <3>2. WorkTypeOK'
      BY <2>13 DEF Wake, wake, Handler, WorkTypeOK
    <3>3. HandlerTypeOK'
      <4>1. notify' \in BOOLEAN
        BY <2>13, Zenon DEF Wake, wake
      <4> QED BY <2>13, <4>1, HandlerType, EmptySeq DEF Wake, wake, HandlerTypeOK
    <3>4. HistoryTypeOK'
      BY <2>13 DEF Wake, wake, Handler, HistoryTypeOK
    <3>5. Control'
      BY <2>13 DEF Wake, wake, Handler, WorkTypeOK, Control
    <3> QED BY <3>1, <3>2, <3>3, <3>4, <3>5
  <2>14. ASSUME NEW r \in Requests, PostTest(r) PROVE TypeInv'
    <3>1. DbTypeOK'
      <4>1. CASE \E e \in Deliveries, s \in Sources \cup {NoSource}, st \in Status :
                    CreateDelivery(e, s, st)
        BY <2>14, <4>1, CreateType DEF PostTest
      <4>2. CASE UNCHANGED dbVars
        BY <2>14, <4>2 DEF PostTest, DbTypeOK
      <4> QED BY <2>14, <4>1, <4>2 DEF PostTest, Status, Present, Live, Terminal
    <3>2. WorkTypeOK'
      BY <2>14 DEF PostTest, Handler, CreateDelivery, WorkTypeOK
    <3>3. HandlerTypeOK'
      BY <2>14, HandlerType, EmptySeq DEF PostTest, HandlerTypeOK
    <3>4. HistoryTypeOK'
      BY <2>14 DEF PostTest, Handler, CreateDelivery, HistoryTypeOK
    <3>5. Control'
      BY <2>14 DEF PostTest, Handler, CreateDelivery, WorkTypeOK, Control
    <3> QED BY <3>1, <3>2, <3>3, <3>4, <3>5
  <2>15. ASSUME NEW r \in Requests, RecordDropped(r) PROVE TypeInv'
    <3>1. DbTypeOK'
      <4>1. CASE \E e \in Deliveries, s \in Sources \cup {NoSource}, st \in Status :
                    CreateDelivery(e, s, st)
        BY <2>15, <4>1, CreateType DEF RecordDropped
      <4>2. CASE UNCHANGED dbVars
        BY <2>15, <4>2 DEF RecordDropped, DbTypeOK
      <4> QED BY <2>15, <4>1, <4>2 DEF RecordDropped, Status, Present, Live, Terminal
    <3>2. WorkTypeOK'
      BY <2>15 DEF RecordDropped, Handler, CreateDelivery, WorkTypeOK
    <3>3. HandlerTypeOK'
      BY <2>15, HandlerType, EmptySeq DEF RecordDropped, HandlerTypeOK
    <3>4. HistoryTypeOK'
      BY <2>15 DEF RecordDropped, Handler, CreateDelivery, HistoryTypeOK
    <3>5. Control'
      BY <2>15 DEF RecordDropped, Handler, CreateDelivery, WorkTypeOK, Control
    <3> QED BY <3>1, <3>2, <3>3, <3>4, <3>5
  <2>16. ASSUME NEW r \in Requests, NEW d \in Deliveries, Replay(r, d) PROVE TypeInv'
    <3>1. DbTypeOK'
      <4>1. CASE UNCHANGED dbVars
        BY <2>16, <4>1 DEF Replay, ReplayDelivery, DbTypeOK
      <4>2. CASE /\ status' = [status EXCEPT ![d] = "pending"]
                 /\ attempt' = [attempt EXCEPT ![d] = 0]
                 /\ wait' = [wait EXCEPT ![d] = Now] /\ UNCHANGED out
        BY <2>16, <4>2 DEF Replay, ReplayDelivery, DbTypeOK, Status, Present, Live, Now
      <4> QED BY <2>16, <4>1, <4>2, Zenon DEF Replay, ReplayDelivery
    <3>2. WorkTypeOK'
      BY <2>16 DEF Replay, ReplayDelivery, Handler, WorkTypeOK
    <3>3. HandlerTypeOK'
      BY <2>16, HandlerType, EmptySeq DEF Replay, ReplayDelivery, HandlerTypeOK
    <3>4. HistoryTypeOK'
      <4>1. CASE UNCHANGED historyVars
        BY <2>16, <4>1 DEF Replay, ReplayDelivery, HistoryTypeOK
      <4>2. CASE /\ quiet' = [quiet EXCEPT ![d] = 0]
                 /\ replay' = [replay EXCEPT ![d] = IF cur = d THEN "raced" ELSE "owed"]
                 /\ UNCHANGED <<sends, delivered, misread, lost>>
        BY <2>16, <4>2 DEF Replay, ReplayDelivery, HistoryTypeOK
      <4> QED BY <2>16, <4>1, <4>2, Zenon DEF Replay, ReplayDelivery
    <3>5. Control'
      BY <2>16 DEF Replay, ReplayDelivery, Handler, WorkTypeOK, Control
    <3> QED BY <3>1, <3>2, <3>3, <3>4, <3>5
  <2>17. ASSUME NEW d \in Deliveries, DeleteDelivery(d) PROVE TypeInv'
    <3>1. DbTypeOK'
      BY <2>17 DEF DeleteDelivery, Status, Present, Live, Terminal, Now, DbTypeOK
    <3>2. WorkTypeOK'
      BY <2>17 DEF DeleteDelivery, WorkTypeOK
    <3>3. HandlerTypeOK'
      BY <2>17 DEF DeleteDelivery, HandlerTypeOK
    <3>4. HistoryTypeOK'
      BY <2>17 DEF DeleteDelivery, HistoryTypeOK
    <3>5. Control'
      BY <2>17 DEF DeleteDelivery, WorkTypeOK, Control
    <3> QED BY <3>1, <3>2, <3>3, <3>4, <3>5
  <2>18. ASSUME NEW s \in Sources, EditSource(s) PROVE TypeInv'
    <3>1. DbTypeOK'
      BY <2>18 DEF EditSource, Status, Present, Live, Terminal, Now, DbTypeOK
    <3>2. WorkTypeOK'
      BY <2>18 DEF EditSource, WorkTypeOK
    <3>3. HandlerTypeOK'
      BY <2>18 DEF EditSource, HandlerTypeOK
    <3>4. HistoryTypeOK'
      BY <2>18 DEF EditSource, HistoryTypeOK
    <3>5. Control'
      BY <2>18 DEF EditSource, WorkTypeOK, Control
    <3> QED BY <3>1, <3>2, <3>3, <3>4, <3>5
  <2>19. ASSUME SaveSettings PROVE TypeInv'
    <3>1. DbTypeOK'
      BY <2>19 DEF SaveSettings, Status, Present, Live, Terminal, Now, DbTypeOK
    <3>2. WorkTypeOK'
      BY <2>19 DEF SaveSettings, WorkTypeOK
    <3>3. HandlerTypeOK'
      BY <2>19 DEF SaveSettings, HandlerTypeOK
    <3>4. HistoryTypeOK'
      BY <2>19 DEF SaveSettings, HistoryTypeOK
    <3>5. Control'
      BY <2>19 DEF SaveSettings, WorkTypeOK, Control
    <3> QED BY <3>1, <3>2, <3>3, <3>4, <3>5
  <2>20. ASSUME Stop PROVE TypeInv'
    <3>1. DbTypeOK'
      BY <2>20 DEF Stop, Status, Present, Live, Terminal, Now, DbTypeOK
    <3>2. WorkTypeOK'
      BY <2>20 DEF Stop, WorkTypeOK
    <3>3. HandlerTypeOK'
      BY <2>20 DEF Stop, HandlerTypeOK
    <3>4. HistoryTypeOK'
      BY <2>20 DEF Stop, HistoryTypeOK
    <3>5. Control'
      BY <2>20 DEF Stop, WorkTypeOK, Control
    <3> QED BY <3>1, <3>2, <3>3, <3>4, <3>5
  <2>21. ASSUME Exit PROVE TypeInv'
    <3>1. DbTypeOK'
      BY <2>21 DEF Exit, LoseMemory, Status, Present, Live, Terminal, Now, DbTypeOK
    <3>2. WorkTypeOK'
      <4>1. full' \in BOOLEAN
        BY <2>21, Zenon DEF Exit, LoseMemory
      <4> QED BY <2>21, <4>1 DEF Exit, LoseMemory, WorkTypeOK
    <3>3. HandlerTypeOK'
      <4>1. notify' \in BOOLEAN /\ stopping' \in BOOLEAN
        BY <2>21, Zenon DEF Exit, LoseMemory
      <4> QED BY <2>21, <4>1, EmptySeq DEF Exit, LoseMemory, Idle, HandlerTypeOK
    <3>4. HistoryTypeOK'
      BY SMTT(30), <2>21 DEF Exit, LoseMemory, HistoryTypeOK
    <3>5. Control'
      BY <2>21 DEF Exit, LoseMemory, WorkTypeOK, Control
    <3> QED BY <3>1, <3>2, <3>3, <3>4, <3>5
  <2>22. ASSUME Crash PROVE TypeInv'
    <3>1. DbTypeOK'
      BY <2>22 DEF Crash, LoseMemory, Status, Present, Live, Terminal, Now, DbTypeOK
    <3>2. WorkTypeOK'
      <4>1. full' \in BOOLEAN
        BY <2>22, Zenon DEF Crash, LoseMemory
      <4> QED BY <2>22, <4>1 DEF Crash, LoseMemory, WorkTypeOK
    <3>3. HandlerTypeOK'
      <4>1. notify' \in BOOLEAN /\ stopping' \in BOOLEAN
        BY <2>22, Zenon DEF Crash, LoseMemory
      <4> QED BY <2>22, <4>1, EmptySeq DEF Crash, LoseMemory, Idle, HandlerTypeOK
    <3>4. HistoryTypeOK'
      <4>1. lost' = [d \in Deliveries |-> IF d = cur THEN lost[d] + 1 ELSE lost[d]]
        BY <2>22 DEF Crash, LoseMemory
      <4>2. lost' \in [Deliveries -> Nat]
        BY <4>1 DEF HistoryTypeOK
      <4>3. crashes' \in 0 .. MaxCrashes
        BY <2>22 DEF Crash, HistoryTypeOK
      <4> QED BY <2>22, <4>2, <4>3 DEF Crash, LoseMemory, HistoryTypeOK
    <3>5. Control'
      BY <2>22 DEF Crash, LoseMemory, WorkTypeOK, Control
    <3> QED BY <3>1, <3>2, <3>3, <3>4, <3>5
  <2>23. ASSUME Restart PROVE TypeInv'
    <3>1. DbTypeOK'
      BY <2>23 DEF Restart, Status, Present, Live, Terminal, Now, DbTypeOK
    <3>2. WorkTypeOK'
      BY <2>23 DEF Restart, WorkTypeOK
    <3>3. HandlerTypeOK'
      BY <2>23 DEF Restart, HandlerTypeOK
    <3>4. HistoryTypeOK'
      BY <2>23 DEF Restart, HistoryTypeOK
    <3>5. Control'
      BY <2>23 DEF Restart, WorkTypeOK, Control
    <3> QED BY <3>1, <3>2, <3>3, <3>4, <3>5
  <2>24. ASSUME Tick PROVE TypeInv'
    <3>1. DbTypeOK'
      BY <2>24 DEF Tick, Countdown, Status, Present, Live, Terminal, Now, DbTypeOK
    <3>2. WorkTypeOK'
      BY <2>24 DEF Tick, Countdown, WorkTypeOK
    <3>3. HandlerTypeOK'
      BY <2>24 DEF Tick, Countdown, HandlerTypeOK
    <3>4. HistoryTypeOK'
      BY <2>24 DEF Tick, Countdown, HistoryTypeOK
    <3>5. Control'
      BY <2>24 DEF Tick, Countdown, WorkTypeOK, Control
    <3> QED BY <3>1, <3>2, <3>3, <3>4, <3>5
  <2>25. ASSUME UNCHANGED vars PROVE TypeInv'
    BY <2>25 DEF vars, DbTypeOK, WorkTypeOK, HandlerTypeOK, HistoryTypeOK, Control
  <2> QED
    BY <2>1, <2>2, <2>3, <2>4, <2>5, <2>6, <2>7, <2>8, <2>9, <2>10, <2>11, <2>12, <2>13, <2>14, <2>15, <2>16, <2>17, <2>18, <2>19, <2>20, <2>21, <2>22, <2>23, <2>24, <2>25
    DEF Next, Worker, Select, Admin, Handlers, Process
<1> QED BY <1>1, <1>2, PTL DEF SafeSpec

\* Every reachable state of the engine is well typed: no interleaving of the
\* worker with handlers, faults and crashes takes a column, a channel or a
\* counter out of its range.
THEOREM TypeSafe == SafeSpec => []TypeOK
  BY TypeCorrect, PTL DEF TypeInv

-----------------------------------------------------------------------------
(* What is inductive with IInv, and what follows from it                   *)

\* A step leaves no settled record in the worker's hands: ReadDue takes unfinished
\* ones only, and whoever settles a record lets go of it.
LEMMA WorkLiveStep ==
  ASSUME TypeInv, WorkLive, [Next]_vars
  PROVE  WorkLive'
<1> USE DeliveryAssumption DEF TypeInv, TypeOK, DbTypeOK, WorkTypeOK, Control, Status, Present,
    Live, Terminal, Now, dbVars, configVars, workVars, historyVars, WorkLive
<1>1. CASE UNCHANGED <<status, batch, cur>>
  BY <1>1
<1>2. ASSUME UNCHANGED vars \/ BatchDone \/ Send \/ Notified \/ Poll \/ Halt \/
             (\E r \in Requests : Submit(r)) \/ (\E r \in Requests : Wake(r)) \/
             (\E s \in Sources : EditSource(s)) \/ SaveSettings \/ Stop \/ Restart \/ Tick
      PROVE  UNCHANGED <<status, batch, cur>>
  BY <1>2 DEF vars, BatchDone, Send, Notified, StartDrain, Poll, Halt, Submit, Handler, Wake, wake,
      EditSource, SaveSettings, Stop, Restart, Tick, Countdown
<1>3. ASSUME ReadDue PROVE WorkLive'
  <2>1. CASE UNCHANGED batch
    BY <1>3, <2>1 DEF ReadDue, MoreRounds
  <2>2. CASE \E B \in SUBSET Due : batch' = B
    BY <1>3, <2>2 DEF ReadDue, MoreRounds, Due
  <2> QED BY <1>3, <2>1, <2>2 DEF ReadDue, MoreRounds, DueDeliveries
<1>4. ASSUME Record PROVE WorkLive'
  BY <1>4 DEF Record, Result, UpdateDelivery
<1>5. ASSUME NEW d \in Deliveries, Bury(d) PROVE WorkLive'
  BY <1>5 DEF Bury, UpdateDelivery, Release
<1>6. ASSUME NEW d \in Deliveries, Skip(d) PROVE WorkLive'
  BY <1>6 DEF Skip, Release
<1>7. ASSUME NEW d \in Deliveries, Claim(d) PROVE WorkLive'
  BY <1>7 DEF Claim, ClaimDelivery
<1>8. ASSUME NEW r \in Requests, FanOut(r) PROVE WorkLive'
  BY <1>8 DEF FanOut, Handler, CreateDelivery
<1>9. ASSUME NEW r \in Requests, PostTest(r) PROVE WorkLive'
  BY <1>9 DEF PostTest, Handler, CreateDelivery
<1>10. ASSUME NEW r \in Requests, RecordDropped(r) PROVE WorkLive'
  BY <1>10 DEF RecordDropped, Handler, CreateDelivery
<1>11. ASSUME NEW r \in Requests, NEW d \in Deliveries, Replay(r, d) PROVE WorkLive'
  BY <1>11 DEF Replay, ReplayDelivery, Handler
<1>12. ASSUME NEW d \in Deliveries, DeleteDelivery(d) PROVE WorkLive'
  BY <1>12 DEF DeleteDelivery
<1>13. ASSUME Exit PROVE WorkLive'
  BY <1>13 DEF Exit, LoseMemory
<1>14. ASSUME Crash PROVE WorkLive'
  BY <1>14 DEF Crash, LoseMemory
<1> QED BY <1>1, <1>2, <1>3, <1>4, <1>5, <1>6, <1>7, <1>8, <1>9, <1>10, <1>11, <1>12, <1>13,
      <1>14
        DEF Next, Worker, Select, Admin, Handlers, Process

\* A step keeps the copies in step with their rows and counts every send first.
LEMMA AccountStep ==
  ASSUME TypeInv, WorkLive, AccountInv, [Next]_vars
  PROVE  AccountInv'
<1> USE DeliveryAssumption DEF TypeInv, TypeOK, DbTypeOK, WorkTypeOK, HistoryTypeOK, Control,
    WorkLive, Held, Status, Present, Live, Terminal, Now, dbVars, configVars, workVars,
    historyVars, AccountInv
<1>1. CASE UNCHANGED <<status, attempt, batch, cur, snap, pc, sends, replay>>
  BY <1>1
<1>2. ASSUME UNCHANGED vars \/ (\E r \in Requests : Submit(r)) \/ (\E r \in Requests : Wake(r)) \/
             (\E s \in Sources : EditSource(s)) \/ SaveSettings \/ Stop \/ Tick
      PROVE  UNCHANGED <<status, attempt, batch, cur, snap, pc, sends, replay>>
  BY <1>2 DEF vars, Submit, Handler, Wake, wake, EditSource, SaveSettings, Stop, Tick, Countdown
<1>3. ASSUME ReadDue PROVE AccountInv'
  BY <1>3 DEF ReadDue, MoreRounds, DueDeliveries
<1>4. ASSUME BatchDone PROVE AccountInv'
  BY <1>4 DEF BatchDone
<1>5. ASSUME Send PROVE AccountInv'
  <2>1. cur \in Deliveries /\ cur \notin batch
    BY <1>5 DEF Send
  <2>2. sends' = sends \/ sends' = [sends EXCEPT ![cur] = @ + 1]
    BY <1>5, Zenon DEF Send
  <2>3. /\ pc = "send" /\ pc' = "record"
        /\ UNCHANGED <<status, attempt, batch, snap, cur, replay>>
    BY <1>5 DEF Send
  <2> QED BY <2>1, <2>2, <2>3
<1>6. ASSUME Record PROVE AccountInv'
  <2>1. /\ cur \in Deliveries /\ cur \notin batch /\ cur' = NoDelivery /\ pc' = "next"
        /\ snap' = [snap EXCEPT ![cur] = 0] /\ UNCHANGED <<batch, sends, replay>>
    BY <1>6 DEF Record, Result
  <2>2. CASE UNCHANGED dbVars
    BY <2>1, <2>2
  <2>3. CASE /\ status[cur] \in Present
             /\ \E st \in Present : status' = [status EXCEPT ![cur] = st]
             /\ attempt' = [attempt EXCEPT ![cur] = snap[cur]]
    BY <2>1, <2>3
  <2> QED BY <1>6, <2>2, <2>3 DEF Record, Result, UpdateDelivery
<1>7. ASSUME NEW d \in Deliveries, Bury(d) PROVE AccountInv'
  <2>1. /\ d \in batch /\ batch' = batch \ {d} /\ snap' = [snap EXCEPT ![d] = 0]
        /\ UNCHANGED <<cur, pc, sends>>
        /\ replay' = [replay EXCEPT ![d] = IF @ = "never" THEN @ ELSE "taken"]
    BY <1>7 DEF Bury, Release
  <2>2. CASE UNCHANGED dbVars
    BY <2>1, <2>2
  <2>3. CASE /\ status[d] \in Present
             /\ status' = [status EXCEPT ![d] = "dead"] /\ attempt' = [attempt EXCEPT ![d] = snap[d]]
    BY <2>1, <2>3
  <2> QED BY <1>7, <2>2, <2>3, Zenon DEF Bury, UpdateDelivery
<1>8. ASSUME NEW d \in Deliveries, Skip(d) PROVE AccountInv'
  BY <1>8 DEF Skip, Release
<1>9. ASSUME NEW d \in Deliveries, Claim(d) PROVE AccountInv'
  BY SMTT(30), <1>9 DEF Claim, ClaimDelivery
<1>10. ASSUME Notified PROVE AccountInv'
  BY <1>10 DEF Notified, StartDrain
<1>11. ASSUME Poll PROVE AccountInv'
  BY <1>11 DEF Poll, StartDrain
<1>12. ASSUME Halt PROVE AccountInv'
  BY <1>12 DEF Halt
<1>13. ASSUME NEW r \in Requests, FanOut(r) PROVE AccountInv'
  <2>1. UNCHANGED <<batch, cur, snap, pc, sends, replay>>
    BY <1>13 DEF FanOut
  <2>2. CASE UNCHANGED dbVars
    BY <2>1, <2>2
  <2>3. CASE \E d \in Deliveries : /\ status[d] = "none"
                                  /\ status' = [status EXCEPT ![d] = "pending"]
                                  /\ attempt' = [attempt EXCEPT ![d] = 0]
    <3>1. PICK d \in Deliveries : /\ status[d] = "none"
                                  /\ status' = [status EXCEPT ![d] = "pending"]
                                  /\ attempt' = [attempt EXCEPT ![d] = 0]
      BY <2>3
    <3>2. \A e \in Deliveries \ {d} : status'[e] = status[e] /\ attempt'[e] = attempt[e]
      BY <3>1
    <3>3. sends[d] = 0 /\ ~Held(d) /\ status'[d] = "pending" /\ attempt'[d] = 0
      BY <3>1
    <3> QED BY <2>1, <3>1, <3>2, <3>3
  <2> QED BY <1>13, <2>2, <2>3 DEF FanOut, CreateDelivery
<1>14. ASSUME NEW r \in Requests, PostTest(r) PROVE AccountInv'
  <2>1. UNCHANGED <<batch, cur, snap, pc, sends, replay>>
    BY <1>14 DEF PostTest
  <2>2. CASE UNCHANGED dbVars
    BY <2>1, <2>2
  <2>3. CASE \E d \in Deliveries : /\ status[d] = "none"
                                  /\ status' = [status EXCEPT ![d] = "pending"]
                                  /\ attempt' = [attempt EXCEPT ![d] = 0]
    <3>1. PICK d \in Deliveries : /\ status[d] = "none"
                                  /\ status' = [status EXCEPT ![d] = "pending"]
                                  /\ attempt' = [attempt EXCEPT ![d] = 0]
      BY <2>3
    <3>2. \A e \in Deliveries \ {d} : status'[e] = status[e] /\ attempt'[e] = attempt[e]
      BY <3>1
    <3>3. sends[d] = 0 /\ ~Held(d) /\ status'[d] = "pending" /\ attempt'[d] = 0
      BY <3>1
    <3> QED BY <2>1, <3>1, <3>2, <3>3
  <2> QED BY <1>14, <2>2, <2>3 DEF PostTest, CreateDelivery
<1>15. ASSUME NEW r \in Requests, RecordDropped(r) PROVE AccountInv'
  <2>1. UNCHANGED <<batch, cur, snap, pc, sends, replay>>
    BY <1>15 DEF RecordDropped
  <2>2. CASE UNCHANGED dbVars
    BY <2>1, <2>2
  <2>3. CASE \E d \in Deliveries : /\ status[d] = "none"
                                  /\ status' = [status EXCEPT ![d] = "dropped"]
                                  /\ attempt' = [attempt EXCEPT ![d] = 0]
    <3>1. PICK d \in Deliveries : /\ status[d] = "none"
                                  /\ status' = [status EXCEPT ![d] = "dropped"]
                                  /\ attempt' = [attempt EXCEPT ![d] = 0]
      BY <2>3
    <3>2. \A e \in Deliveries \ {d} : status'[e] = status[e] /\ attempt'[e] = attempt[e]
      BY <3>1
    <3>3. sends[d] = 0 /\ ~Held(d) /\ status'[d] = "dropped" /\ attempt'[d] = 0
      BY <3>1
    <3> QED BY <2>1, <3>1, <3>2, <3>3
  <2> QED BY <1>15, <2>2, <2>3 DEF RecordDropped, CreateDelivery
<1>16. ASSUME NEW r \in Requests, NEW d \in Deliveries, Replay(r, d) PROVE AccountInv'
  <2>1. UNCHANGED <<batch, cur, snap, pc, elapsed>>
    BY <1>16 DEF Replay, ReplayDelivery
  <2>2. CASE UNCHANGED <<dbVars, historyVars>>
    BY <2>1, <2>2
  <2>3. CASE /\ status[d] \in Present /\ UNCHANGED sends
             /\ status' = [status EXCEPT ![d] = "pending"]
             /\ attempt' = [attempt EXCEPT ![d] = 0] /\ wait' = [wait EXCEPT ![d] = Now]
             /\ replay' = [replay EXCEPT ![d] = IF cur = d THEN "raced" ELSE "owed"]
    BY <2>1, <2>3
  <2> QED BY <1>16, <2>2, <2>3, Zenon DEF Replay, ReplayDelivery
<1>17. ASSUME NEW d \in Deliveries, DeleteDelivery(d) PROVE AccountInv'
  BY <1>17 DEF DeleteDelivery
<1>18. ASSUME Exit PROVE AccountInv'
  BY <1>18 DEF Exit, LoseMemory
<1>19. ASSUME Crash PROVE AccountInv'
  BY <1>19 DEF Crash, LoseMemory
<1>20. ASSUME Restart PROVE AccountInv'
  BY <1>20 DEF Restart
<1> QED BY <1>1, <1>2, <1>3, <1>4, <1>5, <1>6, <1>7, <1>8, <1>9, <1>10, <1>11, <1>12, <1>13,
      <1>14, <1>15, <1>16, <1>17, <1>18, <1>19, <1>20
        DEF Next, Worker, Select, Admin, Handlers, Process

\* A step keeps an attempt in hand for every unfinished record: only a send whose
\* result is lost uses one up that the limit does not see.
LEMMA BoundStep ==
  ASSUME TypeInv, WorkLive, BoundInv, [Next]_vars
  PROVE  BoundInv'
<1> USE DEF WorkLive, Status, Present, Live, Terminal, dbVars, configVars, workVars, historyVars,
    BoundInv
<1>0. /\ status \in [Deliveries -> Status] /\ attempt \in [Deliveries -> Nat]
      /\ snap \in [Deliveries -> Nat] /\ lost \in [Deliveries -> Nat]
      /\ RetryCap \in Nat \ {0} /\ limit \in 0 .. RetryCap
      /\ cur \in Deliveries \cup {NoDelivery} /\ NoDelivery \notin Deliveries
      /\ batch \subseteq Deliveries /\ cur \notin batch
      /\ cur \in Deliveries <=> pc \in {"send", "record"}
  BY DeliveryAssumption DEF TypeInv, TypeOK, DbTypeOK, WorkTypeOK, HistoryTypeOK, Control
<1>1. CASE UNCHANGED <<status, attempt, batch, cur, snap, lost>>
  BY <1>0, <1>1
<1>2. ASSUME UNCHANGED vars \/ (\E r \in Requests : Submit(r)) \/ (\E r \in Requests : Wake(r)) \/
             (\E s \in Sources : EditSource(s)) \/ SaveSettings \/ Stop \/ Halt \/ Notified \/
             Poll \/ Restart \/ BatchDone \/ Send \/ Tick
      PROVE  UNCHANGED <<status, attempt, batch, cur, snap, lost>>
  BY <1>0, <1>2 DEF vars, Submit, Handler, Wake, wake, EditSource, SaveSettings, Stop, Halt, Notified,
      StartDrain, Poll, Restart, BatchDone, Send, Tick, Countdown
<1>3. ASSUME ReadDue PROVE BoundInv'
  <2>1. pc = "drain" /\ cur \notin Deliveries /\ UNCHANGED <<status, attempt, cur, lost>>
    BY <1>0, <1>3 DEF ReadDue, MoreRounds
  <2>2. CASE UNCHANGED <<batch, snap>>
    BY <1>0, <2>1, <2>2
  <2>3. CASE \E B \in SUBSET Due : /\ batch' = B
                                  /\ snap' = [d \in Deliveries |-> IF d \in B THEN attempt[d] ELSE 0]
    BY <1>0, <2>1, <2>3 DEF Due
  <2> QED BY <1>0, <1>3, <2>2, <2>3 DEF ReadDue, MoreRounds, DueDeliveries
<1>4. ASSUME Record PROVE BoundInv'
  <2>1. /\ cur \in Deliveries /\ cur \notin batch /\ limit <= RetryCap
        /\ cur' = NoDelivery /\ snap' = [snap EXCEPT ![cur] = 0] /\ UNCHANGED batch
    BY <1>0, <1>4 DEF Record, Result
  <2>2. CASE \/ lost' = [lost EXCEPT ![cur] = @ + 1] /\ UNCHANGED dbVars
             \/ status[cur] \notin Present /\ UNCHANGED <<lost, dbVars>>
    BY <1>0, <2>1, <2>2
  <2>3. CASE /\ UNCHANGED lost /\ status[cur] \in Present
             /\ attempt' = [attempt EXCEPT ![cur] = snap[cur]]
             /\ \/ snap[cur] < limit /\ status' = [status EXCEPT ![cur] = "failed"]
                \/ \E st \in Terminal : status' = [status EXCEPT ![cur] = st]
    <3>1. \A d \in Deliveries \ {cur} : UNCHANGED <<status[d], attempt[d], lost[d], snap[d]>>
      BY <1>0, <2>1, <2>3
    <3>2. snap[cur] < limit \/ status'[cur] \in Terminal
      BY <1>0, <2>1, <2>3
    <3>3. attempt'[cur] = snap[cur] /\ snap[cur] <= RetryCap + lost[cur]
      BY <1>0, <2>1, <2>3
    <3> QED BY <1>0, <2>1, <2>3, <3>1, <3>2, <3>3
  <2>4. \/ lost' = [lost EXCEPT ![cur] = @ + 1] /\ UNCHANGED dbVars
        \/ /\ UNCHANGED lost
           /\ \/ UpdateDelivery(cur, "success", snap[cur], Now)
              \/ UpdateDelivery(cur, "dead", snap[cur], Now)
              \/ /\ snap[cur] < limit
                 /\ UpdateDelivery(cur, "failed", snap[cur], backoff(BackoffBase, snap[cur]))
    BY <1>0, <1>4, <2>1 DEF Record, Result
  <2> QED BY <1>0, <2>2, <2>3, <2>4, Zenon DEF UpdateDelivery, Terminal
<1>5. ASSUME NEW d \in Deliveries, Bury(d) PROVE BoundInv'
  <2>1. /\ d \in batch /\ batch' = batch \ {d} /\ snap' = [snap EXCEPT ![d] = 0]
        /\ UNCHANGED <<cur, lost>>
        
    BY <1>0, <1>5 DEF Bury, Release
  <2>2. CASE UNCHANGED dbVars
    BY <1>0, <2>1, <2>2
  <2>3. CASE /\ status[d] \in Present
             /\ status' = [status EXCEPT ![d] = "dead"] /\ attempt' = [attempt EXCEPT ![d] = snap[d]]
    BY <1>0, <2>1, <2>3
  <2> QED BY <1>0, <1>5, <2>2, <2>3, Zenon DEF Bury, UpdateDelivery
<1>6. ASSUME NEW d \in Deliveries, Skip(d) PROVE BoundInv'
  BY <1>0, <1>6 DEF Skip, Release
<1>7. ASSUME NEW d \in Deliveries, Claim(d) PROVE BoundInv'
  BY <1>0, <1>7 DEF Claim, ClaimDelivery
<1>8. ASSUME NEW r \in Requests, FanOut(r) PROVE BoundInv'
  <2>1. UNCHANGED <<batch, cur, snap, lost>>
    BY <1>0, <1>8 DEF FanOut
  <2>2. CASE UNCHANGED dbVars
    BY <1>0, <2>1, <2>2
  <2>3. CASE \E d \in Deliveries : /\ status[d] = "none"
                                  /\ status' = [status EXCEPT ![d] = "pending"]
                                  /\ attempt' = [attempt EXCEPT ![d] = 0]
                                  /\ wait' = [wait EXCEPT ![d] = Now]
    BY <1>0, <2>1, <2>3
  <2> QED BY <1>0, <1>8, <2>2, <2>3 DEF FanOut, CreateDelivery
<1>9. ASSUME NEW r \in Requests, PostTest(r) PROVE BoundInv'
  <2>1. UNCHANGED <<batch, cur, snap, lost>>
    BY <1>0, <1>9 DEF PostTest
  <2>2. CASE UNCHANGED dbVars
    BY <1>0, <2>1, <2>2
  <2>3. CASE \E d \in Deliveries : /\ status[d] = "none"
                                  /\ status' = [status EXCEPT ![d] = "pending"]
                                  /\ attempt' = [attempt EXCEPT ![d] = 0]
                                  /\ wait' = [wait EXCEPT ![d] = Now]
    BY <1>0, <2>1, <2>3
  <2> QED BY <1>0, <1>9, <2>2, <2>3 DEF PostTest, CreateDelivery
<1>10. ASSUME NEW r \in Requests, RecordDropped(r) PROVE BoundInv'
  <2>1. UNCHANGED <<batch, cur, snap, lost>>
    BY <1>0, <1>10 DEF RecordDropped
  <2>2. CASE UNCHANGED dbVars
    BY <1>0, <2>1, <2>2
  <2>3. CASE \E d \in Deliveries : /\ status[d] = "none"
                                  /\ status' = [status EXCEPT ![d] = "dropped"]
                                  /\ attempt' = [attempt EXCEPT ![d] = 0]
                                  /\ wait' = [wait EXCEPT ![d] = Now]
    BY <1>0, <2>1, <2>3
  <2> QED BY <1>0, <1>10, <2>2, <2>3 DEF RecordDropped, CreateDelivery
<1>11. ASSUME NEW r \in Requests, NEW d \in Deliveries, Replay(r, d) PROVE BoundInv'
  <2>1. RetryCap > 0 /\ UNCHANGED <<batch, cur, snap, lost>>
    BY <1>0, <1>11 DEF Replay, ReplayDelivery
  <2>2. CASE UNCHANGED dbVars
    BY <1>0, <2>1, <2>2
  <2>3. CASE /\ status[d] \in Present
             /\ status' = [status EXCEPT ![d] = "pending"] /\ attempt' = [attempt EXCEPT ![d] = 0]
    BY <1>0, <2>1, <2>3
  <2> QED BY <1>0, <1>11, <2>2, <2>3, Zenon DEF Replay, ReplayDelivery
<1>12. ASSUME NEW d \in Deliveries, DeleteDelivery(d) PROVE BoundInv'
  BY <1>0, <1>12 DEF DeleteDelivery
<1>13. ASSUME Exit PROVE BoundInv'
  BY <1>0, <1>13 DEF Exit, LoseMemory
<1>14. ASSUME Crash PROVE BoundInv'
  <2>1. /\ cur' = NoDelivery /\ batch' = {} /\ UNCHANGED <<status, attempt>>
        /\ lost' = [d \in Deliveries |-> IF d = cur THEN lost[d] + 1 ELSE lost[d]]
    BY <1>0, <1>14 DEF Crash, LoseMemory
  <2> QED BY <1>0, <2>1
<1> QED BY <1>1, <1>2, <1>3, <1>4, <1>5, <1>6, <1>7, <1>8, <1>9, <1>10, <1>11, <1>12, <1>13,
      <1>14
        DEF Next, Worker, Select, Admin, Handlers, Process

\* A replay is owed only while the worker is not at that record.
LEMMA ReplayStep ==
  ASSUME TypeInv, WorkLive, ReplayInv, [Next]_vars
  PROVE  ReplayInv'
<1> USE DeliveryAssumption DEF TypeInv, TypeOK, DbTypeOK, WorkTypeOK, HistoryTypeOK, Control,
    ReplayTaken, WorkLive, Status, Present, Live, Terminal, Now, dbVars, configVars, workVars,
    historyVars, ReplayInv
<1>1. CASE UNCHANGED <<status, batch, cur, replay>>
  BY <1>1
<1>2. ASSUME UNCHANGED vars \/ BatchDone \/ Send \/ Notified \/ Poll \/ Halt \/
             (\E r \in Requests : Submit(r)) \/ (\E r \in Requests : Wake(r)) \/
             (\E s \in Sources : EditSource(s)) \/ SaveSettings \/ Stop \/ Restart \/ Tick
      PROVE  UNCHANGED <<status, batch, cur, replay>>
  BY <1>2 DEF vars, BatchDone, Send, Notified, StartDrain, Poll, Halt, Submit, Handler, Wake, wake,
      EditSource, SaveSettings, Stop, Restart, Tick, Countdown
<1>3. ASSUME ReadDue PROVE ReplayInv'
  BY <1>3 DEF ReadDue, MoreRounds, DueDeliveries
<1>4. ASSUME Record PROVE ReplayInv'
  <2>1. /\ cur \in Deliveries /\ cur \notin batch /\ cur' = NoDelivery /\ pc' = "next"
        /\ snap' = [snap EXCEPT ![cur] = 0] /\ UNCHANGED <<batch, sends, replay>>
    BY <1>4 DEF Record, Result
  <2>2. CASE UNCHANGED dbVars
    BY <2>1, <2>2
  <2>3. CASE /\ status[cur] \in Present
             /\ \E st \in Present : status' = [status EXCEPT ![cur] = st]
             /\ attempt' = [attempt EXCEPT ![cur] = snap[cur]]
    BY <2>1, <2>3
  <2> QED BY <1>4, <2>2, <2>3 DEF Record, Result, UpdateDelivery
<1>5. ASSUME NEW d \in Deliveries, Bury(d) PROVE ReplayInv'
  BY <1>5 DEF Bury, UpdateDelivery, Release
<1>6. ASSUME NEW d \in Deliveries, Skip(d) PROVE ReplayInv'
  BY <1>6 DEF Skip, Release
<1>7. ASSUME NEW d \in Deliveries, Claim(d) PROVE ReplayInv'
  BY <1>7 DEF Claim, ClaimDelivery
<1>8. ASSUME NEW r \in Requests, FanOut(r) PROVE ReplayInv'
  BY <1>8 DEF FanOut, Handler, CreateDelivery
<1>9. ASSUME NEW r \in Requests, PostTest(r) PROVE ReplayInv'
  BY <1>9 DEF PostTest, Handler, CreateDelivery
<1>10. ASSUME NEW r \in Requests, RecordDropped(r) PROVE ReplayInv'
  BY <1>10 DEF RecordDropped, Handler, CreateDelivery
<1>11. ASSUME NEW r \in Requests, NEW d \in Deliveries, Replay(r, d) PROVE ReplayInv'
  <2>1. UNCHANGED <<batch, cur, snap, pc, elapsed>>
    BY <1>11 DEF Replay, ReplayDelivery
  <2>2. CASE UNCHANGED <<dbVars, historyVars>>
    BY <2>1, <2>2
  <2>3. CASE /\ status[d] \in Present /\ UNCHANGED sends
             /\ status' = [status EXCEPT ![d] = "pending"]
             /\ attempt' = [attempt EXCEPT ![d] = 0] /\ wait' = [wait EXCEPT ![d] = Now]
             /\ replay' = [replay EXCEPT ![d] = IF cur = d THEN "raced" ELSE "owed"]
    BY <2>1, <2>3
  <2> QED BY <1>11, <2>2, <2>3, Zenon DEF Replay, ReplayDelivery
<1>12. ASSUME NEW d \in Deliveries, DeleteDelivery(d) PROVE ReplayInv'
  BY <1>12 DEF DeleteDelivery
<1>13. ASSUME Exit PROVE ReplayInv'
  BY <1>13 DEF Exit, LoseMemory
<1>14. ASSUME Crash PROVE ReplayInv'
  BY <1>14 DEF Crash, LoseMemory
<1> QED BY <1>1, <1>2, <1>3, <1>4, <1>5, <1>6, <1>7, <1>8, <1>9, <1>10, <1>11, <1>12, <1>13,
      <1>14
        DEF Next, Worker, Select, Admin, Handlers, Process

\* While a message is under way its lease runs down as the send's time runs up.
LEMMA LeaseStep ==
  ASSUME TypeInv, WorkLive, LeaseInv, [Next]_vars
  PROVE  LeaseInv'
<1> USE DeliveryAssumption DEF TypeInv, TypeOK, DbTypeOK, WorkTypeOK, HistoryTypeOK, Control,
    WorkLive, Status, Present, Live, Terminal, Now, dbVars, configVars, workVars, historyVars,
    LeaseInv
<1>1. CASE UNCHANGED <<pc, status, cur, replay, wait, elapsed>>
  BY <1>1
<1>2. ASSUME UNCHANGED vars \/ (\E r \in Requests : Submit(r)) \/ (\E r \in Requests : Wake(r)) \/
             (\E s \in Sources : EditSource(s)) \/ SaveSettings \/ Stop
      PROVE  UNCHANGED <<pc, status, cur, replay, wait, elapsed>>
  BY <1>2 DEF vars, Submit, Handler, Wake, wake, EditSource, SaveSettings, Stop
<1>3. ASSUME ReadDue PROVE LeaseInv'
  BY <1>3 DEF ReadDue, MoreRounds, DueDeliveries
<1>4. ASSUME BatchDone PROVE LeaseInv'
  BY <1>4 DEF BatchDone
<1>5. ASSUME Send PROVE LeaseInv'
  BY <1>5 DEF Send
<1>6. ASSUME Record PROVE LeaseInv'
  BY <1>6 DEF Record, Result, UpdateDelivery
<1>7. ASSUME NEW d \in Deliveries, Bury(d) PROVE LeaseInv'
  BY <1>7 DEF Bury, UpdateDelivery, Release
<1>8. ASSUME NEW d \in Deliveries, Skip(d) PROVE LeaseInv'
  BY <1>8 DEF Skip, Release
<1>9. ASSUME NEW d \in Deliveries, Claim(d) PROVE LeaseInv'
  BY <1>9 DEF Claim, ClaimDelivery
<1>10. ASSUME Notified PROVE LeaseInv'
  BY <1>10 DEF Notified, StartDrain
<1>11. ASSUME Poll PROVE LeaseInv'
  BY <1>11 DEF Poll, StartDrain
<1>12. ASSUME Halt PROVE LeaseInv'
  BY <1>12 DEF Halt
<1>13. ASSUME NEW r \in Requests, FanOut(r) PROVE LeaseInv'
  <2>1. UNCHANGED <<pc, cur, replay, elapsed>>
    BY <1>13 DEF FanOut
  <2>2. CASE UNCHANGED dbVars
    BY <2>1, <2>2
  <2>3. CASE \E d \in Deliveries : /\ status[d] = "none"
                                  /\ status' = [status EXCEPT ![d] = "pending"]
                                  /\ attempt' = [attempt EXCEPT ![d] = 0]
                                  /\ wait' = [wait EXCEPT ![d] = Now]
    BY <2>1, <2>3
  <2> QED BY <1>13, <2>2, <2>3 DEF FanOut, CreateDelivery
<1>14. ASSUME NEW r \in Requests, PostTest(r) PROVE LeaseInv'
  <2>1. UNCHANGED <<pc, cur, replay, elapsed>>
    BY <1>14 DEF PostTest
  <2>2. CASE UNCHANGED dbVars
    BY <2>1, <2>2
  <2>3. CASE \E d \in Deliveries : /\ status[d] = "none"
                                  /\ status' = [status EXCEPT ![d] = "pending"]
                                  /\ attempt' = [attempt EXCEPT ![d] = 0]
                                  /\ wait' = [wait EXCEPT ![d] = Now]
    BY <2>1, <2>3
  <2> QED BY <1>14, <2>2, <2>3 DEF PostTest, CreateDelivery
<1>15. ASSUME NEW r \in Requests, RecordDropped(r) PROVE LeaseInv'
  <2>1. UNCHANGED <<pc, cur, replay, elapsed>>
    BY <1>15 DEF RecordDropped
  <2>2. CASE UNCHANGED dbVars
    BY <2>1, <2>2
  <2>3. CASE \E d \in Deliveries : /\ status[d] = "none"
                                  /\ status' = [status EXCEPT ![d] = "dropped"]
                                  /\ attempt' = [attempt EXCEPT ![d] = 0]
                                  /\ wait' = [wait EXCEPT ![d] = Now]
    BY <2>1, <2>3
  <2> QED BY <1>15, <2>2, <2>3 DEF RecordDropped, CreateDelivery
<1>16. ASSUME NEW r \in Requests, NEW d \in Deliveries, Replay(r, d) PROVE LeaseInv'
  <2>1. UNCHANGED <<batch, cur, snap, pc, elapsed>>
    BY <1>16 DEF Replay, ReplayDelivery
  <2>2. CASE UNCHANGED <<dbVars, historyVars>>
    BY <2>1, <2>2
  <2>3. CASE /\ status[d] \in Present /\ UNCHANGED sends
             /\ status' = [status EXCEPT ![d] = "pending"]
             /\ attempt' = [attempt EXCEPT ![d] = 0] /\ wait' = [wait EXCEPT ![d] = Now]
             /\ replay' = [replay EXCEPT ![d] = IF cur = d THEN "raced" ELSE "owed"]
    BY <2>1, <2>3
  <2> QED BY <1>16, <2>2, <2>3, Zenon DEF Replay, ReplayDelivery
<1>17. ASSUME NEW d \in Deliveries, DeleteDelivery(d) PROVE LeaseInv'
  BY <1>17 DEF DeleteDelivery
<1>18. ASSUME Exit PROVE LeaseInv'
  BY <1>18 DEF Exit, LoseMemory
<1>19. ASSUME Crash PROVE LeaseInv'
  BY <1>19 DEF Crash, LoseMemory
<1>20. ASSUME Restart PROVE LeaseInv'
  BY <1>20 DEF Restart
<1>21. ASSUME Tick PROVE LeaseInv'
  BY <1>21 DEF Tick, Countdown
<1> QED BY <1>1, <1>2, <1>3, <1>4, <1>5, <1>6, <1>7, <1>8, <1>9, <1>10, <1>11, <1>12, <1>13,
      <1>14, <1>15, <1>16, <1>17, <1>18, <1>19, <1>20, <1>21
        DEF Next, Worker, Select, Admin, Handlers, Process

\* A target's answer is not forgotten before it is recorded.
LEMMA VerdictStep ==
  ASSUME TypeInv, VerdictInv, [Next]_vars
  PROVE  VerdictInv'
<1> USE DeliveryAssumption DEF TypeInv, TypeOK, WorkTypeOK, HistoryTypeOK, Control, dbVars,
    configVars, workVars, historyVars, VerdictInv
<1>1. CASE UNCHANGED <<pc, verdict, cur, delivered, misread>>
  BY <1>1
<1>2. ASSUME UNCHANGED vars \/ (\E r \in Requests : Submit(r)) \/
             (\E r \in Requests : FanOut(r)) \/ (\E r \in Requests : Wake(r)) \/
             (\E r \in Requests : PostTest(r)) \/ (\E r \in Requests : RecordDropped(r)) \/
             (\E r \in Requests, d \in Deliveries : Replay(r, d)) \/
             (\E d \in Deliveries : DeleteDelivery(d)) \/ (\E s \in Sources : EditSource(s)) \/
             SaveSettings \/ Stop \/ Tick
      PROVE  UNCHANGED <<pc, verdict, cur, delivered, misread>>
  BY <1>2 DEF vars, Submit, Handler, FanOut, CreateDelivery, Wake, wake, PostTest, RecordDropped,
      Replay, DeleteDelivery, EditSource, SaveSettings, Stop, Tick, Countdown
<1>3. ASSUME ReadDue PROVE VerdictInv'
  BY <1>3 DEF ReadDue, MoreRounds, DueDeliveries
<1>4. ASSUME BatchDone PROVE VerdictInv'
  BY <1>4 DEF BatchDone
<1>5. ASSUME Send PROVE VerdictInv'
  BY <1>5 DEF Send
<1>6. ASSUME Record PROVE VerdictInv'
  BY <1>6 DEF Record, Result, UpdateDelivery
<1>7. ASSUME NEW d \in Deliveries, Bury(d) PROVE VerdictInv'
  BY <1>7 DEF Bury, UpdateDelivery, Release
<1>8. ASSUME NEW d \in Deliveries, Skip(d) PROVE VerdictInv'
  BY <1>8 DEF Skip, Release
<1>9. ASSUME NEW d \in Deliveries, Claim(d) PROVE VerdictInv'
  BY <1>9 DEF Claim, ClaimDelivery
<1>10. ASSUME Notified PROVE VerdictInv'
  BY <1>10 DEF Notified, StartDrain
<1>11. ASSUME Poll PROVE VerdictInv'
  BY <1>11 DEF Poll, StartDrain
<1>12. ASSUME Halt PROVE VerdictInv'
  BY <1>12 DEF Halt
<1>13. ASSUME Exit PROVE VerdictInv'
  BY <1>13 DEF Exit, LoseMemory
<1>14. ASSUME Crash PROVE VerdictInv'
  BY <1>14 DEF Crash, LoseMemory
<1>15. ASSUME Restart PROVE VerdictInv'
  BY <1>15 DEF Restart
<1> QED BY <1>1, <1>2, <1>3, <1>4, <1>5, <1>6, <1>7, <1>8, <1>9, <1>10, <1>11, <1>12, <1>13,
      <1>14, <1>15
        DEF Next, Worker, Select, Admin, Handlers, Process

\* A misread record is there, or was, and keeps its target: ids are not reused.
LEMMA MisreadStep ==
  ASSUME TypeInv, WorkLive, MisreadInv, [Next]_vars
  PROVE  MisreadInv'
<1> DEFINE Kept(d) == status[d] # "none" => status'[d] # "none" /\ out'[d] = out[d]
<1> USE DeliveryAssumption DEF TypeInv, TypeOK, DbTypeOK, WorkTypeOK, HistoryTypeOK, Control,
    Status, Present, Live, Terminal, dbVars, configVars, workVars, historyVars
<1>1. CASE UNCHANGED misread /\ \A d \in Deliveries : Kept(d)
  BY <1>1 DEF MisreadInv
<1>2. ASSUME UNCHANGED vars \/ BatchDone \/ Notified \/ Poll \/ Halt \/
             (\E r \in Requests : Submit(r)) \/ (\E r \in Requests : Wake(r)) \/
             (\E s \in Sources : EditSource(s)) \/ SaveSettings \/ Stop \/ Restart \/ Tick \/
             ReadDue \/ (\E d \in Deliveries : Skip(d)) \/ (\E d \in Deliveries : Claim(d)) \/
             Exit \/ Crash
      PROVE  UNCHANGED <<status, out, misread>>
  BY <1>2 DEF vars, BatchDone, Notified, StartDrain, Poll, Halt, Submit, Handler, Wake, wake,
      EditSource, SaveSettings, Stop, Restart, Tick, Countdown, ReadDue, DueDeliveries, Skip,
      Release, Claim, ClaimDelivery, Exit, LoseMemory, Crash
<1>3. ASSUME Send PROVE MisreadInv'
  <2>1. cur \in Deliveries /\ status[cur] # "none" /\ UNCHANGED <<status, out>>
    BY <1>3 DEF Send, WorkLive
  <2>2. \/ misread' = misread
        \/ misread' = misread \cup {cur} /\ out[cur] \in Lax
    BY <1>3 DEF Send
  <2> QED BY <2>1, <2>2 DEF MisreadInv
<1>4. ASSUME Record PROVE UNCHANGED misread /\ \A d \in Deliveries : Kept(d)
  BY <1>4 DEF Record, Result, UpdateDelivery
<1>5. ASSUME NEW e \in Deliveries, Bury(e) PROVE UNCHANGED misread /\ \A d \in Deliveries : Kept(d)
  BY <1>5 DEF Bury, UpdateDelivery
<1>6. ASSUME NEW r \in Requests, FanOut(r) PROVE UNCHANGED misread /\ \A d \in Deliveries : Kept(d)
  BY <1>6 DEF FanOut, CreateDelivery
<1>7. ASSUME NEW r \in Requests, PostTest(r) PROVE UNCHANGED misread /\ \A d \in Deliveries : Kept(d)
  BY <1>7 DEF PostTest, CreateDelivery
<1>8. ASSUME NEW r \in Requests, RecordDropped(r) PROVE UNCHANGED misread /\ \A d \in Deliveries : Kept(d)
  BY <1>8 DEF RecordDropped, CreateDelivery
<1>9. ASSUME NEW r \in Requests, NEW e \in Deliveries, Replay(r, e)
      PROVE  UNCHANGED misread /\ \A d \in Deliveries : Kept(d)
  BY <1>9 DEF Replay, ReplayDelivery
<1>10. ASSUME NEW e \in Deliveries, DeleteDelivery(e)
       PROVE  UNCHANGED misread /\ \A d \in Deliveries : Kept(d)
  BY <1>10 DEF DeleteDelivery
<1>11. UNCHANGED <<status, out, misread>> => UNCHANGED misread /\ \A d \in Deliveries : Kept(d)
  OBVIOUS
<1> HIDE DEF Kept
<1> QED BY <1>1, <1>2, <1>3, <1>4, <1>5, <1>6, <1>7, <1>8, <1>9, <1>10, <1>11
        DEF Next, Worker, Select, Admin, Handlers, Process

\* A step changes a settled record only by deleting or replaying it: the worker's
\* writes go to records it still holds, and those are unfinished.
LEMMA SettledStep ==
  ASSUME TypeInv, WorkLive, [Next]_vars
  PROVE  SettledUnlessReplayed
<1> USE DeliveryAssumption DEF TypeInv, TypeOK, DbTypeOK, WorkTypeOK, HistoryTypeOK, Control,
    WorkLive, Status, Present, Live, Terminal, dbVars, configVars, workVars, historyVars,
    SettledUnlessReplayed
<1>1. CASE UNCHANGED <<status, attempt>>
  BY <1>1
<1>2. ASSUME UNCHANGED vars \/ BatchDone \/ Notified \/ Poll \/ Halt \/
             (\E r \in Requests : Submit(r)) \/ (\E r \in Requests : Wake(r)) \/
             (\E s \in Sources : EditSource(s)) \/ SaveSettings \/ Stop \/ Restart \/ Tick \/
             ReadDue \/ (\E d \in Deliveries : Skip(d)) \/ Exit \/ Crash \/ Send
      PROVE  UNCHANGED <<status, attempt>>
  BY <1>2 DEF vars, BatchDone, Notified, StartDrain, Poll, Halt, Submit, Handler, Wake, wake,
      EditSource, SaveSettings, Stop, Restart, Tick, Countdown, ReadDue, DueDeliveries, Skip,
      Release, Exit, LoseMemory, Crash, Send
<1>3. ASSUME Record PROVE SettledUnlessReplayed
  <2>1. cur \in Deliveries /\ status[cur] \in Live \cup {"deleted"}
    BY <1>3 DEF Record, Result
  <2>2. \A d \in Deliveries \ {cur} : UNCHANGED <<status[d], attempt[d]>>
    BY <1>3, <2>1 DEF Record, Result, UpdateDelivery
  <2> QED BY <2>1, <2>2
<1>4. ASSUME NEW d \in Deliveries, Bury(d) PROVE SettledUnlessReplayed
  <2>1. status[d] \in Live \cup {"deleted"}
    BY <1>4 DEF Bury
  <2>2. CASE UNCHANGED dbVars
    BY <2>2
  <2>3. CASE /\ status[d] \in Present
             /\ status' = [status EXCEPT ![d] = "dead"] /\ attempt' = [attempt EXCEPT ![d] = snap[d]]
    BY <2>1, <2>3
  <2> QED BY <1>4, <2>2, <2>3, Zenon DEF Bury, UpdateDelivery
<1>5. ASSUME NEW d \in Deliveries, Claim(d) PROVE SettledUnlessReplayed
  BY <1>5 DEF Claim, ClaimDelivery
<1>6. ASSUME NEW r \in Requests, FanOut(r) PROVE SettledUnlessReplayed
  <2>1. CASE UNCHANGED dbVars
    BY <2>1
  <2>2. CASE \E d \in Deliveries : /\ status[d] = "none"
                                  /\ status' = [status EXCEPT ![d] = "pending"]
                                  /\ attempt' = [attempt EXCEPT ![d] = 0]
    BY <2>2
  <2> QED BY <1>6, <2>1, <2>2 DEF FanOut, CreateDelivery
<1>7. ASSUME NEW r \in Requests, PostTest(r) PROVE SettledUnlessReplayed
  <2>1. CASE UNCHANGED dbVars
    BY <2>1
  <2>2. CASE \E d \in Deliveries : /\ status[d] = "none"
                                  /\ status' = [status EXCEPT ![d] = "pending"]
                                  /\ attempt' = [attempt EXCEPT ![d] = 0]
    BY <2>2
  <2> QED BY <1>7, <2>1, <2>2 DEF PostTest, CreateDelivery
<1>8. ASSUME NEW r \in Requests, RecordDropped(r) PROVE SettledUnlessReplayed
  <2>1. CASE UNCHANGED dbVars
    BY <2>1
  <2>2. CASE \E d \in Deliveries : /\ status[d] = "none"
                                  /\ status' = [status EXCEPT ![d] = "dropped"]
                                  /\ attempt' = [attempt EXCEPT ![d] = 0]
    BY <2>2
  <2> QED BY <1>8, <2>1, <2>2 DEF RecordDropped, CreateDelivery
<1>9. ASSUME NEW r \in Requests, NEW d \in Deliveries, Replay(r, d) PROVE SettledUnlessReplayed
  BY <1>9 DEF Replay, ReplayDelivery, Handler
<1>10. ASSUME NEW d \in Deliveries, DeleteDelivery(d) PROVE SettledUnlessReplayed
  BY <1>10 DEF DeleteDelivery
<1> QED BY <1>1, <1>2, <1>3, <1>4, <1>5, <1>6, <1>7, <1>8, <1>9, <1>10
        DEF Next, Worker, Select, Admin, Handlers, Process

\* Every step of the engine is a step of the abstract life cycle or changes neither
\* the status nor the sets of accepted and of misread messages.
LEMMA LifecycleStep ==
  ASSUME TypeInv, WorkLive, VerdictInv, [Next]_vars
  PROVE  [Lifecycle!Next]_(Lifecycle!lifecycleVars)
<1> USE DeliveryAssumption DEF TypeInv, TypeOK, DbTypeOK, WorkTypeOK, HistoryTypeOK, Control,
    WorkLive, Status, Present, Live, Terminal, Lifecycle!Next, Lifecycle!lifecycleVars,
    Lifecycle!Accept, Lifecycle!Deliver, Lifecycle!Misread, Lifecycle!Settle, Lifecycle!Replay,
    Lifecycle!Remove,
    Lifecycle!Live, Lifecycle!Terminal, dbVars, configVars, workVars, historyVars, VerdictInv
<1>1. CASE UNCHANGED <<status, delivered, misread>>
  BY <1>1
<1>2. ASSUME UNCHANGED vars \/ BatchDone \/ Notified \/ Poll \/ Halt \/
             (\E r \in Requests : Submit(r)) \/ (\E r \in Requests : Wake(r)) \/
             (\E s \in Sources : EditSource(s)) \/ SaveSettings \/ Stop \/ Restart \/ Tick \/
             ReadDue \/ (\E d \in Deliveries : Skip(d)) \/ Exit \/ Crash
      PROVE  UNCHANGED <<status, delivered, misread>>
  BY <1>2 DEF vars, BatchDone, Notified, StartDrain, Poll, Halt, Submit, Handler, Wake, wake,
      EditSource, SaveSettings, Stop, Restart, Tick, Countdown, ReadDue, DueDeliveries, Skip,
      Release, Exit, LoseMemory, Crash
<1>3. ASSUME Send PROVE [Lifecycle!Next]_(Lifecycle!lifecycleVars)
  <2>1. cur \in Deliveries /\ status[cur] \in Live \cup {"deleted"} /\ UNCHANGED status
    BY <1>3 DEF Send
  <2>2. \/ UNCHANGED <<delivered, misread>>
        \/ delivered' = delivered \cup {cur} /\ UNCHANGED misread
        \/ misread' = misread \cup {cur} /\ UNCHANGED delivered
    BY <1>3 DEF Send
  <2>3. CASE UNCHANGED <<delivered, misread>>
    BY <2>1, <2>3
  <2>4. CASE delivered' = delivered \cup {cur} /\ UNCHANGED misread
    <3>1. Lifecycle!Deliver(cur)
      BY <2>1, <2>4
    <3> QED BY <2>1, <3>1
  <2>5. CASE misread' = misread \cup {cur} /\ UNCHANGED delivered
    <3>1. Lifecycle!Misread(cur)
      BY <2>1, <2>5
    <3> QED BY <2>1, <3>1
  <2> QED BY <2>2, <2>3, <2>4, <2>5
<1>4. ASSUME Record PROVE [Lifecycle!Next]_(Lifecycle!lifecycleVars)
  <2>1. cur \in Deliveries /\ UNCHANGED <<delivered, misread>>
        /\ (verdict = "ok" => cur \in delivered \cup misread)
    BY <1>4 DEF Record, Result
  <2>2. CASE UNCHANGED status
    BY <2>1, <2>2
  <2>3. CASE /\ status[cur] \in Live
             /\ \E st \in {"success", "failed", "dead"} :
                  status' = [status EXCEPT ![cur] = st] /\ (st = "success" => verdict = "ok")
    <3>1. Lifecycle!Settle(cur)
      BY <2>1, <2>3
    <3> QED BY <2>1, <3>1
  <2>4. status[cur] \in Present => status[cur] \in Live
    BY <2>1
  <2> QED BY <1>4, <2>2, <2>3, <2>4, Zenon DEF Record, Result, UpdateDelivery
<1>5. ASSUME NEW d \in Deliveries, Bury(d) PROVE [Lifecycle!Next]_(Lifecycle!lifecycleVars)
  <2>1. d \in batch /\ UNCHANGED <<delivered, misread>>
    BY <1>5 DEF Bury
  <2>2. CASE UNCHANGED status
    BY <2>1, <2>2
  <2>3. CASE status[d] \in Present /\ status' = [status EXCEPT ![d] = "dead"]
    <3>1. Lifecycle!Settle(d)
      BY <2>1, <2>3
    <3> QED BY <3>1
  <2> QED BY <1>5, <2>2, <2>3, Zenon DEF Bury, UpdateDelivery
<1>6. ASSUME NEW d \in Deliveries, Claim(d) PROVE [Lifecycle!Next]_(Lifecycle!lifecycleVars)
  BY <1>6 DEF Claim, ClaimDelivery
<1>7. ASSUME NEW r \in Requests, FanOut(r) PROVE [Lifecycle!Next]_(Lifecycle!lifecycleVars)
  <2>1. CASE UNCHANGED dbVars
    BY <1>7, <2>1 DEF FanOut
  <2>2. CASE \E e \in Deliveries : /\ status[e] = "none"
                                  /\ status' = [status EXCEPT ![e] = "pending"]
    <3>1. PICK e \in Deliveries : status[e] = "none" /\ status' = [status EXCEPT ![e] = "pending"]
      BY <2>2
    <3>2. Lifecycle!Accept(e)
      BY <1>7, <3>1 DEF FanOut
    <3> QED BY <3>2
  <2> QED BY <1>7, <2>1, <2>2 DEF FanOut, CreateDelivery
<1>8. ASSUME NEW r \in Requests, PostTest(r) PROVE [Lifecycle!Next]_(Lifecycle!lifecycleVars)
  <2>1. CASE UNCHANGED dbVars
    BY <1>8, <2>1 DEF PostTest
  <2>2. CASE \E e \in Deliveries : /\ status[e] = "none"
                                  /\ status' = [status EXCEPT ![e] = "pending"]
    <3>1. PICK e \in Deliveries : status[e] = "none" /\ status' = [status EXCEPT ![e] = "pending"]
      BY <2>2
    <3>2. Lifecycle!Accept(e)
      BY <1>8, <3>1 DEF PostTest
    <3> QED BY <3>2
  <2> QED BY <1>8, <2>1, <2>2 DEF PostTest, CreateDelivery
<1>9. ASSUME NEW r \in Requests, RecordDropped(r) PROVE [Lifecycle!Next]_(Lifecycle!lifecycleVars)
  <2>1. CASE UNCHANGED dbVars
    BY <1>9, <2>1 DEF RecordDropped
  <2>2. CASE \E e \in Deliveries : /\ status[e] = "none"
                                  /\ status' = [status EXCEPT ![e] = "dropped"]
    <3>1. PICK e \in Deliveries : status[e] = "none" /\ status' = [status EXCEPT ![e] = "dropped"]
      BY <2>2
    <3>2. Lifecycle!Accept(e)
      BY <1>9, <3>1 DEF RecordDropped
    <3> QED BY <3>2
  <2> QED BY <1>9, <2>1, <2>2 DEF RecordDropped, CreateDelivery
<1>10. ASSUME NEW r \in Requests, NEW d \in Deliveries, Replay(r, d) PROVE [Lifecycle!Next]_(Lifecycle!lifecycleVars)
  <2>1. CASE UNCHANGED status
    BY <1>10, <2>1 DEF Replay, ReplayDelivery
  <2>2. CASE status[d] \in Present /\ status' = [status EXCEPT ![d] = "pending"]
    <3>1. Lifecycle!Replay(d)
      BY <1>10, <2>2 DEF Replay, ReplayDelivery
    <3> QED BY <3>1
  <2> QED BY <1>10, <2>1, <2>2, Zenon DEF Replay, ReplayDelivery
<1>11. ASSUME NEW d \in Deliveries, DeleteDelivery(d) PROVE [Lifecycle!Next]_(Lifecycle!lifecycleVars)
  <2>1. Lifecycle!Remove(d)
    BY <1>11 DEF DeleteDelivery
  <2> QED BY <2>1
<1> QED BY <1>1, <1>2, <1>3, <1>4, <1>5, <1>6, <1>7, <1>8, <1>9, <1>10, <1>11
        DEF Next, Worker, Select, Admin, Handlers, Process

\* The inductive invariant holds in every reachable state.
LEMMA Invariant == SafeSpec => []IInv
<1>1. Init => WorkLive /\ AccountInv /\ BoundInv /\ ReplayInv /\ LeaseInv /\ VerdictInv
             /\ MisreadInv
  BY DeliveryAssumption
     DEF Init, WorkLive, AccountInv, BoundInv, ReplayInv, ReplayTaken, LeaseInv, VerdictInv,
         MisreadInv, Held, Present, Live, Terminal
<1>2. TypeInv /\ (WorkLive /\ AccountInv /\ BoundInv /\ ReplayInv /\ LeaseInv /\ VerdictInv
                    /\ MisreadInv) /\ [Next]_vars
      => (WorkLive /\ AccountInv /\ BoundInv /\ ReplayInv /\ LeaseInv /\ VerdictInv /\ MisreadInv)'
  BY WorkLiveStep, AccountStep, BoundStep, ReplayStep, LeaseStep, VerdictStep, MisreadStep
<1> QED BY <1>1, <1>2, TypeCorrect, PTL DEF SafeSpec, IInv

\* The worker never holds a settled record, though its batch is a copy of the
\* table that handlers change under it.
THEOREM WorkLiveSafe == SafeSpec => []WorkLive
  BY Invariant, PTL DEF IInv

\* No message leaves that the table does not account for, crashes and failed
\* writes included.
THEOREM AccountedSafe == SafeSpec => []Accounted
<1>1. IInv => Accounted
  BY DEF IInv, AccountInv, Accounted
<1> QED BY <1>1, Invariant, PTL

\* The attempt column exceeds the retry limit by lost results at most.
THEOREM AttemptBoundSafe == SafeSpec => []AttemptBound
<1>1. IInv => AttemptBound
  BY DEF IInv, BoundInv, AttemptBound
<1> QED BY <1>1, Invariant, PTL

\* A record whose message is under way is never due: the lease outlasts the send.
THEOREM LeaseSafe == SafeSpec => []LeaseHolds
<1>1. IInv => LeaseHolds
  BY DeliveryAssumption DEF IInv, TypeInv, TypeOK, WorkTypeOK, LeaseInv, LeaseHolds
<1> QED BY <1>1, Invariant, PTL

\* A replay of a record that was not being sent is never swallowed.
THEOREM ReplaySafe == SafeSpec => []ReplayTaken
  BY Invariant, PTL DEF IInv, ReplayInv

\* A settled record changes only when the operator deletes or replays it.
THEOREM SettledSafe == SafeSpec => SettledStays
<1>1. IInv /\ [Next]_vars => [SettledUnlessReplayed]_vars
  BY SettledStep DEF IInv
<1> QED BY <1>1, Invariant, PTL DEF SafeSpec, SettledStays

\* The engine implements the life cycle of the log, its safety part: status moves
\* as store/delivery.go draws it, and success is recorded only of messages that were
\* accepted or seemed to be.
THEOREM LifecycleSafe == SafeSpec => LifecycleSafety
<1>1. Init => Lifecycle!Init
  BY DEF Init, Lifecycle!Init
<1>2. IInv /\ [Next]_vars => [Lifecycle!Next]_(Lifecycle!lifecycleVars)
  BY LifecycleStep DEF IInv
<1> QED BY <1>1, <1>2, Invariant, PTL DEF SafeSpec, LifecycleSafety, Lifecycle!SafeSpec

\* In the abstract life cycle success is shown only of what the target took or what
\* was misread.
LEMMA AbstractSuccess == Lifecycle!SafeSpec => []Lifecycle!SuccessTrue
<1> DEFINE Inv == Lifecycle!LifecycleTypeOK /\ Lifecycle!SuccessTrue
<1> USE DEF Lifecycle!LifecycleTypeOK, Lifecycle!SuccessTrue
<1>1. Lifecycle!Init => Inv
  BY DEF Lifecycle!Init, Lifecycle!Status
<1>2. Inv /\ [Lifecycle!Next]_(Lifecycle!lifecycleVars) => Inv'
  <2> SUFFICES ASSUME Inv, [Lifecycle!Next]_(Lifecycle!lifecycleVars) PROVE Inv'
    OBVIOUS
  <2> USE DEF Lifecycle!Status, Lifecycle!Live, Lifecycle!Terminal
  <2>1. ASSUME NEW d \in Deliveries, Lifecycle!Accept(d) PROVE Inv'
    BY <2>1 DEF Lifecycle!Accept
  <2>2. ASSUME NEW d \in Deliveries, Lifecycle!Deliver(d) PROVE Inv'
    BY <2>2 DEF Lifecycle!Deliver
  <2>3. ASSUME NEW d \in Deliveries, Lifecycle!Settle(d) PROVE Inv'
    BY <2>3 DEF Lifecycle!Settle
  <2>4. ASSUME NEW d \in Deliveries, Lifecycle!Replay(d) PROVE Inv'
    BY <2>4 DEF Lifecycle!Replay
  <2>5. ASSUME NEW d \in Deliveries, Lifecycle!Remove(d) PROVE Inv'
    BY <2>5 DEF Lifecycle!Remove
  <2>6. ASSUME NEW d \in Deliveries, Lifecycle!Misread(d) PROVE Inv'
    BY <2>6 DEF Lifecycle!Misread
  <2>7. CASE UNCHANGED Lifecycle!lifecycleVars
    BY <2>7 DEF Lifecycle!lifecycleVars
  <2> QED BY <2>1, <2>2, <2>3, <2>4, <2>5, <2>6, <2>7 DEF Lifecycle!Next
<1>3. Inv => Lifecycle!SuccessTrue
  OBVIOUS
<1> QED BY <1>1, <1>2, <1>3, PTL DEF Lifecycle!SafeSpec

\* The log shows success only of what the target has taken, unless the target is one
\* whose refusal may read as a yes: the engine implements the life cycle, and it
\* misreads lax targets alone.
THEOREM SuccessSafe == SafeSpec => []SuccessTaken
<1>1. IInv /\ Lifecycle!SuccessTrue => SuccessTaken
  BY DEF IInv, MisreadInv, Lifecycle!SuccessTrue, SuccessTaken
<1> QED BY <1>1, Invariant, LifecycleSafe, AbstractSuccess, PTL DEF LifecycleSafety

-----------------------------------------------------------------------------
(* What becomes of a record: what is due at once is noticed (Prompt), what *)
(* is given up is hopeless (DeadJustified), and attempts keep their        *)
(* distance (Spacing).                                                     *)

\* A handler that has yet to wake the worker for what it wrote.
Waking == \E r \in Requests : req[r].at = "fanout" /\ req[r].made > 0

\* What is due at once is about to be read, or in the batch, or the batch was full
\* and the drain goes round again; or somebody has left a token or will; or the
\* drain was cut short.
Noticed(d) ==
  \/ notify \/ Waking \/ faults > 0
  \/ pc \in {"drain", "down", "exited"}
  \/ pc \in {"next", "send", "record"} /\ (full \/ d \in batch)
  \/ pc = "idle" /\ round = MaxRounds

AtOnce(d) == status[d] \in Live /\ wait[d] = Now

PromptInv == \A d \in Deliveries : AtOnce(d) => Noticed(d)

\* The limit an attempt is judged by was in force when it began.
DeadInv == DeadJustified /\ (pc \in {"send", "record"} => limit \in RetryLimits)

Hopeless(d) == \/ out[d] = NoSource
               \/ target[out[d]] = "gone"
               \/ \E n \in RetryLimits : attempt[d] >= n

\* While a record must rest it is not due: the time in its row is no shorter than
\* what is left of the distance, and nothing in the batch has to rest.
QuietInv ==
  \A d \in Deliveries :
    /\ quiet[d] <= Gap
    /\ status[d] = "none" \/ d \in batch => quiet[d] <= 0
    /\ status[d] \in Live => quiet[d] <= 0 \/ quiet[d] <= wait[d]

-----------------------------------------------------------------------------
(* What a step does to the rows *)

Same(d) == /\ status'[d] = status[d] /\ attempt'[d] = attempt[d]
           /\ wait'[d] = wait[d] /\ out'[d] = out[d]
SameBut(d) == \A e \in Deliveries : e # d => Same(e)

LEMMA UpdateEffect ==
  ASSUME DbTypeOK, NEW d \in Deliveries, NEW st, NEW n, NEW w, UpdateDelivery(d, st, n, w)
  PROVE  /\ SameBut(d) /\ UNCHANGED out
         /\ \/ Same(d)
            \/ status[d] \in Present /\ status'[d] = st /\ attempt'[d] = n /\ wait'[d] = w
<1>1. CASE status[d] \in Present
  <2>1. /\ status' = [status EXCEPT ![d] = st] /\ attempt' = [attempt EXCEPT ![d] = n]
        /\ wait' = [wait EXCEPT ![d] = w] /\ out' = out
    BY <1>1 DEF UpdateDelivery
  <2> QED BY <1>1, <2>1 DEF DbTypeOK, SameBut, Same
<1>2. CASE status[d] \notin Present
  BY <1>2 DEF UpdateDelivery, dbVars, SameBut, Same
<1> QED BY <1>1, <1>2

\* The end of an attempt.
LEMMA RecordEffect ==
  ASSUME TypeInv, Record
  PROVE  /\ cur \in Deliveries /\ cur \notin batch /\ snap[cur] \in Nat /\ SameBut(cur)
         /\ pc = "record" /\ pc' = "next" /\ faults \in Nat /\ faults' \in Nat /\ faults' >= faults
         /\ UNCHANGED <<out, target, batch, full, notify, req, quiet>>
         /\ \/ Same(cur)
            \/ status'[cur] = "success"
            \/ status'[cur] = "dead" /\ attempt'[cur] = snap[cur] /\ snap[cur] >= limit
            \/ status'[cur] = "failed" /\ wait'[cur] = backoff(BackoffBase, snap[cur])
<1> USE DEF TypeInv, TypeOK, DbTypeOK, WorkTypeOK, HistoryTypeOK, Control
<1>1. /\ cur \in Deliveries /\ cur \notin batch /\ snap[cur] \in Nat
      /\ pc = "record" /\ pc' = "next" /\ UNCHANGED <<target, batch, full, notify, req, quiet>>
  BY DEF Record, configVars
<1>2. faults \in Nat /\ faults' \in Nat /\ faults' >= faults
  BY DeliveryAssumption DEF Record, Fault, NoFault
<1>3. CASE UNCHANGED dbVars
  <2>1. UNCHANGED out /\ \A d \in Deliveries : Same(d)
    BY <1>3 DEF dbVars, Same
  <2>2. SameBut(cur) /\ Same(cur)
    BY <1>1, <2>1 DEF SameBut
  <2> QED BY <1>1, <1>2, <2>1, <2>2
<1>4. CASE UpdateDelivery(cur, "success", snap[cur], Now)
  BY <1>1, <1>2, <1>4, UpdateEffect
<1>5. CASE snap[cur] >= limit /\ UpdateDelivery(cur, "dead", snap[cur], Now)
  BY <1>1, <1>2, <1>5, UpdateEffect
<1>6. CASE UpdateDelivery(cur, "failed", snap[cur], backoff(BackoffBase, snap[cur]))
  <2>1. /\ SameBut(cur) /\ UNCHANGED out
        /\ Same(cur) \/ (status'[cur] = "failed" /\ wait'[cur] = backoff(BackoffBase, snap[cur]))
    BY <1>1, <1>6, UpdateEffect
  <2> QED BY <1>1, <1>2, <2>1
<1> QED BY <1>3, <1>4, <1>5, <1>6 DEF Record, Result

\* An attempt that is given up before it begins, skipped, or begun.
LEMMA BeginEffect ==
  ASSUME TypeInv, NEW d \in Deliveries, Bury(d) \/ Skip(d) \/ Claim(d)
  PROVE  /\ SameBut(d) /\ pc = "next" /\ pc' \in {"next", "send"} /\ batch' = batch \ {d} /\ d \in batch
         /\ faults \in Nat /\ faults' \in Nat /\ faults' >= faults
         /\ UNCHANGED <<out, target, full, notify, req>>
         /\ \A e \in Deliveries : e # d => quiet'[e] = quiet[e]
         /\ \/ pc' = "next" /\ UNCHANGED quiet /\ Same(d) /\ (faults' > 0 \/ status[d] \notin Present)
            \/ pc' = "next" /\ UNCHANGED quiet /\ status'[d] = "dead" /\ (SourceExists(out[d]) => faults' > 0)
            \/ /\ pc' = "send" /\ status[d] \in Present /\ UNCHANGED status /\ limit' = retryMax
               /\ wait'[d] = Lease /\ quiet'[d] = Gap
<1> USE DEF TypeInv, TypeOK, DbTypeOK, WorkTypeOK, HistoryTypeOK, Control
<1>1. /\ pc = "next" /\ pc' \in {"next", "send"} /\ batch' = batch \ {d} /\ d \in batch
      /\ UNCHANGED <<target, full, notify, req>>
  <2>1. /\ pc = "next" /\ batch' = batch \ {d} /\ d \in batch
        /\ UNCHANGED <<configVars, full, notify, req>>
    BY Zenon DEF Bury, Skip, Claim, Release
  <2>2. pc' = pc \/ pc' = "send"
    BY Zenon DEF Bury, Skip, Claim, Release
  <2> QED BY <2>1, <2>2 DEF configVars
<1>2. faults \in Nat /\ faults' \in Nat /\ faults' >= faults
  <2>1. NoFault \/ Fault
    BY Zenon DEF Bury, Skip, Claim, NoFault
  <2> QED BY <2>1, DeliveryAssumption DEF Fault, NoFault
<1>3. CASE Bury(d)
  <2>1. UpdateDelivery(d, "dead", snap[d], Now) /\ pc' = "next" /\ UNCHANGED quiet
    BY <1>3 DEF Bury, Release
  <2>2. SourceExists(out[d]) => faults' > 0
    BY <1>2, <1>3 DEF Bury, Fault
  <2>3. status[d] \in Present => status'[d] = "dead"
    BY <2>1 DEF UpdateDelivery
  <2> QED BY <1>1, <1>2, <2>1, <2>2, <2>3, UpdateEffect
<1>4. CASE Skip(d)
  <2>1. UNCHANGED dbVars /\ UNCHANGED quiet /\ pc' = "next"
    BY <1>4 DEF Skip, Release, historyVars
  <2>2. status[d] \in Present => faults' > 0
    BY <1>2, <1>4 DEF Skip, Fault
  <2> QED BY <1>1, <1>2, <2>1, <2>2 DEF dbVars, SameBut, Same
<1>5. CASE Claim(d)
  <2>1. /\ pc' = "send" /\ status[d] \in Present /\ UNCHANGED <<status, out>> /\ limit' = retryMax
        /\ attempt' = [attempt EXCEPT ![d] = snap[d] + 1] /\ wait' = [wait EXCEPT ![d] = Lease]
        /\ quiet' = [quiet EXCEPT ![d] = Gap]
    BY <1>5 DEF Claim, ClaimDelivery
  <2> QED BY <1>1, <1>2, <2>1 DEF SameBut, Same
<1> QED BY <1>3, <1>4, <1>5

Made(d) == status[d] = "none" /\ status'[d] \in {"pending", "dropped"} /\ SameBut(d)
Replayed(d) == /\ status[d] \in Present /\ status'[d] = "pending" /\ SameBut(d)
               /\ quiet'[d] = 0 /\ \A e \in Deliveries : e # d => quiet'[e] = quiet[e]

\* A handler writes a row only if it will leave a token, or the row is settled.
LEMMA HandlerEffect ==
  ASSUME TypeInv, NEW r \in Requests,
         \/ Submit(r) \/ FanOut(r) \/ Wake(r) \/ PostTest(r) \/ RecordDropped(r)
         \/ \E d \in Deliveries : Replay(r, d)
  PROVE  /\ UNCHANGED <<pc, batch, full, round, limit, target>>
         /\ faults \in Nat /\ faults' \in Nat /\ faults' >= faults
         /\ notify => notify'
         /\ \A q \in Requests : q # r => req'[q] = req[q]
         /\ (req[r].at = "fanout" /\ req[r].made > 0) => notify' \/ (req'[r].at = "fanout" /\ req'[r].made > 0)
         /\ \/ (\A d \in Deliveries : Same(d)) /\ UNCHANGED quiet
            \/ \E d \in Deliveries :
                 /\ Made(d) /\ UNCHANGED quiet
                 /\ status'[d] = "dropped" \/ (req'[r].at = "fanout" /\ req'[r].made > 0)
            \/ \E d \in Deliveries :
                 Replayed(d) /\ req'[r].at = "fanout" /\ req'[r].made > 0
<1> USE DEF TypeInv, TypeOK, DbTypeOK, HandlerTypeOK, HistoryTypeOK
<1>1. UNCHANGED <<pc, batch, full, round, limit, target>>
  <2>1. UNCHANGED <<pc, configVars, workVars>>
    BY Zenon DEF Submit, FanOut, Wake, PostTest, RecordDropped, Replay
  <2> QED BY <2>1 DEF configVars, workVars
<1>2. faults \in Nat /\ faults' \in Nat /\ faults' >= faults
  <2>1. NoFault \/ Fault
    BY Zenon DEF Submit, FanOut, Wake, PostTest, RecordDropped, Replay, NoFault
  <2> QED BY <2>1, DeliveryAssumption DEF Fault, NoFault
<1>3. notify => notify'
  BY Zenon DEF Submit, FanOut, Wake, wake, PostTest, RecordDropped, Replay
<1>4. PICK at, todo, made : Handler(r, at, todo, made)
  BY DEF Submit, FanOut, Wake, PostTest, RecordDropped, Replay
<1>5. \A q \in Requests : q # r => req'[q] = req[q]
  BY <1>4 DEF Handler
<1>6. \A x, y, z : Handler(r, x, y, z) => req'[r].at = x /\ req'[r].made = z
  BY DEF Handler
<1>7. ASSUME NEW d \in Deliveries, NEW s, NEW st \in {"pending", "dropped"}, CreateDelivery(d, s, st)
      PROVE  Made(d) /\ status'[d] = st
  <2>1. /\ status[d] = "none" /\ status' = [status EXCEPT ![d] = st] /\ attempt' = [attempt EXCEPT ![d] = 0]
        /\ wait' = [wait EXCEPT ![d] = Now] /\ out' = [out EXCEPT ![d] = s]
    BY <1>7 DEF CreateDelivery
  <2> QED BY <2>1 DEF Made, SameBut, Same
<1>8. ASSUME UNCHANGED dbVars PROVE \A d \in Deliveries : Same(d)
  BY <1>8 DEF dbVars, Same
<1>9. CASE Submit(r)
  <2>1. UNCHANGED dbVars /\ UNCHANGED quiet /\ req[r].at = "idle"
    BY <1>9 DEF Submit, historyVars
  <2> QED BY <1>1, <1>2, <1>3, <1>5, <1>8, <2>1
<1>10. CASE Wake(r)
  <2>1. UNCHANGED dbVars /\ UNCHANGED quiet /\ (req[r].made > 0 => notify')
    BY <1>10 DEF Wake, wake, historyVars
  <2> QED BY <1>1, <1>2, <1>3, <1>5, <1>8, <2>1
<1>11. CASE FanOut(r)
  <2>1. UNCHANGED quiet /\ req[r].made \in Nat /\ req[r].at = "fanout"
    BY <1>11 DEF FanOut, historyVars
  <2>2. CASE UNCHANGED dbVars /\ Handler(r, "fanout", Tail(req[r].todo), req[r].made)
    BY <1>1, <1>2, <1>3, <1>5, <1>6, <1>8, <2>1, <2>2
  <2>3. CASE /\ \E d \in Deliveries : CreateDelivery(d, Head(req[r].todo), "pending")
             /\ Handler(r, "fanout", Tail(req[r].todo), req[r].made + 1)
    <3>1. req'[r].at = "fanout" /\ req'[r].made > 0
      BY SMTT(30), <1>6, <2>1, <2>3
    <3>2. \E d \in Deliveries : Made(d)
      BY <1>7, <2>3
    <3> QED BY <1>1, <1>2, <1>3, <1>5, <2>1, <3>1, <3>2
  <2> QED BY <1>11, <2>2, <2>3 DEF FanOut
<1>12. CASE PostTest(r)
  <2>1. UNCHANGED quiet /\ req[r].at = "idle"
    BY <1>12 DEF PostTest, historyVars
  <2>2. CASE UNCHANGED dbVars
    BY <1>1, <1>2, <1>3, <1>5, <1>8, <2>1, <2>2
  <2>3. CASE /\ \E d \in Deliveries, s \in Sources : CreateDelivery(d, s, "pending")
             /\ Handler(r, "fanout", <<>>, 1)
    <3>1. req'[r].at = "fanout" /\ req'[r].made > 0
      BY SMTT(30), <1>6, <2>3
    <3>2. \E d \in Deliveries : Made(d)
      BY <1>7, <2>3
    <3> QED BY <1>1, <1>2, <1>3, <1>5, <2>1, <3>1, <3>2
  <2> QED BY <1>12, <2>2, <2>3 DEF PostTest
<1>13. CASE RecordDropped(r)
  <2>1. UNCHANGED quiet /\ req[r].at = "idle"
    BY <1>13 DEF RecordDropped, historyVars
  <2>2. CASE UNCHANGED dbVars
    BY <1>1, <1>2, <1>3, <1>5, <1>8, <2>1, <2>2
  <2>3. CASE \E d \in Deliveries : CreateDelivery(d, NoSource, "dropped")
    <3>1. \E d \in Deliveries : Made(d) /\ status'[d] = "dropped"
      BY <1>7, <2>3
    <3> QED BY <1>1, <1>2, <1>3, <1>5, <2>1, <3>1
  <2> QED BY <1>13, <2>2, <2>3 DEF RecordDropped
<1>14. ASSUME NEW d \in Deliveries, Replay(r, d)
       PROVE  /\ req[r].at = "idle"
              /\ \/ UNCHANGED dbVars /\ UNCHANGED quiet
                 \/ Replayed(d) /\ req'[r].at = "fanout" /\ req'[r].made > 0
  <2>1. CASE UNCHANGED <<dbVars, historyVars>>
    BY <1>14, <2>1 DEF Replay, historyVars
  <2>2. CASE /\ Handler(r, "fanout", <<>>, 1) /\ status[d] \in Present
             /\ ReplayDelivery(d) /\ quiet' = [quiet EXCEPT ![d] = 0]
    <3>1. /\ status' = [status EXCEPT ![d] = "pending"] /\ attempt' = [attempt EXCEPT ![d] = 0]
          /\ wait' = [wait EXCEPT ![d] = Now] /\ out' = out
      BY <2>2 DEF ReplayDelivery
    <3>2. Replayed(d)
      BY <2>2, <3>1 DEF Replayed, SameBut, Same
    <3> QED BY <1>6, <1>14, <2>2, <3>2 DEF Replay
  <2> QED BY <1>14, <2>1, <2>2 DEF Replay
<1> QED BY <1>1, <1>2, <1>3, <1>5, <1>8, <1>9, <1>10, <1>11, <1>12, <1>13, <1>14

-----------------------------------------------------------------------------
(* Prompt *)

\* A step that makes no record due at once and takes nothing out of sight.
LEMMA StillNoticed ==
  ASSUME PromptInv,
         \A d \in Deliveries : AtOnce(d)' => AtOnce(d),
         \A d \in Deliveries : AtOnce(d)' /\ Noticed(d) => Noticed(d)'
  PROVE  PromptInv'
  BY DEF PromptInv

\* The worker reads all that is due, or a full batch of it, or stops at its last round.
LEMMA ReadNoticed ==
  ASSUME TypeInv, ReadDue
  PROVE  PromptInv'
<1> USE DeliveryAssumption DEF TypeInv, TypeOK, WorkTypeOK, DbTypeOK, HistoryTypeOK, AtOnce, Now
<1>1. UNCHANGED <<status, wait, round>>
  BY DEF ReadDue, dbVars
<1>2. CASE ~MoreRounds /\ pc' = "idle"
  BY <1>1, <1>2 DEF MoreRounds, PromptInv, Noticed
<1>3. CASE Due = {}
  BY <1>1, <1>3 DEF Due, PromptInv
<1>4. CASE Fault
  BY <1>4 DEF Fault, PromptInv, Noticed
<1>5. CASE \E B \in DueDeliveries(BatchSize) :
             batch' = B /\ full' = (Cardinality(B) = BatchSize) /\ pc' = "next"
  <2>1. PICK B \in DueDeliveries(BatchSize) :
          batch' = B /\ full' = (Cardinality(B) = BatchSize) /\ pc' = "next"
    BY <1>5
  <2>2. /\ B \subseteq Due /\ Due \subseteq Deliveries
        /\ Cardinality(B) = IF Cardinality(Due) < BatchSize THEN Cardinality(Due) ELSE BatchSize
    BY DEF DueDeliveries, Due
  <2>3. IsFiniteSet(Due)
    BY <2>2, DeliveriesFinite, FS_Subset
  <2>4. CASE Cardinality(B) = BatchSize
    BY <2>1, <2>4 DEF PromptInv, Noticed
  <2>5. CASE Cardinality(B) # BatchSize
    <3>1. Cardinality(B) = Cardinality(Due)
      BY <2>2, <2>5
    <3>2. B = Due
      BY <2>2, <2>3, <3>1, FS_Subset
    <3> QED BY <1>1, <2>1, <3>2 DEF PromptInv, Noticed, Due
  <2> QED BY <2>4, <2>5
<1> QED BY <1>2, <1>3, <1>4, <1>5 DEF ReadDue

\* The rest of what the worker does.
LEMMA WorkerNoticed ==
  ASSUME TypeInv, PromptInv,
         \/ BatchDone \/ Send \/ Record \/ Notified \/ Poll \/ Halt
         \/ \E d \in Deliveries : Bury(d) \/ Skip(d) \/ Claim(d)
  PROVE  PromptInv'
<1> USE DeliveryAssumption DEF TypeInv, TypeOK, DbTypeOK, WorkTypeOK, HistoryTypeOK, Control, AtOnce,
    Now, Live, Present, Terminal, dbVars, configVars, workVars, historyVars
<1>1. CASE Notified \/ Poll \/ Halt
  BY <1>1 DEF Notified, Poll, Halt, StartDrain, PromptInv, Noticed
<1>2. CASE BatchDone
  BY <1>2, StillNoticed DEF BatchDone, Noticed, Waking
<1>3. CASE Send
  <2>1. /\ pc = "send" /\ pc' = "record"
        /\ UNCHANGED <<status, wait, batch, full, round, limit, target, notify, req, faults>>
    BY <1>3, Zenon DEF Send, dbVars, configVars
  <2> QED BY <2>1, StillNoticed DEF Noticed, Waking
<1>4. CASE Record
  <2>1. /\ cur \in Deliveries /\ snap[cur] \in Nat /\ \A d \in Deliveries : d # cur => Same(d)
        /\ pc = "record" /\ pc' = "next" /\ UNCHANGED <<batch, full, notify, req>>
        /\ faults \in Nat /\ faults' \in Nat /\ faults' >= faults
        /\ Same(cur) \/ status'[cur] \in Terminal \/ wait'[cur] = backoff(BackoffBase, snap[cur])
    <3>1. /\ SameBut(cur)
          /\ \/ Same(cur)
             \/ status'[cur] = "success"
             \/ status'[cur] = "dead"
             \/ wait'[cur] = backoff(BackoffBase, snap[cur])
      BY <1>4, RecordEffect, Zenon
    <3>2. /\ cur \in Deliveries /\ snap[cur] \in Nat
          /\ pc = "record" /\ pc' = "next" /\ UNCHANGED <<batch, full, notify, req>>
          /\ faults \in Nat /\ faults' \in Nat /\ faults' >= faults
      BY <1>4, RecordEffect
    <3> QED BY <3>1, <3>2 DEF SameBut
  <2>2. backoff(BackoffBase, snap[cur]) # Now
    <3>1. snap[cur] \in Nat
      BY <2>1
    <3>2. backoff(BackoffBase, snap[cur]) \in Int /\ backoff(BackoffBase, snap[cur]) > 0
      BY <3>1, BackoffPositive, Zenon
    <3> QED BY <3>2
  <2>3. \A d \in Deliveries : AtOnce(d)' => AtOnce(d)
    BY <2>1, <2>2 DEF Same
  <2>4. \A d \in Deliveries : Noticed(d) => Noticed(d)'
    BY <2>1 DEF Noticed, Waking
  <2> QED BY <2>3, <2>4, StillNoticed
<1>5. ASSUME NEW e \in Deliveries, Bury(e) \/ Skip(e) \/ Claim(e)
      PROVE  PromptInv'
  <2>1. /\ \A d \in Deliveries : d # e => Same(d)
        /\ \/ Same(e) /\ (faults' > 0 \/ status[e] \notin Present)
           \/ status'[e] = "dead" \/ wait'[e] = Lease
    BY <1>5, BeginEffect DEF SameBut
  <2>2. /\ pc = "next" /\ pc' \in {"next", "send"} /\ batch' = batch \ {e}
        /\ UNCHANGED <<full, notify, req>> /\ faults \in Nat /\ faults' \in Nat /\ faults' >= faults
    BY <1>5, BeginEffect
  <2>3. \A d \in Deliveries : d # e => (AtOnce(d)' => AtOnce(d))
    BY <2>1 DEF Same
  <2>4. \A d \in Deliveries : d # e => (Noticed(d) => Noticed(d)')
    <3>1. (Waking => Waking') /\ (faults > 0 => faults' > 0)
      BY <2>2 DEF Waking
    <3> QED BY <2>2, <3>1 DEF Noticed
  <2>5. ~AtOnce(e)' \/ faults' > 0
    BY <2>1 DEF Same
  <2>6. faults' > 0 => Noticed(e)'
    BY DEF Noticed
  <2> QED BY <2>3, <2>4, <2>5, <2>6 DEF PromptInv
<1> QED BY <1>1, <1>2, <1>3, <1>4, <1>5

\* A handler that makes a record due at once has the token still to leave, and only
\* the worker takes it.
LEMMA HandlerNoticed ==
  ASSUME TypeInv, PromptInv, NEW r \in Requests,
         \/ Submit(r) \/ FanOut(r) \/ Wake(r) \/ PostTest(r) \/ RecordDropped(r)
         \/ \E d \in Deliveries : Replay(r, d)
  PROVE  PromptInv'
<1>1. UNCHANGED <<pc, batch, full, round>>
  BY HandlerEffect
<1>2. \A d \in Deliveries : Noticed(d) => Noticed(d)'
  <2>1. notify => notify'
    BY HandlerEffect
  <2>2. Waking => notify' \/ Waking'
    <3>1. /\ \A q \in Requests : q # r => req'[q] = req[q]
          /\ (req[r].at = "fanout" /\ req[r].made > 0)
               => notify' \/ (req'[r].at = "fanout" /\ req'[r].made > 0)
      BY HandlerEffect
    <3> QED BY <3>1 DEF Waking
  <2>3. faults > 0 => faults' > 0
    BY HandlerEffect
  <2> QED BY <1>1, <2>1, <2>2, <2>3 DEF Noticed
<1>3. CASE req'[r].at = "fanout" /\ req'[r].made > 0
  BY <1>3 DEF PromptInv, Noticed, Waking
<1>4. CASE \A d \in Deliveries : Same(d)
  BY <1>2, <1>4, StillNoticed DEF AtOnce, Same
<1>5. CASE \E d \in Deliveries : Made(d) /\ status'[d] = "dropped"
  BY <1>2, <1>5, StillNoticed DEF AtOnce, Live, Made, SameBut, Same
<1> QED BY <1>3, <1>4, <1>5, HandlerEffect

\* What the administrator, the process and the clock do: a process that starts
\* anew drains before it waits.
LEMMA OthersNoticed ==
  ASSUME TypeInv, PromptInv,
         \/ UNCHANGED vars \/ Admin \/ Process \/ Tick
  PROVE  PromptInv'
<1> USE DeliveryAssumption DEF TypeInv, TypeOK, DbTypeOK, AtOnce, Now, Live, dbVars, configVars,
    workVars, historyVars
<1>1. CASE UNCHANGED <<status, wait, notify, req, faults, pc, full, batch, round>>
  BY <1>1 DEF PromptInv, Noticed, Waking
<1>2. ASSUME UNCHANGED vars \/ SaveSettings \/ Stop \/ \E s \in Sources : EditSource(s)
      PROVE  UNCHANGED <<status, wait, notify, req, faults, pc, full, batch, round>>
  BY <1>2 DEF vars, SaveSettings, Stop, EditSource
<1>3. CASE Exit \/ Crash \/ Restart
  BY <1>3 DEF Exit, Crash, Restart, LoseMemory, PromptInv, Noticed
<1>4. CASE Tick
  <2>1. /\ \A d \in Deliveries : wait'[d] = Now => wait[d] = Now
        /\ UNCHANGED <<status, notify, req, faults, pc, full, batch, round>>
    BY <1>4 DEF Tick, Countdown
  <2> QED BY <2>1, StillNoticed DEF Noticed, Waking
<1>5. ASSUME NEW e \in Deliveries, DeleteDelivery(e) PROVE PromptInv'
  <2>1. /\ \A d \in Deliveries : AtOnce(d)' => AtOnce(d)
        /\ UNCHANGED <<notify, req, faults, pc, full, batch, round>>
    BY <1>5 DEF DeleteDelivery
  <2> QED BY <2>1, StillNoticed DEF Noticed, Waking
<1> QED BY <1>1, <1>2, <1>3, <1>4, <1>5 DEF Admin, Process

\* Failing calls are only ever added.
LEMMA FaultsStay ==
  ASSUME TypeInv, [Next]_vars
  PROVE  faults > 0 => faults' > 0
<1>1. faults' = faults \/ faults' = faults + 1
  BY DEF Next, Worker, Select, Admin, Handlers, Process, vars, ReadDue, BatchDone, Send, Record, Bury, Skip,
     Claim, Notified, Poll, Halt, Stop, Exit, Crash, LoseMemory, Restart, Tick, SaveSettings, EditSource,
     DeleteDelivery, Submit, FanOut, Wake, PostTest, RecordDropped, Replay, Fault, NoFault
<1>2. faults \in Nat
  BY DeliveryAssumption DEF TypeInv, TypeOK, HistoryTypeOK
<1> QED BY <1>1, <1>2

\* A record is given up where attempt finds no target, or at the limit it read; and
\* what was true of it then stays true while it is dead.
LEMMA DeadStep ==
  ASSUME TypeInv, WorkLive, DeadInv, [Next]_vars
  PROVE  DeadInv'
<1>0. DeadJustified <=> \A d \in Deliveries : status[d] = "dead" => faults > 0 \/ Hopeless(d)
  BY DEF DeadJustified, Hopeless
<1>1. ASSUME \A d \in Deliveries : status'[d] = "dead" => faults' > 0 \/ Hopeless(d)' \/ Same(d),
             UNCHANGED target, faults > 0 => faults' > 0,
             pc' \in {"send", "record"} => pc \in {"send", "record"} /\ limit' = limit
      PROVE  DeadInv'
  <2>1. \A d \in Deliveries : Same(d) /\ Hopeless(d) => Hopeless(d)'
    BY <1>1 DEF Same, Hopeless
  <2>2. \A d \in Deliveries : status'[d] = "dead" => faults' > 0 \/ Hopeless(d)'
    BY <1>0, <1>1, <2>1 DEF Same, DeadInv
  <2>3. DeadJustified'
    BY <2>2 DEF DeadJustified, Hopeless
  <2> QED BY <1>1, <2>3 DEF DeadInv
<1>2. faults > 0 => faults' > 0
  BY FaultsStay
<1>3. ASSUME \/ UNCHANGED vars \/ BatchDone \/ Send \/ Notified \/ Poll \/ Halt \/ Stop \/ Exit \/ Crash
             \/ Restart \/ Tick \/ SaveSettings \/ ReadDue
             \/ \E r \in Requests : Submit(r) \/ Wake(r)
             \/ \E d \in Deliveries : Skip(d)
      PROVE  DeadInv'
  <2>1. UNCHANGED <<status, attempt, out, target>>
    BY <1>3 DEF vars, dbVars, configVars, workVars, historyVars, BatchDone, Send, Notified, Poll, Halt, StartDrain,
       Stop, Exit, Crash, LoseMemory, Restart, Tick, SaveSettings, ReadDue, Submit, Wake, Skip, Release
  <2>2. pc' \in {"send", "record"} => pc \in {"send", "record"} /\ limit' = limit
    BY <1>3 DEF vars, dbVars, configVars, workVars, historyVars, BatchDone, Send, Notified, Poll, Halt, StartDrain,
       Stop, Exit, Crash, LoseMemory, Restart, Tick, SaveSettings, ReadDue, Submit, Wake, Skip, Release
  <2>3. \A d \in Deliveries : status'[d] = "dead" /\ status[d] = "dead" /\ Hopeless(d) => Hopeless(d)'
    BY <2>1 DEF Hopeless
  <2>4. \A d \in Deliveries : status'[d] = "dead" => faults' > 0 \/ Hopeless(d)'
    BY <1>0, <1>2, <2>1, <2>3 DEF DeadInv
  <2> QED BY <1>1, <1>2, <2>1, <2>2, <2>4
<1>4. ASSUME NEW s \in Sources, EditSource(s) PROVE DeadInv'
  <2>1. /\ UNCHANGED <<status, attempt, out, faults, pc, limit>>
        /\ \A t \in Sources : target[t] = "gone" => target'[t] = "gone"
    BY <1>4 DEF EditSource, TypeInv, TypeOK, DbTypeOK, dbVars, workVars
  <2>2. \A d \in Deliveries : out[d] \in Sources \cup {NoSource}
    BY DEF TypeInv, TypeOK, DbTypeOK
  <2>3. \A d \in Deliveries : Hopeless(d) => Hopeless(d)'
    BY <2>1, <2>2 DEF Hopeless
  <2>4. DeadJustified'
    BY <1>0, <2>1, <2>3 DEF DeadInv, DeadJustified, Hopeless
  <2> QED BY <2>1, <2>4 DEF DeadInv
<1>5. ASSUME NEW d \in Deliveries, DeleteDelivery(d) PROVE DeadInv'
  <2>1. /\ UNCHANGED <<target, pc, limit>>
        /\ \A e \in Deliveries : status'[e] = "dead" => Same(e)
    BY <1>5 DEF DeleteDelivery, TypeInv, TypeOK, DbTypeOK, configVars, workVars, Same
  <2> QED BY <1>1, <1>2, <2>1
<1>6. ASSUME NEW d \in Deliveries, Bury(d) \/ Skip(d) \/ Claim(d) PROVE DeadInv'
  <2>1. /\ UNCHANGED <<out, target>> /\ \A e \in Deliveries : e # d => Same(e)
    BY <1>6, BeginEffect DEF SameBut
  <2>2. \/ pc' = "next" /\ (Same(d) \/ (status'[d] = "dead" /\ (SourceExists(out[d]) => faults' > 0)))
        \/ pc' = "send" /\ status[d] \in Present /\ UNCHANGED status /\ limit' = retryMax
    BY <1>6, BeginEffect
  <2>3. out[d] \in Sources \cup {NoSource} /\ retryMax \in RetryLimits
    BY DEF TypeInv, TypeOK, DbTypeOK
  <2>4. CASE pc' = "next"
    <3>1. ~SourceExists(out[d]) => Hopeless(d)'
      BY <2>1, <2>3 DEF SourceExists, Hopeless
    <3> QED BY <1>1, <1>2, <2>1, <2>2, <2>4, <3>1
  <2>5. CASE pc' = "send"
    <3>1. status'[d] # "dead"
      BY <1>6, <2>2, <2>5, BeginEffect DEF WorkLive, Live
    <3>2. \A e \in Deliveries : status'[e] = "dead" => faults' > 0 \/ Hopeless(e)'
      <4>1. SUFFICES ASSUME NEW e \in Deliveries, status'[e] = "dead" PROVE faults' > 0 \/ Hopeless(e)'
        OBVIOUS
      <4>2. Same(e)
        BY <2>1, <3>1, <4>1
      <4>3. faults > 0 \/ Hopeless(e)
        BY <1>0, <4>1, <4>2 DEF DeadInv, Same
      <4> QED BY <1>2, <2>1, <4>2, <4>3 DEF Same, Hopeless
    <3>3. DeadJustified'
      BY <3>2 DEF DeadJustified, Hopeless
    <3> QED BY <2>2, <2>3, <2>5, <3>3 DEF DeadInv
  <2> QED BY <2>2, <2>4, <2>5
<1>7. ASSUME Record PROVE DeadInv'
  <2>1. /\ pc = "record" /\ pc' = "next" /\ UNCHANGED <<out, target>> /\ cur \in Deliveries
        /\ \A e \in Deliveries : e # cur => Same(e)
    BY <1>7, RecordEffect DEF SameBut
  <2>2. Same(cur) \/ status'[cur] # "dead" \/ (attempt'[cur] = snap[cur] /\ snap[cur] >= limit)
    BY <1>7, RecordEffect
  <2>3. limit \in RetryLimits
    BY <2>1 DEF DeadInv
  <2>4. \A e \in Deliveries : e = cur /\ attempt'[cur] = snap[cur] /\ snap[cur] >= limit => Hopeless(e)'
    BY <2>3 DEF Hopeless
  <2> QED BY <1>1, <1>2, <2>1, <2>2, <2>4
<1>8. ASSUME NEW r \in Requests,
             \/ Submit(r) \/ FanOut(r) \/ Wake(r) \/ PostTest(r) \/ RecordDropped(r)
             \/ \E d \in Deliveries : Replay(r, d)
      PROVE  DeadInv'
  <2>1. UNCHANGED <<pc, limit, target>>
    BY <1>8, HandlerEffect
  <2>2. \A d \in Deliveries : status'[d] = "dead" => Same(d)
    BY <1>8, HandlerEffect DEF Made, Replayed, SameBut
  <2> QED BY <1>1, <1>2, <2>1, <2>2
<1> QED BY <1>3, <1>4, <1>5, <1>6, <1>7, <1>8
        DEF Next, Worker, Select, Admin, Handlers, Process

\* The distance is no longer than the lease of a claim and any backoff.
LEMMA GapRange ==
  /\ Gap \in Nat /\ Gap <= Lease
  /\ \A n \in Nat : backoff(BackoffBase, n) \in Nat /\ Gap <= backoff(BackoffBase, n)
<1> DEFINE b == backoff(BackoffBase, 1)
<1>1. \A n \in Nat : backoff(BackoffBase, n) \in Nat /\ backoff(BackoffBase, n) >= b
  BY DeliveryAssumption, BackoffPositive
<1>2. b \in Nat
  BY <1>1
<1>3. Gap = IF Lease < b THEN Lease ELSE b
  BY DEF Gap
<1> HIDE DEF b
<1> QED BY <1>1, <1>2, <1>3, DeliveryAssumption

\* A claim sets the lease, a failure the backoff, and both are as long as the
\* distance; a replay lifts it.
LEMMA QuietStep ==
  ASSUME TypeInv, WorkLive, QuietInv, [Next]_vars
  PROVE  QuietInv'
<1>1. /\ Gap \in Nat /\ Lease \in Nat /\ Gap <= Lease
      /\ \A d \in Deliveries : quiet[d] \in Int /\ wait[d] \in Int
      /\ batch \subseteq Deliveries
  BY GapRange, DeliveryAssumption DEF TypeInv, TypeOK, DbTypeOK, WorkTypeOK, HistoryTypeOK
<1>2. ASSUME UNCHANGED quiet, batch' \subseteq batch,
             \A d \in Deliveries : status'[d] = "none" => status[d] = "none",
             \A d \in Deliveries : status'[d] \in Live =>
               Same(d) \/ status[d] = "none" \/ (wait'[d] \in Int /\ wait'[d] >= Gap)
      PROVE  QuietInv'
  <2>1. SUFFICES ASSUME NEW d \in Deliveries
                 PROVE  /\ quiet[d] <= Gap
                        /\ status'[d] = "none" \/ d \in batch' => quiet[d] <= 0
                        /\ status'[d] \in Live => quiet[d] <= 0 \/ quiet[d] <= wait'[d]
    BY <1>2 DEF QuietInv
  <2>2. /\ quiet[d] <= Gap
        /\ status'[d] = "none" \/ d \in batch' => quiet[d] <= 0
    BY <1>2 DEF QuietInv
  <2>3. ASSUME status'[d] \in Live PROVE quiet[d] <= 0 \/ quiet[d] <= wait'[d]
    <3>1. CASE Same(d)
      BY <2>3, <3>1 DEF Same, QuietInv
    <3>2. CASE status[d] = "none"
      BY <3>2 DEF QuietInv
    <3>3. CASE wait'[d] \in Int /\ wait'[d] >= Gap
      BY <1>1, <2>2, <3>3
    <3> QED BY <1>2, <2>3, <3>1, <3>2, <3>3
  <2> QED BY <2>2, <2>3
<1>3. ASSUME \/ UNCHANGED vars \/ BatchDone \/ Send \/ Notified \/ Poll \/ Halt \/ Stop \/ Exit \/ Crash
             \/ Restart \/ SaveSettings
             \/ \E r \in Requests : Submit(r) \/ Wake(r)
             \/ \E d \in Deliveries : Skip(d)
             \/ \E s \in Sources : EditSource(s)
      PROVE  QuietInv'
  <2>1. UNCHANGED <<status, wait, quiet>>
    BY <1>3 DEF vars, dbVars, configVars, workVars, historyVars, BatchDone, Send, Notified, Poll, Halt,
       StartDrain, Stop, Exit, Crash, LoseMemory, Restart, SaveSettings, Submit, Wake, Skip, Release, EditSource
  <2>2. batch' \subseteq batch
    BY <1>3 DEF vars, dbVars, configVars, workVars, historyVars, BatchDone, Send, Notified, Poll, Halt,
       StartDrain, Stop, Exit, Crash, LoseMemory, Restart, SaveSettings, Submit, Wake, Skip, Release, EditSource
  <2> QED BY <2>1, <2>2 DEF QuietInv
<1>4. ASSUME ReadDue PROVE QuietInv'
  <2>1. UNCHANGED <<status, wait, quiet>>
    BY <1>4 DEF ReadDue, dbVars, historyVars
  <2>2. batch' \subseteq batch \cup Due
    BY <1>4 DEF ReadDue, DueDeliveries
  <2>3. \A d \in Due : d \in Deliveries /\ quiet[d] <= 0
    BY <1>1 DEF Due, QuietInv
  <2> QED BY <2>1, <2>2, <2>3 DEF QuietInv
<1>5. ASSUME Record PROVE QuietInv'
  <2>1. /\ UNCHANGED <<quiet, batch>> /\ cur \in Deliveries /\ snap[cur] \in Nat
        /\ \A d \in Deliveries : d # cur => Same(d)
    BY <1>5, RecordEffect DEF SameBut
  <2>2. \/ Same(cur) \/ status'[cur] = "success" \/ status'[cur] = "dead"
        \/ status'[cur] = "failed" /\ wait'[cur] = backoff(BackoffBase, snap[cur])
    BY <1>5, RecordEffect
  <2>3. backoff(BackoffBase, snap[cur]) \in Int /\ backoff(BackoffBase, snap[cur]) >= Gap
    BY <1>1, <2>1, GapRange
  <2>4. \A d \in Deliveries : \/ Same(d) \/ status'[d] \in {"success", "dead"}
                              \/ status'[d] = "failed" /\ wait'[d] \in Int /\ wait'[d] >= Gap
    BY <2>1, <2>2, <2>3
  <2> QED BY <1>2, <2>1, <2>4 DEF Same, Live
<1>6. ASSUME NEW e \in Deliveries, Bury(e) \/ Skip(e) \/ Claim(e) PROVE QuietInv'
  <2>1. /\ \A d \in Deliveries : d # e => Same(d)
        /\ batch' = batch \ {e}
        /\ \A d \in Deliveries : d # e => quiet'[d] = quiet[d]
    BY <1>6, BeginEffect DEF SameBut
  <2>2. \/ UNCHANGED quiet /\ (Same(e) \/ status'[e] = "dead")
        \/ /\ status[e] \in Present /\ UNCHANGED status /\ wait'[e] = Lease /\ quiet'[e] = Gap
    BY <1>6, BeginEffect
  <2>3. CASE UNCHANGED quiet /\ (Same(e) \/ status'[e] = "dead")
    BY <1>2, <2>1, <2>3 DEF Same, Live
  <2>4. CASE status[e] \in Present /\ UNCHANGED status /\ wait'[e] = Lease /\ quiet'[e] = Gap
    <3>1. SUFFICES ASSUME NEW d \in Deliveries
                   PROVE  /\ quiet'[d] <= Gap
                          /\ status'[d] = "none" \/ d \in batch' => quiet'[d] <= 0
                          /\ status'[d] \in Live => quiet'[d] <= 0 \/ quiet'[d] <= wait'[d]
      BY DEF QuietInv
    <3>2. CASE d = e
      BY <1>1, <2>1, <2>4, <3>2 DEF Present, Live, Terminal
    <3>3. CASE d # e
      BY <2>1, <3>3 DEF QuietInv, Same
    <3> QED BY <3>2, <3>3
  <2> QED BY <2>2, <2>3, <2>4
<1>7. ASSUME NEW r \in Requests,
             \/ Submit(r) \/ FanOut(r) \/ Wake(r) \/ PostTest(r) \/ RecordDropped(r)
             \/ \E d \in Deliveries : Replay(r, d)
      PROVE  QuietInv'
  <2>1. UNCHANGED batch
    BY <1>7, HandlerEffect
  <2>2. \/ (\A d \in Deliveries : Same(d)) /\ UNCHANGED quiet
        \/ (\E d \in Deliveries : Made(d)) /\ UNCHANGED quiet
        \/ \E d \in Deliveries : Replayed(d)
    BY <1>7, HandlerEffect
  <2>3. CASE UNCHANGED quiet /\ \A d \in Deliveries : Same(d)
    BY <1>2, <2>1, <2>3 DEF Same
  <2>4. ASSUME UNCHANGED quiet, NEW e \in Deliveries, Made(e) PROVE QuietInv'
    <3>1. \A d \in Deliveries : d # e => Same(d)
      BY <2>4 DEF Made, SameBut
    <3>2. status[e] = "none" /\ status'[e] # "none"
      BY <2>4 DEF Made
    <3> QED BY <1>2, <2>1, <2>4, <3>1, <3>2 DEF Same
  <2>5. ASSUME NEW e \in Deliveries, Replayed(e) PROVE QuietInv'
    <3>1. /\ quiet'[e] = 0 /\ status'[e] = "pending"
          /\ \A d \in Deliveries : d # e => Same(d) /\ quiet'[d] = quiet[d]
      BY <2>5 DEF Replayed, SameBut
    <3> QED BY <1>1, <2>1, <3>1 DEF QuietInv, Same
  <2> QED BY <2>2, <2>3, <2>4, <2>5
<1>8. ASSUME NEW e \in Deliveries, DeleteDelivery(e) PROVE QuietInv'
  <2>1. UNCHANGED batch /\ quiet'[e] = 0 /\ status'[e] = "deleted"
        /\ \A d \in Deliveries : d # e => /\ status'[d] = status[d] /\ wait'[d] = wait[d]
                                         /\ quiet'[d] = quiet[d]
    BY <1>8 DEF DeleteDelivery, TypeInv, TypeOK, DbTypeOK, HistoryTypeOK, workVars
  <2> QED BY <1>1, <2>1 DEF QuietInv
<1>9. ASSUME Tick PROVE QuietInv'
  <2>1. /\ UNCHANGED <<status, batch>>
        /\ \A d \in Deliveries : /\ wait'[d] = IF wait[d] > 0 THEN wait[d] - 1 ELSE wait[d]
                                 /\ quiet'[d] = IF quiet[d] > 0 THEN quiet[d] - 1 ELSE quiet[d]
    BY <1>9 DEF Tick, Countdown
  <2>2. SUFFICES ASSUME NEW d \in Deliveries
                 PROVE  /\ quiet'[d] <= Gap
                        /\ status[d] = "none" \/ d \in batch => quiet'[d] <= 0
                        /\ status[d] \in Live => quiet'[d] <= 0 \/ quiet'[d] <= wait'[d]
    BY <2>1 DEF QuietInv
  <2>3. /\ quiet[d] <= Gap
        /\ status[d] = "none" \/ d \in batch => quiet[d] <= 0
        /\ status[d] \in Live => quiet[d] <= 0 \/ quiet[d] <= wait[d]
    BY DEF QuietInv
  <2> QED BY <1>1, <2>1, <2>3
<1> QED BY <1>3, <1>4, <1>5, <1>6, <1>7, <1>8, <1>9
        DEF Next, Worker, Select, Admin, Handlers, Process

\* A record that is due at once is not forgotten while the worker waits, for any
\* number of records and handlers.
THEOREM PromptSafe == SafeSpec => []Prompt
<1>1. Init => PromptInv
  BY DEF Init, PromptInv, Noticed
<1>2. IInv /\ PromptInv /\ [Next]_vars => PromptInv'
  BY ReadNoticed, WorkerNoticed, HandlerNoticed, OthersNoticed
     DEF IInv, Next, Worker, Select, Handlers
<1>3. PromptInv => Prompt
  BY DEF PromptInv, Prompt, Noticed, AtOnce, Waking
<1> QED BY <1>1, <1>2, <1>3, Invariant, PTL DEF SafeSpec

\* Before the first failing call a record is given up only when its target is gone
\* or it has used up a retry limit that was in force.
THEOREM DeadSafe == SafeSpec => []DeadJustified
<1>1. Init => DeadInv
  BY DEF Init, DeadInv, DeadJustified
<1>2. IInv /\ DeadInv /\ [Next]_vars => DeadInv'
  BY DeadStep DEF IInv
<1>3. DeadInv => DeadJustified
  BY DEF DeadInv
<1> QED BY <1>1, <1>2, <1>3, Invariant, PTL DEF SafeSpec

\* Two attempts on a record that nobody replayed are the lease or the first backoff
\* apart, for every base, lease and number of crashes and failures.
THEOREM SpacingSafe == SafeSpec => Spacing
<1>1. Init => QuietInv
  BY GapRange DEF Init, QuietInv
<1>2. IInv /\ QuietInv /\ [Next]_vars => QuietInv'
  BY QuietStep DEF IInv
<1>3. IInv /\ QuietInv /\ [Next]_vars => [\A d \in Deliveries : cur' = d /\ cur # d => quiet[d] <= 0]_vars
  <2> SUFFICES ASSUME IInv, QuietInv, Next, NEW d \in Deliveries, cur' = d, cur # d
               PROVE  quiet[d] <= 0
    OBVIOUS
  <2>1. \E e \in Deliveries : Claim(e)
    BY DeliveryAssumption
       DEF Next, Worker, Select, Admin, Handlers, Process, workVars, ReadDue, BatchDone, Send, Record, Bury,
           Skip, Release, Notified, Poll, StartDrain, Halt, Stop, Exit, Crash, LoseMemory, Restart, Tick,
           SaveSettings, EditSource, DeleteDelivery, Submit, FanOut, Wake, PostTest, RecordDropped, Replay
  <2>2. d \in batch
    BY <2>1 DEF Claim
  <2> QED BY <2>2 DEF QuietInv
<1> QED BY <1>1, <1>2, <1>3, Invariant, PTL DEF SafeSpec, Spacing
=============================================================================
