--------------------------- MODULE ForwardingProofs ---------------------------
(***************************************************************************)
(* TypeOK, NoneReturns, DropJustified, HopsOnce and HopsShort, for any      *)
(* sources, rules, arrivals, resends and renames.                          *)
(***************************************************************************)
EXTENDS Forwarding, FiniteSetTheorems, TLAPS

FlightType ==
  /\ slug \in [Sources -> Slugs \cup {NoSlug}]
  /\ inflight \subseteq Message
  /\ renamed \subseteq Sources

InChain(g, m) == \E i \in DOMAIN m.hops : m.hops[i] = g

\* The chain holds the slug of every source the message has been to that has one
\* and kept it.
ChainComplete ==
  \A m \in inflight : \A s \in m.been :
    slug[s] = NoSlug \/ s \in renamed \/ InChain(slug[s], m)

\* While nobody renames a source, each entry is the slug of one the message was at.
ChainTrue ==
  renamed = {} =>
    \A m \in inflight : \A i \in DOMAIN m.hops :
      m.hops[i] # NoSlug /\ \E s \in m.been : slug[s] = m.hops[i]

SlugsUnique ==
  renamed = {} => \A s, t \in Sources : slug[s] = slug[t] => s = t \/ slug[s] = NoSlug

IInv == FlightType /\ ChainComplete /\ ChainTrue /\ SlugsUnique /\ NoneReturns /\ DropJustified

\* A message that a source passes on has the source's slug in its chain, and
\* nothing else that it had not before.
LEMMA PassedOn ==
  ASSUME FlightType, NEW m \in Message, NEW t \in Sources
  PROVE  /\ Passed(m, t) \in Message
         /\ Passed(m, t).been = m.been \cup {m.at}
         /\ Passed(m, t).again = m.again \cup ({m.at} \cap m.been)
         /\ \A g : InChain(g, m) => InChain(g, Passed(m, t))
         /\ slug[m.at] # NoSlug => InChain(slug[m.at], Passed(m, t))
         /\ \A i \in DOMAIN Passed(m, t).hops :
              InChain(Passed(m, t).hops[i], m)
              \/ (Passed(m, t).hops[i] = slug[m.at] /\ slug[m.at] # NoSlug)
<1> DEFINE hops == HopChain(m.hops, slug[m.at])
<1>1. m.at \in Sources /\ m.hops \in Seq(Slugs) /\ m.been \subseteq Sources /\ m.again \subseteq Sources
  BY DEF Message
<1>2. slug[m.at] \in Slugs \cup {NoSlug}
  BY <1>1 DEF FlightType
<1>3. /\ hops \in Seq(Slugs)
      /\ \A i \in DOMAIN m.hops : i \in DOMAIN hops /\ hops[i] = m.hops[i]
      /\ slug[m.at] # NoSlug => \E i \in DOMAIN hops : hops[i] = slug[m.at]
      /\ \A i \in DOMAIN hops : (i \in DOMAIN m.hops /\ hops[i] = m.hops[i])
                                \/ (hops[i] = slug[m.at] /\ slug[m.at] # NoSlug)
  <2>1. CASE slug[m.at] = NoSlug
    BY <1>1, <2>1 DEF HopChain
  <2>2. CASE slug[m.at] # NoSlug
    <3>1. hops = Append(m.hops, slug[m.at]) /\ slug[m.at] \in Slugs
      BY <1>2, <2>2 DEF HopChain
    <3>2. /\ Append(m.hops, slug[m.at]) \in Seq(Slugs)
          /\ DOMAIN m.hops = 1 .. Len(m.hops) /\ Len(m.hops) \in Nat
          /\ DOMAIN Append(m.hops, slug[m.at]) = 1 .. Len(m.hops) + 1
      BY <1>1, <3>1
    <3>3. /\ \A i \in 1 .. Len(m.hops) : Append(m.hops, slug[m.at])[i] = m.hops[i]
          /\ Append(m.hops, slug[m.at])[Len(m.hops) + 1] = slug[m.at]
      BY <1>1, <3>1, <3>2
    <3> QED BY <2>2, <3>1, <3>2, <3>3
  <2> QED BY <2>1, <2>2
<1>4. Passed(m, t) = [at |-> t, hops |-> hops, been |-> m.been \cup {m.at},
                      again |-> m.again \cup ({m.at} \cap m.been)]
  BY DEF Passed
<1>5. Passed(m, t) \in Message
  BY <1>1, <1>3, <1>4 DEF Message
<1>6. Passed(m, t).hops = hops
  BY <1>4
<1> HIDE DEF hops
<1>7. \A g : InChain(g, m) => InChain(g, Passed(m, t))
  BY <1>3, <1>6 DEF InChain
<1>8. slug[m.at] # NoSlug => InChain(slug[m.at], Passed(m, t))
  BY <1>3, <1>6 DEF InChain
<1>9. \A i \in DOMAIN hops : InChain(hops[i], m) \/ (hops[i] = slug[m.at] /\ slug[m.at] # NoSlug)
  BY <1>3 DEF InChain
<1> QED BY <1>4, <1>5, <1>6, <1>7, <1>8, <1>9

\* What is on its way after a source has dealt with m: what was, or what m became.
LEMMA DealtWith ==
  ASSUME NEW m, NEW new, Taken(m, new)
  PROVE  inflight' \subseteq inflight \cup new
  BY DEF Taken

LEMMA ForwardStep ==
  ASSUME IInv, NEW m \in inflight, Forward(m)
  PROVE  IInv'
<1>1. PICK T \in SUBSET {t \in Sources : <<m.at, t>> \in Leads} :
        inflight' \subseteq inflight \cup {Passed(m, t) : t \in T}
  BY DealtWith DEF Forward
<1>2. UNCHANGED <<slug, dropped, renamed>> /\ ~IsLoop(m.hops, slug[m.at])
  BY DEF Forward
<1>3. FlightType /\ m \in Message /\ m.at \in Sources
  BY DEF IInv, FlightType, Message
<1>4. ~(slug[m.at] # NoSlug /\ InChain(slug[m.at], m))
  BY <1>2 DEF IsLoop, InChain
<1> DEFINE Good(n) ==
      /\ n \in Message
      /\ \A s \in n.been : slug[s] = NoSlug \/ s \in renamed \/ InChain(slug[s], n)
      /\ renamed = {} => \A i \in DOMAIN n.hops :
                           n.hops[i] # NoSlug /\ \E s \in n.been : slug[s] = n.hops[i]
      /\ \A s \in n.again : slug[s] = NoSlug \/ s \in renamed
<1>5. \A n \in inflight : Good(n)
  BY DEF IInv, FlightType, ChainComplete, ChainTrue, NoneReturns
<1>6. ASSUME NEW t \in T PROVE Good(Passed(m, t))
  <2> DEFINE n == Passed(m, t)
  <2>1. /\ n \in Message
        /\ n.been = m.been \cup {m.at}
        /\ n.again = m.again \cup ({m.at} \cap m.been)
        /\ \A g : InChain(g, m) => InChain(g, n)
        /\ slug[m.at] # NoSlug => InChain(slug[m.at], n)
        /\ \A i \in DOMAIN n.hops :
             InChain(n.hops[i], m) \/ (n.hops[i] = slug[m.at] /\ slug[m.at] # NoSlug)
    BY <1>3, PassedOn
  <2> HIDE DEF n
  <2>2. \A s \in n.been : slug[s] = NoSlug \/ s \in renamed \/ InChain(slug[s], n)
    BY <1>5, <2>1
  <2>3. ASSUME renamed = {}, NEW i \in DOMAIN n.hops
        PROVE  n.hops[i] # NoSlug /\ \E s \in n.been : slug[s] = n.hops[i]
    <3>1. CASE InChain(n.hops[i], m)
      <4>1. PICK j \in DOMAIN m.hops : m.hops[j] = n.hops[i]
        BY <3>1 DEF InChain
      <4> QED BY <1>5, <2>1, <2>3, <4>1
    <3> QED BY <2>1, <2>3, <3>1
  <2>4. \A s \in n.again : slug[s] = NoSlug \/ s \in renamed
    BY <1>4, <1>5, <2>1
  <2>5. Good(n)
    BY <2>1, <2>2, <2>3, <2>4
  <2> QED BY <2>5 DEF n
<1>7. \A n \in inflight' : Good(n)
  BY <1>1, <1>5, <1>6
<1> HIDE DEF Good
<1>8. FlightType' /\ ChainComplete' /\ ChainTrue' /\ NoneReturns'
  BY <1>2, <1>3, <1>7 DEF FlightType, ChainComplete, ChainTrue, NoneReturns, InChain, Good
<1> QED BY <1>2, <1>8 DEF IInv, SlugsUnique, DropJustified

LEMMA DropStep ==
  ASSUME IInv, NEW m \in inflight, Drop(m)
  PROVE  IInv'
<1>1. inflight' \subseteq inflight
  BY DealtWith DEF Drop
<1>2. UNCHANGED <<slug, renamed>> /\ dropped' = dropped \cup {m} /\ IsLoop(m.hops, slug[m.at])
  BY DEF Drop
<1>3. m \in Message /\ m.at \in Sources /\ m.been \subseteq Sources
  BY DEF IInv, FlightType, Message
<1>4. ASSUME renamed = {} PROVE m.at \in m.been
  <2>1. PICK i \in DOMAIN m.hops : m.hops[i] = slug[m.at]
    BY <1>2 DEF IsLoop
  <2>2. PICK s \in m.been : slug[s] = m.hops[i]
    BY <1>4, <2>1 DEF IInv, ChainTrue
  <2> QED BY <1>2, <1>3, <1>4, <2>1, <2>2 DEF IInv, SlugsUnique, IsLoop
<1>5. DropJustified'
  BY <1>2, <1>4 DEF IInv, DropJustified
<1> QED BY <1>1, <1>2, <1>5 DEF IInv, FlightType, ChainComplete, ChainTrue, SlugsUnique, NoneReturns, InChain

LEMMA ArriveStep ==
  ASSUME IInv, NEW s \in Sources, Arrive(s)
  PROVE  IInv'
<1> DEFINE new == [at |-> s, hops |-> <<>>, been |-> {}, again |-> {}]
<1>1. inflight' = inflight \cup {new} /\ UNCHANGED <<slug, dropped, renamed>>
  BY DEF Arrive
<1>2. new \in Message /\ new.been = {} /\ new.again = {} /\ DOMAIN new.hops = {}
  BY DEF Message
<1> HIDE DEF new
<1> QED BY <1>1, <1>2 DEF IInv, FlightType, ChainComplete, ChainTrue, SlugsUnique, NoneReturns,
           DropJustified, InChain

LEMMA RenameStep ==
  ASSUME IInv, NEW s \in Sources, NEW g \in Slugs, Rename(s, g)
  PROVE  IInv'
<1>1. /\ slug' = [slug EXCEPT ![s] = g] /\ renamed' = renamed \cup {s}
      /\ UNCHANGED <<inflight, dropped>>
  BY DEF Rename
<1>2. \A t \in Sources : t = s \/ slug'[t] = slug[t]
  BY <1>1 DEF IInv, FlightType
<1>3. FlightType'
  BY <1>1 DEF IInv, FlightType
<1>4. \A m \in inflight : m.been \subseteq Sources /\ m.again \subseteq Sources
  BY DEF IInv, FlightType, Message
<1>5. ChainComplete' /\ NoneReturns'
  BY <1>1, <1>2, <1>4 DEF IInv, ChainComplete, NoneReturns, InChain
<1> QED BY <1>1, <1>3, <1>5 DEF IInv, ChainTrue, SlugsUnique, DropJustified

\* The inductive invariant holds in every reachable state.
LEMMA Invariant == SafeSpec => []IInv
<1>1. Init => IInv
  BY ForwardingAssumption DEF Init, IInv, FlightType, ChainComplete, ChainTrue, SlugsUnique,
     NoneReturns, DropJustified
<1>2. IInv /\ [Next]_vars => IInv'
  <2>1. ASSUME IInv, UNCHANGED vars PROVE IInv'
    BY <2>1 DEF IInv, vars, FlightType, ChainComplete, ChainTrue, SlugsUnique, NoneReturns,
       DropJustified, InChain
  <2> QED BY <2>1, ForwardStep, DropStep, ArriveStep, RenameStep DEF Next, Receive
<1> QED BY <1>1, <1>2, PTL DEF SafeSpec

\* A source with a slug that it kept passes nothing on that came through it before,
\* whatever the rules: no copy of a message runs in a circle through it.
THEOREM NoneReturnsSafe == SafeSpec => []NoneReturns
<1>1. IInv => NoneReturns
  BY DEF IInv
<1> QED BY <1>1, Invariant, PTL

\* While no source is renamed, only messages that come back are dropped.
THEOREM DropSafe == SafeSpec => []DropJustified
<1>1. IInv => DropJustified
  BY DEF IInv
<1> QED BY <1>1, Invariant, PTL

-----------------------------------------------------------------------------
(* The length of a chain, and the types                                    *)

\* A source that is not in the chain adds its slug to it once.
LEMMA PassedOnce ==
  ASSUME NEW hops \in Seq(Slugs), NEW g \in Slugs \cup {NoSlug}, ~IsLoop(hops, g),
         \A i, j \in DOMAIN hops : hops[i] = hops[j] => i = j
  PROVE  LET new == HopChain(hops, g)
         IN  \A i, j \in DOMAIN new : new[i] = new[j] => i = j
<1>1. CASE g = NoSlug
  BY <1>1 DEF HopChain
<1>2. CASE g # NoSlug
  <2> DEFINE new == Append(hops, g)
  <2>1. g \in Slugs /\ \A i \in DOMAIN hops : hops[i] # g
    BY <1>2 DEF IsLoop
  <2>2. /\ DOMAIN hops = 1 .. Len(hops) /\ Len(hops) \in Nat
        /\ DOMAIN new = 1 .. Len(hops) + 1
    BY <2>1
  <2>3. (\A i \in 1 .. Len(hops) : new[i] = hops[i]) /\ new[Len(hops) + 1] = g
    BY <2>1, <2>2
  <2> HIDE DEF new
  <2>4. \A i, j \in DOMAIN new : new[i] = new[j] => i = j
    BY <2>1, <2>2, <2>3
  <2> QED BY <1>2, <2>4 DEF HopChain, new
<1> QED BY <1>1, <1>2

\* A chain without repetition is no longer than there are slugs.
LEMMA OnceShort ==
  ASSUME IsFiniteSet(Slugs), NEW hops \in Seq(Slugs),
         \A i, j \in DOMAIN hops : hops[i] = hops[j] => i = j
  PROVE  Len(hops) <= Cardinality(Slugs)
<1>1. Len(hops) \in Nat /\ DOMAIN hops = 1 .. Len(hops)
  OBVIOUS
<1>2. hops \in Injection(1 .. Len(hops), Slugs)
  BY <1>1 DEF Injection, IsInjective
<1>3. IsFiniteSet(1 .. Len(hops)) /\ Cardinality(1 .. Len(hops)) = Len(hops)
  BY SMTT(30), <1>1, FS_Interval
<1>4. Cardinality(1 .. Len(hops)) <= Cardinality(Slugs)
  BY <1>2, <1>3, FS_Injection
<1> QED BY <1>3, <1>4

CountType ==
  /\ dropped \subseteq Message
  /\ arrivals \in 0 .. MaxArrivals /\ resends \in 0 .. MaxResends /\ renames \in 0 .. MaxRenames

\* No step resends more than it may.
LEMMA TakenCount ==
  ASSUME resends \in 0 .. MaxResends, NEW m, NEW new, Taken(m, new)
  PROVE  resends' \in 0 .. MaxResends
BY ForwardingAssumption DEF Taken

\* Arrivals, resends and renames stay within their bounds, what was dropped is messages.
LEMMA CountStep ==
  ASSUME IInv, CountType, [Next]_vars
  PROVE  CountType'
<1> USE ForwardingAssumption DEF CountType
<1>1. ASSUME NEW m \in inflight, Drop(m) PROVE CountType'
  <2>1. resends' \in 0 .. MaxResends
    BY <1>1, TakenCount DEF Drop
  <2>2. m \in Message
    BY DEF IInv, FlightType
  <2> QED BY <1>1, <2>1, <2>2 DEF Drop
<1>2. ASSUME NEW m \in inflight, Forward(m) PROVE CountType'
  <2>1. resends' \in 0 .. MaxResends
    BY <1>2, TakenCount DEF Forward
  <2> QED BY <1>2, <2>1 DEF Forward
<1>3. ASSUME NEW s \in Sources, Arrive(s) PROVE CountType'
  BY <1>3 DEF Arrive
<1>4. ASSUME NEW s \in Sources, NEW g \in Slugs, Rename(s, g) PROVE CountType'
  BY <1>4 DEF Rename
<1>5. CASE UNCHANGED vars
  BY <1>5 DEF vars
<1> QED BY <1>1, <1>2, <1>3, <1>4, <1>5 DEF Next, Receive

\* A source that finds its slug in the chain does not add it again.
LEMMA OnceStep ==
  ASSUME IInv, HopsOnce, [Next]_vars
  PROVE  HopsOnce'
<1> DEFINE Once(m) == \A i, j \in DOMAIN m.hops : m.hops[i] = m.hops[j] => i = j
<1>0. \A m \in inflight : m \in Message /\ Once(m)
  BY DEF IInv, FlightType, HopsOnce
<1>1. ASSUME NEW m \in inflight, Drop(m) PROVE HopsOnce'
  BY <1>1, DealtWith DEF Drop, HopsOnce
<1>2. ASSUME NEW m \in inflight, Forward(m) PROVE HopsOnce'
  <2>1. PICK T \in SUBSET {t \in Sources : <<m.at, t>> \in Leads} :
          inflight' \subseteq inflight \cup {Passed(m, t) : t \in T}
    BY <1>2, DealtWith DEF Forward
  <2>2. m.hops \in Seq(Slugs) /\ slug[m.at] \in Slugs \cup {NoSlug}
    BY <1>0 DEF IInv, FlightType, Message
  <2>3. ~IsLoop(m.hops, slug[m.at]) /\ Once(m)
    BY <1>0, <1>2 DEF Forward
  <2> DEFINE new == HopChain(m.hops, slug[m.at])
  <2>4. \A i, j \in DOMAIN new : new[i] = new[j] => i = j
    BY <2>2, <2>3, PassedOnce
  <2>5. \A t : Passed(m, t).hops = new
    BY DEF Passed
  <2> HIDE DEF new
  <2>6. \A t : Once(Passed(m, t))
    BY <2>4, <2>5
  <2>7. \A n \in inflight' : Once(n)
    BY <1>0, <2>1, <2>6
  <2> QED BY <2>7 DEF HopsOnce
<1>3. ASSUME NEW s \in Sources, Arrive(s) PROVE HopsOnce'
  <2> DEFINE new == [at |-> s, hops |-> <<>>, been |-> {}, again |-> {}]
  <2>1. inflight' = inflight \cup {new}
    BY <1>3 DEF Arrive
  <2>2. DOMAIN new.hops = {}
    OBVIOUS
  <2> HIDE DEF new
  <2> QED BY <2>1, <2>2 DEF HopsOnce
<1>4. ASSUME UNCHANGED inflight PROVE HopsOnce'
  BY <1>4 DEF HopsOnce
<1> QED BY <1>1, <1>2, <1>3, <1>4 DEF Next, Receive, Rename, vars

\* Type correctness.
THEOREM TypeSafe == SafeSpec => []TypeOK
<1>1. Init => CountType
  BY ForwardingAssumption DEF Init, CountType
<1>2. IInv /\ CountType => TypeOK
  BY DEF IInv, FlightType, CountType, TypeOK
<1>3. IInv /\ CountType /\ [Next]_vars => CountType'
  BY CountStep
<1> QED BY <1>1, <1>2, <1>3, Invariant, PTL DEF SafeSpec

\* Whatever the rules, the resends and the renames, no chain names a slug twice
\* (engine.IsLoop before every Submit) - so it is bounded by the number of slugs.
THEOREM HopsSafe == IsFiniteSet(Slugs) => (SafeSpec => [](HopsOnce /\ HopsShort))
<1> SUFFICES ASSUME IsFiniteSet(Slugs) PROVE SafeSpec => [](HopsOnce /\ HopsShort)
  OBVIOUS
<1>1. Init => HopsOnce
  BY DEF Init, HopsOnce
<1>2. IInv /\ HopsOnce /\ [Next]_vars => HopsOnce'
  BY OnceStep
<1>3. IInv /\ HopsOnce => HopsShort
  <2> SUFFICES ASSUME IInv, HopsOnce, NEW m \in inflight PROVE Len(m.hops) <= Cardinality(Slugs)
    BY DEF HopsShort
  <2>1. m.hops \in Seq(Slugs)
    BY DEF IInv, FlightType, Message
  <2> QED BY <2>1, OnceShort DEF HopsOnce
<1> QED BY <1>1, <1>2, <1>3, Invariant, PTL DEF SafeSpec
=============================================================================
