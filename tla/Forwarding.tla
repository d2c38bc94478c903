----------------------------- MODULE Forwarding -----------------------------
(***************************************************************************)
(* How a message is kept from going round for ever.  A message carries the *)
(* slugs of the sources that passed it on (X-F2A-Hops, in a request header *)
(* or a mail header); a source that finds its own slug there drops it      *)
(* (engine.IsLoop, called by the webhook handler and by the mail poller).  *)
(* Sources that poll a mailbox have no slug unless somebody gave them one. *)
(*                                                                         *)
(* What lies between two sources - the delivery record, its retries, the   *)
(* wire, another instance's handler - is a message in flight here.         *)
(***************************************************************************)
EXTENDS Naturals, Sequences, FiniteSets

CONSTANTS
  Sources,      \* the receiving sources, of this instance and of others
  Slugs,        \* the path identifiers
  NoSlug,       \* the empty slug
  Leads,        \* <<s, t>>: a rule sends what s receives to an address where t listens
  FirstSlugs,   \* the slugs the sources start with
  MaxArrivals,  \* bound: messages from outside
  MaxResends,   \* bound: messages delivered more than once
  MaxRenames    \* bound: edits of a slug

\* Slugs are unique (idx_sources_slug); so are those of several instances here.
ASSUME ForwardingAssumption ==
  /\ NoSlug \notin Slugs
  /\ Leads \subseteq Sources \X Sources
  /\ FirstSlugs \subseteq [Sources -> Slugs \cup {NoSlug}]
  /\ \A f \in FirstSlugs : \A s, t \in Sources : f[s] = f[t] => s = t \/ f[s] = NoSlug
  /\ MaxArrivals \in Nat /\ MaxResends \in Nat /\ MaxRenames \in Nat

VARIABLES
  slug,       \* the slug column of each source
  inflight,   \* the messages on their way, [at, hops, been, again]
  dropped,    \* those that were recognised as loops
  renamed,    \* history: the sources whose slug was edited
  arrivals, resends, renames

vars == <<slug, inflight, dropped, renamed, arrivals, resends, renames>>

\* at: where it arrives next; hops: the chain it carries; been and again: the
\* sources that really passed this copy on, and more than once, on its own way.
\* The program does not know the last two.
Message == [at : Sources, hops : Seq(Slugs), been : SUBSET Sources, again : SUBSET Sources]

TypeOK ==
  /\ slug \in [Sources -> Slugs \cup {NoSlug}]
  /\ inflight \in SUBSET Message /\ dropped \in SUBSET Message
  /\ renamed \in SUBSET Sources
  /\ arrivals \in 0 .. MaxArrivals /\ resends \in 0 .. MaxResends /\ renames \in 0 .. MaxRenames

Init ==
  /\ slug \in FirstSlugs
  /\ inflight = {} /\ dropped = {} /\ renamed = {}
  /\ arrivals = 0 /\ resends = 0 /\ renames = 0

-----------------------------------------------------------------------------
\* Seeded bugs, each put in the place of a definition below.
IsLoopToLast(hops, g) == g # NoSlug /\ hops # <<>> /\ hops[Len(hops)] = g
IsLoopAny(hops, g)    == g # NoSlug /\ hops # <<>>
HopChainOfLast(hops, g) == IF g = NoSlug THEN hops ELSE <<g>>

IsLoop(hops, g) == g # NoSlug /\ \E i \in DOMAIN hops : hops[i] = g

\* Submit appends the slug, and ParseHops at the other end drops empty entries.
HopChain(hops, g) == IF g = NoSlug THEN hops ELSE Append(hops, g)

\* The sender of m has its answer, or has not and sends it once more.
Taken(m, new) ==
  \/ inflight' = (inflight \ {m}) \cup new /\ UNCHANGED resends
  \/ /\ resends < MaxResends /\ resends' = resends + 1
     /\ inflight' = inflight \cup new

\* A message without a chain comes from outside.
Arrive(s) ==
  /\ arrivals < MaxArrivals /\ arrivals' = arrivals + 1
  /\ inflight' = inflight \cup {[at |-> s, hops |-> <<>>, been |-> {}, again |-> {}]}
  /\ UNCHANGED <<slug, dropped, renamed, resends, renames>>

\* handleHook and cycle, of a message that was here before.
Drop(m) ==
  /\ IsLoop(m.hops, slug[m.at])
  /\ dropped' = dropped \cup {m}
  /\ Taken(m, {})
  /\ UNCHANGED <<slug, renamed, arrivals, renames>>

Passed(m, t) ==
  [at |-> t, hops |-> HopChain(m.hops, slug[m.at]), been |-> m.been \cup {m.at},
   again |-> m.again \cup ({m.at} \cap m.been)]

\* handleHook and cycle, of any other: Submit passes it on to the targets whose
\* filters match and that can be sent to.
Forward(m) ==
  /\ ~IsLoop(m.hops, slug[m.at])
  /\ \E T \in SUBSET {t \in Sources : <<m.at, t>> \in Leads} :
       Taken(m, {Passed(m, t) : t \in T})
  /\ UNCHANGED <<slug, dropped, renamed, arrivals, renames>>

Receive == \E m \in inflight : Drop(m) \/ Forward(m)

\* The operator gives a source another slug.  Slugs are unique.
Rename(s, g) ==
  /\ renames < MaxRenames /\ renames' = renames + 1
  /\ slug[s] # NoSlug /\ \A t \in Sources : slug[t] # g
  /\ slug' = [slug EXCEPT ![s] = g] /\ renamed' = renamed \cup {s}
  /\ UNCHANGED <<inflight, dropped, arrivals, resends>>

Next ==
  \/ Receive
  \/ \E s \in Sources : Arrive(s) \/ \E g \in Slugs : Rename(s, g)

SafeSpec == Init /\ [][Next]_vars

\* Whatever is on its way arrives.
Spec == SafeSpec /\ WF_vars(Receive)
-----------------------------------------------------------------------------
(* Properties *)

\* No copy of a message is passed on by a source that it came through before, if the
\* source has a slug and kept it, whatever the rules' circles, the resends and the
\* renames of other sources.  Copies are another matter: nothing tells a resend, or one
\* that came a shorter way round, from a new message, and each is passed on for itself.
NoneReturns == \A m \in inflight : \A s \in m.again : slug[s] = NoSlug \/ s \in renamed

\* Only a loop is dropped: while nobody renames a source, a message is dropped
\* where it has really been.
DropJustified ==
  renamed = {} => \A m \in dropped : m.at \in m.been

\* No slug is in a chain twice, whoever renames what meanwhile.
HopsOnce == \A m \in inflight : \A i, j \in DOMAIN m.hops : m.hops[i] = m.hops[j] => i = j
\* So a chain, and the header it travels in, never outgrows the slugs there are.
HopsShort == \A m \in inflight : Len(m.hops) <= Cardinality(Slugs)

\* The forwarding of a message ends, although the rules lead in circles, as long
\* as every circle goes through a source with a slug.
Ends == <>[](inflight = {})
=============================================================================
