---------------------------- MODULE ConfigProofs ----------------------------
(***************************************************************************)
(* Rules keep to the sources they were given, and none is left pointing at *)
(* a source that was deleted, for any number of sources, rules, deletions, *)
(* forms and imports.                                                      *)
(***************************************************************************)
EXTENDS ConfigStore, FiniteSetTheorems, SequenceTheorems, TLAPS

-----------------------------------------------------------------------------
(* The invariants *)

\* One side of a rule: its ids lead, in the table src, to the contents cs that are
\* still there, and to nothing else.
Side(src, ids, cs) == {src[i] : i \in ids \cap Ids(src)} = cs \cap Range(src)
Linked(src, v, means) == Side(src, v.from, means.from) /\ Side(src, v.to, means.to)

\* Rules, the copies a deletion will write back, the open form and the exported file
\* all lead to what the operator meant.
RuleRefs == \A r \in Ids(rule) \ raced : Linked(source, rule[r], meant[r])
CopyRefs(d) ==
  \A r \in (Ids(deleter[d].copies) \cap Ids(rule)) \ raced : Linked(source, deleter[d].copies[r], meant[r])
FormRefs == Linked(source, form, form.means)
FileRefs ==
  \A n \in 1 .. Len(export.rules) :
    /\ export.meant[n].from = {export.contents[i + 1] : i \in export.rules[n].from}
    /\ export.meant[n].to   = {export.contents[i + 1] : i \in export.rules[n].to}

RefsInv == RuleRefs /\ (\A d \in Deleters : CopyRefs(d)) /\ FormRefs /\ FileRefs

\* A deletion that is under way will still take id i out of rule r.
Pending(i, r) == \E d \in Deleters :
  /\ deleter[d].id = i
  /\ \/ deleter[d].pc = "list"
     \/ deleter[d].pc = "prune" /\ r \in Ids(deleter[d].copies)

\* While every pruning goes through undisturbed, one deletion is at work at most.
Alone == \A d, e \in Deleters : deleter[d].pc # "idle" /\ deleter[e].pc # "idle" => d = e
RulesPruned ==
  \A r \in Ids(rule) : \A i \in rule[r].from \cup rule[r].to : i \in Ids(source) \/ Pending(i, r)
CopiesPruned ==
  \A d \in Deleters : \A r \in Ids(deleter[d].copies) \cap Ids(rule) :
    deleter[d].copies[r].from \cup deleter[d].copies[r].to \subseteq Ids(source)

PruneInv == ~loose => Alone /\ RulesPruned /\ CopiesPruned

-----------------------------------------------------------------------------
(* Tables, listings and the exported file *)

\* The ids of a table have ranks 1, 2, ... and no two the same, so that a listing
\* holds each of them once.
LEMMA OrderedOnce ==
  ASSUME NEW f, NEW m \in Nat, Ids(f) \subseteq 1 .. m
  PROVE  /\ Cardinality(Ids(f)) \in Nat
         /\ \A n \in 1 .. Cardinality(Ids(f)) : Ordered(f)[n] \in Ids(f)
         /\ \A n, k \in 1 .. Cardinality(Ids(f)) : Ordered(f)[n] = Ordered(f)[k] => n = k
<1> DEFINE D == Ids(f)
           upto(i) == {j \in D : j <= i}
           rank == [i \in D |-> Cardinality(upto(i))]
           N == Cardinality(D)
<1>1. IsFiniteSet(D) /\ N \in Nat
  <2>1. IsFiniteSet(1 .. m)
    BY FS_Interval
  <2> QED BY <2>1, FS_Subset, FS_CardinalityType
<1>2. ASSUME NEW i \in D
      PROVE  rank[i] \in 1 .. N /\ IsFiniteSet(upto(i))
  <2>1. IsFiniteSet(upto(i)) /\ Cardinality(upto(i)) \in Nat /\ Cardinality(upto(i)) <= N
    BY <1>1, FS_Subset, FS_CardinalityType
  <2>2. upto(i) # {}
    OBVIOUS
  <2>3. Cardinality(upto(i)) # 0
    BY <2>1, <2>2, FS_EmptySet
  <2> QED BY <1>1, <2>1, <2>3
<1>3. ASSUME NEW i \in D, NEW j \in D, rank[i] = rank[j] PROVE i = j
  <2>1. ASSUME NEW a \in D, NEW b \in D, a < b, rank[a] = rank[b] PROVE FALSE
    <3>1. upto(a) \in SUBSET upto(b) /\ b \in upto(b) /\ b \notin upto(a)
      BY <2>1
    <3>2. upto(a) = upto(b)
      BY <1>2, <2>1, <3>1, FS_Subset
    <3> QED BY <3>1, <3>2
  <2> QED BY <1>3, <2>1
<1>4. ASSUME NEW n \in 1 .. N PROVE \E i \in D : rank[i] = n
  <2>1. rank \in Injection(D, 1 .. N)
    BY <1>2, <1>3 DEF Injection, IsInjective
  <2>2. IsFiniteSet(1 .. N) /\ Cardinality(1 .. N) = N
    BY <1>1, FS_Interval
  <2>3. rank \in Surjection(D, 1 .. N)
    <3> HIDE DEF rank
    <3> QED BY <2>1, <2>2, FS_Injection
  <2> QED BY <2>3 DEF Surjection
<1>5. ASSUME NEW n \in 1 .. N PROVE Ordered(f)[n] \in D /\ rank[Ordered(f)[n]] = n
  <2>1. Ordered(f)[n] = CHOOSE i \in D : Cardinality(upto(i)) = n
    BY <1>5 DEF Ordered, Ids
  <2>2. \E i \in D : Cardinality(upto(i)) = n
    BY <1>4
  <2>3. Ordered(f)[n] \in D /\ Cardinality(upto(Ordered(f)[n])) = n
    BY <2>1, <2>2
  <2> QED BY <2>3
<1> HIDE DEF rank, N
<1> QED BY <1>1, <1>5 DEF N

\* Whatever order the sources of the file are in, each ends up at its own position.
LEMMA PlacedWhere ==
  ASSUME ExportOK, NEW p \in Orders(Len(export.contents))
  PROVE  /\ DOMAIN Placed(FileSources(p)) = 0 .. Len(export.contents) - 1
         /\ \A i \in 0 .. Len(export.contents) - 1 : Placed(FileSources(p))[i] = export.contents[i + 1]
<1> DEFINE N == Len(export.contents)
           list == FileSources(p)
<1>1. N \in Nat /\ p \in [1 .. N -> 1 .. N] /\ IsInjective(p)
  BY DEF ExportOK, Orders
<1>2. /\ DOMAIN list = 1 .. N
      /\ \A k \in 1 .. N : /\ list[k].index = p[k] - 1
                           /\ list[k].contents = export.contents[p[k]]
                           /\ p[k] \in 1 .. N
  BY <1>1 DEF FileSources
<1>3. Len(list) = N
  <2>1. list \in [1 .. N -> Range(list)]
    BY <1>2 DEF Range, FileSources
  <2>2. list \in Seq(Range(list))
    <3> HIDE DEF list, N
    <3> QED BY <1>1, <2>1, SeqDef
  <2> HIDE DEF list, N
  <2> QED BY <1>1, <1>2, <2>2, LenProperties
<1> HIDE DEF list
<1>4. ASSUME NEW i \in 0 .. N - 1 PROVE \E e \in Range(list) : e.index = i
  <2>1. \E k \in 1 .. N : p[k] = i + 1
    <3>1. IsFiniteSet(1 .. N)
      BY <1>1, FS_Interval
    <3>2. p \in Injection(1 .. N, 1 .. N)
      BY <1>1 DEF Injection
    <3>3. p \in Surjection(1 .. N, 1 .. N)
      BY <3>1, <3>2, FS_Injection
    <3>4. i + 1 \in 1 .. N
      BY <1>1
    <3> QED BY <3>3, <3>4 DEF Surjection
  <2>2. PICK k \in 1 .. N : p[k] = i + 1
    BY <2>1
  <2>3. list[k].index = i
    BY <1>2, <2>2
  <2> QED BY <1>2, <2>3 DEF Range
<1>5. ASSUME NEW i \in 0 .. N - 1, NEW e \in Range(list), e.index = i
      PROVE  e.contents = export.contents[i + 1]
  <2>1. PICK k \in 1 .. N : e = list[k]
    BY <1>2 DEF Range
  <2>2. p[k] \in 1 .. N /\ p[k] - 1 = i /\ e.contents = export.contents[p[k]]
    BY <1>2, <1>5, <2>1
  <2>3. p[k] = i + 1
    BY <1>1, <2>2
  <2> QED BY <2>2, <2>3
<1>6. DOMAIN Placed(list) = 0 .. N - 1
  BY <1>3 DEF Placed
<1>7. ASSUME NEW i \in 0 .. N - 1 PROVE Placed(list)[i] = export.contents[i + 1]
  <2>1. Placed(list)[i] = (CHOOSE e \in Range(list) : e.index = i).contents
    BY <1>3 DEF Placed
  <2> QED BY <1>4, <1>5, <2>1
<1> QED BY <1>6, <1>7 DEF list
-----------------------------------------------------------------------------
(* What happens to a side when the table changes *)

\* A new row has an id that no side mentions and contents that none means.
LEMMA SideGrows ==
  ASSUME NEW src, NEW i, NEW c, NEW ids, NEW cs, i \notin ids, i \notin Ids(src), c \notin cs,
         Side(src, ids, cs)
  PROVE  Side(With(src, i, c), ids, cs)
<1> DEFINE new == With(src, i, c)
<1>1. Ids(new) = Ids(src) \cup {i} /\ new[i] = c /\ \A j \in Ids(src) : new[j] = src[j]
  BY DEF With, Ids
<1>2. ids \cap Ids(new) = ids \cap Ids(src)
  BY <1>1
<1>3. Range(new) = Range(src) \cup {c}
  BY <1>1 DEF Range, Ids
<1> HIDE DEF new
<1>4. ASSUME NEW x
      PROVE  x \in {new[j] : j \in ids \cap Ids(new)} <=> x \in {src[j] : j \in ids \cap Ids(src)}
  BY <1>1, <1>2
<1>5. {new[j] : j \in ids \cap Ids(new)} = {src[j] : j \in ids \cap Ids(src)}
  BY <1>4
<1>6. cs \cap Range(new) = cs \cap Range(src)
  BY <1>3
<1>7. Side(new, ids, cs)
  BY <1>5, <1>6 DEF Side
<1> QED BY <1>7 DEF new

\* A deleted row leaves both the table and what the side leads to.
LEMMA SideShrinks ==
  ASSUME NEW src, NEW i \in Ids(src), NEW ids, NEW cs, IsInjective(src), Side(src, ids, cs)
  PROVE  Side(Without(src, i), ids, cs)
<1> DEFINE new == Without(src, i)
<1>1. Ids(new) = Ids(src) \ {i} /\ \A j \in Ids(new) : new[j] = src[j]
  BY DEF Without, Ids
<1> HIDE DEF new
<1>2. \A j \in Ids(src) : src[j] = src[i] => j = i
  BY DEF IsInjective, Ids
<1>3. ASSUME NEW c
      PROVE  c \in {new[j] : j \in ids \cap Ids(new)} <=> c \in {src[j] : j \in ids \cap Ids(src)} /\ c # src[i]
  <2>1. ASSUME NEW j \in ids \cap Ids(src), c = src[j], c # src[i]
        PROVE  j \in ids \cap Ids(new) /\ c = new[j]
    BY <1>1, <2>1
  <2>2. ASSUME NEW j \in ids \cap Ids(new), c = new[j]
        PROVE  j \in ids \cap Ids(src) /\ c = src[j] /\ c # src[i]
    BY <1>1, <1>2, <2>2
  <2> QED BY <2>1, <2>2
<1>4. ASSUME NEW c
      PROVE  c \in Range(new) <=> c \in Range(src) /\ c # src[i]
  BY <1>1, <1>2 DEF Range, Ids
<1>5. \A c : c \in {src[j] : j \in ids \cap Ids(src)} <=> c \in cs /\ c \in Range(src)
  BY DEF Side
<1>6. \A c : c \in {new[j] : j \in ids \cap Ids(new)} <=> c \in cs /\ c \in Range(new)
  BY <1>3, <1>4, <1>5
<1>7. {new[j] : j \in ids \cap Ids(new)} = cs \cap Range(new)
  BY <1>6
<1>8. Side(new, ids, cs)
  BY <1>7 DEF Side
<1> QED BY <1>8 DEF new

\* Taking an id out that leads nowhere changes nothing.
LEMMA SideDrops ==
  ASSUME NEW src, NEW i, NEW ids, NEW cs, i \notin Ids(src), Side(src, ids, cs)
  PROVE  Side(src, ids \ {i}, cs)
<1>1. (ids \ {i}) \cap Ids(src) = ids \cap Ids(src)
  OBVIOUS
<1> QED BY <1>1 DEF Side

\* What the selected rows contain is what they lead to.
LEMMA SideChosen ==
  ASSUME NEW src, NEW ids
  PROVE  Side(src, ids, {src[i] : i \in ids \cap Ids(src)})
<1>1. {src[i] : i \in ids \cap Ids(src)} \subseteq Range(src)
  BY DEF Range, Ids
<1> QED BY <1>1 DEF Side

LEMMA SideNone ==
  ASSUME NEW src, NEW ids, ids \cap Ids(src) = {}
  PROVE  Side(src, ids, {})
BY DEF Side

-----------------------------------------------------------------------------
(* Type correctness *)

\* The last ids and the number of contents handed out only grow.
Grown ==
  /\ lastId' \in [source : Nat, rule : Nat] /\ made' \in Nat
  /\ lastId'.source >= lastId.source /\ lastId'.rule >= lastId.rule /\ made' >= made

LEMMA GrownRanges ==
  ASSUME TablesOK, Grown
  PROVE  /\ 1 .. lastId.source \subseteq 1 .. lastId'.source /\ 0 .. lastId.source \subseteq 0 .. lastId'.source
         /\ 1 .. lastId.rule \subseteq 1 .. lastId'.rule /\ 0 .. lastId.rule \subseteq 0 .. lastId'.rule
         /\ 1 .. made \subseteq 1 .. made'
BY DEF TablesOK, Grown

\* A deletion that does not move stays well-formed, as long as no id comes back.
LEMMA DeleterKept ==
  ASSUME TypeOK, Grown, NEW d \in Deleters, deleter'[d] = deleter[d],
         \A i \in 1 .. lastId.source : i \in Ids(source)' => i \in Ids(source)
  PROVE  DeleterOK(deleter[d])'
<1> DEFINE x == deleter[d]
<1>1. DeleterOK(x)
  BY DEF TypeOK
<1>2. Ids(x.copies) \subseteq 1 .. lastId'.rule
  BY <1>1, GrownRanges DEF DeleterOK, TypeOK
<1>3. x.copies \in [Ids(x.copies) -> Refs(1 .. lastId'.source)]
  <2>1. Refs(1 .. lastId.source) \subseteq Refs(1 .. lastId'.source)
    BY GrownRanges DEF Refs, TypeOK
  <2> QED BY <1>1, <2>1 DEF DeleterOK
<1>4. x.pc # "idle" => x.id \in (1 .. lastId'.source) \ Ids(source)'
  <2>1. x.pc # "idle" => x.id \in 1 .. lastId.source /\ x.id \notin Ids(source)
    BY <1>1 DEF DeleterOK
  <2> QED BY <2>1, GrownRanges DEF TypeOK
<1> QED BY <1>1, <1>2, <1>3, <1>4 DEF DeleterOK

LEMMA FormKept ==
  ASSUME TypeOK, Grown, form' = form
  PROVE  FormOK'
<1>1. form.means \in Refs(1 .. made')
  BY GrownRanges DEF FormOK, Refs, TypeOK
<1> QED BY <1>1, GrownRanges DEF FormOK, TypeOK

LEMMA ExportKept ==
  ASSUME TypeOK, Grown, export' = export
  PROVE  ExportOK'
<1>1. export.contents \in Seq(1 .. made')
  BY GrownRanges, SeqMonotonic DEF ExportOK, TypeOK
<1>2. export.meant \in Seq(Refs(1 .. made'))
  <2>1. Refs(1 .. made) \subseteq Refs(1 .. made')
    BY GrownRanges DEF Refs, TypeOK
  <2> QED BY <2>1, SeqMonotonic DEF ExportOK, TypeOK
<1> QED BY <1>1, <1>2 DEF ExportOK, TypeOK

\* Nothing grows where the tables and the contents stay as they are.
LEMMA SameGrown ==
  ASSUME TablesOK, lastId' = lastId, made' = made
  PROVE  Grown
BY DEF TablesOK, Grown

LEMMA TablesKept ==
  ASSUME TablesOK, UNCHANGED <<tables, meant, made>>
  PROVE  TablesOK'
BY DEF TablesOK, tables, Ids

LEMMA InitType ==
  ASSUME Init
  PROVE  TypeOK
<1>1. TablesOK
  <2>1. meant \in [1 .. lastId.rule -> Refs(1 .. made)] /\ rule \in [Ids(rule) -> Refs(1 .. lastId.source)]
    BY DEF Init, Ids
  <2>2. source \in [Ids(source) -> 1 .. made] /\ IsInjective(source) /\ Ids(source) \subseteq 1 .. lastId.source
    BY DEF Init, Ids, IsInjective
  <2> QED BY <2>1, <2>2 DEF Init, TablesOK, Ids
<1>2. FormOK
  BY DEF Init, FormOK, NoForm, Nobody, Refs
<1>3. ExportOK
  BY EmptySeq DEF Init, ExportOK, NoFile, IsInjective
<1>4. ASSUME NEW d \in Deleters PROVE DeleterOK(deleter[d])
  <2>1. deleter[d] = Gone
    BY DEF Init
  <2>2. Ids(Gone.copies) = {} /\ Gone.copies \in [Ids(Gone.copies) -> Refs(1 .. lastId.source)]
    BY DEF Gone, Ids
  <2> QED BY <2>1, <2>2 DEF DeleterOK, Gone
<1> QED BY <1>1, <1>2, <1>3, <1>4 DEF TypeOK, Init

LEMMA CreateSourceType ==
  ASSUME TypeOK, CreateSource
  PROVE  TypeOK'
<1> DEFINE i == lastId.source + 1
<1>1. /\ lastId \in [source : Nat, rule : Nat] /\ made \in Nat
      /\ Ids(source) \subseteq 1 .. lastId.source /\ source \in [Ids(source) -> 1 .. made]
      /\ IsInjective(source)
  BY DEF TypeOK, TablesOK
<1>2. made' = made + 1 /\ lastId'.source = i /\ lastId'.rule = lastId.rule /\ lastId' \in [source : Nat, rule : Nat]
  BY <1>1 DEF CreateSource, NextId
<1>3. Grown
  BY <1>1, <1>2 DEF Grown
<1>4. source' = With(source, i, made')
  BY DEF CreateSource, NextId
<1>5. /\ Ids(source)' = Ids(source) \cup {i} /\ source'[i] = made'
      /\ \A j \in Ids(source) : source'[j] = source[j]
      /\ source' \in [Ids(source)' -> 1 .. made']
  <2>1. i \notin Ids(source)
    BY <1>1
  <2>2. Ids(source)' = Ids(source) \cup {i}
    BY <1>4 DEF With, Ids
  <2>3. source'[i] = made' /\ \A j \in Ids(source) : source'[j] = source[j]
    BY <1>4, <2>1 DEF With, Ids
  <2>4. \A j \in Ids(source)' : source'[j] \in 1 .. made'
    BY <1>1, <1>2, <2>2, <2>3
  <2>5. source' = [j \in Ids(source)' |-> source'[j]]
    BY <1>4 DEF With, Ids
  <2> QED BY <2>2, <2>3, <2>4, <2>5
<1>6. IsInjective(source)'
  <2>1. ASSUME NEW a \in Ids(source)', NEW b \in Ids(source)', source'[a] = source'[b] PROVE a = b
    <3>1. \A j \in Ids(source) : source'[j] # made'
      BY <1>1, <1>2, <1>5
    <3>2. \A j, k \in Ids(source) : source'[j] = source'[k] => j = k
      BY <1>1, <1>5 DEF IsInjective, Ids
    <3> QED BY <1>5, <2>1, <3>1, <3>2
  <2> QED BY <2>1 DEF IsInjective, Ids
<1>7. TablesOK'
  <2>1. rule' = rule /\ meant' = meant
    BY DEF CreateSource, history
  <2>2. rule \in [Ids(rule) -> Refs(1 .. lastId'.source)] /\ meant \in [1 .. lastId.rule -> Refs(1 .. made')]
    <3>1. Refs(1 .. lastId.source) \subseteq Refs(1 .. lastId'.source) /\ Refs(1 .. made) \subseteq Refs(1 .. made')
      BY <1>3, GrownRanges DEF Refs, TypeOK
    <3> QED BY <3>1 DEF TypeOK, TablesOK
  <2>3. Ids(source)' \subseteq 1 .. lastId'.source
    BY <1>1, <1>2, <1>5
  <2> QED BY <1>2, <1>3, <1>5, <1>6, <2>1, <2>2, <2>3 DEF TablesOK, TypeOK, Ids, Grown
<1>8. ASSUME NEW d \in Deleters PROVE DeleterOK(deleter[d])'
  <2>1. \A j \in 1 .. lastId.source : j \in Ids(source)' => j \in Ids(source)
    BY <1>1, <1>5
  <2> QED BY <1>3, <2>1, DeleterKept DEF CreateSource
<1>9. FormOK' /\ ExportOK'
  BY <1>3, FormKept, ExportKept DEF CreateSource
<1> QED BY <1>7, <1>8, <1>9 DEF TypeOK, CreateSource, history

\* The steps of a deletion leave the last ids and what the file says alone.
LEMMA DeleteFrame ==
  ASSUME TypeOK, lastId' = lastId, made' = made, form' = form, export' = export,
         Ids(source)' \subseteq Ids(source), NEW d \in Deleters, NEW x,
         deleter' = [deleter EXCEPT ![d] = x]
  PROVE  /\ Grown /\ FormOK' /\ ExportOK' /\ DOMAIN deleter' = Deleters /\ deleter'[d] = x
         /\ \A e \in Deleters \ {d} : DeleterOK(deleter[e])'
<1>1. Grown
  BY SameGrown DEF TypeOK
<1>2. DOMAIN deleter' = Deleters /\ deleter'[d] = x /\ \A e \in Deleters \ {d} : deleter'[e] = deleter[e]
  BY DEF TypeOK
<1>3. ASSUME NEW e \in Deleters \ {d} PROVE DeleterOK(deleter[e])'
  BY <1>1, <1>2, DeleterKept
<1> QED BY <1>1, <1>2, <1>3, FormKept, ExportKept

LEMMA DeleteRowType ==
  ASSUME TypeOK, NEW d \in Deleters, NEW i \in Ids(source), DeleteRow(d, i)
  PROVE  TypeOK'
<1>1. Ids(source)' = Ids(source) \ {i} /\ \A j \in Ids(source)' : source'[j] = source[j]
  BY DEF DeleteRow, Without, Ids
<1>2. /\ Grown /\ FormOK' /\ ExportOK' /\ DOMAIN deleter' = Deleters
      /\ deleter'[d] = [pc |-> "list", id |-> i, copies |-> <<>>]
      /\ \A e \in Deleters \ {d} : DeleterOK(deleter[e])'
  BY <1>1, DeleteFrame DEF DeleteRow
<1>3. TablesOK'
  <2>1. source' \in [Ids(source)' -> 1 .. made] /\ IsInjective(source)'
    <3>1. source' = [j \in Ids(source)' |-> source[j]]
      BY DEF DeleteRow, Without, Ids
    <3> QED BY <1>1, <3>1 DEF TypeOK, TablesOK, IsInjective, Ids
  <2> QED BY <1>1, <2>1 DEF TypeOK, TablesOK, DeleteRow, Ids
<1>4. DeleterOK(deleter[d])'
  <2>1. Ids(<<>>) = {} /\ <<>> \in [Ids(<<>>) -> Refs(1 .. lastId.source)]
    BY DEF Ids
  <2>2. i \in (1 .. lastId'.source) \ Ids(source)' /\ lastId' = lastId
    BY <1>1 DEF TypeOK, TablesOK, DeleteRow
  <2> QED BY <1>2, <2>1, <2>2 DEF DeleterOK
<1>5. loose' \in BOOLEAN
  BY DEF DeleteRow
<1> QED BY <1>2, <1>3, <1>4, <1>5 DEF TypeOK

\* f maps ids to elements of T.
Table(f, T) == f \in [Ids(f) -> T]

LEMMA WithType ==
  ASSUME NEW f, NEW T, Table(f, T), NEW i, NEW v \in T
  PROVE  /\ Table(With(f, i, v), T) /\ Ids(With(f, i, v)) = Ids(f) \cup {i}
         /\ With(f, i, v)[i] = v /\ \A j \in Ids(f) \ {i} : With(f, i, v)[j] = f[j]
BY DEF With, Ids, Table

LEMMA WithoutType ==
  ASSUME NEW f, NEW T, Table(f, T), NEW i
  PROVE  /\ Table(Without(f, i), T) /\ Ids(Without(f, i)) = Ids(f) \ {i}
         /\ \A j \in Ids(f) \ {i} : Without(f, i)[j] = f[j]
BY DEF Without, Ids, Table

LEMMA WithoutIdType ==
  ASSUME NEW S, NEW v \in Refs(S), NEW i
  PROVE  /\ WithoutId(v, i) \in Refs(S)
         /\ WithoutId(v, i).from = v.from \ {i} /\ WithoutId(v, i).to = v.to \ {i}
BY DEF WithoutId, Refs

\* What a deletion that lists the rules takes down.
LEMMA ListEffect ==
  ASSUME TypeOK, NEW d \in Deleters, ListForPrune(d)
  PROVE  /\ deleter'[d].pc = "prune" /\ deleter'[d].id = deleter[d].id
         /\ Ids(deleter'[d].copies) = {r \in Ids(rule) : Mentions(rule[r], deleter[d].id)}
         /\ \A r \in Ids(deleter'[d].copies) : deleter'[d].copies[r] = WithoutId(rule[r], deleter[d].id)
         /\ deleter'[d].copies = [r \in Ids(deleter'[d].copies) |-> WithoutId(rule[r], deleter[d].id)]
         /\ deleter[d].pc = "list" /\ UNCHANGED <<tables, form, export, history, made>>
         /\ \E x : deleter' = [deleter EXCEPT ![d] = x]
         /\ \A e \in Deleters \ {d} : deleter'[e] = deleter[e]
<1> DEFINE copies == [r \in {r \in Ids(rule) : Mentions(rule[r], deleter[d].id)} |->
                        WithoutId(rule[r], deleter[d].id)]
<1>1. deleter' = [deleter EXCEPT ![d] = [pc |-> "prune", id |-> deleter[d].id, copies |-> copies]]
  BY DEF ListForPrune
<1>2. deleter'[d] = [pc |-> "prune", id |-> deleter[d].id, copies |-> copies]
      /\ \A e \in Deleters \ {d} : deleter'[e] = deleter[e]
  BY <1>1 DEF TypeOK
<1>3. Ids(copies) = {r \in Ids(rule) : Mentions(rule[r], deleter[d].id)}
  BY DEF Ids
<1>4. deleter'[d].pc = "prune" /\ deleter'[d].id = deleter[d].id /\ deleter'[d].copies = copies
  BY <1>2
<1>5. deleter[d].pc = "list" /\ UNCHANGED <<tables, form, export, history, made>>
  BY DEF ListForPrune
<1>6. \E x : deleter' = [deleter EXCEPT ![d] = x]
  BY <1>1
<1>7. /\ \A r \in Ids(copies) : copies[r] = WithoutId(rule[r], deleter[d].id)
      /\ copies = [r \in Ids(copies) |-> WithoutId(rule[r], deleter[d].id)]
  BY <1>3
<1> HIDE DEF copies
<1> QED BY <1>2, <1>3, <1>4, <1>5, <1>6, <1>7

LEMMA ListForPruneType ==
  ASSUME TypeOK, NEW d \in Deleters, ListForPrune(d)
  PROVE  TypeOK'
<1>1. PICK x : deleter' = [deleter EXCEPT ![d] = x]
  BY ListEffect
<1>2. UNCHANGED <<tables, form, export, history, made>>
  BY ListEffect
<1>3. /\ Grown /\ FormOK' /\ ExportOK' /\ DOMAIN deleter' = Deleters
      /\ \A e \in Deleters \ {d} : DeleterOK(deleter[e])'
  BY <1>1, <1>2, DeleteFrame DEF tables
<1>4. TablesOK'
  BY <1>2, TablesKept DEF TypeOK, history
<1>5. DeleterOK(deleter[d])'
  <2> DEFINE copies == deleter'[d].copies
  <2>1. copies \in [Ids(copies) -> Refs(1 .. lastId.source)] /\ Ids(copies) \subseteq Ids(rule)
    <3>1. /\ copies = [r \in Ids(copies) |-> WithoutId(rule[r], deleter[d].id)]
          /\ Ids(copies) = {r \in Ids(rule) : Mentions(rule[r], deleter[d].id)}
      BY ListEffect
    <3>2. \A r \in Ids(rule) : rule[r] \in Refs(1 .. lastId.source)
      BY DEF TypeOK, TablesOK
    <3>3. \A r \in Ids(copies) : WithoutId(rule[r], deleter[d].id) \in Refs(1 .. lastId.source)
      BY <3>1, <3>2, WithoutIdType
    <3> HIDE DEF copies
    <3> QED BY <3>1, <3>3
  <2>2. deleter[d].id \in (1 .. lastId.source) \ Ids(source)
    BY ListEffect DEF TypeOK, DeleterOK
  <2>3. lastId' = lastId /\ Ids(source)' = Ids(source) /\ Ids(rule) \subseteq 1 .. lastId.rule
    BY <1>2 DEF tables, Ids, TypeOK, TablesOK
  <2>4. deleter'[d].pc = "prune" /\ deleter'[d].id = deleter[d].id
    BY ListEffect
  <2> QED BY <2>1, <2>2, <2>3, <2>4 DEF DeleterOK
<1> QED BY <1>2, <1>3, <1>4, <1>5 DEF TypeOK, history

\* One rule is written back, unless it is gone, and ticked off.
LEMMA PruneEffect ==
  ASSUME TypeOK, NEW d \in Deleters, PruneRule(d)
  PROVE  \E r \in Ids(deleter[d].copies) :
           /\ rule' = IF r \in Ids(rule) THEN With(rule, r, deleter[d].copies[r]) ELSE rule
           /\ deleter[d].pc = "prune" /\ deleter'[d].pc = "prune" /\ deleter'[d].id = deleter[d].id
           /\ deleter'[d].copies = Without(deleter[d].copies, r)
           /\ UNCHANGED <<source, lastId, form, export, history, made>>
           /\ \E x : deleter' = [deleter EXCEPT ![d] = x]
           /\ \A e \in Deleters \ {d} : deleter'[e] = deleter[e]
<1>1. PICK r \in Ids(deleter[d].copies) :
        /\ UpdateRule(r, deleter[d].copies[r])
        /\ deleter' = [deleter EXCEPT ![d] = [pc |-> "prune", id |-> deleter[d].id,
                                              copies |-> Without(deleter[d].copies, r)]]
  BY DEF PruneRule
<1>2. /\ deleter'[d] = [pc |-> "prune", id |-> deleter[d].id, copies |-> Without(deleter[d].copies, r)]
      /\ \A e \in Deleters \ {d} : deleter'[e] = deleter[e]
  BY <1>1 DEF TypeOK
<1>3. deleter[d].pc = "prune" /\ UNCHANGED <<source, lastId, form, export, history, made>>
  BY DEF PruneRule
<1>4. rule' = IF r \in Ids(rule) THEN With(rule, r, deleter[d].copies[r]) ELSE rule
  BY <1>1 DEF UpdateRule
<1>5. \E x : deleter' = [deleter EXCEPT ![d] = x]
  BY <1>1
<1>6. /\ deleter'[d].pc = "prune" /\ deleter'[d].id = deleter[d].id
      /\ deleter'[d].copies = Without(deleter[d].copies, r)
  BY <1>2
<1> QED BY <1>2, <1>3, <1>4, <1>5, <1>6

LEMMA PruneRuleType ==
  ASSUME TypeOK, NEW d \in Deleters, PruneRule(d)
  PROVE  TypeOK'
<1>1. PICK r \in Ids(deleter[d].copies) :
        /\ rule' = IF r \in Ids(rule) THEN With(rule, r, deleter[d].copies[r]) ELSE rule
        /\ deleter[d].pc = "prune" /\ deleter'[d].pc = "prune" /\ deleter'[d].id = deleter[d].id
        /\ deleter'[d].copies = Without(deleter[d].copies, r)
        /\ UNCHANGED <<source, lastId, form, export, history, made>>
        /\ \E x : deleter' = [deleter EXCEPT ![d] = x]
  BY PruneEffect
<1>2. DeleterOK(deleter[d])
  BY DEF TypeOK
<1>3. /\ Grown /\ FormOK' /\ ExportOK' /\ DOMAIN deleter' = Deleters
      /\ \A e \in Deleters \ {d} : DeleterOK(deleter[e])'
  BY <1>1, DeleteFrame DEF Ids
<1>4. TablesOK'
  <2>1. rule' \in [Ids(rule)' -> Refs(1 .. lastId.source)] /\ Ids(rule)' = Ids(rule)
    <3>1. CASE r \in Ids(rule)
      <4>1. deleter[d].copies[r] \in Refs(1 .. lastId.source)
        BY <1>2 DEF DeleterOK
      <4>2. Table(rule, Refs(1 .. lastId.source)) /\ rule' = With(rule, r, deleter[d].copies[r])
        BY <1>1, <3>1 DEF TypeOK, TablesOK, Table
      <4>3. /\ Table(With(rule, r, deleter[d].copies[r]), Refs(1 .. lastId.source))
            /\ Ids(With(rule, r, deleter[d].copies[r])) = Ids(rule) \cup {r}
        BY <4>1, <4>2, WithType
      <4> QED BY <3>1, <4>2, <4>3 DEF Table, Ids
    <3>2. CASE r \notin Ids(rule)
      BY <1>1, <3>2 DEF TypeOK, TablesOK, Ids
    <3> QED BY <3>1, <3>2
  <2> QED BY <1>1, <2>1 DEF TypeOK, TablesOK, history, Ids
<1>5. DeleterOK(deleter[d])'
  <2>1. /\ Without(deleter[d].copies, r) \in [Ids(Without(deleter[d].copies, r)) -> Refs(1 .. lastId.source)]
        /\ Ids(Without(deleter[d].copies, r)) \subseteq Ids(deleter[d].copies)
    <3>1. Table(deleter[d].copies, Refs(1 .. lastId.source))
      BY <1>2 DEF DeleterOK, Table
    <3>2. /\ Table(Without(deleter[d].copies, r), Refs(1 .. lastId.source))
          /\ Ids(Without(deleter[d].copies, r)) = Ids(deleter[d].copies) \ {r}
      BY <3>1, WithoutType
    <3> QED BY <3>2 DEF Table
  <2>2. lastId' = lastId /\ Ids(source)' = Ids(source)
    BY <1>1 DEF Ids
  <2> QED BY <1>1, <1>2, <2>1, <2>2 DEF DeleterOK
<1> QED BY <1>1, <1>3, <1>4, <1>5 DEF TypeOK, history

LEMMA DeleteOverType ==
  ASSUME TypeOK, NEW d \in Deleters, DeleteDone(d) \/ DeleteBroken(d)
  PROVE  TypeOK'
<1>1. UNCHANGED <<tables, form, export, meant, made>> /\ deleter' = [deleter EXCEPT ![d] = Gone]
  BY DEF DeleteDone, DeleteBroken, history
<1>2. /\ Grown /\ FormOK' /\ ExportOK' /\ DOMAIN deleter' = Deleters /\ deleter'[d] = Gone
      /\ \A e \in Deleters \ {d} : DeleterOK(deleter[e])'
  BY <1>1, DeleteFrame DEF tables, Ids
<1>3. TablesOK'
  BY <1>1, TablesKept DEF TypeOK
<1>4. DeleterOK(deleter[d])'
  <2>1. Ids(Gone.copies) = {} /\ Gone.copies \in [Ids(Gone.copies) -> Refs(1 .. lastId'.source)]
    BY DEF Gone, Ids
  <2> QED BY <1>2, <2>1 DEF DeleterOK, Gone
<1>5. loose' \in BOOLEAN
  BY DEF DeleteDone, DeleteBroken, history, TypeOK
<1> QED BY <1>2, <1>3, <1>4, <1>5 DEF TypeOK

LEMMA OpenFormType ==
  ASSUME TypeOK, NEW r \in Ids(rule) \cup {0}, OpenForm(r)
  PROVE  TypeOK'
<1>1. PICK from \in Selections, to \in Selections :
        form' = [rule |-> r, from |-> from, to |-> to,
                 means |-> [from |-> Contents(from), to |-> Contents(to)]]
  BY DEF OpenForm
<1>2. UNCHANGED <<tables, deleter, export, history, made>>
  BY DEF OpenForm
<1>3. TablesOK' /\ Grown /\ Ids(source)' = Ids(source)
  BY <1>2, TablesKept, SameGrown DEF TypeOK, history, tables, Ids
<1>4. ASSUME NEW d \in Deleters PROVE DeleterOK(deleter[d])'
  BY <1>2, <1>3, DeleterKept
<1>5. ExportOK'
  BY <1>2, <1>3, ExportKept
<1>6. FormOK'
  <2>1. from \subseteq 1 .. lastId.source /\ to \subseteq 1 .. lastId.source
    BY DEF Selections, TypeOK, TablesOK
  <2>2. Contents(from) \subseteq 1 .. made /\ Contents(to) \subseteq 1 .. made
    BY DEF Contents, TypeOK, TablesOK
  <2>3. r \in 0 .. lastId.rule
    BY DEF TypeOK, TablesOK
  <2> QED BY <1>1, <1>2, <2>1, <2>2, <2>3 DEF FormOK, Refs, tables
<1> QED BY <1>2, <1>3, <1>4, <1>5, <1>6 DEF TypeOK, history

\* A submitted form writes one rule, a new one or one that is still there, or nothing.
Written(r) ==
  /\ rule' = With(rule, r, [from |-> form.from, to |-> form.to])
  /\ meant' = With(meant, r, form.means)
  /\ lastId'.source = lastId.source /\ lastId' \in [source : Nat, rule : Nat]
  /\ \/ r \in Ids(rule) /\ lastId'.rule = lastId.rule
     \/ r = lastId.rule + 1 /\ lastId'.rule = r

LEMMA SubmitEffect ==
  ASSUME TypeOK, SubmitForm
  PROVE  /\ UNCHANGED <<source, deleter, export, made>> /\ form' = NoForm
         /\ loose' \in BOOLEAN
         /\ \E r \in Nat :
              /\ raced' = IF Held(r) THEN raced \cup {r} ELSE raced \ {r}
              /\ ~loose' => ~loose /\ form.from \cup form.to \subseteq Ids(source) /\ ~Held(r)
              /\ \/ Written(r)
                 \/ UNCHANGED <<rule, meant, lastId>> /\ r \notin Ids(rule)
<1> DEFINE r == IF form.rule = 0 THEN lastId.rule + 1 ELSE form.rule
           new == [from |-> form.from, to |-> form.to]
<1>1. lastId \in [source : Nat, rule : Nat] /\ Ids(rule) \subseteq 1 .. lastId.rule /\ form.rule \in 0 .. lastId.rule
  BY DEF TypeOK, TablesOK, FormOK
<1>2. r \in Nat
  BY <1>1
<1>3. UNCHANGED <<source, deleter, export, made>> /\ form' = NoForm
  BY DEF SubmitForm
<1>4. /\ raced' = IF Held(r) THEN raced \cup {r} ELSE raced \ {r}
      /\ meant' = IF r \in Ids(rule') THEN With(meant, r, form.means) ELSE meant
  BY DEF SubmitForm, NextId
<1>5. loose' \in BOOLEAN /\ (~loose' => ~loose /\ form.from \cup form.to \subseteq Ids(source) /\ ~Held(r))
  <2>1. loose' = (loose \/ ~(form.from \cup form.to \subseteq Ids(source)) \/ Held(r))
    BY DEF SubmitForm, NextId
  <2> HIDE DEF r
  <2> QED BY <2>1 DEF TypeOK
<1>6. CASE form.rule = 0
  <2>1. r = lastId.rule + 1 /\ rule' = With(rule, r, new)
    BY <1>6 DEF SubmitForm, NextId
  <2>2. lastId' = [lastId EXCEPT !.rule = IF lastId.rule + 1 > @ THEN lastId.rule + 1 ELSE @]
    BY <1>6 DEF SubmitForm, NextId
  <2>3. lastId'.rule = lastId.rule + 1 /\ lastId'.source = lastId.source /\ lastId' \in [source : Nat, rule : Nat]
    BY <1>1, <2>2
  <2> HIDE DEF r, new
  <2>4. r \in Ids(rule')
    BY <2>1 DEF Ids, With
  <2>5. Written(r)
    BY <1>4, <2>1, <2>3, <2>4 DEF Written, new
  <2> QED BY <1>2, <1>3, <1>4, <1>5, <2>5
<1>7. CASE form.rule # 0
  <2>1. rule' = (IF r \in Ids(rule) THEN With(rule, r, new) ELSE rule) /\ lastId' = lastId
    BY <1>7 DEF SubmitForm, UpdateRule
  <2> HIDE DEF r, new
  <2>2. CASE r \in Ids(rule)
    <3>1. r \in Ids(rule')
      BY <2>1, <2>2 DEF Ids, With
    <3>2. Written(r)
      BY <1>1, <1>4, <2>1, <2>2, <3>1 DEF Written, new
    <3> QED BY <1>2, <1>3, <1>4, <1>5, <3>2
  <2>3. CASE r \notin Ids(rule)
    <3>1. UNCHANGED <<rule, meant, lastId>>
      BY <1>4, <2>1, <2>3
    <3> QED BY <1>2, <1>3, <1>4, <1>5, <2>3, <3>1
  <2> QED BY <2>2, <2>3
<1> QED BY <1>6, <1>7

LEMMA SubmitFormType ==
  ASSUME TypeOK, SubmitForm
  PROVE  TypeOK'
<1>1. UNCHANGED <<source, deleter, export, made>> /\ form' = NoForm /\ loose' \in BOOLEAN
  BY SubmitEffect
<1>2. PICK r \in Nat : Written(r) \/ UNCHANGED <<rule, meant, lastId>>
  BY SubmitEffect
<1>3. TablesOK' /\ Grown
  <2>1. CASE UNCHANGED <<rule, meant, lastId>>
    BY <1>1, <2>1, TablesKept, SameGrown DEF TypeOK, tables
  <2>2. CASE Written(r)
    <3>1. /\ lastId \in [source : Nat, rule : Nat] /\ Ids(rule) \subseteq 1 .. lastId.rule /\ made \in Nat
          /\ Table(rule, Refs(1 .. lastId.source))
          /\ Ids(meant) = 1 .. lastId.rule /\ Table(meant, Refs(1 .. made))
      BY DEF TypeOK, TablesOK, Table, Ids
    <3>2. 1 .. lastId'.rule = 1 .. lastId.rule \cup {r} /\ lastId'.rule >= lastId.rule /\ r \in 1 .. lastId'.rule
      BY <2>2, <3>1 DEF Written
    <3>3. [from |-> form.from, to |-> form.to] \in Refs(1 .. lastId.source) /\ form.means \in Refs(1 .. made)
      BY DEF TypeOK, FormOK, Refs
    <3>4. Table(rule', Refs(1 .. lastId.source)) /\ Ids(rule') = Ids(rule) \cup {r}
      <4>1. rule' = With(rule, r, [from |-> form.from, to |-> form.to])
        BY <2>2 DEF Written
      <4> QED BY <3>1, <3>3, <4>1, WithType
    <3>5. Table(meant', Refs(1 .. made)) /\ Ids(meant') = 1 .. lastId'.rule
      <4>1. meant' = With(meant, r, form.means)
        BY <2>2 DEF Written
      <4>2. Table(With(meant, r, form.means), Refs(1 .. made)) /\ Ids(With(meant, r, form.means)) = Ids(meant) \cup {r}
        BY <3>1, <3>3, WithType
      <4> QED BY <3>1, <3>2, <4>1, <4>2
    <3>6. lastId'.source = lastId.source /\ lastId' \in [source : Nat, rule : Nat]
      BY <2>2 DEF Written
    <3>7. rule' \in [Ids(rule)' -> Refs(1 .. lastId'.source)] /\ Ids(rule)' \subseteq 1 .. lastId'.rule
      BY <3>1, <3>2, <3>4, <3>6 DEF Table, Ids
    <3>8. meant' \in [1 .. lastId'.rule -> Refs(1 .. made')]
      BY <1>1, <3>5 DEF Table
    <3>9. TablesOK'
      BY <1>1, <3>6, <3>7, <3>8 DEF TypeOK, TablesOK, Ids
    <3> QED BY <1>1, <3>1, <3>2, <3>6, <3>9 DEF Grown
  <2> QED BY <1>2, <2>1, <2>2
<1>4. ASSUME NEW d \in Deleters PROVE DeleterOK(deleter[d])'
  BY <1>1, <1>3, DeleterKept DEF Ids
<1>5. FormOK'
  BY <1>1, <1>3 DEF FormOK, NoForm, Nobody, Refs, TablesOK, Grown
<1>6. ExportOK'
  BY <1>1, <1>3, ExportKept
<1> QED BY <1>1, <1>3, <1>4, <1>5, <1>6 DEF TypeOK

LEMMA DeleteRuleType ==
  ASSUME TypeOK, NEW r \in Ids(rule), DeleteRule(r)
  PROVE  TypeOK'
<1>1. /\ UNCHANGED <<source, lastId, deleter, form, export, loose, made>>
      /\ rule' = Without(rule, r) /\ meant' = With(meant, r, Nobody)
  BY DEF DeleteRule
<1>2. Grown
  BY <1>1, SameGrown DEF TypeOK
<1>3. TablesOK'
  <2>1. /\ Table(rule, Refs(1 .. lastId.source)) /\ Table(meant, Refs(1 .. made))
        /\ Ids(meant) = 1 .. lastId.rule /\ r \in 1 .. lastId.rule
    BY DEF TypeOK, TablesOK, Table, Ids
  <2>2. Nobody \in Refs(1 .. made)
    BY DEF Nobody, Refs
  <2>3. Table(rule', Refs(1 .. lastId.source)) /\ Ids(rule') = Ids(rule) \ {r}
    BY <1>1, <2>1, WithoutType
  <2>4. Table(meant', Refs(1 .. made)) /\ Ids(meant') = 1 .. lastId.rule
    <3>1. Table(With(meant, r, Nobody), Refs(1 .. made)) /\ Ids(With(meant, r, Nobody)) = Ids(meant) \cup {r}
      <4>1. Table(meant, Refs(1 .. made))
        BY <2>1
      <4> QED BY <2>2, <4>1, WithType
    <3> QED BY <1>1, <2>1, <3>1
  <2> QED BY <1>1, <2>3, <2>4 DEF TypeOK, TablesOK, Table, Ids
<1>4. ASSUME NEW d \in Deleters PROVE DeleterOK(deleter[d])'
  BY <1>1, <1>2, DeleterKept DEF Ids
<1>5. FormOK' /\ ExportOK'
  BY <1>1, <1>2, FormKept, ExportKept
<1> QED BY <1>1, <1>3, <1>4, <1>5 DEF TypeOK

LEMMA ExportSourcesType ==
  ASSUME TypeOK, ExportSources
  PROVE  TypeOK'
<1> DEFINE C == Cardinality(Ids(source))
           list == [n \in 1 .. C |-> source[Ordered(source)[n]]]
<1>1. UNCHANGED <<tables, deleter, form, history, made>>
  BY DEF ExportSources
<1>2. /\ export'.listed = Ordered(source) /\ export'.contents = list
      /\ export'.rules = <<>> /\ export'.meant = <<>>
  BY DEF ExportSources, NoFile
<1>3. TablesOK' /\ Grown /\ Ids(source)' = Ids(source)
  BY <1>1, TablesKept, SameGrown DEF TypeOK, history, tables, Ids
<1>4. ASSUME NEW d \in Deleters PROVE DeleterOK(deleter[d])'
  BY <1>1, <1>3, DeleterKept
<1>5. FormOK'
  BY <1>1, <1>3, FormKept
<1>6. ExportOK'
  <2>1. /\ C \in Nat
        /\ \A n \in 1 .. C : Ordered(source)[n] \in Ids(source)
        /\ \A n, k \in 1 .. C : Ordered(source)[n] = Ordered(source)[k] => n = k
    BY OrderedOnce DEF TypeOK, TablesOK
  <2>2. list \in [1 .. C -> 1 .. made]
    BY <2>1 DEF TypeOK, TablesOK
  <2>3. list \in Seq(1 .. made)
    <3> DEFINE T == 1 .. made
    <3>1. list \in [1 .. C -> T] /\ C \in Nat
      BY <2>1, <2>2
    <3>2. list \in Seq(T)
      <4> HIDE DEF list, C, T
      <4> QED BY <3>1, SeqDef
    <3> QED BY <3>2
  <2>4. IsInjective(list)
    <3>1. \A n, k \in 1 .. C : source[Ordered(source)[n]] = source[Ordered(source)[k]] => n = k
      BY <2>1 DEF TypeOK, TablesOK, IsInjective, Ids
    <3>2. DOMAIN list = 1 .. C /\ \A n \in 1 .. C : list[n] = source[Ordered(source)[n]]
      OBVIOUS
    <3> HIDE DEF list, C
    <3> QED BY <3>1, <3>2 DEF IsInjective
  <2>5. DOMAIN export'.listed = DOMAIN export'.contents
    BY <1>2 DEF Ordered, Ids
  <2> HIDE DEF list
  <2> QED BY <1>1, <1>2, <2>3, <2>4, <2>5, EmptySeq DEF ExportOK
<1> QED BY <1>1, <1>3, <1>4, <1>5, <1>6 DEF TypeOK, history

\* The file gets one entry for each rule.
LEMMA ExportRulesEffect ==
  ASSUME TypeOK, ExportRules
  PROVE  /\ export'.listed = export.listed /\ export'.contents = export.contents
         /\ \E C \in Nat :
              /\ export'.rules \in [1 .. C -> Refs(0 .. Len(export.contents) - 1)]
              /\ export'.meant \in [1 .. C -> Refs(1 .. made)]
              /\ \A n \in 1 .. C : \E v :
                   /\ export'.rules[n].from = Indices(v.from) /\ export'.rules[n].to = Indices(v.to)
                   /\ export'.meant[n].from = Listed(v.from)  /\ export'.meant[n].to = Listed(v.to)
<1> DEFINE C == Cardinality(Ids(rule))
           v(n) == rule[Ordered(rule)[n]]
<1>1. C \in Nat /\ DOMAIN Ordered(rule) = 1 .. C
  BY OrderedOnce DEF TypeOK, TablesOK, Ordered, Ids
<1>2. /\ export'.rules = [n \in 1 .. C |-> [from |-> Indices(v(n).from), to |-> Indices(v(n).to)]]
      /\ export'.meant = [n \in 1 .. C |-> [from |-> Listed(v(n).from), to |-> Listed(v(n).to)]]
      /\ export'.listed = export.listed /\ export'.contents = export.contents
  <2>1. export' = [pc |-> "file", listed |-> export.listed, contents |-> export.contents,
          rules |-> [n \in 1 .. C |-> [from |-> Indices(v(n).from), to |-> Indices(v(n).to)]],
          meant |-> [n \in 1 .. C |-> [from |-> Listed(v(n).from), to |-> Listed(v(n).to)]]]
    BY <1>1 DEF ExportRules
  <2> HIDE DEF C, v
  <2> QED BY <2>1
<1>3. \A ids : Indices(ids) \subseteq 0 .. Len(export.contents) - 1
  BY DEF Indices
<1>4. \A ids : Listed(ids) \subseteq 1 .. made
  <2>1. \A n \in DOMAIN export.contents : export.contents[n] \in 1 .. made
    <3>1. export.contents \in Seq(1 .. made)
      BY DEF TypeOK, ExportOK
    <3> QED BY <3>1, LenProperties
  <2> QED BY <2>1 DEF Listed, TypeOK, ExportOK
<1> HIDE DEF C, v
<1>5. export'.rules \in [1 .. C -> Refs(0 .. Len(export.contents) - 1)]
  BY <1>2, <1>3 DEF Refs
<1>6. export'.meant \in [1 .. C -> Refs(1 .. made)]
  BY <1>2, <1>4 DEF Refs
<1>7. ASSUME NEW n \in 1 .. C
      PROVE  \E w : /\ export'.rules[n].from = Indices(w.from) /\ export'.rules[n].to = Indices(w.to)
                    /\ export'.meant[n].from = Listed(w.from)  /\ export'.meant[n].to = Listed(w.to)
  <2>1. /\ export'.rules[n].from = Indices(v(n).from) /\ export'.rules[n].to = Indices(v(n).to)
        /\ export'.meant[n].from = Listed(v(n).from)  /\ export'.meant[n].to = Listed(v(n).to)
    BY <1>2
  <2> QED BY <2>1
<1> QED BY <1>1, <1>2, <1>5, <1>6, <1>7

LEMMA ExportRulesType ==
  ASSUME TypeOK, ExportRules
  PROVE  TypeOK'
<1>1. UNCHANGED <<tables, deleter, form, history, made>>
  BY DEF ExportRules
<1>3. TablesOK' /\ Grown /\ Ids(source)' = Ids(source)
  BY <1>1, TablesKept, SameGrown DEF TypeOK, history, tables, Ids
<1>4. ASSUME NEW d \in Deleters PROVE DeleterOK(deleter[d])'
  BY <1>1, <1>3, DeleterKept
<1>5. FormOK'
  BY <1>1, <1>3, FormKept
<1>6. ExportOK'
  <2>1. export'.listed = export.listed /\ export'.contents = export.contents
    BY ExportRulesEffect
  <2>2. PICK C \in Nat :
          /\ export'.rules \in [1 .. C -> Refs(0 .. Len(export.contents) - 1)]
          /\ export'.meant \in [1 .. C -> Refs(1 .. made)]
    BY ExportRulesEffect
  <2>3. export'.rules \in Seq(Refs(0 .. Len(export.contents) - 1)) /\ export'.meant \in Seq(Refs(1 .. made))
    BY <2>2, SeqDef
  <2>4. Len(export'.rules) = C /\ Len(export'.meant) = C
    <3>1. DOMAIN export'.rules = 1 .. C /\ DOMAIN export'.meant = 1 .. C
      BY <2>2
    <3> QED BY <2>3, <3>1, LenProperties
  <2> QED BY <1>1, <2>1, <2>3, <2>4 DEF ExportOK, TypeOK
<1> QED BY <1>1, <1>3, <1>4, <1>5, <1>6 DEF TypeOK, history

\* The ids after an import: the sources of the file in its order, and a rule for each
\* entry of the file that points at the sources the entry names.
LEMMA ImportEffect ==
  ASSUME TypeOK, Import
  PROVE  /\ UNCHANGED <<deleter, loose, made>> /\ export' = NoFile /\ raced' = {}
         /\ form' = [form EXCEPT !.means = Nobody]
         /\ lastId' \in [source : Nat, rule : Nat]
         /\ lastId'.source = lastId.source + Len(export.contents)
         /\ lastId'.rule = lastId.rule + Len(export.rules)
         /\ Ids(source') = lastId.source + 1 .. lastId'.source
         /\ source' = [j \in lastId.source + 1 .. lastId'.source |-> export.contents[j - lastId.source]]
         /\ rule' = [r \in lastId.rule + 1 .. lastId'.rule |->
              [from |-> {lastId.source + 1 + i : i \in export.rules[r - lastId.rule].from},
               to   |-> {lastId.source + 1 + i : i \in export.rules[r - lastId.rule].to}]]
         /\ meant' = [r \in 1 .. lastId'.rule |->
              IF r > lastId.rule THEN export.meant[r - lastId.rule] ELSE Nobody]
<1> DEFINE N == Len(export.contents)
           old == lastId.rule
           base == lastId.source
           newIDs(p) == [i \in DOMAIN Placed(FileSources(p)) |-> base + 1 + i]
<1>1. N \in Nat /\ Len(export.rules) \in Nat /\ old \in Nat /\ base \in Nat
  BY LenProperties DEF TypeOK, ExportOK, TablesOK
<1>2. UNCHANGED <<deleter, loose, made>> /\ export' = NoFile /\ raced' = {} /\ form' = [form EXCEPT !.means = Nobody]
  BY DEF Import
<1>3. PICK p \in Orders(N) :
        /\ lastId' = [source |-> base + N, rule |-> old + Len(export.rules)]
        /\ source' = [j \in Range(newIDs(p)) |-> Placed(FileSources(p))[j - base - 1]]
        /\ rule' = [r \in old + 1 .. lastId'.rule |->
                      [from |-> remapIDs(export.rules[r - old].from, newIDs(p)),
                       to   |-> remapIDs(export.rules[r - old].to, newIDs(p))]]
        /\ meant' = [r \in 1 .. lastId'.rule |-> IF r > old THEN export.meant[r - old] ELSE Nobody]
  BY DEF Import
<1>4. /\ DOMAIN Placed(FileSources(p)) = 0 .. N - 1
      /\ \A i \in 0 .. N - 1 : Placed(FileSources(p))[i] = export.contents[i + 1]
  BY PlacedWhere DEF TypeOK
<1>5. DOMAIN newIDs(p) = 0 .. N - 1 /\ \A i \in 0 .. N - 1 : newIDs(p)[i] = base + 1 + i
  BY <1>4
<1>6. lastId' \in [source : Nat, rule : Nat] /\ lastId'.source = base + N /\ lastId'.rule = old + Len(export.rules)
  BY <1>1, <1>3
<1> HIDE DEF newIDs, N, old, base
<1>7. Range(newIDs(p)) = base + 1 .. base + N
  <2>1. \A j \in base + 1 .. base + N : j - base - 1 \in 0 .. N - 1 /\ newIDs(p)[j - base - 1] = j
    BY <1>1, <1>5
  <2>2. \A i \in 0 .. N - 1 : newIDs(p)[i] \in base + 1 .. base + N
    BY <1>1, <1>5
  <2> QED BY <1>5, <2>1, <2>2 DEF Range
<1>8. source' = [j \in base + 1 .. lastId'.source |-> export.contents[j - base]]
  <2>1. \A j \in base + 1 .. base + N : Placed(FileSources(p))[j - base - 1] = export.contents[j - base]
    <3>1. ASSUME NEW j \in base + 1 .. base + N
          PROVE  j - base - 1 \in 0 .. N - 1 /\ j - base - 1 + 1 = j - base
      BY <1>1
    <3> QED BY <1>4, <3>1
  <2> QED BY <1>3, <1>6, <1>7, <2>1
<1>9. rule' = [r \in old + 1 .. lastId'.rule |->
                 [from |-> {base + 1 + i : i \in export.rules[r - old].from},
                  to   |-> {base + 1 + i : i \in export.rules[r - old].to}]]
  <2>1. ASSUME NEW ids \in SUBSET (0 .. N - 1)
        PROVE  remapIDs(ids, newIDs(p)) = {base + 1 + i : i \in ids}
    <3>1. ids \cap DOMAIN newIDs(p) = ids /\ \A i \in ids : newIDs(p)[i] = base + 1 + i
      BY <1>5
    <3> QED BY <3>1 DEF remapIDs
  <2>2. ASSUME NEW r \in old + 1 .. lastId'.rule
        PROVE  export.rules[r - old].from \in SUBSET (0 .. N - 1) /\ export.rules[r - old].to \in SUBSET (0 .. N - 1)
    <3>1. r - old \in 1 .. Len(export.rules)
      BY <1>1, <1>6
    <3>2. export.rules \in Seq(Refs(0 .. N - 1))
      BY DEF TypeOK, ExportOK, N
    <3>3. export.rules[r - old] \in Refs(0 .. N - 1)
      BY <3>1, <3>2, ElementOfSeq
    <3> QED BY <3>3 DEF Refs
  <2>3. ASSUME NEW r \in old + 1 .. lastId'.rule
        PROVE  /\ remapIDs(export.rules[r - old].from, newIDs(p)) = {base + 1 + i : i \in export.rules[r - old].from}
               /\ remapIDs(export.rules[r - old].to, newIDs(p)) = {base + 1 + i : i \in export.rules[r - old].to}
    BY <2>1, <2>2
  <2> QED BY <1>3, <2>3
<1>10. Ids(source') = base + 1 .. lastId'.source
  BY <1>8 DEF Ids
<1> QED BY <1>2, <1>3, <1>6, <1>8, <1>9, <1>10 DEF N, old, base

LEMMA ImportType ==
  ASSUME TypeOK, Import
  PROVE  TypeOK'
<1> DEFINE N == Len(export.contents)
           R == Len(export.rules)
<1>1. /\ N \in Nat /\ R \in Nat /\ lastId.source \in Nat /\ lastId.rule \in Nat /\ made \in Nat
      /\ DOMAIN export.contents = 1 .. N /\ \A n \in 1 .. N : export.contents[n] \in 1 .. made
      /\ \A n \in 1 .. R : export.rules[n] \in Refs(0 .. N - 1) /\ export.meant[n] \in Refs(1 .. made)
  BY LenProperties, ElementOfSeq DEF TypeOK, ExportOK, TablesOK
<1>2. /\ UNCHANGED <<deleter, loose, made>> /\ export' = NoFile
      /\ form' = [form EXCEPT !.means = Nobody]
      /\ lastId' \in [source : Nat, rule : Nat]
      /\ lastId'.source = lastId.source + N /\ lastId'.rule = lastId.rule + R
  BY ImportEffect
<1>3. Grown
  BY <1>1, <1>2 DEF Grown
<1>4. Ids(source)' = lastId.source + 1 .. lastId'.source
  BY ImportEffect DEF Ids
<1>5. TablesOK'
  <2>1. source' = [j \in lastId.source + 1 .. lastId'.source |-> export.contents[j - lastId.source]]
    BY ImportEffect
  <2>2. \A j \in lastId.source + 1 .. lastId'.source : j - lastId.source \in 1 .. N
    BY <1>1, <1>2
  <2>3. source' \in [Ids(source)' -> 1 .. made']
    BY <1>1, <1>2, <1>4, <2>1, <2>2
  <2>4. IsInjective(source')
    <3>1. \A n, k \in 1 .. N : export.contents[n] = export.contents[k] => n = k
      BY <1>1 DEF TypeOK, ExportOK, IsInjective
    <3>2. ASSUME NEW a \in lastId.source + 1 .. lastId'.source, NEW b \in lastId.source + 1 .. lastId'.source,
                 export.contents[a - lastId.source] = export.contents[b - lastId.source]
          PROVE  a = b
      <4>1. a - lastId.source = b - lastId.source
        BY <2>2, <3>1, <3>2
      <4> QED BY <1>1, <1>2, <4>1
    <3> QED BY <2>1, <3>2 DEF IsInjective
  <2>5. Ids(source)' \subseteq 1 .. lastId'.source
    BY <1>1, <1>2, <1>4
  <2>6. rule' \in [Ids(rule)' -> Refs(1 .. lastId'.source)] /\ Ids(rule)' \subseteq 1 .. lastId'.rule
    <3>1. rule' = [r \in lastId.rule + 1 .. lastId'.rule |->
              [from |-> {lastId.source + 1 + i : i \in export.rules[r - lastId.rule].from},
               to   |-> {lastId.source + 1 + i : i \in export.rules[r - lastId.rule].to}]]
      BY ImportEffect
    <3>2. ASSUME NEW r \in lastId.rule + 1 .. lastId'.rule
          PROVE  /\ {lastId.source + 1 + i : i \in export.rules[r - lastId.rule].from} \subseteq 1 .. lastId'.source
                 /\ {lastId.source + 1 + i : i \in export.rules[r - lastId.rule].to} \subseteq 1 .. lastId'.source
      <4>1. r - lastId.rule \in 1 .. R
        BY <1>1, <1>2
      <4>2. export.rules[r - lastId.rule].from \subseteq 0 .. N - 1 /\ export.rules[r - lastId.rule].to \subseteq 0 .. N - 1
        BY <1>1, <4>1 DEF Refs
      <4>3. \A i \in 0 .. N - 1 : lastId.source + 1 + i \in 1 .. lastId'.source
        BY SMTT(30), <1>1, <1>2
      <4> QED BY <4>2, <4>3
    <3>3. Ids(rule)' = lastId.rule + 1 .. lastId'.rule
      BY <3>1 DEF Ids
    <3>4. Ids(rule)' \subseteq 1 .. lastId'.rule
      BY <1>1, <1>2, <3>3
    <3> QED BY <3>1, <3>2, <3>3, <3>4 DEF Refs
  <2>7. meant' \in [1 .. lastId'.rule -> Refs(1 .. made')]
    <3>1. meant' = [r \in 1 .. lastId'.rule |->
              IF r > lastId.rule THEN export.meant[r - lastId.rule] ELSE Nobody]
      BY ImportEffect
    <3>2. Nobody \in Refs(1 .. made)
      BY DEF Nobody, Refs
    <3>3. \A r \in 1 .. lastId'.rule : r > lastId.rule => r - lastId.rule \in 1 .. R
      BY <1>1, <1>2
    <3> QED BY <1>1, <1>2, <3>1, <3>2, <3>3
  <2> QED BY <1>2, <1>3, <2>3, <2>4, <2>5, <2>6, <2>7 DEF TablesOK, Grown
<1>6. ASSUME NEW d \in Deleters PROVE DeleterOK(deleter[d])'
  <2>1. \A i \in 1 .. lastId.source : i \notin Ids(source)'
    BY <1>1, <1>4
  <2> QED BY <1>2, <1>3, <2>1, DeleterKept
<1>7. FormOK'
  <2>1. Nobody \in Refs(1 .. made)
    BY DEF Nobody, Refs
  <2>2. /\ form'.rule = form.rule /\ form'.from = form.from /\ form'.to = form.to /\ form'.means = Nobody
        /\ form' = [rule |-> form.rule, from |-> form.from, to |-> form.to, means |-> Nobody]
    BY <1>2 DEF TypeOK, FormOK
  <2>3. form.rule \in 0 .. lastId'.rule /\ form.from \subseteq 1 .. lastId'.source /\ form.to \subseteq 1 .. lastId'.source
    BY <1>3, GrownRanges DEF TypeOK, FormOK
  <2> QED BY <1>2, <2>1, <2>2, <2>3 DEF FormOK
<1>8. ExportOK'
  BY <1>2, EmptySeq DEF ExportOK, NoFile, IsInjective
<1> QED BY <1>2, <1>5, <1>6, <1>7, <1>8 DEF TypeOK

\* Every id a table, a rule, a copy or a form holds has been given out, and an id given
\* out once is never given out again.
LEMMA TypeStep ==
  ASSUME TypeOK, [Next]_vars
  PROVE  TypeOK'
<1>1. CASE CreateSource
  BY <1>1, CreateSourceType
<1>2. ASSUME NEW d \in Deleters, NEW i \in Ids(source), DeleteRow(d, i) PROVE TypeOK'
  BY <1>2, DeleteRowType
<1>3. ASSUME NEW d \in Deleters, ListForPrune(d) PROVE TypeOK'
  BY <1>3, ListForPruneType
<1>4. ASSUME NEW d \in Deleters, PruneRule(d) PROVE TypeOK'
  BY <1>4, PruneRuleType
<1>5. ASSUME NEW d \in Deleters, DeleteDone(d) \/ DeleteBroken(d) PROVE TypeOK'
  BY <1>5, DeleteOverType
<1>6. ASSUME NEW r \in Ids(rule), DeleteRule(r) PROVE TypeOK'
  BY <1>6, DeleteRuleType
<1>7. ASSUME NEW r \in Ids(rule) \cup {0}, OpenForm(r) PROVE TypeOK'
  BY <1>7, OpenFormType
<1>8. CASE SubmitForm
  BY <1>8, SubmitFormType
<1>9. CASE ExportSources
  BY <1>9, ExportSourcesType
<1>10. CASE ExportRules
  BY <1>10, ExportRulesType
<1>11. CASE Import
  BY <1>11, ImportType
<1>12. CASE UNCHANGED vars
  BY <1>12 DEF vars, tables, history, TypeOK, TablesOK, FormOK, ExportOK, DeleterOK, Ids
<1> QED BY <1>1, <1>2, <1>3, <1>4, <1>5, <1>6, <1>7, <1>8, <1>9, <1>10, <1>11, <1>12 DEF Next

-----------------------------------------------------------------------------
(* Rules lead to what was meant *)

\* What is linked stays so when the table changes.
Carried ==
  \A v, means : /\ v.from \subseteq 1 .. lastId.source /\ v.to \subseteq 1 .. lastId.source
                /\ means \in Refs(1 .. made) /\ Linked(source, v, means)
                => Linked(source', v, means)

LEMMA RulesCarried ==
  ASSUME TypeOK, RuleRefs, Carried, UNCHANGED <<rule, meant, raced>>
  PROVE  RuleRefs'
<1>1. ASSUME NEW r \in Ids(rule) \ raced PROVE Linked(source', rule[r], meant[r])
  <2>1. rule[r] \in Refs(1 .. lastId.source) /\ meant[r] \in Refs(1 .. made)
    BY DEF TypeOK, TablesOK
  <2>2. Linked(source, rule[r], meant[r])
    BY DEF RuleRefs
  <2> QED BY <2>1, <2>2 DEF Carried, Refs
<1> QED BY <1>1 DEF RuleRefs, Ids

\* A deletion whose copies only become fewer, while the rules they are about do not change.
LEMMA CopiesCarried ==
  ASSUME TypeOK, NEW d \in Deleters, CopyRefs(d), Carried,
         Ids(deleter'[d].copies) \subseteq Ids(deleter[d].copies),
         \A r \in Ids(deleter'[d].copies) : deleter'[d].copies[r] = deleter[d].copies[r],
         \A r \in (Ids(deleter'[d].copies) \cap Ids(rule')) \ raced' :
           r \in Ids(rule) /\ r \notin raced /\ meant'[r] = meant[r]
  PROVE  CopyRefs(d)'
<1>1. ASSUME NEW r \in (Ids(deleter'[d].copies) \cap Ids(rule')) \ raced'
      PROVE  Linked(source', deleter'[d].copies[r], meant'[r])
  <2>1. deleter[d].copies[r] \in Refs(1 .. lastId.source)
    BY DEF TypeOK, DeleterOK
  <2>2. meant[r] \in Refs(1 .. made)
    BY DEF TypeOK, TablesOK
  <2>3. Linked(source, deleter[d].copies[r], meant[r])
    BY DEF CopyRefs
  <2>4. Linked(source', deleter[d].copies[r], meant[r])
    BY <2>1, <2>2, <2>3 DEF Carried, Refs
  <2> QED BY <2>4
<1> QED BY <1>1 DEF CopyRefs, Ids

LEMMA FormCarried ==
  ASSUME TypeOK, FormRefs, Carried, form' = form
  PROVE  FormRefs'
<1>1. form.from \subseteq 1 .. lastId.source /\ form.to \subseteq 1 .. lastId.source /\ form.means \in Refs(1 .. made)
  BY DEF TypeOK, FormOK
<1> QED BY <1>1 DEF FormRefs, Carried

LEMMA SameCarried ==
  ASSUME source' = source
  PROVE  Carried
BY DEF Carried

\* A created source is one that nothing mentions and nobody meant.
LEMMA CreateCarried ==
  ASSUME TypeOK, CreateSource
  PROVE  Carried
<1>1. source' = With(source, lastId.source + 1, made') /\ made' = made + 1
  BY DEF CreateSource, NextId
<1>2. lastId.source \in Nat /\ made \in Nat /\ Ids(source) \subseteq 1 .. lastId.source
  BY DEF TypeOK, TablesOK
<1>3. ASSUME NEW ids, NEW cs, ids \subseteq 1 .. lastId.source, cs \subseteq 1 .. made, Side(source, ids, cs)
      PROVE  Side(source', ids, cs)
  <2>1. lastId.source + 1 \notin ids /\ lastId.source + 1 \notin Ids(source) /\ made' \notin cs
    BY <1>1, <1>2, <1>3
  <2> QED BY <1>1, <1>3, <2>1, SideGrows
<1> QED BY <1>3 DEF Carried, Linked, Refs

LEMMA DeleteCarried ==
  ASSUME TypeOK, NEW i \in Ids(source), source' = Without(source, i)
  PROVE  Carried
<1>1. ASSUME NEW ids, NEW cs, Side(source, ids, cs)
      PROVE  Side(source', ids, cs)
  BY <1>1, SideShrinks DEF TypeOK, TablesOK
<1> QED BY <1>1 DEF Carried, Linked

LEMMA ListForPruneRefs ==
  ASSUME TypeOK, RefsInv, NEW d \in Deleters, ListForPrune(d)
  PROVE  CopyRefs(d)'
<1> DEFINE i == deleter[d].id
<1>1. /\ UNCHANGED <<tables, history>>
      /\ Ids(deleter'[d].copies) = {r \in Ids(rule) : Mentions(rule[r], i)}
      /\ \A r \in Ids(deleter'[d].copies) : deleter'[d].copies[r] = WithoutId(rule[r], i)
      /\ deleter[d].pc = "list"
  BY ListEffect
<1>2. i \notin Ids(source)
  BY <1>1 DEF TypeOK, DeleterOK
<1>3. ASSUME NEW r \in Ids(deleter'[d].copies) \ raced
      PROVE  Linked(source, deleter'[d].copies[r], meant[r])
  <2>1. rule[r] \in Refs(1 .. lastId.source) /\ r \in Ids(rule)
    BY <1>1 DEF TypeOK, TablesOK
  <2>2. WithoutId(rule[r], i).from = rule[r].from \ {i} /\ WithoutId(rule[r], i).to = rule[r].to \ {i}
    BY <2>1, WithoutIdType
  <2>3. Side(source, rule[r].from, meant[r].from) /\ Side(source, rule[r].to, meant[r].to)
    BY <2>1 DEF RefsInv, RuleRefs, Linked
  <2>4. Side(source, rule[r].from \ {i}, meant[r].from) /\ Side(source, rule[r].to \ {i}, meant[r].to)
    BY <1>2, <2>3, SideDrops
  <2> QED BY <1>1, <2>2, <2>4 DEF Linked
<1> QED BY <1>1, <1>3 DEF CopyRefs, tables, history, Ids

LEMMA PruneRuleRefs ==
  ASSUME TypeOK, RefsInv, NEW d \in Deleters, PruneRule(d)
  PROVE  RuleRefs' /\ \A e \in Deleters : CopyRefs(e)'
<1>1. PICK r \in Ids(deleter[d].copies) :
        /\ rule' = IF r \in Ids(rule) THEN With(rule, r, deleter[d].copies[r]) ELSE rule
        /\ deleter'[d].copies = Without(deleter[d].copies, r)
        /\ UNCHANGED <<source, history>>
        /\ \A e \in Deleters \ {d} : deleter'[e] = deleter[e]
  BY PruneEffect
<1>2. UNCHANGED <<source, meant, raced>>
  BY <1>1 DEF history
<1>3. Ids(rule') = Ids(rule) /\ \A q \in Ids(rule) : rule'[q] = IF q = r THEN deleter[d].copies[r] ELSE rule[q]
  BY <1>1 DEF With, Ids
<1>4. RuleRefs'
  <2>1. ASSUME NEW q \in Ids(rule) \ raced PROVE Linked(source, rule'[q], meant[q])
    <3>1. CASE q = r
      BY <1>3, <3>1 DEF RefsInv, CopyRefs
    <3>2. CASE q # r
      BY <1>3, <3>2 DEF RefsInv, RuleRefs
    <3> QED BY <3>1, <3>2
  <2> QED BY <1>2, <1>3, <2>1 DEF RuleRefs, Ids
<1>5. CopyRefs(d)'
  <2>1. /\ Ids(deleter'[d].copies) \subseteq Ids(deleter[d].copies)
        /\ \A q \in Ids(deleter'[d].copies) : deleter'[d].copies[q] = deleter[d].copies[q]
    BY <1>1 DEF Without, Ids
  <2>2. CopyRefs(d)
    BY DEF RefsInv
  <2> QED BY <1>2, <1>3, <2>1, <2>2, SameCarried, CopiesCarried
<1>6. ASSUME NEW e \in Deleters \ {d} PROVE CopyRefs(e)'
  <2>1. CopyRefs(e) /\ deleter'[e] = deleter[e]
    BY <1>1 DEF RefsInv
  <2> QED BY <1>2, <1>3, <2>1, SameCarried, CopiesCarried
<1> QED BY <1>4, <1>5, <1>6

LEMMA OpenFormRefs ==
  ASSUME TypeOK, NEW r \in Ids(rule) \cup {0}, OpenForm(r)
  PROVE  FormRefs'
<1>1. PICK from \in Selections, to \in Selections :
        form' = [rule |-> r, from |-> from, to |-> to,
                 means |-> [from |-> Contents(from), to |-> Contents(to)]]
  BY DEF OpenForm
<1>2. source' = source
  BY DEF OpenForm, tables
<1>3. Side(source, from, Contents(from)) /\ Side(source, to, Contents(to))
  BY SideChosen DEF Contents
<1> QED BY <1>1, <1>2, <1>3 DEF FormRefs, Linked

LEMMA SubmitFormRefs ==
  ASSUME TypeOK, RefsInv, SubmitForm
  PROVE  RuleRefs' /\ (\A d \in Deleters : CopyRefs(d)') /\ FormRefs'
<1>1. UNCHANGED <<source, deleter>> /\ form' = NoForm
  BY SubmitEffect
<1>2. PICK r \in Nat :
        /\ raced' = IF Held(r) THEN raced \cup {r} ELSE raced \ {r}
        /\ Written(r) \/ (UNCHANGED <<rule, meant, lastId>> /\ r \notin Ids(rule))
  BY SubmitEffect
<1>3. \A q : q # r => (q \in raced' <=> q \in raced)
  BY <1>2
<1>4. /\ \A q \in Ids(rule') \ {r} : q \in Ids(rule) /\ rule'[q] = rule[q] /\ meant'[q] = meant[q]
      /\ r \in Ids(rule') => /\ rule'[r] = [from |-> form.from, to |-> form.to]
                             /\ meant'[r] = form.means
  <2>1. CASE Written(r)
    <3>1. /\ Table(rule, Refs(1 .. lastId.source)) /\ Table(meant, Refs(1 .. made))
          /\ Ids(meant) = 1 .. lastId.rule /\ Ids(rule) \subseteq 1 .. lastId.rule
      BY DEF TypeOK, TablesOK, Table, Ids
    <3>2. [from |-> form.from, to |-> form.to] \in Refs(1 .. lastId.source) /\ form.means \in Refs(1 .. made)
      BY DEF TypeOK, FormOK, Refs
    <3>3. /\ rule' = With(rule, r, [from |-> form.from, to |-> form.to])
          /\ meant' = With(meant, r, form.means)
      BY <2>1 DEF Written
    <3>4. /\ Ids(rule') = Ids(rule) \cup {r} /\ rule'[r] = [from |-> form.from, to |-> form.to]
          /\ \A q \in Ids(rule) \ {r} : rule'[q] = rule[q]
      BY <3>3 DEF With, Ids
    <3>5. meant'[r] = form.means /\ \A q \in Ids(meant) \ {r} : meant'[q] = meant[q]
      BY <3>3 DEF With, Ids
    <3> QED BY <3>1, <3>4, <3>5
  <2>2. CASE UNCHANGED <<rule, meant, lastId>> /\ r \notin Ids(rule)
    BY <2>2 DEF Ids
  <2> QED BY <1>2, <2>1, <2>2
<1>5. RuleRefs'
  <2>1. ASSUME NEW q \in Ids(rule') \ raced' PROVE Linked(source, rule'[q], meant'[q])
    <3>1. CASE q = r
      BY <1>4, <3>1 DEF RefsInv, FormRefs, Linked
    <3>2. CASE q # r
      <4>1. q \in Ids(rule) \ raced /\ rule'[q] = rule[q] /\ meant'[q] = meant[q]
        BY <1>3, <1>4, <3>2
      <4> QED BY <4>1 DEF RefsInv, RuleRefs
    <3> QED BY <3>1, <3>2
  <2> QED BY <1>1, <2>1 DEF RuleRefs, Ids
<1>6. ASSUME NEW d \in Deleters PROVE CopyRefs(d)'
  <2>1. ASSUME NEW q \in (Ids(deleter[d].copies) \cap Ids(rule')) \ raced'
        PROVE  q \in Ids(rule) /\ q \notin raced /\ meant'[q] = meant[q]
    <3>1. q # r
      BY <1>2 DEF Held
    <3> QED BY <1>3, <1>4, <3>1
  <2>2. CopyRefs(d)
    BY DEF RefsInv
  <2> QED BY <1>1, <2>1, <2>2, SameCarried, CopiesCarried
<1>7. FormRefs'
  <2>1. Side(source, {}, {})
    BY SideNone
  <2> QED BY <1>1, <2>1 DEF FormRefs, Linked, NoForm, Nobody
<1> QED BY <1>5, <1>6, <1>7

LEMMA DeleteRuleRefs ==
  ASSUME TypeOK, RefsInv, NEW r \in Ids(rule), DeleteRule(r)
  PROVE  RuleRefs' /\ \A d \in Deleters : CopyRefs(d)'
<1>1. /\ UNCHANGED <<source, deleter>> /\ raced' = raced \ {r}
      /\ rule' = Without(rule, r) /\ meant' = With(meant, r, Nobody)
  BY DEF DeleteRule
<1>2. Ids(rule') = Ids(rule) \ {r} /\ \A q \in Ids(rule') : rule'[q] = rule[q]
  BY <1>1 DEF Without, Ids
<1>3. \A q \in Ids(rule') : meant'[q] = meant[q]
  BY <1>1, <1>2 DEF With, Ids, TypeOK, TablesOK
<1>4. RuleRefs'
  <2>1. ASSUME NEW q \in Ids(rule') \ raced' PROVE Linked(source, rule'[q], meant'[q])
    BY <1>1, <1>2, <1>3 DEF RefsInv, RuleRefs
  <2> QED BY <1>1, <2>1 DEF RuleRefs, Ids
<1>5. ASSUME NEW d \in Deleters PROVE CopyRefs(d)'
  <2>1. CopyRefs(d)
    BY DEF RefsInv
  <2> QED BY <1>1, <1>2, <1>3, <2>1, SameCarried, CopiesCarried
<1> QED BY <1>4, <1>5

\* Positions in the file lead to the same contents as the ids they stand for.
LEMMA ExportRulesRefs ==
  ASSUME TypeOK, ExportRules
  PROVE  FileRefs'
<1>1. export'.contents = export.contents
  BY ExportRulesEffect
<1>2. PICK C \in Nat :
        /\ export'.rules \in [1 .. C -> Refs(0 .. Len(export.contents) - 1)]
        /\ \A n \in 1 .. C : \E v :
             /\ export'.rules[n].from = Indices(v.from) /\ export'.rules[n].to = Indices(v.to)
             /\ export'.meant[n].from = Listed(v.from)  /\ export'.meant[n].to = Listed(v.to)
  BY ExportRulesEffect
<1>3. Len(export'.rules) = C
  <2> DEFINE T == Refs(0 .. Len(export.contents) - 1)
  <2>1. export'.rules \in [1 .. C -> T] /\ DOMAIN export'.rules = 1 .. C
    BY <1>2
  <2>2. export'.rules \in Seq(T)
    <3> HIDE DEF T
    <3> QED BY <2>1, SeqDef
  <2> QED BY <2>1, <2>2, LenProperties
<1>4. ASSUME NEW ids PROVE Listed(ids) = {export.contents[i + 1] : i \in Indices(ids)}
  <2> DEFINE N == Len(export.contents)
  <2>1. N \in Nat /\ DOMAIN export.listed = 1 .. N
    BY LenProperties DEF TypeOK, ExportOK
  <2> HIDE DEF N
  <2>2. \A n \in 1 .. N : n - 1 \in 0 .. N - 1 /\ n = (n - 1) + 1
    BY <2>1
  <2>3. \A i \in 0 .. N - 1 : i + 1 \in 1 .. N
    BY <2>1
  <2>4. Listed(ids) = {export.contents[n] : n \in {n \in 1 .. N : export.listed[n] \in ids}}
    BY <2>1 DEF Listed
  <2>5. Indices(ids) = {i \in 0 .. N - 1 : export.listed[i + 1] \in ids}
    BY DEF Indices, N
  <2>6. ASSUME NEW c \in Listed(ids) PROVE \E i \in Indices(ids) : c = export.contents[i + 1]
    <3>1. PICK n \in 1 .. N : export.listed[n] \in ids /\ c = export.contents[n]
      BY <2>4, <2>6
    <3>2. n - 1 \in Indices(ids) /\ c = export.contents[(n - 1) + 1]
      BY <2>2, <2>5, <3>1
    <3> QED BY <3>2
  <2>7. ASSUME NEW i \in Indices(ids) PROVE export.contents[i + 1] \in Listed(ids)
    BY <2>3, <2>4, <2>5
  <2> QED BY <2>6, <2>7
<1>5. ASSUME NEW n \in 1 .. C
      PROVE  /\ export'.meant[n].from = {export.contents[i + 1] : i \in export'.rules[n].from}
             /\ export'.meant[n].to   = {export.contents[i + 1] : i \in export'.rules[n].to}
  <2>1. PICK v : /\ export'.rules[n].from = Indices(v.from) /\ export'.rules[n].to = Indices(v.to)
                 /\ export'.meant[n].from = Listed(v.from)  /\ export'.meant[n].to = Listed(v.to)
    BY <1>2
  <2> QED BY <1>4, <2>1
<1> QED BY <1>1, <1>3, <1>5 DEF FileRefs

\* After an import the new ids lead to the contents at the positions of the file.
LEMMA ImportRefs ==
  ASSUME TypeOK, RefsInv, Import
  PROVE  RefsInv'
<1> DEFINE N == Len(export.contents)
           R == Len(export.rules)
           base == lastId.source
           old == lastId.rule
<1>1. /\ UNCHANGED deleter /\ export' = NoFile /\ raced' = {}
      /\ form' = [form EXCEPT !.means = Nobody]
      /\ lastId'.source = base + N /\ lastId'.rule = old + R
      /\ Ids(source') = base + 1 .. lastId'.source
      /\ source' = [j \in base + 1 .. lastId'.source |-> export.contents[j - base]]
      /\ rule' = [r \in old + 1 .. lastId'.rule |->
              [from |-> {base + 1 + i : i \in export.rules[r - old].from},
               to   |-> {base + 1 + i : i \in export.rules[r - old].to}]]
      /\ meant' = [r \in 1 .. lastId'.rule |-> IF r > old THEN export.meant[r - old] ELSE Nobody]
  BY ImportEffect
<1>2. /\ N \in Nat /\ R \in Nat /\ base \in Nat /\ old \in Nat
      /\ \A n \in 1 .. R : export.rules[n] \in Refs(0 .. N - 1)
  BY LenProperties, ElementOfSeq DEF TypeOK, ExportOK, TablesOK
<1>3. \A n \in 1 .. R :
        /\ export.meant[n].from = {export.contents[i + 1] : i \in export.rules[n].from}
        /\ export.meant[n].to   = {export.contents[i + 1] : i \in export.rules[n].to}
  BY DEF RefsInv, FileRefs
<1> HIDE DEF N, R, base, old
<1>4. ASSUME NEW I \in SUBSET (0 .. N - 1)
      PROVE  Side(source', {base + 1 + i : i \in I}, {export.contents[i + 1] : i \in I})
  <2> DEFINE ids == {base + 1 + i : i \in I}
             cs  == {export.contents[i + 1] : i \in I}
  <2>1. ASSUME NEW i \in I
        PROVE  /\ base + 1 + i \in Ids(source') /\ source'[base + 1 + i] = export.contents[i + 1]
    <3> DEFINE j == base + 1 + i
    <3>1. j \in base + 1 .. lastId'.source /\ j - base = i + 1
      BY <1>1, <1>2
    <3>2. \A k \in base + 1 .. lastId'.source : k \in Ids(source') /\ source'[k] = export.contents[k - base]
      BY <1>1
    <3> HIDE DEF j
    <3>3. j \in Ids(source') /\ source'[j] = export.contents[i + 1]
      BY <3>1, <3>2
    <3> QED BY <3>3 DEF j
  <2>2. ids \cap Ids(source') = ids
    BY <2>1
  <2>3. cs \cap Range(source') = cs
    BY <2>1 DEF Range, Ids
  <2>4. {source'[j] : j \in ids} = cs
    <3>1. \A i \in I : source'[base + 1 + i] = export.contents[i + 1]
      BY <2>1
    <3>2. ASSUME NEW j \in ids PROVE source'[j] \in cs
      BY <3>1
    <3>3. ASSUME NEW c \in cs PROVE \E j \in ids : c = source'[j]
      BY <3>1
    <3> HIDE DEF ids, cs
    <3> QED BY <3>2, <3>3
  <2> HIDE DEF ids, cs
  <2>5. Side(source', ids, cs)
    BY <2>2, <2>3, <2>4 DEF Side
  <2> QED BY <2>5 DEF ids, cs
<1>5. RuleRefs'
  <2>1. ASSUME NEW r \in Ids(rule') PROVE Linked(source', rule'[r], meant'[r])
    <3>1. r \in old + 1 .. lastId'.rule
      BY <1>1 DEF Ids
    <3>2. r - old \in 1 .. R /\ r \in 1 .. lastId'.rule /\ r > old
      BY <1>1, <1>2, <3>1
    <3>3. /\ rule'[r].from = {base + 1 + i : i \in export.rules[r - old].from}
          /\ rule'[r].to = {base + 1 + i : i \in export.rules[r - old].to}
          /\ meant'[r] = export.meant[r - old]
      BY <1>1, <3>1, <3>2
    <3>4. export.rules[r - old].from \in SUBSET (0 .. N - 1) /\ export.rules[r - old].to \in SUBSET (0 .. N - 1)
      BY <1>2, <3>2 DEF Refs
    <3>5. Side(source', rule'[r].from, meant'[r].from)
      BY <1>3, <1>4, <3>2, <3>3, <3>4
    <3>6. Side(source', rule'[r].to, meant'[r].to)
      BY <1>3, <1>4, <3>2, <3>3, <3>4
    <3> QED BY <3>5, <3>6 DEF Linked
  <2> QED BY <2>1 DEF RuleRefs, Ids
<1>6. ASSUME NEW d \in Deleters PROVE CopyRefs(d)'
  <2>1. Ids(deleter[d].copies) \subseteq 1 .. old /\ Ids(rule') = old + 1 .. lastId'.rule
    BY <1>1 DEF TypeOK, DeleterOK, old, Ids
  <2>2. (1 .. old) \cap (old + 1 .. lastId'.rule) = {} /\ deleter' = deleter
    BY <1>1, <1>2
  <2>3. Ids(deleter'[d].copies) \cap Ids(rule') = {}
    BY <2>1, <2>2
  <2> QED BY <2>3 DEF CopyRefs, Ids
<1>7. FormRefs'
  <2>1. form.from \subseteq 1 .. base /\ form.to \subseteq 1 .. base
    BY DEF TypeOK, FormOK, base
  <2>2. form.from \cap Ids(source') = {} /\ form.to \cap Ids(source') = {}
    BY <1>1, <1>2, <2>1
  <2>3. Side(source', form.from, {}) /\ Side(source', form.to, {})
    BY <2>2, SideNone
  <2>4. form'.from = form.from /\ form'.to = form.to /\ form'.means = Nobody
    BY <1>1 DEF TypeOK, FormOK
  <2> QED BY <2>3, <2>4 DEF FormRefs, Linked, Nobody
<1>8. FileRefs'
  BY <1>1, EmptySeq DEF FileRefs, NoFile
<1> QED BY <1>5, <1>6, <1>7, <1>8 DEF RefsInv

LEMMA RefsStep ==
  ASSUME TypeOK, RefsInv, [Next]_vars
  PROVE  RefsInv'
<1>1. RuleRefs /\ (\A d \in Deleters : CopyRefs(d)) /\ FormRefs /\ FileRefs
  BY DEF RefsInv
<1>2. ASSUME export' = export PROVE FileRefs'
  BY <1>1, <1>2 DEF FileRefs
<1>3. ASSUME Carried, UNCHANGED <<rule, meant, raced>>, NEW d \in Deleters,
             deleter'[d] = deleter[d] \/ Ids(deleter'[d].copies) = {}
      PROVE  CopyRefs(d)'
  BY <1>1, <1>3, CopiesCarried DEF Ids
<1>4. CASE CreateSource
  <2>1. UNCHANGED <<rule, meant, raced, deleter, form, export>>
    BY <1>4 DEF CreateSource, history
  <2>2. Carried
    BY <1>4, CreateCarried
  <2> QED BY <1>1, <1>2, <1>3, <2>1, <2>2, RulesCarried, FormCarried DEF RefsInv
<1>5. ASSUME NEW d \in Deleters, NEW i \in Ids(source), DeleteRow(d, i) PROVE RefsInv'
  <2>1. /\ UNCHANGED <<rule, meant, raced, form, export>> /\ source' = Without(source, i)
        /\ deleter' = [deleter EXCEPT ![d] = [pc |-> "list", id |-> i, copies |-> <<>>]]
    BY <1>5 DEF DeleteRow
  <2>2. \A e \in Deleters : deleter'[e] = deleter[e] \/ Ids(deleter'[e].copies) = {}
    BY <2>1 DEF TypeOK, Ids
  <2>3. Carried
    BY <2>1, DeleteCarried
  <2> QED BY <1>1, <1>2, <1>3, <2>1, <2>2, <2>3, RulesCarried, FormCarried DEF RefsInv
<1>6. ASSUME NEW d \in Deleters, ListForPrune(d) PROVE RefsInv'
  <2>1. /\ UNCHANGED <<source, rule, meant, raced, form, export>>
        /\ \A e \in Deleters \ {d} : deleter'[e] = deleter[e]
    BY <1>6, ListEffect DEF tables, history
  <2>2. Carried
    BY <2>1, SameCarried
  <2>3. CopyRefs(d)'
    BY <1>6, ListForPruneRefs
  <2> QED BY <1>1, <1>2, <1>3, <2>1, <2>2, <2>3, RulesCarried, FormCarried DEF RefsInv
<1>7. ASSUME NEW d \in Deleters, PruneRule(d) PROVE RefsInv'
  <2>1. UNCHANGED <<source, form, export>>
    BY <1>7 DEF PruneRule
  <2>2. RuleRefs' /\ \A e \in Deleters : CopyRefs(e)'
    BY <1>7, PruneRuleRefs
  <2> QED BY <1>1, <1>2, <2>1, <2>2, SameCarried, FormCarried DEF RefsInv
<1>8. ASSUME NEW d \in Deleters, DeleteDone(d) \/ DeleteBroken(d) PROVE RefsInv'
  <2>1. /\ UNCHANGED <<source, rule, meant, raced, form, export>>
        /\ deleter' = [deleter EXCEPT ![d] = Gone]
    BY <1>8 DEF DeleteDone, DeleteBroken, tables, history
  <2>2. \A e \in Deleters : deleter'[e] = deleter[e] \/ Ids(deleter'[e].copies) = {}
    BY <2>1 DEF TypeOK, Ids, Gone
  <2>3. Carried
    BY <2>1, SameCarried
  <2> QED BY <1>1, <1>2, <1>3, <2>1, <2>2, <2>3, RulesCarried, FormCarried DEF RefsInv
<1>9. ASSUME NEW r \in Ids(rule), DeleteRule(r) PROVE RefsInv'
  <2>1. UNCHANGED <<source, form, export>>
    BY <1>9 DEF DeleteRule
  <2> QED BY <1>1, <1>2, <1>9, <2>1, DeleteRuleRefs, SameCarried, FormCarried DEF RefsInv
<1>10. ASSUME NEW r \in Ids(rule) \cup {0}, OpenForm(r) PROVE RefsInv'
  <2>1. UNCHANGED <<source, rule, meant, raced, deleter, export>>
    BY <1>10 DEF OpenForm, tables, history
  <2>2. Carried
    BY <2>1, SameCarried
  <2>3. FormRefs'
    BY <1>10, OpenFormRefs
  <2> QED BY <1>1, <1>2, <1>3, <2>1, <2>2, <2>3, RulesCarried DEF RefsInv
<1>11. CASE SubmitForm
  <2>1. export' = export
    BY <1>11 DEF SubmitForm
  <2> QED BY <1>2, <1>11, <2>1, SubmitFormRefs DEF RefsInv
<1>12. CASE ExportSources \/ ExportRules
  <2>1. UNCHANGED <<source, rule, meant, raced, deleter, form>>
    BY <1>12 DEF ExportSources, ExportRules, tables, history
  <2>2. Carried
    BY <2>1, SameCarried
  <2>3. FileRefs'
    <3>1. CASE ExportSources
      <4>1. export'.rules = <<>>
        BY <3>1 DEF ExportSources, NoFile
      <4> QED BY <4>1, EmptySeq DEF FileRefs
    <3>2. CASE ExportRules
      BY <3>2, ExportRulesRefs
    <3> QED BY <1>12, <3>1, <3>2
  <2> QED BY <1>1, <1>3, <2>1, <2>2, <2>3, RulesCarried, FormCarried DEF RefsInv
<1>13. CASE Import
  BY <1>13, ImportRefs
<1>14. CASE UNCHANGED vars
  BY <1>14 DEF vars, tables, history, RefsInv, RuleRefs, CopyRefs, FormRefs, FileRefs, Ids
<1> QED BY <1>4, <1>5, <1>6, <1>7, <1>8, <1>9, <1>10, <1>11, <1>12, <1>13, <1>14 DEF Next

-----------------------------------------------------------------------------
(* No rule is left behind *)

LEMMA DeleteRowPruned ==
  ASSUME TypeOK, PruneInv, NEW d \in Deleters, NEW i \in Ids(source), DeleteRow(d, i), ~loose'
  PROVE  Alone' /\ RulesPruned' /\ CopiesPruned'
<1>1. /\ rule' = rule /\ source' = Without(source, i) /\ deleter[d].pc = "idle"
      /\ deleter' = [deleter EXCEPT ![d] = [pc |-> "list", id |-> i, copies |-> <<>>]]
      /\ ~loose /\ \A e \in Deleters \ {d} : deleter[e].pc = "idle"
  <2>1. loose' = (loose \/ \E e \in Deleters \ {d} : deleter[e].pc # "idle")
    BY DEF DeleteRow
  <2>2. ~loose /\ \A e \in Deleters \ {d} : deleter[e].pc = "idle"
    BY <2>1 DEF TypeOK
  <2> QED BY <2>2 DEF DeleteRow
<1>2. /\ deleter'[d].pc = "list" /\ deleter'[d].id = i /\ Ids(deleter'[d].copies) = {}
      /\ \A e \in Deleters \ {d} : deleter'[e] = deleter[e] /\ deleter'[e].pc = "idle" /\ Ids(deleter'[e].copies) = {}
  BY <1>1 DEF TypeOK, DeleterOK, Ids
<1>3. Ids(source') = Ids(source) \ {i}
  BY <1>1 DEF Without, Ids
<1>4. ASSUME NEW r \in Ids(rule), NEW j \in rule[r].from \cup rule[r].to
      PROVE  j \in Ids(source') \/ Pending(j, r)'
  <2>1. ~Pending(j, r)
    BY <1>1 DEF Pending
  <2>2. j \in Ids(source)
    BY <1>1, <2>1 DEF PruneInv, RulesPruned
  <2>3. Pending(i, r)'
    BY <1>2 DEF Pending
  <2> QED BY <1>3, <2>2, <2>3
<1>5. Alone'
  BY <1>2 DEF Alone
<1>6. RulesPruned'
  BY <1>1, <1>4 DEF RulesPruned, Ids
<1>7. CopiesPruned'
  <2>1. \A e \in Deleters : Ids(deleter'[e].copies) = {}
    BY <1>2
  <2> QED BY <2>1 DEF CopiesPruned, Ids
<1> QED BY <1>5, <1>6, <1>7

LEMMA ListForPrunePruned ==
  ASSUME TypeOK, PruneInv, NEW d \in Deleters, ListForPrune(d), ~loose'
  PROVE  Alone' /\ RulesPruned' /\ CopiesPruned'
<1> DEFINE i == deleter[d].id
<1>1. /\ UNCHANGED <<source, rule, loose>>
      /\ deleter'[d].pc = "prune" /\ deleter'[d].id = i /\ deleter[d].pc = "list"
      /\ Ids(deleter'[d].copies) = {r \in Ids(rule) : Mentions(rule[r], i)}
      /\ \A r \in Ids(deleter'[d].copies) : deleter'[d].copies[r] = WithoutId(rule[r], i)
      /\ \A e \in Deleters \ {d} : deleter'[e] = deleter[e]
  BY ListEffect DEF tables, history
<1>2. Alone /\ RulesPruned /\ CopiesPruned
  BY <1>1 DEF PruneInv
<1>3. \A e \in Deleters \ {d} : deleter[e].pc = "idle" /\ Ids(deleter[e].copies) = {}
  BY <1>1, <1>2 DEF Alone, TypeOK, DeleterOK
<1>4. ASSUME NEW r \in Ids(rule), NEW j \in rule[r].from \cup rule[r].to
      PROVE  j \in Ids(source) \/ j = i
  BY <1>1, <1>2, <1>3 DEF RulesPruned, Pending
<1>5. Alone'
  BY <1>1, <1>3 DEF Alone
<1>6. RulesPruned'
  <2>1. ASSUME NEW r \in Ids(rule), NEW j \in rule[r].from \cup rule[r].to
        PROVE  j \in Ids(source) \/ Pending(j, r)'
    <3>1. CASE j = i
      BY <1>1, <3>1 DEF Pending, Mentions, Ids
    <3> QED BY <1>4, <3>1
  <2> QED BY <1>1, <2>1 DEF RulesPruned, Ids
<1>7. CopiesPruned'
  <2>1. ASSUME NEW r \in Ids(deleter'[d].copies)
        PROVE  deleter'[d].copies[r].from \cup deleter'[d].copies[r].to \subseteq Ids(source)
    <3>1. rule[r] \in Refs(1 .. lastId.source) /\ r \in Ids(rule)
      BY <1>1 DEF TypeOK, TablesOK
    <3>2. WithoutId(rule[r], i).from = rule[r].from \ {i} /\ WithoutId(rule[r], i).to = rule[r].to \ {i}
      BY <3>1, WithoutIdType
    <3> QED BY <1>1, <1>4, <3>1, <3>2
  <2>2. \A e \in Deleters \ {d} : Ids(deleter'[e].copies) = {}
    BY <1>1, <1>3
  <2> QED BY <1>1, <2>1, <2>2 DEF CopiesPruned, Ids
<1> QED BY <1>5, <1>6, <1>7

LEMMA PruneRulePruned ==
  ASSUME TypeOK, PruneInv, NEW d \in Deleters, PruneRule(d), ~loose'
  PROVE  Alone' /\ RulesPruned' /\ CopiesPruned'
<1>1. PICK r \in Ids(deleter[d].copies) :
        /\ rule' = IF r \in Ids(rule) THEN With(rule, r, deleter[d].copies[r]) ELSE rule
        /\ deleter[d].pc = "prune" /\ deleter'[d].pc = "prune" /\ deleter'[d].id = deleter[d].id
        /\ deleter'[d].copies = Without(deleter[d].copies, r)
        /\ UNCHANGED <<source, history>>
        /\ \A e \in Deleters \ {d} : deleter'[e] = deleter[e]
  BY PruneEffect
<1>2. source' = source /\ Alone /\ RulesPruned /\ CopiesPruned
  BY <1>1 DEF PruneInv, history
<1>3. Ids(rule') = Ids(rule) /\ \A q \in Ids(rule) : rule'[q] = IF q = r THEN deleter[d].copies[r] ELSE rule[q]
  BY <1>1 DEF With, Ids
<1>4. /\ Ids(deleter'[d].copies) = Ids(deleter[d].copies) \ {r}
      /\ \A q \in Ids(deleter'[d].copies) : deleter'[d].copies[q] = deleter[d].copies[q]
  BY <1>1 DEF Without, Ids
<1>5. Alone'
  BY <1>1, <1>2 DEF Alone
<1>6. RulesPruned'
  <2>1. ASSUME NEW q \in Ids(rule), NEW j \in rule'[q].from \cup rule'[q].to
        PROVE  j \in Ids(source) \/ Pending(j, q)'
    <3>1. CASE q = r
      BY <1>2, <1>3, <3>1 DEF CopiesPruned
    <3>2. CASE q # r
      <4>1. j \in Ids(source) \/ Pending(j, q)
        BY <1>2, <1>3, <3>2 DEF RulesPruned
      <4>2. ASSUME Pending(j, q) PROVE Pending(j, q)'
        <5>1. PICK e \in Deleters :
                /\ deleter[e].id = j
                /\ deleter[e].pc = "list" \/ (deleter[e].pc = "prune" /\ q \in Ids(deleter[e].copies))
          BY <4>2 DEF Pending
        <5>2. CASE e = d
          BY <1>1, <1>4, <3>2, <5>1, <5>2 DEF Pending, Ids
        <5>3. CASE e # d
          BY <1>1, <5>1, <5>3 DEF Pending, Ids
        <5> QED BY <5>2, <5>3
      <4> QED BY <4>1, <4>2
    <3> QED BY <3>1, <3>2
  <2> QED BY <1>2, <1>3, <2>1 DEF RulesPruned, Ids
<1>7. CopiesPruned'
  <2>1. ASSUME NEW e \in Deleters, NEW q \in Ids(deleter'[e].copies) \cap Ids(rule)
        PROVE  deleter'[e].copies[q].from \cup deleter'[e].copies[q].to \subseteq Ids(source)
    <3>1. CASE e = d
      BY <1>2, <1>4, <3>1 DEF CopiesPruned
    <3>2. CASE e # d
      BY <1>1, <1>2, <3>2 DEF CopiesPruned
    <3> QED BY <3>1, <3>2
  <2> QED BY <1>2, <1>3, <2>1 DEF CopiesPruned, Ids
<1> QED BY <1>5, <1>6, <1>7

LEMMA DeleteDonePruned ==
  ASSUME TypeOK, PruneInv, NEW d \in Deleters, DeleteDone(d), ~loose'
  PROVE  Alone' /\ RulesPruned' /\ CopiesPruned'
<1>1. /\ UNCHANGED <<source, rule, loose>> /\ deleter' = [deleter EXCEPT ![d] = Gone]
      /\ deleter[d].pc = "prune" /\ Ids(deleter[d].copies) = {}
  BY DEF DeleteDone, tables, history
<1>2. Alone /\ RulesPruned /\ CopiesPruned
  BY <1>1 DEF PruneInv
<1>3. deleter'[d].pc = "idle" /\ Ids(deleter'[d].copies) = {} /\ \A e \in Deleters \ {d} : deleter'[e] = deleter[e]
  BY <1>1 DEF TypeOK, Gone, Ids
<1>4. Alone'
  BY <1>2, <1>3 DEF Alone
<1>5. RulesPruned'
  <2>1. ASSUME NEW r \in Ids(rule), NEW j \in rule[r].from \cup rule[r].to, Pending(j, r) PROVE Pending(j, r)'
    BY <1>1, <1>3, <2>1 DEF Pending, Ids
  <2> QED BY <1>1, <1>2, <2>1 DEF RulesPruned, Ids
<1>6. CopiesPruned'
  BY <1>1, <1>2, <1>3 DEF CopiesPruned, Ids
<1> QED BY <1>4, <1>5, <1>6

LEMMA SubmitFormPruned ==
  ASSUME TypeOK, PruneInv, SubmitForm, ~loose'
  PROVE  Alone' /\ RulesPruned' /\ CopiesPruned'
<1>1. UNCHANGED <<source, deleter>>
  BY SubmitEffect
<1>2. PICK r \in Nat :
        /\ ~loose /\ form.from \cup form.to \subseteq Ids(source) /\ ~Held(r)
        /\ Written(r) \/ UNCHANGED <<rule, meant, lastId>>
  BY SubmitEffect
<1>3. Alone /\ RulesPruned /\ CopiesPruned
  BY <1>2 DEF PruneInv
<1>4. ASSUME NEW q \in Ids(rule')
      PROVE  \/ q = r /\ rule'[q].from = form.from /\ rule'[q].to = form.to
             \/ q \in Ids(rule) /\ rule'[q] = rule[q]
  BY <1>2 DEF Written, With, Ids
<1>5. Alone'
  BY <1>1, <1>3 DEF Alone
<1>6. RulesPruned'
  <2>1. ASSUME NEW q \in Ids(rule'), NEW j \in rule'[q].from \cup rule'[q].to
        PROVE  j \in Ids(source) \/ Pending(j, q)
    BY <1>2, <1>3, <1>4 DEF RulesPruned
  <2>2. \A j, q : Pending(j, q) => Pending(j, q)'
    BY <1>1 DEF Pending, Ids
  <2> QED BY <1>1, <2>1, <2>2 DEF RulesPruned, Ids
<1>7. CopiesPruned'
  <2>1. ASSUME NEW d \in Deleters, NEW q \in Ids(deleter[d].copies) \cap Ids(rule')
        PROVE  q \in Ids(rule)
    <3>1. q # r
      BY <1>2 DEF Held
    <3> QED BY <1>4, <3>1
  <2> QED BY <1>1, <1>3, <2>1 DEF CopiesPruned, Ids
<1> QED BY <1>5, <1>6, <1>7

LEMMA ImportPruned ==
  ASSUME TypeOK, PruneInv, Import, ~loose'
  PROVE  Alone' /\ RulesPruned' /\ CopiesPruned'
<1> DEFINE N == Len(export.contents)
           R == Len(export.rules)
           base == lastId.source
           old == lastId.rule
<1>1. /\ UNCHANGED <<deleter, loose>>
      /\ lastId'.source = base + N /\ lastId'.rule = old + R
      /\ Ids(source') = base + 1 .. lastId'.source
      /\ rule' = [r \in old + 1 .. lastId'.rule |->
              [from |-> {base + 1 + i : i \in export.rules[r - old].from},
               to   |-> {base + 1 + i : i \in export.rules[r - old].to}]]
  BY ImportEffect
<1>2. /\ N \in Nat /\ R \in Nat /\ base \in Nat /\ old \in Nat
      /\ \A n \in 1 .. R : export.rules[n] \in Refs(0 .. N - 1)
  BY LenProperties, ElementOfSeq DEF TypeOK, ExportOK, TablesOK
<1> HIDE DEF N, R, base, old
<1>3. Alone'
  BY <1>1 DEF PruneInv, Alone
<1>4. RulesPruned'
  <2>1. ASSUME NEW r \in Ids(rule'), NEW j \in rule'[r].from \cup rule'[r].to
        PROVE  j \in Ids(source')
    <3>1. r \in old + 1 .. lastId'.rule
      BY <1>1 DEF Ids
    <3>2. r - old \in 1 .. R
      BY <1>1, <1>2, <3>1
    <3>3. PICK i \in export.rules[r - old].from \cup export.rules[r - old].to : j = base + 1 + i
      BY <1>1, <3>1
    <3>4. i \in 0 .. N - 1
      BY <1>2, <3>2 DEF Refs
    <3>5. j \in base + 1 .. lastId'.source
      BY <1>1, <1>2, <3>3, <3>4
    <3> QED BY <1>1, <3>5
  <2> QED BY <2>1 DEF RulesPruned, Ids
<1>5. CopiesPruned'
  <2>1. (1 .. old) \cap (old + 1 .. lastId'.rule) = {} /\ deleter' = deleter
    BY <1>1, <1>2
  <2>2. ASSUME NEW d \in Deleters PROVE Ids(deleter'[d].copies) \cap Ids(rule') = {}
    <3>1. Ids(deleter[d].copies) \subseteq 1 .. old /\ Ids(rule') = old + 1 .. lastId'.rule
      BY <1>1 DEF TypeOK, DeleterOK, old, Ids
    <3> QED BY <2>1, <3>1
  <2> QED BY <2>2 DEF CopiesPruned, Ids
<1> QED BY <1>3, <1>4, <1>5

LEMMA PruneStep ==
  ASSUME TypeOK, PruneInv, [Next]_vars
  PROVE  PruneInv'
<1> SUFFICES ASSUME ~loose' PROVE Alone' /\ RulesPruned' /\ CopiesPruned'
  BY DEF PruneInv
<1>1. ASSUME UNCHANGED <<deleter, loose>>, Ids(source) \subseteq Ids(source'), Ids(rule') \subseteq Ids(rule),
             \A r \in Ids(rule') : rule'[r] = rule[r]
      PROVE  Alone' /\ RulesPruned' /\ CopiesPruned'
  <2>1. Alone /\ RulesPruned /\ CopiesPruned
    BY <1>1 DEF PruneInv
  <2>2. \A i, r : Pending(i, r) => Pending(i, r)'
    BY <1>1 DEF Pending, Ids
  <2>3. RulesPruned'
    <3>1. ASSUME NEW r \in Ids(rule'), NEW i \in rule'[r].from \cup rule'[r].to
          PROVE  i \in Ids(source') \/ Pending(i, r)'
      BY <1>1, <2>1, <2>2 DEF RulesPruned
    <3> QED BY <3>1 DEF RulesPruned, Ids
  <2>4. CopiesPruned'
    BY <1>1, <2>1 DEF CopiesPruned, Ids
  <2> QED BY <1>1, <2>1, <2>3, <2>4 DEF Alone
<1>2. CASE CreateSource
  <2>1. UNCHANGED <<rule, deleter, loose>> /\ Ids(source) \subseteq Ids(source')
    BY <1>2 DEF CreateSource, history, With, Ids
  <2> QED BY <1>1, <2>1 DEF Ids
<1>3. ASSUME NEW d \in Deleters, NEW i \in Ids(source), DeleteRow(d, i)
      PROVE  Alone' /\ RulesPruned' /\ CopiesPruned'
  BY <1>3, DeleteRowPruned
<1>4. ASSUME NEW d \in Deleters, ListForPrune(d) PROVE Alone' /\ RulesPruned' /\ CopiesPruned'
  BY <1>4, ListForPrunePruned
<1>5. ASSUME NEW d \in Deleters, PruneRule(d) PROVE Alone' /\ RulesPruned' /\ CopiesPruned'
  BY <1>5, PruneRulePruned
<1>6. ASSUME NEW d \in Deleters, DeleteDone(d) PROVE Alone' /\ RulesPruned' /\ CopiesPruned'
  BY <1>6, DeleteDonePruned
<1>7. ASSUME NEW d \in Deleters, DeleteBroken(d) PROVE FALSE
  BY <1>7 DEF DeleteBroken
<1>8. ASSUME NEW r \in Ids(rule), DeleteRule(r) PROVE Alone' /\ RulesPruned' /\ CopiesPruned'
  <2>1. UNCHANGED <<source, deleter, loose>> /\ rule' = Without(rule, r)
    BY <1>8 DEF DeleteRule
  <2>2. Ids(rule') \subseteq Ids(rule) /\ \A q \in Ids(rule') : rule'[q] = rule[q]
    BY <2>1 DEF Without, Ids
  <2> QED BY <1>1, <2>1, <2>2 DEF Ids
<1>9. CASE SubmitForm
  BY <1>9, SubmitFormPruned
<1>10. CASE Import
  BY <1>10, ImportPruned
<1>11. CASE (\E r \in Ids(rule) \cup {0} : OpenForm(r)) \/ ExportSources \/ ExportRules \/ UNCHANGED vars
  <2>1. UNCHANGED <<source, rule, deleter, loose>>
    BY <1>11 DEF OpenForm, ExportSources, ExportRules, vars, tables, history
  <2> QED BY <1>1, <2>1 DEF Ids
<1> QED BY <1>2, <1>3, <1>4, <1>5, <1>6, <1>7, <1>8, <1>9, <1>10, <1>11 DEF Next

-----------------------------------------------------------------------------
\* No id is given out twice, and none is held anywhere that was never given out.
THEOREM IdsSafe == Spec => []TypeOK
BY InitType, TypeStep, PTL DEF Spec

\* Every rule no deletion has overtaken connects the sources the operator chose for it
\* and no others, for any number of sources, rules, deletions and imports.
THEOREM RefsSafe == Spec => []RefsKept
<1>1. Init => TypeOK /\ RefsInv
  <2>1. ASSUME Init PROVE RefsInv
    <3>1. Ids(rule) = {} /\ export.rules = <<>> /\ form = NoForm
      BY <2>1 DEF Init, Ids, NoFile
    <3>2. \A d \in Deleters : CopyRefs(d)
      BY <3>1 DEF CopyRefs
    <3>3. Side(source, {}, {})
      BY SideNone
    <3>4. FormRefs
      BY <3>1, <3>3 DEF FormRefs, Linked, NoForm, Nobody
    <3> QED BY <3>1, <3>2, <3>4, EmptySeq DEF RefsInv, RuleRefs, FileRefs
  <2> QED BY <2>1, InitType
<1>2. TypeOK /\ RefsInv /\ [Next]_vars => (TypeOK /\ RefsInv)'
  BY TypeStep, RefsStep
<1>3. TypeOK /\ RefsInv => RefsKept
  BY DEF RefsInv, RuleRefs, RefsKept, Connects, Linked, Side, Contents, Ids
<1> QED BY <1>1, <1>2, <1>3, PTL DEF Spec

\* When nobody is deleting and no pruning was cut short or overtaken, no rule mentions
\* a source that does not exist.
THEOREM PrunedSafe == Spec => []Pruned
<1>1. Init => TypeOK /\ PruneInv
  <2>1. ASSUME Init PROVE PruneInv
    <3>1. Ids(rule) = {} /\ \A d \in Deleters : deleter[d].pc = "idle"
      BY <2>1 DEF Init, Ids, Gone
    <3> QED BY <3>1 DEF PruneInv, Alone, RulesPruned, CopiesPruned
  <2> QED BY <2>1, InitType
<1>2. TypeOK /\ PruneInv /\ [Next]_vars => (TypeOK /\ PruneInv)'
  BY TypeStep, PruneStep
<1>3. TypeOK /\ PruneInv => Pruned
  BY DEF PruneInv, RulesPruned, Pending, Pruned
<1> QED BY <1>1, <1>2, <1>3, PTL DEF Spec
=============================================================================
