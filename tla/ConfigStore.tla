----------------------------- MODULE ConfigStore -----------------------------
(***************************************************************************)
(* Sources and the rules that refer to them by id: creation, deletion with *)
(* the pruning of rules that follows it, edits through forms that were     *)
(* rendered some time ago, export and import.  Only import and export know *)
(* sources by index.  Every statement is a transaction of its own; import  *)
(* is one transaction; no lock orders the handlers.                        *)
(*                                                                         *)
(* A source stands for its contents, a number no other source bears: the   *)
(* id is what the program knows it by, the number what the operator means. *)
(* A rule is its two id lists, as sets.                                    *)
(***************************************************************************)
EXTENDS Naturals, Sequences, FiniteSetsExt, Functions

CONSTANTS
  Deleters,      \* bound: handlers that delete a source at the same time
  MaxRefs,       \* bound: sources a form selects on either side
  MaxSources, MaxRules, MaxForms, MaxDeletes, MaxImports, MaxErrors  \* bounds

ASSUME ConfigStoreAssumption ==
  /\ MaxRefs \in Nat /\ MaxSources \in Nat /\ MaxRules \in Nat /\ MaxForms \in Nat
  /\ MaxDeletes \in Nat /\ MaxImports \in Nat /\ MaxErrors \in Nat
  /\ IsFiniteSet(Deleters)

VARIABLES
  source,    \* the sources table: id -> contents
  rule,      \* the rules table: id -> [from, to]
  lastId,    \* sqlite_sequence: the last id of [source, rule]
  deleter,   \* handleSourceDelete: [pc, id, copies]
  form,      \* an open rule form, or NoForm
  export,    \* handleExport, or the file it has written
  meant,     \* history: the contents the operator last chose for each rule, by id
  raced,     \* history: rules saved while a deleter held a copy
  loose,     \* history: a prune was cut short or overtaken, or a form outlived a source
  made,      \* the contents handed out so far
  counts     \* what the bounds count: [forms, deletes, imports, errors]

tables == <<source, rule, lastId>>
history == <<meant, raced, loose>>
vars == <<tables, deleter, form, export, history, made, counts>>

Nobody == [from |-> {}, to |-> {}]
NoForm == [rule |-> 0, from |-> {}, to |-> {}, means |-> Nobody]
Gone   == [pc |-> "idle", id |-> 0, copies |-> <<>>]
NoFile == [pc |-> "none", listed |-> <<>>, contents |-> <<>>, rules |-> <<>>, meant |-> <<>>]

Ids(f) == DOMAIN f
Refs(S) == [from : SUBSET S, to : SUBSET S]

\* An id is at most the last one given out, and never given out again.
TablesOK ==
  /\ lastId \in [source : Nat, rule : Nat] /\ made \in Nat
  /\ Ids(source) \subseteq 1 .. lastId.source /\ source \in [Ids(source) -> 1 .. made]
  /\ IsInjective(source)
  /\ Ids(rule) \subseteq 1 .. lastId.rule /\ rule \in [Ids(rule) -> Refs(1 .. lastId.source)]
  /\ meant \in [1 .. lastId.rule -> Refs(1 .. made)]

\* The row goes first: the id a deletion is about is not in the table any more.
DeleterOK(x) ==
  /\ x.pc \in {"idle", "list", "prune"}
  /\ x.pc # "idle" => x.id \in (1 .. lastId.source) \ Ids(source)
  /\ Ids(x.copies) \subseteq 1 .. lastId.rule
  /\ x.copies \in [Ids(x.copies) -> Refs(1 .. lastId.source)]
  /\ x.pc # "prune" => Ids(x.copies) = {}

FormOK ==
  form \in [rule : 0 .. lastId.rule, from : SUBSET (1 .. lastId.source), to : SUBSET (1 .. lastId.source),
            means : Refs(1 .. made)]

\* The file names every source once, and each side of a rule by positions in it.
ExportOK ==
  /\ export.contents \in Seq(1 .. made) /\ IsInjective(export.contents)
  /\ export.rules \in Seq(Refs(0 .. Len(export.contents) - 1))
  /\ export.meant \in Seq(Refs(1 .. made)) /\ Len(export.meant) = Len(export.rules)
  /\ DOMAIN export.listed = DOMAIN export.contents

TypeOK ==
  /\ TablesOK /\ FormOK /\ ExportOK /\ loose \in BOOLEAN
  /\ DOMAIN deleter = Deleters /\ \A d \in Deleters : DeleterOK(deleter[d])

Init ==
  /\ source = [i \in 1 .. 2 |-> i] /\ made = 2
  /\ rule = <<>> /\ lastId = [source |-> 2, rule |-> 0]
  /\ deleter = [d \in Deleters |-> Gone] /\ form = NoForm /\ export = NoFile
  /\ meant = <<>> /\ raced = {} /\ loose = FALSE
  /\ counts = [forms |-> 0, deletes |-> 0, imports |-> 0, errors |-> 0]

Count(what, max) == counts[what] < max /\ counts' = [counts EXCEPT ![what] = @ + 1]

Without(f, i) == [j \in DOMAIN f \ {i} |-> f[j]]
With(f, i, v) == [j \in DOMAIN f \cup {i} |-> IF j = i THEN v ELSE f[j]]

\* ListSources and ListRules order by id: the n-th entry has n ids up to its own.
Ordered(f) ==
  [n \in 1 .. Cardinality(DOMAIN f) |->
     CHOOSE i \in DOMAIN f : Cardinality({j \in DOMAIN f : j <= i}) = n]

-----------------------------------------------------------------------------
\* Seeded bugs, each put in the place of a definition below.
NextIdReused(table, last) == FoldSet(LAMBDA i, j : IF i > j THEN i ELSE j, 0, DOMAIN table) + 1
WithoutIdKeepsFrom(r, i) == [r EXCEPT !.to = @ \ {i}]
PlacedInOrder(list) == [i \in 0 .. Len(list) - 1 |-> list[i + 1].contents]
UpdateOrInsert(r, v) == rule' = With(rule, r, v)
-----------------------------------------------------------------------------
(* Sources *)

\* AUTOINCREMENT: the id of a new row is never one that was used before.
NextId(table, last) == last + 1

CreateSource ==
  /\ made < MaxSources /\ made' = made + 1
  /\ LET i == NextId(source, lastId.source) IN
       /\ source' = With(source, i, made')
       /\ lastId' = [lastId EXCEPT !.source = IF i > @ THEN i ELSE @]
  /\ UNCHANGED <<rule, deleter, form, export, history, counts>>

\* DeleteSource: the row, ...
DeleteRow(d, i) ==
  /\ deleter[d].pc = "idle" /\ i \in Ids(source)
  /\ Count("deletes", MaxDeletes)
  /\ source' = Without(source, i)
  /\ deleter' = [deleter EXCEPT ![d] = [pc |-> "list", id |-> i, copies |-> <<>>]]
  /\ loose' = (loose \/ \E e \in Deleters \ {d} : deleter[e].pc # "idle")
  /\ UNCHANGED <<rule, lastId, form, export, meant, raced, made>>

Mentions(v, i) == i \in v.from \cup v.to
WithoutId(r, i) == [r EXCEPT !.from = @ \ {i}, !.to = @ \ {i}]

\* ... the rules that mention it, with it taken out, ...
ListForPrune(d) ==
  /\ deleter[d].pc = "list"
  /\ LET i == deleter[d].id IN
       deleter' = [deleter EXCEPT ![d] =
         [pc |-> "prune", id |-> i,
          copies |-> [r \in {r \in Ids(rule) : Mentions(rule[r], i)} |-> WithoutId(rule[r], i)]]]
  /\ UNCHANGED <<tables, form, export, history, made, counts>>

\* SaveRule of an existing rule writes the whole row, if there is one.
UpdateRule(r, v) == rule' = IF r \in Ids(rule) THEN With(rule, r, v) ELSE rule

\* ... saved one by one.
PruneRule(d) ==
  /\ deleter[d].pc = "prune"
  /\ LET copies == deleter[d].copies IN
       \E r \in Ids(copies) :
         /\ \A q \in Ids(copies) : r <= q
         /\ UpdateRule(r, copies[r])
         /\ deleter' = [deleter EXCEPT ![d] =
              [pc |-> "prune", id |-> deleter[d].id, copies |-> Without(copies, r)]]
  /\ UNCHANGED <<source, lastId, form, export, history, made, counts>>

DeleteDone(d) ==
  /\ deleter[d].pc = "prune" /\ Ids(deleter[d].copies) = {}
  /\ deleter' = [deleter EXCEPT ![d] = Gone]
  /\ UNCHANGED <<tables, form, export, history, made, counts>>

\* A statement fails, or the process dies here: the rest of the pruning is not done.
DeleteBroken(d) ==
  /\ deleter[d].pc # "idle" /\ Count("errors", MaxErrors)
  /\ deleter' = [deleter EXCEPT ![d] = Gone] /\ loose' = TRUE
  /\ UNCHANGED <<tables, form, export, meant, raced, made>>

-----------------------------------------------------------------------------
(* Rules *)

Contents(ids) == {source[i] : i \in ids \cap Ids(source)}
Selections == {ids \in SUBSET Ids(source) : ids # {} /\ Cardinality(ids) <= MaxRefs}

\* The form of a new rule (0) or of an existing one shows the sources there are;
\* what the operator picks is fixed before he submits it.
OpenForm(r) ==
  /\ form = NoForm /\ r \in Ids(rule) \cup {0}
  /\ Count("forms", MaxForms)
  /\ \E from, to \in Selections :
       form' = [rule |-> r, from |-> from, to |-> to,
                means |-> [from |-> Contents(from), to |-> Contents(to)]]
  /\ UNCHANGED <<tables, deleter, export, history, made>>

Held(r) == \E d \in Deleters : r \in Ids(deleter[d].copies)

\* ruleFromForm and SaveRule; the selected ids are not looked up.
SubmitForm ==
  /\ form # NoForm /\ form' = NoForm
  /\ LET r   == IF form.rule = 0 THEN NextId(rule, lastId.rule) ELSE form.rule
         new == [from |-> form.from, to |-> form.to]
     IN  /\ form.rule = 0 => r <= MaxRules
         /\ IF form.rule = 0
              THEN /\ rule' = With(rule, r, new)
                   /\ lastId' = [lastId EXCEPT !.rule = IF r > @ THEN r ELSE @]
              ELSE UpdateRule(r, new) /\ UNCHANGED lastId
         /\ meant' = IF r \in Ids(rule') THEN With(meant, r, form.means) ELSE meant
         /\ raced' = IF Held(r) THEN raced \cup {r} ELSE raced \ {r}
         /\ loose' = (loose \/ ~(form.from \cup form.to \subseteq Ids(source)) \/ Held(r))
  /\ UNCHANGED <<source, deleter, export, made, counts>>

DeleteRule(r) ==
  /\ r \in Ids(rule) /\ Count("deletes", MaxDeletes)
  /\ rule' = Without(rule, r) /\ meant' = With(meant, r, Nobody) /\ raced' = raced \ {r}
  /\ UNCHANGED <<source, lastId, deleter, form, export, loose, made>>

-----------------------------------------------------------------------------
(* Export and import *)

\* handleExport reads the sources, then the rules.
ExportSources ==
  /\ export.pc = "none" /\ counts.imports < MaxImports
  /\ export' = [NoFile EXCEPT !.pc = "sources", !.listed = Ordered(source),
                  !.contents = [n \in 1 .. Cardinality(Ids(source)) |-> source[Ordered(source)[n]]]]
  /\ UNCHANGED <<tables, deleter, form, history, made, counts>>

\* idx: the ids as positions in the file, those that are not in it dropped.
Indices(ids) == {n \in 0 .. Len(export.contents) - 1 : export.listed[n + 1] \in ids}
Listed(ids)  == {export.contents[n] : n \in {n \in DOMAIN export.listed : export.listed[n] \in ids}}

ExportRules ==
  /\ export.pc = "sources"
  /\ LET ids == Ordered(rule) IN
       export' = [pc |-> "file", listed |-> export.listed, contents |-> export.contents,
         rules |-> [n \in DOMAIN ids |-> [from |-> Indices(rule[ids[n]].from),
                                          to   |-> Indices(rule[ids[n]].to)]],
         meant |-> [n \in DOMAIN ids |-> [from |-> Listed(rule[ids[n]].from),
                                          to   |-> Listed(rule[ids[n]].to)]]]
  /\ UNCHANGED <<tables, deleter, form, history, made, counts>>

\* The sources of the file as [index, contents], in an order somebody may have changed.
Orders(n) == {p \in [1 .. n -> 1 .. n] : IsInjective(p)}
FileSources(p) == [k \in DOMAIN p |-> [index |-> p[k] - 1, contents |-> export.contents[p[k]]]]

\* importSources: each entry goes where its index says, and every place is taken once.
Placed(list) == [i \in 0 .. Len(list) - 1 |-> (CHOOSE e \in Range(list) : e.index = i).contents]

remapIDs(idx, newIDs) == {newIDs[i] : i \in idx \cap DOMAIN newIDs}

\* handleImport: all is replaced, in one transaction.
Import ==
  /\ export.pc = "file" /\ Count("imports", MaxImports)
  /\ \E p \in Orders(Len(export.contents)) :
       LET placed == Placed(FileSources(p))
           newIDs == [i \in DOMAIN placed |-> lastId.source + 1 + i]
           old    == lastId.rule
       IN  /\ lastId' = [source |-> lastId.source + Len(export.contents),
                         rule   |-> old + Len(export.rules)]
           /\ source' = [j \in Range(newIDs) |-> placed[j - lastId.source - 1]]
           /\ rule' = [r \in old + 1 .. lastId'.rule |->
                         [from |-> remapIDs(export.rules[r - old].from, newIDs),
                          to   |-> remapIDs(export.rules[r - old].to, newIDs)]]
           /\ meant' = [r \in 1 .. lastId'.rule |->
                          IF r > old THEN export.meant[r - old] ELSE Nobody]
  /\ raced' = {}
  /\ form' = [form EXCEPT !.means = Nobody]   \* the sources it meant are gone
  /\ export' = NoFile
  /\ UNCHANGED <<deleter, loose, made>>

-----------------------------------------------------------------------------
Next ==
  \/ CreateSource
  \/ \E d \in Deleters : \/ \E i \in Ids(source) : DeleteRow(d, i)
                         \/ ListForPrune(d) \/ PruneRule(d) \/ DeleteDone(d) \/ DeleteBroken(d)
  \/ \E r \in Ids(rule) : DeleteRule(r)
  \/ \E r \in Ids(rule) \cup {0} : OpenForm(r)
  \/ SubmitForm \/ ExportSources \/ ExportRules \/ Import

Spec == Init /\ [][Next]_vars
-----------------------------------------------------------------------------
(* Properties *)

\* A rule connects the sources the operator chose for it, those that were deleted
\* left out, and never another one - whatever deletions, exports, imports and
\* stale forms came in between.
Connects(v, means) ==
  /\ Contents(v.from) = means.from \cap Range(source)
  /\ Contents(v.to)   = means.to \cap Range(source)

\* It holds of every rule no deletion has overtaken.
RefsKept == \A r \in Ids(rule) \ raced : Connects(rule[r], meant[r])

\* When nobody is deleting and nothing went wrong, no rule mentions a source that
\* does not exist.
Pruned ==
  (~loose /\ \A d \in Deleters : deleter[d].pc = "idle")
  => \A r \in Ids(rule) : rule[r].from \cup rule[r].to \subseteq Ids(source)
=============================================================================
