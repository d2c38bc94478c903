------------------------------- MODULE Filters -------------------------------
(***************************************************************************)
(* A rule's filter conditions: the way from the text of the rule form to a *)
(* stored condition and back, and what a condition decides about a         *)
(* payload.  A rule with several conditions is their conjunction and each  *)
(* line of the form is one of them, so the state holds a rule with one     *)
(* condition, or with none: a line that begins with # is skipped.          *)
(*                                                                         *)
(* A path is the sequence of its segments.  In the form it is text before  *)
(* the operator, so one with blanks in it is several words of its line:    *)
(* the form cannot bring such a path, a configuration file can.            *)
(*                                                                         *)
(* A text is known by how it reads:                                        *)
(*   <<"blank">>           nothing                                         *)
(*   <<"word", w, n>>      a bare word; with n > 0 the word twice, n       *)
(*                         blanks apart                                    *)
(*   <<"bool", b>>, <<"null">>  true, false, null                          *)
(*   <<"num", n, s>>       the number n spelt s: "plain" (3), "decimal"    *)
(*                         (3.0), "exp" (1e+06), or "nan", which           *)
(*                         ParseFloat takes for a number and JSON does not *)
(*   <<"quoted", t>>       the JSON string of the text t                   *)
(*   <<"array", ts>>, <<"object", f>>  texts between brackets or braces    *)
(*   <<"nil">>, <<"goarray", ts>>, <<"gomap", f>>  what fmt.Sprint makes   *)
(*                         of nil, of a longer slice and of a map          *)
(*   <<"words", ws, t>>    some words and then the text t                  *)
(* and a JSON value is one of                                              *)
(*   <<"null">>, <<"bool", b>>, <<"num", n>>, <<"str", text>>,             *)
(*   <<"list", values>>, <<"map", function from keys to values>>.          *)
(* What the standard library makes of one and the other is a constant:     *)
(* FiltersAssumption says what the conditions rely on, module Encoding is  *)
(* the library as TLC evaluates it.                                        *)
(***************************************************************************)
EXTENDS Matching

CONSTANTS
  Lines,          \* the lines an operator writes into the form
  Imported,       \* the conditions a configuration file brings
  Texts,          \* texts, those that saving and opening a form lead to among them
  Paths,          \* the paths of lines and conditions, and the words they split into
  Payloads,       \* payloads and whatever lies in one of them, for lookup
  Index,          \* the segments that are numerals: segment -> index
  Marshal(_),     \* json.Marshal
  IsJson(_),      \* what json.Unmarshal accepts ...
  Unmarshal(_),   \* ... and what it makes of it
  Joined(_),      \* strings.Fields and strings.Join: runs of blanks become one
  Fields(_),      \* strings.Fields of a path: its words, each of them a path
  Hash(_),        \* strings.HasPrefix of a word and "#"
  Ahead(_, _),    \* words and a text behind them as one text
  Within(_, _)    \* strings.Contains, and a pattern of plain words in a text

Condition == [path : Paths, op : STRING, value : Values]
Line == [path : Paths, op : STRING, value : Texts]

\* The words of a line's path from the third on, its operator and its value.
Behind(path, op, t) ==
  Joined(Ahead(Append(SubSeq(Fields(path), 3, Len(Fields(path))), <<op>>), t))

\* fmt.Sprint, encoding/json and strings as the conditions rely on them, and
\* sets that hold what they make of their members.
FiltersAssumption ==
  /\ Lines \subseteq Line /\ Imported \subseteq Condition /\ Blank \in Texts /\ Nil \in Values
  /\ Paths \subseteq Seq(STRING) /\ Fields(<<>>) = <<>> /\ Joined(Blank) = Blank
  /\ \A p \in Paths : Fields(p) \in Seq({w \in Paths : Fields(w) = <<w>>})
  /\ \A l \in Lines : Fields(l.path) = <<l.path>>
  /\ \A f \in {f \in Imported : Len(Fields(f.path)) > 1} :
       \A t \in {Blank, Marshal(f.value)} \cup {u \in Texts : f.value = Str(u)} :
         Behind(f.path, f.op, t) \in Texts
  /\ \A v \in Values :
       /\ v[1] = "str" => v = Str(v[2]) /\ v[2] \in Texts /\ Sprint(v) = v[2]
       /\ v[1] = "bool" => Sprint(v) = v
       /\ v[1] # "str" => Marshal(v) \in Texts
       /\ Marshal(v) # Blank /\ IsJson(Marshal(v)) /\ Unmarshal(Marshal(v)) = v
  /\ \A t \in Texts :
       /\ Joined(t) \in Texts
       /\ IF IsJson(t) THEN Unmarshal(t) \in Values ELSE Str(t) \in Values
       /\ IsJson(t) => t[1] \in {"bool", "null", "num", "quoted", "array", "object"}
       /\ IsJson(t) /\ t[1] = "bool" => Unmarshal(t) = t
       /\ IsJson(t) /\ t[1] = "num" => Unmarshal(t) = <<"num", t[2]>> /\ t[3] # "nan"
  /\ \A s \in DOMAIN Index : Index[s] \in Nat
  /\ \A v \in Payloads :
       /\ v[1] = "list" => v[2] \in Seq(Payloads)
       /\ v[1] = "map" => \A k \in DOMAIN v[2] : v[2][k] \in Payloads
ASSUME FiltersAssumption

VARIABLES
  rule,       \* the conditions of the stored rule: {fs}, or {} if there is no rule
  form        \* the lines in the open form: {text}, or {} if none is open

vars == <<rule, form>>

validFilterOps == {"eq", "ne", "gt", "lt", "contains", "not_contains",
                   "exists", "not_exists", "regex", "in"}
NeedsValue(op) == op \notin {"exists", "not_exists"}

-----------------------------------------------------------------------------
(* What a condition decides                                                *)

RegexMatches(pattern, text) == Within(pattern, text)

contains(haystack, needle) ==
  IF haystack[1] = "list"
  THEN \E i \in DOMAIN haystack[2] : equal(haystack[2][i], needle)
  ELSE Within(Sprint(needle), Sprint(haystack))

\* The values one segment below a node: none, or one.
Child(node, seg) ==
  CASE node[1] = "map"  -> {node[2][k] : k \in {seg} \cap DOMAIN node[2]}
    [] node[1] = "list" -> {node[2][i] : i \in {Index[s] + 1 : s \in {seg} \cap DOMAIN Index}
                                               \cap DOMAIN node[2]}
    [] OTHER            -> {}

\* What the first segments of a path lead to, one more at a time.
Walk(data, path) ==
  LET at[i \in 0 .. Len(path)] ==
        IF i = 0 THEN {data} ELSE UNION {Child(node, path[i]) : node \in at[i - 1]}
  IN  at

\* What lies at a path: the empty set if nothing does.
lookup(data, path) == IF Fields(path) = <<>> THEN {} ELSE Walk(data, path)[Len(path)]

\* A condition on a field that holds the value got.
Decides(op, got, value) ==
  CASE op \in Comparing      -> Compares(op, got, value)
    [] op = "contains"       -> contains(got, value)
    [] op = "not_contains"   -> ~contains(got, value)
    [] op = "regex"          -> RegexMatches(Sprint(value), Sprint(got))
    [] OTHER                 -> FALSE

matchOne(f, data) ==
  LET at == lookup(data, f.path) IN
  CASE f.op = "exists"     -> at # {}
    [] f.op = "not_exists" -> at = {}
    [] OTHER               -> \E got \in at : Decides(f.op, got, f.value)

\* engine.Match: every condition must hold.
Match(filters, data) == \A i \in DOMAIN filters : matchOne(filters[i], data)

-----------------------------------------------------------------------------
(* The form and the import                                                 *)

ParseFilterValue(t) == IF t = Blank THEN Str(Blank)
                       ELSE IF IsJson(t) THEN Unmarshal(t) ELSE Str(t)

\* A word of the line where its operator is expected.
OpOf(word) == IF Len(word) = 1 THEN word[1] ELSE ""

\* A line split at its blanks: the first word is the path, the second the operator.
Split(line) ==
  LET words == Fields(line.path) IN
  IF Len(words) = 1
  THEN [path |-> words[1], op |-> line.op, value |-> Joined(line.value)]
  ELSE [path |-> words[1], op |-> OpOf(words[2]), value |-> Behind(line.path, line.op, line.value)]

\* The conditions on a line: one, or none on a comment; the empty set if it is refused.
ParseLine(line) ==
  IF Hash(Fields(line.path)[1]) THEN {<<>>}
  ELSE {<<[path |-> l.path, op |-> l.op,
           value |-> IF l.value = Blank THEN Nil ELSE ParseFilterValue(l.value)]>> :
          l \in {x \in {Split(line)} : x.op \in validFilterOps /\ (NeedsValue(x.op) => x.value # Blank)}}
ParseFilters(text) == IF text = <<>> THEN {<<>>} ELSE ParseLine(text[1])

\* What both the form and the import demand of a condition before it is stored.
validateRule(fs) == \A i \in DOMAIN fs :
  /\ Fields(fs[i].path) # <<>>
  /\ fs[i].op \in validFilterOps
  /\ NeedsValue(fs[i].op) => fs[i].value # Nil

filterValuePrinted(v) == Sprint(v)
filterValueText(v) == IF v[1] = "str" THEN v[2] ELSE Marshal(v)

FiltersToText(fs) == [i \in DOMAIN fs |->
  [path |-> fs[i].path, op |-> fs[i].op,
   value |-> IF fs[i].value = Nil THEN Blank ELSE filterValueText(fs[i].value)]]

\* What saving the lines of a form stores: the empty set if they are refused.
Accepted(text) == {fs \in ParseFilters(text) : validateRule(fs)}

Init == rule = {} /\ form = {}

New ==
  /\ rule = {} /\ form = {}
  /\ \E line \in Lines : form' = {<<line>>}
  /\ UNCHANGED rule

Edit ==
  /\ form = {}
  /\ \E fs \in rule : form' = {FiltersToText(fs)}
  /\ UNCHANGED rule

\* Lines that are refused leave the form open, with the text in it.
Save ==
  /\ \E text \in form : rule' = Accepted(text)
  /\ rule' # {}
  /\ form' = {}

\* Import replaces the rules.  What becomes of a form that is open meanwhile
\* is a matter of ids, not of conditions: see ConfigStore.
Import ==
  /\ form = {}
  /\ \E f \in Imported : validateRule(<<f>>) /\ rule' = {<<f>>}
  /\ UNCHANGED form

Next == New \/ Edit \/ Save \/ Import

Spec == Init /\ [][Next]_vars

-----------------------------------------------------------------------------
(* Properties                                                              *)

\* The conditions that are stored.
Stored == UNION {{fs[i] : i \in DOMAIN fs} : fs \in rule}

\* A payload whose field at the path of f holds the value v, from the inside out.
Nested(path, v) ==
  LET around[i \in 0 .. Len(path)] ==
        IF i = 0 THEN v ELSE <<"map", [s \in {path[Len(path) - i + 1]} |-> around[i - 1]]>>
  IN  around
FieldIs(f, v) == Nested(f.path, v)[Len(f.path)]
With(f, op) == [f EXCEPT !.op = op]

\* Whole payloads: the condition finds its field and compares what is there.
AtPath(f) ==
  \A op \in Comparing \ {""}, v \in Values :
    Match(<<With(f, op)>>, FieldIs(f, v)) <=> Compares(op, v, f.value)

\* Reference for lookup: a node's fields and items, and a trail of nodes along a path.
Edges(node) ==
  CASE node[1] = "map"  -> {<<k, node[2][k]>> : k \in DOMAIN node[2]}
    [] node[1] = "list" -> {<<s, node[2][Index[s] + 1]>> :
                              s \in {s \in DOMAIN Index : Index[s] < Len(node[2])}}
    [] OTHER            -> {}
HasPath(data, path) ==
  \E trail \in [1 .. Len(path) -> Payloads] :
    \A i \in 1 .. Len(path) :
      <<path[i], trail[i]>> \in Edges(IF i = 1 THEN data ELSE trail[i - 1])

(* exists finds a path exactly if the payload has it, and not_exists       *)
(* otherwise: no index out of range, no segment below a leaf (lookup).     *)
PathsFound ==
  \A f \in Stored, data \in Payloads :
    /\ Match(<<With(f, "exists")>>, data) <=> HasPath(data, f.path)
    /\ Match(<<With(f, "not_exists")>>, data) <=> ~HasPath(data, f.path)

(* What match.go decides is consistent: payloads that are equal at the     *)
(* path of a condition are decided alike, numbers are ordered, and paths   *)
(* are found.                                                              *)
MatchConsistent ==
  /\ \A f \in Stored : ComparedAlike(f.value) /\ OneOrder(f.value) /\ AtPath(f)
  /\ PathsFound

\* Strings the form gives back as something else than itself: "3.0" as 3, and
\* "1000000" as a number that prints as 1e+06.
Rewritten(t) ==
  \/ t = Blank
  \/ Joined(t) # t
  \/ t[1] \in {"quoted", "array", "object", "null"}
  \/ t[1] = "num" /\ IsJson(t) /\ Sprint(Unmarshal(t)) # t
\* Values a form can show: no such string, no run of blanks in the JSON.
Kept(v) == IF v[1] = "str" THEN ~Rewritten(v[2]) ELSE Joined(Marshal(v)) = Marshal(v)
\* Conditions it can show: their path is one word too, and no comment.
Showable(f) == Fields(f.path) = <<f.path>> /\ ~Hash(f.path) /\ Kept(f.value)

(* Opening a rule's form and saving it unchanged is not refused and leaves *)
(* what the rule decides about every payload, if the form can show its     *)
(* condition: a string that reads as a number or a boolean comes back as   *)
(* one, and equal takes the two for the same (FiltersToText, ParseFilters).*)
(* A condition that it cannot show, which a configuration file may bring,  *)
(* is refused, changed or dropped.                                         *)
DecisionKept ==
  \A fs \in rule : (\A i \in DOMAIN fs : Showable(fs[i])) =>
    /\ Accepted(FiltersToText(fs)) # {}
    /\ \A again \in Accepted(FiltersToText(fs)),
          data \in Payloads \cup {FieldIs(f, v) : f \in Stored, v \in Values} :
         Match(again, data) <=> Match(fs, data)
=============================================================================
