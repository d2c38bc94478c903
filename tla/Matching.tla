------------------------------ MODULE Matching ------------------------------
(***************************************************************************)
(* How the values of a payload are compared with the value of a condition: *)
(* as numbers if both read as numbers, as fmt.Sprint prints them if not.   *)
(* The forms of texts and values are those of Filters.                     *)
(***************************************************************************)
EXTENDS Integers, Sequences

CONSTANTS
  Values,      \* JSON values, the items of lists among them
  Sprint(_)    \* fmt.Sprint: the text a value is printed as

Nil == <<"null">>
Blank == <<"blank">>
Str(text) == <<"str", text>>

IsNumberText(t) == t[1] = "num"

HasFloat(v) == v[1] = "num" \/ (v[1] = "str" /\ IsNumberText(v[2]))
\* The number and whether it is one: no comparison holds of not-a-number.
toFloat(v) == IF v[1] = "num" THEN <<v[2], TRUE>> ELSE <<v[2][2], v[2][3] # "nan">>
Same(x, y) == x[2] /\ y[2] /\ x[1] = y[1]
Below(x, y) == x[2] /\ y[2] /\ x[1] < y[1]

\* Numbers are whole here.  What a value is printed as reads as a number exactly
\* if the value does.
MatchingAssumption ==
  \A v \in Values :
    /\ HasFloat(v) => toFloat(v)[1] \in Int
    /\ HasFloat(v) <=> IsNumberText(Sprint(v))
    /\ v[1] = "list" => \A i \in DOMAIN v[2] : v[2][i] \in Values
ASSUME MatchingAssumption

equalByText(a, b) == Sprint(a) = Sprint(b)
equal(a, b) ==
  IF HasFloat(a) /\ HasFloat(b) THEN Same(toFloat(a), toFloat(b)) ELSE Sprint(a) = Sprint(b)

Comparing == {"", "eq", "ne", "gt", "lt", "in"}

\* The conditions that compare the value got of a field with their own.
Compares(op, got, value) ==
  CASE op \in {"", "eq"} -> equal(got, value)
    [] op = "ne"         -> ~equal(got, value)
    [] op = "gt"         -> HasFloat(got) /\ HasFloat(value) /\ Below(toFloat(value), toFloat(got))
    [] op = "lt"         -> HasFloat(got) /\ HasFloat(value) /\ Below(toFloat(got), toFloat(value))
    [] op = "in"         -> value[1] = "list" /\ \E i \in DOMAIN value[2] : equal(got, value[2][i])

-----------------------------------------------------------------------------
(* Properties                                                              *)

\* A number that is one, unlike not-a-number.
Ordered(v) == HasFloat(v) /\ toFloat(v)[2]

(* Two values the code takes for equal are not told apart by any condition *)
(* that compares: whatever "3" and 3 are for eq, they are for ne, gt, lt   *)
(* and in (match.go, equal and toFloat).                                   *)
ComparedAlike(value) ==
  \A op \in Comparing, a, b \in Values :
    equal(a, b) => (Compares(op, a, value) <=> Compares(op, b, value))

(* Of two numbers, however they are written, exactly one of equal, greater *)
(* and less holds: a rule for each misses nothing and sends nothing twice. *)
OneOrder(value) ==
  \A v \in Values :
    Ordered(v) /\ Ordered(value) =>
      \E op \in {"eq", "gt", "lt"} :
        \A other \in {"eq", "gt", "lt"} : Compares(other, v, value) <=> other = op
=============================================================================
