--------------------------- MODULE FiltersProofs ---------------------------
(***************************************************************************)
(* Proofs about the conditions of a rule, for whatever values a payload    *)
(* holds and whatever lines and imports bring, as long as the standard     *)
(* library keeps what FiltersAssumption says of it.  First the comparisons *)
(* as such, then the way down a path, by induction over its segments, then *)
(* what a condition decides about a payload, and last the way of a value   *)
(* through the form and back.                                              *)
(***************************************************************************)
EXTENDS Filters, WellFoundedInduction, TLAPS

-----------------------------------------------------------------------------
(* Comparisons, as long as a printed value reads as a number exactly if    *)
(* the value does.                                                         *)

\* Equal values are numbers together, and then one number and not not-a-number;
\* if they are none, they are printed alike.
LEMMA EqualSplits ==
  ASSUME NEW a \in Values, NEW b \in Values, equal(a, b)
  PROVE  /\ HasFloat(a) <=> HasFloat(b)
         /\ HasFloat(a) => Same(toFloat(a), toFloat(b))
         /\ ~HasFloat(a) => Sprint(a) = Sprint(b)
<1>1. CASE HasFloat(a) /\ HasFloat(b)
  BY <1>1 DEF equal
<1>2. CASE ~(HasFloat(a) /\ HasFloat(b))
  <2>1. Sprint(a) = Sprint(b)
    BY <1>2 DEF equal
  <2>2. HasFloat(a) <=> HasFloat(b)
    BY <2>1, MatchingAssumption DEF MatchingAssumption
  <2> QED BY <1>2, <2>1, <2>2
<1> QED BY <1>1, <1>2

\* equal is symmetric (match.go, equal), ...
LEMMA EqualSymmetric ==
  ASSUME NEW a \in Values, NEW b \in Values, equal(a, b)
  PROVE  equal(b, a)
BY EqualSplits DEF equal, Same

\* ... and transitive.
LEMMA EqualTransitive ==
  ASSUME NEW a \in Values, NEW b \in Values, NEW c \in Values, equal(a, b), equal(b, c)
  PROVE  equal(a, c)
<1>1. /\ HasFloat(a) <=> HasFloat(b)
      /\ HasFloat(a) => Same(toFloat(a), toFloat(b))
      /\ ~HasFloat(a) => Sprint(a) = Sprint(b)
  BY EqualSplits
<1>2. /\ HasFloat(b) <=> HasFloat(c)
      /\ HasFloat(b) => Same(toFloat(b), toFloat(c))
      /\ ~HasFloat(b) => Sprint(b) = Sprint(c)
  BY EqualSplits
<1> QED BY <1>1, <1>2 DEF equal, Same

\* Equal values have the same order to a third.
LEMMA EqualOrdered ==
  ASSUME NEW a \in Values, NEW b \in Values, NEW c \in Values, equal(a, b)
  PROVE  /\ Compares("gt", a, c) => Compares("gt", b, c)
         /\ Compares("lt", a, c) => Compares("lt", b, c)
<1>1. /\ HasFloat(a) <=> HasFloat(b)
      /\ HasFloat(a) => Same(toFloat(a), toFloat(b))
  BY EqualSplits
<1> QED BY <1>1 DEF Compares, Same, Below

\* What holds of a value holds of an equal one.
LEMMA Follows ==
  ASSUME NEW value \in Values, NEW op \in Comparing,
         NEW a \in Values, NEW b \in Values, equal(a, b), Compares(op, a, value)
  PROVE  Compares(op, b, value)
<1>1. equal(b, a)
  BY EqualSymmetric
<1>2. CASE op \in {"", "eq"}
  BY <1>1, <1>2, EqualTransitive DEF Compares
<1>3. CASE op = "ne"
  BY <1>3, EqualTransitive DEF Compares
<1>4. CASE op \in {"gt", "lt"}
  BY <1>4, EqualOrdered
<1>5. CASE op = "in"
  <2>1. PICK i \in DOMAIN value[2] : value[1] = "list" /\ equal(a, value[2][i])
    BY <1>5 DEF Compares
  <2>2. value[2][i] \in Values
    BY <2>1, MatchingAssumption DEF MatchingAssumption
  <2>3. equal(b, value[2][i])
    BY <1>1, <2>1, <2>2, EqualTransitive
  <2> QED BY <1>5, <2>1, <2>3 DEF Compares
<1> QED BY <1>2, <1>3, <1>4, <1>5 DEF Comparing

\* No condition that compares tells two values apart that match.go, equal, takes
\* for equal: 3, "3" and "3.0" go the same way through every rule.
THEOREM ComparedAlikeSafe == ASSUME NEW value \in Values PROVE ComparedAlike(value)
<1> SUFFICES ASSUME NEW op \in Comparing, NEW a \in Values, NEW b \in Values, equal(a, b)
             PROVE  Compares(op, a, value) <=> Compares(op, b, value)
  BY DEF ComparedAlike
<1>1. equal(b, a)
  BY EqualSymmetric
<1> QED BY <1>1, Follows

\* Of two numbers exactly one of eq, gt and lt holds (match.go, matchOne).
THEOREM OneOrderSafe == ASSUME NEW value \in Values PROVE OneOrder(value)
<1> SUFFICES ASSUME NEW v \in Values, Ordered(v), Ordered(value)
             PROVE  \E op \in {"eq", "gt", "lt"} :
                      \A other \in {"eq", "gt", "lt"} : Compares(other, v, value) <=> other = op
  BY DEF OneOrder
<1> DEFINE m == toFloat(v)[1]
           n == toFloat(value)[1]
<1>1. m \in Int /\ n \in Int
  BY MatchingAssumption DEF MatchingAssumption, Ordered
<1>2. /\ Compares("eq", v, value) <=> m = n
      /\ Compares("gt", v, value) <=> n < m
      /\ Compares("lt", v, value) <=> m < n
  BY DEF Compares, Ordered, equal, Same, Below
<1> HIDE DEF m, n
<1>3. CASE m = n
  BY <1>1, <1>2, <1>3
<1>4. CASE n < m
  BY <1>1, <1>2, <1>4
<1>5. CASE m < n
  BY <1>1, <1>2, <1>5
<1> QED BY <1>1, <1>3, <1>4, <1>5

-----------------------------------------------------------------------------
(* Paths: what the recursive functions of lookup and of the payloads that  *)
(* hold a value are at each of their arguments, by induction over sets of  *)
(* numbers, from the minimal elements of a well-founded relation.          *)

\* A set that holds 0 and the successor of each of its numbers holds all of them.
LEMMA Counting ==
  ASSUME NEW S, 0 \in S, \A n \in Nat : n \in S => n + 1 \in S
  PROVE  \A n \in Nat : n \in S
<1> DEFINE Less == OpToRel(<, Nat)
           Rest == Nat \ S
<1>1. IsWellFoundedOn(Less, Nat)
  BY NatLessThanWellFounded
<1>2. \A m, n \in Nat : m < n => <<m, n>> \in Less
  BY DEF OpToRel
<1> HIDE DEF Less
<1>3. SUFFICES ASSUME Rest # {} PROVE FALSE
  OBVIOUS
<1>4. PICK n \in Rest : \A m \in Rest : <<m, n>> \notin Less
  BY <1>1, <1>3, WFMin
<1>5. n # 0 /\ n - 1 \in Nat /\ n - 1 < n
  OBVIOUS
<1>6. n - 1 \in S
  BY <1>2, <1>4, <1>5
<1> QED BY <1>5, <1>6

\* The loop of lookup, one segment after the other.
LEMMA WalkSteps ==
  ASSUME NEW data, NEW path \in Seq(STRING)
  PROVE  /\ Walk(data, path)[0] = {data}
         /\ \A i \in 1 .. Len(path) :
              Walk(data, path)[i] = UNION {Child(node, path[i]) : node \in Walk(data, path)[i - 1]}
<1> DEFINE Below1(i, nodes) == UNION {Child(node, path[i]) : node \in nodes}
           Upto(n, f) == f = [i \in 0 .. n |-> IF i = 0 THEN {data} ELSE Below1(i, f[i - 1])]
           S == {n \in Nat : \E f : Upto(n, f)}
           w == Walk(data, path)
<1> HIDE DEF Below1
<1>1. 0 \in S
  <2>1. Upto(0, [i \in 0 .. 0 |-> {data}])
    OBVIOUS
  <2> QED BY <2>1
<1>2. ASSUME NEW n \in Nat, n \in S PROVE n + 1 \in S
  <2>1. PICK g : Upto(n, g)
    BY <1>2
  <2> DEFINE h == [i \in 0 .. n + 1 |-> IF i <= n THEN g[i] ELSE Below1(i, g[n])]
  <2>2. ASSUME NEW i \in 0 .. n + 1
        PROVE  h[i] = IF i = 0 THEN {data} ELSE Below1(i, h[i - 1])
    <3>1. CASE i = 0
      BY <2>1, <3>1
    <3>2. CASE i \in 1 .. n
      <4>1. i - 1 \in 0 .. n + 1 /\ i - 1 <= n /\ i <= n /\ i # 0 /\ i \in 0 .. n
        BY <3>2
      <4> QED BY <2>1, <4>1
    <3>3. CASE i = n + 1
      <4>1. i - 1 = n /\ n \in 0 .. n + 1 /\ ~(i <= n) /\ i # 0
        BY <3>3
      <4> QED BY <4>1
    <3> QED BY <3>1, <3>2, <3>3
  <2>3. Upto(n + 1, h)
    BY <2>2
  <2> HIDE DEF Upto, h
  <2> QED BY <2>3
<1>3. Len(path) \in S
  <2>1. Len(path) \in Nat
    OBVIOUS
  <2> HIDE DEF S
  <2> QED BY <1>1, <1>2, <2>1, Counting
<1>4. Upto(Len(path), w)
  <2>1. PICK g : Upto(Len(path), g)
    BY <1>3
  <2>2. w = CHOOSE f : Upto(Len(path), f)
    BY Zenon DEF Walk, Below1
  <2> HIDE DEF Upto, w
  <2> QED BY <2>1, <2>2
<1> HIDE DEF w
<1>5. \A i \in 0 .. Len(path) : w[i] = IF i = 0 THEN {data} ELSE Below1(i, w[i - 1])
  BY <1>4
<1>6. w[0] = {data} /\ \A i \in 1 .. Len(path) : w[i] = Below1(i, w[i - 1])
  <2>1. Len(path) \in Nat
    OBVIOUS
  <2> QED BY <1>5, <2>1
<1> QED BY Zenon, <1>6 DEF w, Below1

\* The payload that holds a value at a path, one segment around the other.
LEMMA NestedSteps ==
  ASSUME NEW v, NEW path \in Seq(STRING)
  PROVE  /\ Nested(path, v)[0] = v
         /\ \A i \in 1 .. Len(path) :
              Nested(path, v)[i] =
                <<"map", [s \in {path[Len(path) - i + 1]} |-> Nested(path, v)[i - 1]]>>
<1> DEFINE Around(i, below) == <<"map", [s \in {path[Len(path) - i + 1]} |-> below]>>
           Upto(n, f) == f = [i \in 0 .. n |-> IF i = 0 THEN v ELSE Around(i, f[i - 1])]
           S == {n \in Nat : \E f : Upto(n, f)}
           a == Nested(path, v)
<1> HIDE DEF Around
<1>1. 0 \in S
  <2>1. Upto(0, [i \in 0 .. 0 |-> v])
    OBVIOUS
  <2> QED BY <2>1
<1>2. ASSUME NEW n \in Nat, n \in S PROVE n + 1 \in S
  <2>1. PICK g : Upto(n, g)
    BY <1>2
  <2> DEFINE h == [i \in 0 .. n + 1 |-> IF i <= n THEN g[i] ELSE Around(i, g[n])]
  <2>2. ASSUME NEW i \in 0 .. n + 1
        PROVE  h[i] = IF i = 0 THEN v ELSE Around(i, h[i - 1])
    <3>1. CASE i = 0
      BY <2>1, <3>1
    <3>2. CASE i \in 1 .. n
      <4>1. i - 1 \in 0 .. n + 1 /\ i - 1 <= n /\ i <= n /\ i # 0 /\ i \in 0 .. n
        BY <3>2
      <4> QED BY <2>1, <4>1
    <3>3. CASE i = n + 1
      <4>1. i - 1 = n /\ n \in 0 .. n + 1 /\ ~(i <= n) /\ i # 0
        BY <3>3
      <4> QED BY <4>1
    <3> QED BY <3>1, <3>2, <3>3
  <2>3. Upto(n + 1, h)
    BY <2>2
  <2> HIDE DEF Upto, h
  <2> QED BY <2>3
<1>3. Len(path) \in S
  <2>1. Len(path) \in Nat
    OBVIOUS
  <2> HIDE DEF S
  <2> QED BY <1>1, <1>2, <2>1, Counting
<1>4. Upto(Len(path), a)
  <2>1. PICK g : Upto(Len(path), g)
    BY <1>3
  <2>2. a = CHOOSE f : Upto(Len(path), f)
    BY Zenon DEF Nested, Around
  <2> HIDE DEF Upto, a
  <2> QED BY <2>1, <2>2
<1> HIDE DEF a
<1>5. \A i \in 0 .. Len(path) : a[i] = IF i = 0 THEN v ELSE Around(i, a[i - 1])
  BY <1>4
<1>6. a[0] = v /\ \A i \in 1 .. Len(path) : a[i] = Around(i, a[i - 1])
  <2>1. Len(path) \in Nat
    OBVIOUS
  <2> QED BY <1>5, <2>1
<1> QED BY Zenon, <1>6 DEF a, Around

\* A payload that holds nothing but a value at a path gives that value at the path.
LEMMA FieldFound ==
  ASSUME NEW v, NEW path \in Seq(STRING), Fields(path) # <<>>
  PROVE  lookup(Nested(path, v)[Len(path)], path) = {v}
<1> DEFINE n == Len(path)
           around == Nested(path, v)
           at == Walk(around[n], path)
           S == {i \in Nat : i <= n => at[i] = {around[n - i]}}
<1>1. n \in Nat
  OBVIOUS
<1>2. /\ around[0] = v
      /\ \A i \in 1 .. n : around[i] = <<"map", [s \in {path[n - i + 1]} |-> around[i - 1]]>>
  BY NestedSteps
<1>3. /\ at[0] = {around[n]}
      /\ \A i \in 1 .. n : at[i] = UNION {Child(node, path[i]) : node \in at[i - 1]}
  BY WalkSteps
<1>4. lookup(around[n], path) = at[n]
  BY DEF lookup
<1> HIDE DEF n, around, at
<1>5. 0 \in S
  BY <1>1, <1>3
<1>6. ASSUME NEW i \in Nat, i \in S PROVE i + 1 \in S
  <2> SUFFICES ASSUME i + 1 <= n PROVE at[i + 1] = {around[n - (i + 1)]}
    OBVIOUS
  <2>1. i + 1 \in 1 .. n /\ n - i \in 1 .. n /\ n - (n - i) + 1 = i + 1 /\ i <= n
        /\ n - i - 1 = n - (i + 1) /\ (i + 1) - 1 = i
    BY <1>1
  <2>2. at[i] = {around[n - i]}
    BY <1>6, <2>1
  <2>3. at[i + 1] = Child(around[n - i], path[i + 1])
    <3>1. at[i + 1] = UNION {Child(node, path[i + 1]) : node \in at[i]}
      BY <1>3, <2>1
    <3> QED BY <2>2, <3>1
  <2>4. around[n - i] = <<"map", [s \in {path[i + 1]} |-> around[n - (i + 1)]]>>
    BY <1>2, <2>1
  <2>5. Child(around[n - i], path[i + 1]) = {around[n - (i + 1)]}
    BY <2>4 DEF Child
  <2> QED BY <2>3, <2>5
<1>7. n \in S
  <2> HIDE DEF S
  <2> QED BY <1>1, <1>5, <1>6, Counting
<1>8. at[n] = {around[n - n]} /\ n - n = 0
  BY <1>1, <1>7
<1>9. lookup(around[n], path) = {v}
  BY <1>2, <1>4, <1>8
<1> QED BY <1>9 DEF around, n

\* One segment down: what the code finds in a node is what the node holds there, and
\* again lies in a payload.
LEMMA ChildIsEdge ==
  ASSUME NEW node \in Payloads, NEW seg, NEW x
  PROVE  /\ x \in Child(node, seg) <=> <<seg, x>> \in Edges(node)
         /\ x \in Child(node, seg) => x \in Payloads
<1> USE FiltersAssumption
<1>1. CASE node[1] = "map"
  <2>1. \A k \in DOMAIN node[2] : node[2][k] \in Payloads
    BY <1>1 DEF FiltersAssumption
  <2> QED BY <1>1, <2>1 DEF Child, Edges
<1>2. CASE node[1] = "list"
  <2> DEFINE items == node[2]
  <2>1. items \in Seq(Payloads) /\ \A s \in DOMAIN Index : Index[s] \in Nat
    BY <1>2 DEF FiltersAssumption
  <2>2. Child(node, seg) = {items[i] : i \in {Index[s] + 1 : s \in {seg} \cap DOMAIN Index} \cap DOMAIN items}
    BY <1>2 DEF Child
  <2>3. Edges(node) = {<<s, items[Index[s] + 1]>> :
                         s \in {s \in DOMAIN Index : Index[s] < Len(items)}}
    BY <1>2 DEF Edges
  <2> HIDE DEF items
  <2>4. \A s \in DOMAIN Index : Index[s] + 1 \in DOMAIN items <=> Index[s] < Len(items)
    BY <2>1
  <2>5. x \in Child(node, seg) <=>
          seg \in DOMAIN Index /\ Index[seg] + 1 \in DOMAIN items /\ x = items[Index[seg] + 1]
    BY <2>2
  <2>6. <<seg, x>> \in Edges(node) <=>
          seg \in DOMAIN Index /\ Index[seg] < Len(items) /\ x = items[Index[seg] + 1]
    BY <2>3
  <2>7. \A i \in DOMAIN items : items[i] \in Payloads
    BY <2>1
  <2> QED BY <2>4, <2>5, <2>6, <2>7
<1>3. CASE node[1] \notin {"map", "list"}
  <2>1. Child(node, seg) = {} /\ Edges(node) = {}
    BY <1>3 DEF Child, Edges
  <2> QED BY <2>1
<1> QED BY <1>1, <1>2, <1>3

\* lookup finds something exactly if the payload has the path.
LEMMA PathFound ==
  ASSUME NEW data \in Payloads, NEW path \in Seq(STRING), Fields(path) # <<>>
  PROVE  lookup(data, path) # {} <=> HasPath(data, path)
<1> DEFINE n == Len(path)
           at == Walk(data, path)
           Trail(i, t) == /\ t \in [1 .. i -> Payloads]
                          /\ \A j \in 1 .. i :
                               <<path[j], t[j]>> \in Edges(IF j = 1 THEN data ELSE t[j - 1])
           End(i, t) == IF i = 0 THEN data ELSE t[i]
           S == {i \in Nat : i <= n =>
                   \A x \in at[i] : x \in Payloads /\ \E t : Trail(i, t) /\ x = End(i, t)}
<1>1. n \in Nat
  OBVIOUS
<1>2. /\ at[0] = {data}
      /\ \A i \in 1 .. n : at[i] = UNION {Child(node, path[i]) : node \in at[i - 1]}
  BY WalkSteps
<1>3. lookup(data, path) = at[n] /\ (HasPath(data, path) <=> \E t : Trail(n, t))
  BY DEF lookup, HasPath
<1> HIDE DEF n, at
<1>4. 0 \in S
  <2> DEFINE none == [j \in 1 .. 0 |-> data]
  <2>1. Trail(0, none) /\ End(0, none) = data
    OBVIOUS
  <2> HIDE DEF Trail, End, none
  <2> QED BY <1>2, <2>1
<1>5. ASSUME NEW i \in Nat, i \in S PROVE i + 1 \in S
  <2> SUFFICES ASSUME i + 1 <= n, NEW x \in at[i + 1]
               PROVE  x \in Payloads /\ \E t : Trail(i + 1, t) /\ x = End(i + 1, t)
    OBVIOUS
  <2>1. i + 1 \in 1 .. n /\ i <= n /\ (i + 1) - 1 = i
    BY <1>1
  <2>2. PICK node \in at[i] : x \in Child(node, path[i + 1])
    BY <1>2, <2>1
  <2>3. node \in Payloads /\ \E t : Trail(i, t) /\ node = End(i, t)
    BY <1>5, <2>1
  <2>4. PICK t : Trail(i, t) /\ node = End(i, t)
    BY <2>3
  <2>5. x \in Payloads /\ <<path[i + 1], x>> \in Edges(node)
    BY <2>2, <2>3, ChildIsEdge
  <2> DEFINE u == [j \in 1 .. i + 1 |-> IF j <= i THEN t[j] ELSE x]
  <2>6. u \in [1 .. i + 1 -> Payloads]
    BY <2>4, <2>5
  <2>7. ASSUME NEW j \in 1 .. i + 1
        PROVE  <<path[j], u[j]>> \in Edges(IF j = 1 THEN data ELSE u[j - 1])
    <3>1. CASE j \in 1 .. i
      <4>1. u[j] = t[j] /\ (j # 1 => u[j - 1] = t[j - 1])
        BY <3>1
      <4> QED BY <2>4, <3>1, <4>1
    <3>2. CASE j = i + 1
      <4>1. u[j] = x /\ (j # 1 => u[j - 1] = t[i] /\ i # 0) /\ (j = 1 => i = 0)
        BY <3>2
      <4> QED BY <2>4, <2>5, <3>2, <4>1
    <3> QED BY <3>1, <3>2
  <2>8. End(i + 1, u) = x
    OBVIOUS
  <2>9. Trail(i + 1, u)
    BY <2>6, <2>7
  <2> HIDE DEF u, Trail, End
  <2> QED BY <2>5, <2>8, <2>9
<1>6. ASSUME NEW x \in at[n] PROVE HasPath(data, path)
  <2>1. n \in S
    <3> HIDE DEF S
    <3> QED BY <1>1, <1>4, <1>5, Counting
  <2>2. \E t : Trail(n, t)
    <3> HIDE DEF Trail, End
    <3> QED BY <1>1, <1>6, <2>1
  <2> QED BY <1>3, <2>2
<1>7. ASSUME HasPath(data, path) PROVE at[n] # {}
  <2> HIDE DEF Trail
  <2>1. PICK t : Trail(n, t)
    BY <1>3, <1>7
  <2> USE DEF Trail
  <2> DEFINE R == {i \in Nat : i <= n => End(i, t) \in at[i] /\ End(i, t) \in Payloads}
  <2>2. 0 \in R
    BY <1>2
  <2>3. ASSUME NEW i \in Nat, i \in R PROVE i + 1 \in R
    <3> SUFFICES ASSUME i + 1 <= n
                 PROVE  End(i + 1, t) \in at[i + 1] /\ End(i + 1, t) \in Payloads
      OBVIOUS
    <3>1. i + 1 \in 1 .. n /\ i <= n /\ (i + 1) - 1 = i /\ i + 1 # 0
      BY <1>1
    <3>2. <<path[i + 1], t[i + 1]>> \in Edges(End(i, t)) /\ End(i + 1, t) = t[i + 1]
      <4>1. CASE i = 0
        BY <2>1, <3>1, <4>1
      <4>2. CASE i # 0
        BY <2>1, <3>1, <4>2
      <4> QED BY <4>1, <4>2
    <3>3. End(i, t) \in at[i] /\ End(i, t) \in Payloads
      BY <2>3, <3>1
    <3> HIDE DEF End
    <3>4. t[i + 1] \in Child(End(i, t), path[i + 1]) /\ t[i + 1] \in Payloads
      BY <3>2, <3>3, ChildIsEdge
    <3>5. at[i + 1] = UNION {Child(node, path[i + 1]) : node \in at[i]}
      BY <1>2, <3>1
    <3> QED BY <3>2, <3>3, <3>4, <3>5
  <2>4. n \in R
    <3> HIDE DEF R
    <3> QED BY <1>1, <2>2, <2>3, Counting
  <2> QED BY <1>1, <2>4
<1> QED BY <1>3, <1>6, <1>7

-----------------------------------------------------------------------------
(* Conditions: what is stored has passed validateRule, wherever it came    *)
(* from, and every line in the form has a path and reads as a text.  Only  *)
(* a path that an import brought may be anything but one word.             *)

\* A condition that may be stored, and a line that may be in the form.
IsCondition(f) ==
  /\ f = [path |-> f.path, op |-> f.op, value |-> f.value]
  /\ f.path \in Paths /\ f.value \in Values
Sound(f) ==
  /\ IsCondition(f) /\ validateRule(<<f>>)
  /\ f \in Imported \/ Fields(f.path) = <<f.path>>
Readable(l) ==
  /\ l.path \in Paths /\ l.value \in Texts /\ Fields(l.path) # <<>>
  /\ Len(Fields(l.path)) > 1 => Behind(l.path, l.op, l.value) \in Texts

SoundRule(fs) == fs = <<>> \/ \E f : Sound(f) /\ fs = <<f>>
ReadableText(text) == text = <<>> \/ \E l : Readable(l) /\ text = <<l>>
FiltersInv ==
  /\ \A fs \in rule : SoundRule(fs)
  /\ \A text \in form : ReadableText(text)

\* What validateRule demands of a single condition.
LEMMA Validated ==
  ASSUME NEW f
  PROVE  validateRule(<<f>>) <=>
           Fields(f.path) # <<>> /\ f.op \in validFilterOps /\ (NeedsValue(f.op) => f.value # Nil)
BY DEF validateRule

\* A text of the form reads as a value.
LEMMA TextReads == \A t \in Texts : ParseFilterValue(t) \in Values
<1> SUFFICES ASSUME NEW t \in Texts PROVE ParseFilterValue(t) \in Values
  OBVIOUS
<1>1. IF IsJson(t) THEN Unmarshal(t) \in Values ELSE Str(t) \in Values
  BY FiltersAssumption DEF FiltersAssumption
<1>2. ~IsJson(Blank)
  BY FiltersAssumption DEF FiltersAssumption, Blank
<1> QED BY <1>1, <1>2 DEF ParseFilterValue

\* The words of a path are paths of one word.
LEMMA WordsArePaths ==
  ASSUME NEW p \in Paths
  PROVE  /\ Len(Fields(p)) \in Nat /\ (Fields(p) # <<>> => Len(Fields(p)) > 0)
         /\ \A i \in 1 .. Len(Fields(p)) : Fields(p)[i] \in Paths /\ Fields(Fields(p)[i]) = <<Fields(p)[i]>>
<1> DEFINE W == {w \in Paths : Fields(w) = <<w>>}
           words == Fields(p)
<1>1. words \in Seq(W)
  BY FiltersAssumption DEF FiltersAssumption
<1> HIDE DEF words
<1>2. \A i \in 1 .. Len(words) : words[i] \in W
  BY <1>1
<1>3. Len(words) \in Nat /\ (words # <<>> => Len(words) > 0)
  <2> HIDE DEF W
  <2> QED BY <1>1
<1> QED BY <1>2, <1>3 DEF words

\* Whatever the lines of a form are read as may be stored.
LEMMA AcceptedSound ==
  ASSUME NEW text, ReadableText(text), NEW fs \in Accepted(text)
  PROVE  SoundRule(fs)
<1>1. fs \in ParseFilters(text) /\ validateRule(fs)
  BY DEF Accepted
<1>2. CASE text = <<>>
  BY <1>1, <1>2 DEF ParseFilters, SoundRule
<1>3. CASE text # <<>>
  <2>1. PICK l : Readable(l) /\ text = <<l>>
    BY <1>3 DEF ReadableText
  <2>2. fs \in ParseLine(l)
    BY <1>1, <1>3, <2>1 DEF ParseFilters
  <2>3. CASE Hash(Fields(l.path)[1])
    BY <2>2, <2>3 DEF ParseLine, SoundRule
  <2>4. CASE ~Hash(Fields(l.path)[1])
    <3> DEFINE x == Split(l)
               value == IF x.value = Blank THEN Nil ELSE ParseFilterValue(x.value)
               f == [path |-> x.path, op |-> x.op, value |-> value]
               words == Fields(l.path)
    <3> HIDE DEF x
    <3>1. x.op \in validFilterOps /\ fs = <<f>>
      BY <2>2, <2>4 DEF ParseLine, x
    <3>2. l.path \in Paths /\ l.value \in Texts /\ words # <<>>
      BY <2>1 DEF Readable
    <3>3. 1 \in 1 .. Len(words) /\ (Len(words) # 1 => Len(words) > 1)
      <4>1. Len(words) \in Nat /\ Len(words) > 0
        BY <3>2, WordsArePaths
      <4> HIDE DEF words
      <4> QED BY <4>1
    <3>4. x.path = words[1]
      BY DEF x, Split
    <3>5. words[1] \in Paths /\ Fields(words[1]) = <<words[1]>>
      BY <3>2, <3>3, WordsArePaths
    <3>6. x.value \in Texts
      <4>1. Joined(l.value) \in Texts
        BY <3>2, FiltersAssumption DEF FiltersAssumption
      <4>2. x.value = IF Len(words) = 1 THEN Joined(l.value) ELSE Behind(l.path, l.op, l.value)
        BY DEF x, Split
      <4> QED BY <2>1, <3>3, <4>1, <4>2 DEF Readable
    <3>7. value \in Values
      BY <3>6, TextReads, FiltersAssumption DEF FiltersAssumption
    <3>8. f.path = x.path /\ f.op = x.op /\ f.value = value
      OBVIOUS
    <3>9. IsCondition(f) /\ Fields(f.path) = <<f.path>>
      BY <3>4, <3>5, <3>7, <3>8 DEF IsCondition
    <3> HIDE DEF f
    <3> QED BY <1>1, <3>1, <3>9 DEF Sound, SoundRule
  <2> QED BY <2>3, <2>4
<1> QED BY <1>2, <1>3

\* What the form shows of a stored condition can be read.
LEMMA ShownIsReadable ==
  ASSUME NEW fs, SoundRule(fs)
  PROVE  ReadableText(FiltersToText(fs))
<1>1. CASE fs = <<>>
  BY <1>1 DEF FiltersToText, ReadableText
<1>2. CASE fs # <<>>
  <2>1. PICK f : Sound(f) /\ fs = <<f>>
    BY <1>2 DEF SoundRule
  <2> DEFINE shown == IF f.value = Nil THEN Blank ELSE filterValueText(f.value)
             l == [path |-> f.path, op |-> f.op, value |-> shown]
  <2>2. FiltersToText(fs) = <<l>>
    BY <2>1 DEF FiltersToText
  <2>3. f.path \in Paths /\ f.value \in Values
    BY <2>1 DEF Sound, IsCondition
  <2>4. shown \in {Blank, Marshal(f.value)} \/ (shown \in Texts /\ f.value = Str(shown))
    BY <2>3, FiltersAssumption DEF FiltersAssumption, filterValueText
  <2>5. shown \in Texts
    BY <2>3, FiltersAssumption DEF FiltersAssumption, filterValueText
  <2>6. Fields(f.path) # <<>>
    BY <2>1, Validated DEF Sound
  <2>7. ASSUME Len(Fields(f.path)) > 1 PROVE Behind(f.path, f.op, shown) \in Texts
    <3>1. f \in Imported
      <4>1. ~(Len(<<f.path>>) > 1)
        OBVIOUS
      <4> HIDE DEF shown
      <4> QED BY <2>1, <2>7, <4>1 DEF Sound
    <3>2. f \in {g \in Imported : Len(Fields(g.path)) > 1}
      BY <2>7, <3>1
    <3>3. shown \in {Blank, Marshal(f.value)} \cup {u \in Texts : f.value = Str(u)}
      BY <2>4
    <3> HIDE DEF shown
    <3> QED BY <3>2, <3>3, FiltersAssumption DEF FiltersAssumption
  <2> HIDE DEF shown
  <2>8. Readable(l)
    BY <2>3, <2>5, <2>6, <2>7 DEF Readable
  <2> HIDE DEF l
  <2> QED BY <2>2, <2>8 DEF ReadableText
<1> QED BY <1>1, <1>2

\* So it stays, whatever is saved, imported or opened.
LEMMA FiltersTyped == Spec => []FiltersInv
<1>1. Init => FiltersInv
  BY DEF Init, FiltersInv
<1>2. FiltersInv /\ [Next]_vars => FiltersInv'
  <2> SUFFICES ASSUME FiltersInv, [Next]_vars PROVE FiltersInv'
    OBVIOUS
  <2>1. CASE New
    <3>1. PICK l \in Lines : form' = {<<l>>}
      BY <2>1 DEF New
    <3>2. Readable(l)
      <4>1. l.path \in Paths /\ l.value \in Texts
        BY FiltersAssumption DEF FiltersAssumption, Line
      <4>2. Fields(l.path) = <<l.path>>
        BY FiltersAssumption DEF FiltersAssumption
      <4>3. ~(Len(<<l.path>>) > 1)
        OBVIOUS
      <4> QED BY <4>1, <4>2, <4>3 DEF Readable
    <3>3. ReadableText(<<l>>)
      BY <3>2 DEF ReadableText
    <3> QED BY <2>1, <3>1, <3>3 DEF New, FiltersInv
  <2>2. CASE Edit
    <3>1. PICK fs \in rule : form' = {FiltersToText(fs)}
      BY <2>2 DEF Edit
    <3>2. ReadableText(FiltersToText(fs))
      BY ShownIsReadable DEF FiltersInv
    <3> QED BY <2>2, <3>1, <3>2 DEF Edit, FiltersInv
  <2>3. CASE Save
    <3>1. PICK text \in form : rule' = Accepted(text)
      BY <2>3 DEF Save
    <3>2. \A fs \in rule' : SoundRule(fs)
      BY <3>1, AcceptedSound DEF FiltersInv
    <3> QED BY <2>3, <3>2 DEF Save, FiltersInv
  <2>4. CASE Import
    <3>1. PICK f \in Imported : validateRule(<<f>>) /\ rule' = {<<f>>}
      BY <2>4 DEF Import
    <3>2. Sound(f)
      BY <3>1, FiltersAssumption DEF FiltersAssumption, Sound, IsCondition, Condition
    <3>3. SoundRule(<<f>>)
      BY <3>2 DEF SoundRule
    <3> QED BY <2>4, <3>1, <3>3 DEF Import, FiltersInv
  <2>5. CASE UNCHANGED vars
    BY <2>5 DEF vars, FiltersInv
  <2> QED BY <2>1, <2>2, <2>3, <2>4, <2>5 DEF Next
<1> QED BY <1>1, <1>2, PTL DEF Spec

\* What is known of a stored condition.
LEMMA StoredSound ==
  ASSUME FiltersInv, NEW f \in Stored
  PROVE  /\ f.path \in Seq(STRING) /\ f.value \in Values
         /\ Fields(f.path) # <<>> /\ f.path # <<>> /\ IsCondition(f)
<1>1. PICK fs \in rule : f \in {fs[i] : i \in DOMAIN fs}
  BY DEF Stored
<1>2. SoundRule(fs)
  BY DEF FiltersInv
<1>3. Sound(f)
  BY <1>1, <1>2 DEF SoundRule
<1> QED BY <1>3, Validated, FiltersAssumption DEF Sound, IsCondition, FiltersAssumption

\* A single condition is what a rule with no other decides.
LEMMA Alone ==
  ASSUME NEW f, NEW data
  PROVE  Match(<<f>>, data) <=> matchOne(f, data)
BY DEF Match

\* A condition with another operator has the same path and the same value.
LEMMA WithIs ==
  ASSUME NEW f, IsCondition(f), NEW op
  PROVE  /\ With(f, op).path = f.path
         /\ With(f, op).op = op
         /\ With(f, op).value = f.value
BY DEF With, IsCondition

\* In a payload that holds a value at its path a condition decides by this value.
LEMMA DecidesField ==
  ASSUME NEW f, NEW path \in Seq(STRING), Fields(path) # <<>>, f.path = path, NEW v
  PROVE  matchOne(f, Nested(path, v)[Len(path)]) <=>
           \/ f.op = "exists"
           \/ f.op \notin {"exists", "not_exists"} /\ Decides(f.op, v, f.value)
<1>1. lookup(Nested(path, v)[Len(path)], f.path) = {v}
  BY FieldFound
<1> QED BY <1>1 DEF matchOne

\* What the code decides is consistent: equal payloads are decided alike, numbers are
\* ordered, and a path is found exactly if the payload has it, for every condition that
\* the form or an import stores (match.go, Match and lookup).
THEOREM MatchConsistentSafe == Spec => []MatchConsistent
<1>1. FiltersInv => MatchConsistent
  <2> SUFFICES ASSUME FiltersInv, NEW filter \in Stored
               PROVE  /\ ComparedAlike(filter.value) /\ OneOrder(filter.value) /\ AtPath(filter)
                      /\ \A data \in Payloads :
                           /\ Match(<<With(filter, "exists")>>, data) <=> HasPath(data, filter.path)
                           /\ Match(<<With(filter, "not_exists")>>, data) <=> ~HasPath(data, filter.path)
    BY DEF MatchConsistent, PathsFound
  <2>1. /\ filter.path \in Seq(STRING) /\ filter.value \in Values /\ IsCondition(filter)
        /\ Fields(filter.path) # <<>> /\ filter.path # <<>>
    BY StoredSound
  <2>2. ComparedAlike(filter.value) /\ OneOrder(filter.value)
    BY <2>1, ComparedAlikeSafe, OneOrderSafe
  <2>3. AtPath(filter)
    <3> SUFFICES ASSUME NEW op \in Comparing \ {""}, NEW v \in Values
                 PROVE  Match(<<With(filter, op)>>, FieldIs(filter, v)) <=>
                          Compares(op, v, filter.value)
      BY DEF AtPath
    <3> DEFINE f == With(filter, op)
    <3>1. f.path = filter.path /\ f.op = op /\ f.value = filter.value
      BY <2>1, WithIs
    <3>2. Match(<<f>>, FieldIs(filter, v)) <=> matchOne(f, FieldIs(filter, v))
      BY Alone
    <3>3. op \in Comparing /\ op \notin {"exists", "not_exists"}
      BY DEF Comparing
    <3> HIDE DEF f
    <3>4. matchOne(f, FieldIs(filter, v)) <=> Decides(op, v, filter.value)
      BY <2>1, <3>1, <3>3, DecidesField DEF FieldIs
    <3>5. Decides(op, v, filter.value) <=> Compares(op, v, filter.value)
      BY DEF Decides, Comparing
    <3> QED BY <3>2, <3>4, <3>5 DEF f
  <2>4. ASSUME NEW data \in Payloads
        PROVE  /\ Match(<<With(filter, "exists")>>, data) <=> HasPath(data, filter.path)
               /\ Match(<<With(filter, "not_exists")>>, data) <=> ~HasPath(data, filter.path)
    <3>1. lookup(data, filter.path) # {} <=> HasPath(data, filter.path)
      BY <2>1, PathFound
    <3>2. matchOne(With(filter, "exists"), data) <=> lookup(data, filter.path) # {}
      BY <2>1, WithIs DEF matchOne
    <3>3. matchOne(With(filter, "not_exists"), data) <=> lookup(data, filter.path) = {}
      BY <2>1, WithIs DEF matchOne
    <3> QED BY <3>1, <3>2, <3>3, Alone
  <2> QED BY <2>2, <2>3, <2>4
<1> QED BY <1>1, FiltersTyped, PTL

-----------------------------------------------------------------------------
(* Saving what the form shows: either the same value comes back, or a text *)
(* that reads as a number or as true or false comes back as one.           *)

\* Two values a condition may hold without deciding differently.
Alike(x, y) ==
  /\ HasFloat(x) <=> HasFloat(y)
  /\ HasFloat(x) => toFloat(x) = toFloat(y)
  /\ Sprint(x) = Sprint(y)
  /\ x[1] # "list" /\ y[1] # "list"

\* Whatever is asked of a field, conditions with like values decide alike.
LEMMA AlikeDecide ==
  ASSUME NEW x, NEW y, Alike(x, y), NEW op, NEW got
  PROVE  Decides(op, got, x) <=> Decides(op, got, y)
<1>1. \A v : equal(v, x) <=> equal(v, y)
  BY DEF Alike, equal
<1>2. contains(got, x) <=> contains(got, y)
  BY <1>1 DEF contains, Alike
<1>3. RegexMatches(Sprint(x), Sprint(got)) <=> RegexMatches(Sprint(y), Sprint(got))
  BY DEF Alike
<1>4. Compares("gt", got, x) <=> Compares("gt", got, y)
  BY DEF Alike, Compares
<1>5. Compares("lt", got, x) <=> Compares("lt", got, y)
  BY DEF Alike, Compares
<1>6. ~Compares("in", got, x) /\ ~Compares("in", got, y)
  BY DEF Alike, Compares
<1>7. op \in {"", "eq", "ne"} => (Compares(op, got, x) <=> Compares(op, got, y))
  BY <1>1 DEF Compares
<1>8. op \in Comparing => (Compares(op, got, x) <=> Compares(op, got, y))
  BY <1>4, <1>5, <1>6, <1>7 DEF Comparing
<1> QED BY <1>2, <1>3, <1>8 DEF Decides

\* A string that comes back from the form comes back as itself or as the number or the
\* truth value it reads as.
LEMMA StringKept ==
  ASSUME NEW t \in Texts, Str(t) \in Values, ~Rewritten(t)
  PROVE  /\ Joined(t) = t /\ t # Blank
         /\ ParseFilterValue(t) # Nil
         /\ ParseFilterValue(t) = Str(t) \/ Alike(ParseFilterValue(t), Str(t))
<1> DEFINE v == Unmarshal(t)
<1>1. /\ Joined(t) = t /\ t # Blank
      /\ t[1] \notin {"quoted", "array", "object", "null"}
      /\ t[1] = "num" /\ IsJson(t) => Sprint(v) = t
  BY DEF Rewritten
<1>2. Sprint(Str(t)) = t
  BY FiltersAssumption DEF FiltersAssumption, Str
<1>3. CASE ~IsJson(t)
  <2>1. ParseFilterValue(t) = Str(t)
    BY <1>1, <1>3 DEF ParseFilterValue
  <2> QED BY <1>1, <2>1 DEF Str, Nil
<1>4. CASE IsJson(t)
  <2>1. ParseFilterValue(t) = v
    BY <1>1, <1>4 DEF ParseFilterValue
  <2>2. v \in Values /\ t[1] \in {"bool", "num"}
    BY <1>1, <1>4, FiltersAssumption DEF FiltersAssumption
  <2>3. CASE t[1] = "bool"
    <3>1. v = t
      BY <1>4, <2>3, FiltersAssumption DEF FiltersAssumption
    <3>2. Sprint(v) = t
      BY <2>2, <2>3, <3>1, FiltersAssumption DEF FiltersAssumption
    <3> HIDE DEF v
    <3>3. Alike(v, Str(t))
      BY <1>2, <2>3, <3>1, <3>2 DEF Alike, HasFloat, IsNumberText, Str
    <3> QED BY <1>1, <2>1, <2>3, <3>1, <3>3 DEF Nil
  <2>4. CASE t[1] = "num"
    <3>1. v = <<"num", t[2]>> /\ t[3] # "nan" /\ Sprint(v) = t
      BY <1>1, <1>4, <2>4, FiltersAssumption DEF FiltersAssumption
    <3> HIDE DEF v
    <3>2. Alike(v, Str(t))
      BY <1>2, <2>4, <3>1 DEF Alike, HasFloat, toFloat, IsNumberText, Str
    <3> QED BY <1>1, <2>1, <3>1, <3>2 DEF Nil
  <2> QED BY <2>2, <2>3, <2>4
<1> QED BY <1>3, <1>4

\* The value that saving a condition again gives it.
Again(v) == IF v = Nil THEN Nil ELSE ParseFilterValue(Joined(filterValueText(v)))

\* Such a value comes back as itself or as one like it, and is never refused.
LEMMA ValueKept ==
  ASSUME NEW v \in Values, Kept(v)
  PROVE  /\ v # Nil => Joined(filterValueText(v)) # Blank /\ Again(v) # Nil
         /\ Again(v) = v \/ Alike(Again(v), v)
<1>1. CASE v = Nil
  BY <1>1 DEF Again
<1>2. CASE v # Nil /\ v[1] = "str"
  <2>1. v = Str(v[2]) /\ v[2] \in Texts
    BY <1>2, FiltersAssumption DEF FiltersAssumption
  <2>2. ~Rewritten(v[2]) /\ filterValueText(v) = v[2]
    BY <1>2 DEF Kept, filterValueText
  <2> QED BY <1>2, <2>1, <2>2, StringKept DEF Again
<1>3. CASE v # Nil /\ v[1] # "str"
  <2>1. filterValueText(v) = Marshal(v) /\ Joined(Marshal(v)) = Marshal(v)
    BY <1>3 DEF Kept, filterValueText
  <2>2. Marshal(v) # Blank /\ IsJson(Marshal(v)) /\ Unmarshal(Marshal(v)) = v
    BY FiltersAssumption DEF FiltersAssumption
  <2> QED BY <1>3, <2>1, <2>2 DEF Again, ParseFilterValue
<1> QED BY <1>1, <1>2, <1>3

\* A condition that the form can show comes back with its path and its operator.
LEMMA ShownParsed ==
  ASSUME NEW f, Sound(f), Showable(f)
  PROVE  ParseFilters(FiltersToText(<<f>>)) =
           {<<[path |-> f.path, op |-> f.op, value |-> Again(f.value)]>>}
<1> DEFINE l == [path |-> f.path, op |-> f.op,
                 value |-> IF f.value = Nil THEN Blank ELSE filterValueText(f.value)]
           x == [path |-> f.path, op |-> f.op, value |-> Joined(l.value)]
<1>1. f.value \in Values /\ f.op \in validFilterOps /\ (NeedsValue(f.op) => f.value # Nil)
  BY Validated DEF Sound, IsCondition
<1>2. Fields(f.path) = <<f.path>> /\ ~Hash(f.path) /\ Kept(f.value)
  BY DEF Showable
<1>3. /\ f.value # Nil => Joined(l.value) # Blank
      /\ f.value = Nil => Joined(l.value) = Blank
  BY <1>1, <1>2, ValueKept, FiltersAssumption DEF FiltersAssumption
<1>4. Split(l) = x
  BY <1>2 DEF Split
<1>5. FiltersToText(<<f>>) = <<l>>
  BY DEF FiltersToText
<1>6. Again(f.value) = IF x.value = Blank THEN Nil ELSE ParseFilterValue(x.value)
  BY <1>3 DEF Again
<1>7. x.op \in validFilterOps /\ (NeedsValue(x.op) => x.value # Blank)
  BY <1>1, <1>3
<1>8. x.path = f.path /\ x.op = f.op /\ Fields(l.path)[1] = f.path
  BY <1>2
<1> HIDE DEF l, x
<1>9. ParseLine(l) = {<<[path |-> x.path, op |-> x.op,
                         value |-> IF x.value = Blank THEN Nil ELSE ParseFilterValue(x.value)]>>}
  BY <1>2, <1>4, <1>7, <1>8 DEF ParseLine
<1> QED BY <1>5, <1>6, <1>8, <1>9 DEF ParseFilters

\* Opening the form of a stored condition and saving it unchanged leaves what it
\* decides (rules.go, FiltersToText and ParseFilters), unless its path or its value is
\* one that the form cannot show as itself.
THEOREM DecisionKeptSafe == Spec => []DecisionKept
<1>1. FiltersInv => DecisionKept
  <2> SUFFICES ASSUME FiltersInv, NEW fs \in rule, \A i \in DOMAIN fs : Showable(fs[i])
               PROVE  /\ Accepted(FiltersToText(fs)) # {}
                      /\ \A again \in Accepted(FiltersToText(fs)) : \A data :
                           Match(again, data) <=> Match(fs, data)
    BY DEF DecisionKept
  <2>1. CASE fs = <<>>
    <3>1. FiltersToText(fs) = <<>>
      BY <2>1 DEF FiltersToText
    <3>2. Accepted(FiltersToText(fs)) = {<<>>}
      BY <3>1 DEF Accepted, ParseFilters, validateRule
    <3> QED BY <2>1, <3>2
  <2>2. CASE fs # <<>>
    <3>1. PICK f : Sound(f) /\ fs = <<f>>
      BY <2>2 DEF FiltersInv, SoundRule
    <3> DEFINE new == [path |-> f.path, op |-> f.op, value |-> Again(f.value)]
    <3>2. Showable(f)
      BY <3>1
    <3>3. ParseFilters(FiltersToText(fs)) = {<<new>>}
      BY <3>1, <3>2, ShownParsed
    <3>4. /\ f.value # Nil => Again(f.value) # Nil
          /\ Again(f.value) = f.value \/ Alike(Again(f.value), f.value)
      BY <3>1, <3>2, ValueKept DEF Sound, IsCondition, Showable
    <3>5. new.path = f.path /\ new.op = f.op /\ new.value = Again(f.value)
      OBVIOUS
    <3> HIDE DEF new
    <3>6. validateRule(<<new>>)
      BY <3>1, <3>4, <3>5, Validated DEF Sound
    <3>7. Accepted(FiltersToText(fs)) = {<<new>>}
      BY <3>3, <3>6 DEF Accepted
    <3>8. ASSUME NEW data PROVE Match(<<new>>, data) <=> Match(fs, data)
      <4>1. \A got : Decides(f.op, got, Again(f.value)) <=> Decides(f.op, got, f.value)
        BY <3>4, AlikeDecide
      <4>2. matchOne(new, data) <=> matchOne(f, data)
        BY <3>5, <4>1 DEF matchOne
      <4> QED BY <3>1, <4>2, Alone
    <3> QED BY <3>7, <3>8
  <2> QED BY <2>1, <2>2
<1> QED BY <1>1, FiltersTyped, PTL

=============================================================================
