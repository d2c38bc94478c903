------------------------------ MODULE Encoding ------------------------------
(***************************************************************************)
(* What Go's standard library makes of the texts and values of Filters:    *)
(* the constants of that module, defined for TLC.                          *)
(***************************************************************************)
EXTENDS Integers, Sequences

Each(Op(_), f) == [i \in DOMAIN f |-> Op(f[i])]

\* The number fmt.Sprint writes with an exponent first; JSON does so much later.
ExponentFrom == 1000000

\* fmt.Sprint: a string as it is, the items of a slice between blanks.
RECURSIVE Printed(_)
Printed(v) ==
  CASE v[1] = "null" -> <<"nil">>
    [] v[1] = "bool" -> v
    [] v[1] = "num"  -> <<"num", v[2], IF v[2] < ExponentFrom THEN "plain" ELSE "exp">>
    [] v[1] = "str"  -> v[2]
    [] v[1] = "list" -> <<IF Len(v[2]) > 1 THEN "goarray" ELSE "array", Each(Printed, v[2])>>
    [] v[1] = "map"  -> <<"gomap", Each(Printed, v[2])>>

\* json.Marshal
RECURSIVE Marshalled(_)
Marshalled(v) ==
  CASE v[1] \in {"null", "bool"} -> v
    [] v[1] = "num"  -> <<"num", v[2], "plain">>
    [] v[1] = "str"  -> <<"quoted", v[2]>>
    [] v[1] = "list" -> <<"array", Each(Marshalled, v[2])>>
    [] v[1] = "map"  -> <<"object", Each(Marshalled, v[2])>>

\* json.Unmarshal: what it accepts, and what it makes of it.
RECURSIVE ReadsAsJson(_)
ReadsAsJson(t) ==
  \/ t[1] \in {"bool", "null", "quoted"}
  \/ t[1] = "num" /\ t[3] # "nan"
  \/ t[1] \in {"array", "object"} /\ \A i \in DOMAIN t[2] : ReadsAsJson(t[2][i])

RECURSIVE Unmarshalled(_)
Unmarshalled(t) ==
  CASE t[1] \in {"bool", "null"} -> t
    [] t[1] = "num"    -> <<"num", t[2]>>
    [] t[1] = "quoted" -> <<"str", t[2]>>
    [] t[1] = "array"  -> <<"list", Each(Unmarshalled, t[2])>>
    [] t[1] = "object" -> <<"map", Each(Unmarshalled, t[2])>>

\* strings.Join of strings.Fields: runs of blanks become one, inside quotes too.
RECURSIVE Respaced(_)
Respaced(t) ==
  CASE t[1] = "word"               -> <<"word", t[2], IF t[3] > 1 THEN 1 ELSE t[3]>>
    [] t[1] = "quoted"             -> <<"quoted", Respaced(t[2])>>
    [] t[1] \in {"array", "object"} -> <<t[1], Each(Respaced, t[2])>>
    [] t[1] = "words"              -> <<"words", t[2], Respaced(t[3])>>
    [] OTHER                       -> t
Words(ws, t) == <<"words", ws, t>>

\* strings.Contains, and a pattern of plain words matched against a text.
RECURSIVE Inside(_, _)
Inside(t, u) ==
  \/ t = u
  \/ t = <<"blank">>
  \/ u[1] = "word" /\ t = <<"word", u[2], 0>>
  \/ u[1] = "num" /\ u[3] = "decimal" /\ t = <<"num", u[2], "plain">>
  \/ u[1] = "quoted" /\ Inside(t, u[2])
  \/ u[1] \in {"array", "object", "goarray", "gomap"} /\ \E i \in DOMAIN u[2] : Inside(t, u[2][i])
  \/ u[1] = "words" /\ (Inside(t, u[3]) \/ \E i \in DOMAIN u[2] : t = <<"word", u[2][i][1], 0>>)
=============================================================================
