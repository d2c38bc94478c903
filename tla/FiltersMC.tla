------------------------------ MODULE FiltersMC ------------------------------
(***************************************************************************)
(* Small instances of Filters for TLC: every operator with every way a     *)
(* value can be written, and the values they are compared with.            *)
(***************************************************************************)
EXTENDS Filters, Encoding, TLC

CONSTANTS push, tag

Numerals == ("0" :> 0) @@ ("1" :> 1)

Word(w) == <<"word", w, 0>>
Plain == {Word(push), <<"word", push, 1>>, <<"word", push, 2>>, <<"bool", TRUE>>, <<"null">>,
          <<"num", 3, "plain">>, <<"num", 3, "decimal">>, <<"num", 0, "nan">>,
          <<"num", ExponentFrom, "plain">>, <<"num", ExponentFrom, "exp">>}
Quotes == {<<"quoted", t>> : t \in Plain \cup {Blank, <<"quoted", Word(push)>>}}
Arrays == {<<"array", <<Word(push), Word(tag)>>>>,
           <<"array", <<<<"quoted", Word(push)>>, <<"quoted", Word(tag)>>>>>>,
           <<"array", <<<<"num", 3, "decimal">>, <<"quoted", <<"num", 3, "plain">>>>>>>>}
Written == {Blank} \cup Plain \cup Quotes \cup Arrays

Scalars == {Nil, <<"bool", TRUE>>, <<"bool", FALSE>>, <<"num", 2>>, <<"num", 3>>, <<"num", ExponentFrom>>}
Strings == {Str(t) : t \in Plain \cup Arrays \cup {Blank, Word(tag), <<"quoted", Word(push)>>}}
Lists == {<<"list", <<>>>>, <<"list", <<<<"num", 3>>>>>>,
          <<"list", <<Str(Word(push)), Str(Word(tag))>>>>,
          <<"list", <<Str(<<"word", push, 2>>), <<"num", 2>>>>>>}
Map(key, value) == <<"map", key :> value>>
Given == Scalars \cup Strings \cup Lists \cup {Map("a", <<"num", 3>>)}

AllLines == [path : {<<"a">>}, op : validFilterOps \cup {"is"}, value : Written]
              \cup [path : {<<"a", "1">>, <<"b", "0", "c">>}, op : {"exists", "eq"},
                    value : {Blank, Word(push)}]
              \cup [path : {<<"#a">>}, op : {"eq"}, value : {Word(push)}]

\* Paths only an import brings: blanks before a word and between two, one that reads as a
\* path and an operator and perhaps a value, a comment, and nothing at all.
Spaced == (<<" a">> :> <<<<"a">>>>) @@ (<<"user name">> :> <<<<"user">>, <<"name">>>>)
          @@ (<<"a eq">> :> <<<<"a">>, <<"eq">>>>) @@ (<<"a eq b">> :> <<<<"a">>, <<"eq">>, <<"b">>>>)
          @@ (<<" ">> :> <<>>) @@ (<<>> :> <<>>)
FieldsOf(path) == IF path \in DOMAIN Spaced THEN Spaced[path] ELSE <<path>>
IsHash(word) == word = <<"#a">>
Odd == DOMAIN Spaced \cup {<<"#a">>}
AllPaths == Odd \cup {<<"a">>, <<"a", "1">>, <<"b", "0", "c">>, <<"user">>, <<"name">>, <<"eq">>, <<"b">>}

AllImported == [path : {<<"a">>}, op : validFilterOps \cup {"is"}, value : Given]
               \cup [path : Odd, op : {"eq", "exists", "in"}, value : {Nil, Str(Word(push)), <<"num", 3>>}]
\* What a line reads as behind such a path.
Tails == UNION {{Behind(f.path, f.op, t) : t \in {Blank, Word(push), Marshalled(f.value)}} :
                  f \in {f \in AllImported : Len(FieldsOf(f.path)) > 1}}

\* What is written, read, shown and read again.
Joins(texts) == texts \cup {Respaced(t) : t \in texts}
Shown(values) == {IF v[1] = "str" THEN v[2] ELSE Marshalled(v) : v \in values}
Read == Given \cup {ParseFilterValue(t) : t \in Joins(Written)}
AllTexts == Joins(Written \cup Shown(Read) \cup Tails)
AllValues == Read \cup {ParseFilterValue(t) : t \in AllTexts}

Trees == {Nil, Map("a", <<"num", 3>>), Map("b", <<"list", <<Map("c", Nil)>>>>),
          Map("a", <<"list", <<>>>>), Map("a", <<"list", <<<<"num", 2>>>>>>),
          Map("a", <<"list", <<<<"num", 2>>, <<"num", 3>>>>>>), Map("a", Map("1", <<"num", 2>>))}
\* They and what lies one and two levels below them.
Below1(nodes) == nodes \cup {e[2] : e \in UNION {Edges(node) : node \in nodes}}
AllPayloads == Below1(Below1(Trees))
=============================================================================
