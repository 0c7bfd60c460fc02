--------------------------- MODULE MCCanonical ---------------------------
(* TLC instance of Canonical: texts around every escape and every shape. *)
EXTENDS Canonical

Str(s) == [kind |-> "str", runes |-> s]
Num(s) == [kind |-> "num", lit |-> s]
Arr(s) == [kind |-> "arr", items |-> s]
Obj(s) == [kind |-> "obj", pairs |-> s]
Pair(k, v) == [key |-> k, val |-> v]
Null == [kind |-> "null"]

Runes == {"a", "u", "X", "n", "comma", "quote", "bs", "nl", "bmp", "astral", "fffd",
          "bad1", "bad2"}

Strings ==
    {<<>>} \cup {<<r>> : r \in Runes}
      \cup {<<r, s>> : r, s \in {"n", "quote", "bs", "comma", "bad1"}}
      \cup {<<"bs", "u", "X">>, <<"a", "quote", "comma", "quote", "a">>, <<"bs", "quote">>}

Scalars == {Null, [kind |-> "bool", is |-> TRUE], [kind |-> "bool", is |-> FALSE],
            Num(<<"1">>), Num(<<"1", "1">>), Str(<<>>), Str(<<"a">>), Str(<<"bad2">>)}

Small == {Num(<<"1">>), Str(<<"a">>), Arr(<<>>), Obj(<<>>), Arr(<<Str(<<"a">>)>>), Null}

Keys == {<<"a">>, <<"n">>, <<"bmp">>, <<"bad1">>, <<"bad2">>, <<"quote">>}

MCValues ==
    {Str(s) : s \in Strings} \cup Scalars
      \cup {Arr(s) : s \in {<<>>} \cup {<<v>> : v \in Scalars} \cup {<<v, w>> : v, w \in Small}}
      \cup {Obj(<<Pair(k, v)>>) : k \in Keys, v \in Small}
      \cup {Obj(<<Pair(k, v), Pair(l, w)>>) :
               k, l \in {<<"a">>, <<"n">>, <<"bad1">>}, v, w \in Small \ {Null, Obj(<<>>)}}
      \cup {Obj(<<>>), Arr(<<Obj(<<Pair(<<"a">>, Str(<<"n">>))>>)>>)}

Schema(v) == Obj(<<Pair(<<"a">>, v)>>)

Name(n) == Pair(<<"name">>, Str(<<n>>))

MCEntries == {
    Obj(<<Name("a")>>), Obj(<<Name("n")>>), Obj(<<Name("a"), Name("n")>>),
    Obj(<<Pair(<<"NAME">>, Str(<<"a">>))>>),
    Obj(<<Name("a"), Pair(<<"description">>, Str(<<"bmp">>))>>),
    Obj(<<Pair(<<"description">>, Str(<<"bmp">>)), Name("a")>>),
    Obj(<<Pair(<<"description">>, Null), Name("a")>>),
    Obj(<<Pair(<<"description">>, Str(<<"bad1">>)), Name("a")>>),
    Obj(<<Name("a"), Pair(<<"name">>, Null)>>), Obj(<<Pair(<<"name">>, Null), Name("a")>>),
    Obj(<<Pair(<<"description">>, Str(<<"bmp">>)), Name("a"), Pair(<<"description">>, Null)>>),
    Obj(<<Name("a"), Pair(<<"inputSchema">>, Schema(Num(<<"1">>)))>>),
    Obj(<<Pair(<<"input_schema">>, Schema(Num(<<"1">>))), Name("a")>>),
    Obj(<<Pair(<<"inputSchema">>, Schema(Num(<<"1">>))), Name("a"),
          Pair(<<"input_schema">>, Schema(Num(<<"1", "1">>)))>>),
    Obj(<<Name("a"), Pair(<<"inputSchema">>, Null)>>),
    Obj(<<Name("a"), Pair(<<"inputSchema">>, Schema(Num(<<"1">>))), Pair(<<"inputSchema">>, Null)>>),
    Obj(<<Pair(<<"name">>, Num(<<"1">>))>>),
    Obj(<<>>), Null, Str(<<"a">>)}
==========================================================================
