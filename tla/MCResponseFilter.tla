------------------------- MODULE MCResponseFilter -------------------------
(***************************************************************************)
(* TLC instances of ResponseFilter: the configurations, request bodies and *)
(* upstream responses to combine.                                          *)
(***************************************************************************)
EXTENDS ResponseFilter

CONSTANTS a, b, id1, id2

MCTools == {a, b}
MCIds == {id1, id2}

--------------------------------------------------------------------------
(* Entries: a and b as they were locked, each with another schema, nameless, not decodable *)

A0 == [name |-> a, form |-> "locked"]
A1 == [name |-> a, form |-> "changed"]
B0 == [name |-> b, form |-> "locked"]
B1 == [name |-> b, form |-> "changed"]
N0 == [name |-> NoName, form |-> "locked"]
X0 == [name |-> NoName, form |-> "broken"]

Policies == {NoPolicy, [mode |-> "allow", tools |-> {a}], [mode |-> "deny", tools |-> {b}]}

Locks == {NoLock} \cup
    {[mode |-> m, detail |-> d, list |-> <<A0, B0>>] : m \in {"enforce", "warn"}, d \in BOOLEAN}

Scanners == {[on |-> TRUE, threshold |-> t, action |-> x] : t \in {1, 2}, x \in {"block", "flag"}}

With(P, L, S) == {[policy |-> p, lock |-> l, scanner |-> s] : p \in P, l \in L, s \in S}

MCConfs == With(Policies, Locks, {NoScanner}) \cup
    With({NoPolicy, [mode |-> "allow", tools |-> {a}]},
         {NoLock, [mode |-> "enforce", detail |-> TRUE, list |-> <<A0, B0>>]}, Scanners)

--------------------------------------------------------------------------
(* Requests *)

List(id) == [method |-> "tools/list", id |-> id, name |-> NoName]
Call(id, n) == [method |-> "tools/call", id |-> id, name |-> n]
Other(id) == [method |-> "other", id |-> id, name |-> NoName]

Single(m) == [kind |-> "single", msgs |-> <<m>>]
Batch(m, n) == [kind |-> "batch", msgs |-> <<m, n>>]

MCBodies ==
    {[kind |-> "invalid", msgs |-> <<>>], [kind |-> "none", msgs |-> <<>>]}
      \cup {Single(m) : m \in {List(id1), List(NoId), Call(id1, a), Call(id1, b),
                               Call(NoId, NoName), Other(id1)}}
      \cup {Batch(List(id1), List(id2)), Batch(Call(id2, a), List(id1)),
            Batch(Call(id2, a), Call(id1, b)), Batch(Call(id1, NoName), Call(id2, a)),
            Batch(Call(id1, a), List(id2)), Batch(List(id2), Call(id1, a)),
            Batch(Call(id1, a), Call(id2, a)), Batch(Call(id1, a), Other(id2)),
            Batch(Call(id1, a), List(id1))}

--------------------------------------------------------------------------
(* Responses *)

Obj(id, err, shape, elems, says) ==
    [kind |-> "object", id |-> id, error |-> err, shape |-> shape, elems |-> elems,
     says |-> says, big |-> FALSE]

Listed(id, elems) == Obj(id, FALSE, "list", elems, "ok")
Junk == [kind |-> "junk", big |-> FALSE]
Array(msgs) == [kind |-> "array", msgs |-> msgs, big |-> FALSE]
Big(p) == [p EXCEPT !.big = TRUE]

Json(form, parts) ==
    [status |-> 200, type |-> "json", form |-> form, big |-> FALSE, parts |-> parts]

Stream(parts) ==
    [status |-> 200, type |-> "sse", form |-> "single", big |-> FALSE, parts |-> parts]

\* The ways a response escapes processing as a whole.
Odd(parts) ==
    {[Json("single", parts) EXCEPT !.big = TRUE], [Json("single", parts) EXCEPT !.type = "other"],
     [Json("single", parts) EXCEPT !.status = 500], [Stream(parts) EXCEPT !.status = 403],
     Json("broken", parts), Json("single", <<>>)}

ListParts ==
    {Listed(id1, e) : e \in BoundedSeq({A0, A1, B0}, 2)
                          \cup {<<N0>>, <<B0, N0>>, <<X0>>, <<A0, X0>>, <<A0, B1>>}}
      \cup {Obj(id1, FALSE, s, <<>>, "ok") : s \in {"missing", "notObject", "noTools", "notArray"}}
      \cup {Obj(id1, TRUE, "missing", <<>>, "ok"), Junk, Listed(id2, <<A1, B0>>),
            Listed(NoId, <<A1, B0>>), Listed(id2, <<A0, B0>>)}

ScanParts ==
    {Obj(id, FALSE, "noTools", <<>>, v) : id \in {id1, id2}, v \in {"ok", "suspicious", "dangerous", "fail"}}
      \cup {Obj(id1, TRUE, "missing", <<>>, "dangerous"), Obj(id1, FALSE, "missing", <<>>, "ok"),
            Listed(id2, <<A0>>), Listed(id2, <<A1>>), Listed(id2, <<B0, A0>>), Junk}

BigList == Big(Listed(id1, <<A1, B0>>))

Dangerous == Obj(id1, FALSE, "noTools", <<>>, "dangerous")

Pairs(S) == {<<p, q>> : p, q \in S}

MCResponses ==
    {Json("single", <<p>>) : p \in ListParts \cup ScanParts}
      \cup {Json("batch", ps) : ps \in Pairs(ListParts) \cup Pairs(ScanParts)}
      \cup {Stream(ps) : ps \in Pairs(ListParts \cup {BigList}) \cup Pairs(ScanParts)}
      \cup {Stream(<<Array(<<Listed(id1, <<A0, B0>>)>>)>>)}
      \cup UNION {Odd(<<p>>) : p \in {Listed(id1, <<A1, B0>>), Listed(id1, <<A0>>), Dangerous}}
==========================================================================
