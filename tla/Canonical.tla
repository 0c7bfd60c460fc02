---------------------------- MODULE Canonical ----------------------------
(***************************************************************************)
(* The canonical JSON form behind every digest (gateway/canonical.go), the *)
(* fingerprints of tools and listings built from it (gateway/lock.go), and *)
(* the walk that gathers the text of a tool result for the scanner         *)
(* (collectStrings of gateway/promptproof.go).                             *)
(*                                                                         *)
(* A JSON text is a tree: [kind |-> "null"], [kind |-> "bool", is],        *)
(* [kind |-> "num", lit], [kind |-> "str", runes], [kind |-> "arr", items] *)
(* or [kind |-> "obj", pairs], the pairs in the order of the text and with *)
(* keys that may repeat.  A rune stands for a class of characters: "bmp"   *)
(* and "astral" for what is written as one and as two \u escapes, "fffd"   *)
(* for U+FFFD, "bad1" and "bad2" for invalid bytes and unpaired surrogate  *)
(* escapes; every other rune is itself.  "X", "H" and "L" are the hex      *)
(* digits of an escape, and "X" is also a rune that a text may contain.    *)
(* A decoded value has a function "map" in place of the pairs.  A digest   *)
(* is the encoding it is computed from: SHA-256 is taken to be injective.  *)
(* The operators are recursive, so that only TLC speaks about them.        *)
(***************************************************************************)
EXTENDS Naturals, Sequences, SequencesExt, ToolsLock

CONSTANTS
    Values,     \* JSON texts compared with each other
    Entries,    \* entries of a tools array, as JSON texts
    MaxList     \* bound: entries in a listing

VARIABLES
    job,        \* "values", "lists" or "text": what is worked on
    x, y,       \* the two inputs (for "text" only x)
    out         \* what the code makes of them, <<>> before

vars == <<job, x, y, out>>

Undecodable == {"bad1", "bad2"}

\* The code points in their order, for the runes that are not only classes.
Ranks == <<"nl", "quote", "comma", "1", "X", "bs", "a", "description", "inputSchema",
           "n", "name", "u", "bmp", "fffd", "astral">>

Rank(r) == CHOOSE i \in DOMAIN Ranks : Ranks[i] = r

--------------------------------------------------------------------------
(* Decoding *)

\* encoding/json turns every undecodable part of a string into U+FFFD.
DecodeString(s) == [i \in DOMAIN s |-> IF s[i] \in Undecodable THEN "fffd" ELSE s[i]]

\* Of several pairs with one key the last counts.
LastOf(pairs, k) ==
    pairs[SelectLastInSeq(pairs, LAMBDA p : p.key = k)].val

DecodedPairs(pairs) ==
    [i \in DOMAIN pairs |-> [pairs[i] EXCEPT !.key = DecodeString(@)]]

KeysOf(pairs) == {pairs[i].key : i \in DOMAIN pairs}

\* decodeUseNumber; a number is its literal.
RECURSIVE decodeUseNumber(_)
decodeUseNumber(v) ==
    CASE v.kind = "str" -> [v EXCEPT !.runes = DecodeString(@)]
      [] v.kind = "arr" -> [v EXCEPT !.items = [i \in DOMAIN @ |-> decodeUseNumber(@[i])]]
      [] v.kind = "obj" ->
            LET ps == DecodedPairs(v.pairs)
            IN  [kind |-> "obj",
                 map |-> [k \in KeysOf(ps) |-> decodeUseNumber(LastOf(ps, k))]]
      [] OTHER -> v

--------------------------------------------------------------------------
(* Encoding *)

\* One rune of appendPythonString.
Escape(r) ==
    CASE r \in {"quote", "bs"} -> <<"bs", r>>
      [] r = "nl"              -> <<"bs", "n">>
      [] r = "bmp"             -> <<"bs", "u", "X">>
      [] r = "astral"          -> <<"bs", "u", "H", "bs", "u", "L">>
      [] OTHER                 -> <<r>>

appendPythonString(s) ==
    <<"quote">> \o FlattenSeq([i \in DOMAIN s |-> Escape(s[i])]) \o <<"quote">>

\* A string is before another: the order of code points, which is that of
\* the UTF-8 bytes.
Before(s, t) ==
    \/ IsStrictPrefix(s, t)
    \/ \E i \in DOMAIN s \cap DOMAIN t :
          /\ SubSeq(s, 1, i - 1) = SubSeq(t, 1, i - 1)
          /\ Rank(s[i]) < Rank(t[i])

SortedKeys(m) == SetToSortSeq(DOMAIN m, Before)

\* The elements of a sequence of encodings with commas between them.
Joined(parts) ==
    FlattenSeq([i \in DOMAIN parts |-> IF i = 1 THEN parts[i] ELSE <<"comma">> \o parts[i]])

RECURSIVE Encode(_)
Encode(v) ==
    CASE v.kind = "null" -> <<"null">>
      [] v.kind = "bool" -> IF v.is THEN <<"true">> ELSE <<"false">>
      [] v.kind = "num"  -> v.lit
      [] v.kind = "str"  -> appendPythonString(v.runes)
      [] v.kind = "arr"  ->
            <<"[">> \o Joined([i \in DOMAIN v.items |-> Encode(v.items[i])]) \o <<"]">>
      [] v.kind = "obj"  ->
            LET keys == SortedKeys(v.map)
                Member(k) == appendPythonString(k) \o <<":">> \o Encode(v.map[k])
            IN  <<"{">> \o Joined([i \in DOMAIN keys |-> Member(keys[i])]) \o <<"}">>

HasFFFD(s) == "fffd" \in ToSet(s)

\* canonicalAppend that looks for U+FFFD in values and not in keys (a mutant).
RECURSIVE UnencodableValue(_)
UnencodableValue(v) ==
    CASE v.kind = "str" -> HasFFFD(v.runes)
      [] v.kind = "arr" -> \E i \in DOMAIN v.items : UnencodableValue(v.items[i])
      [] v.kind = "obj" -> \E k \in DOMAIN v.map : UnencodableValue(v.map[k])
      [] OTHER -> FALSE

\* canonicalAppend meets a string with U+FFFD, and returns errReplacementChar.
RECURSIVE Unencodable(_)
Unencodable(v) ==
    CASE v.kind = "str" -> HasFFFD(v.runes)
      [] v.kind = "arr" -> \E i \in DOMAIN v.items : Unencodable(v.items[i])
      [] v.kind = "obj" -> \E k \in DOMAIN v.map : HasFFFD(k) \/ Unencodable(v.map[k])
      [] OTHER -> FALSE

Refused == <<"refused">>

canonicalAppend(v) == IF Unencodable(v) THEN Refused ELSE Encode(v)

--------------------------------------------------------------------------
(* Fingerprints *)

\* The pairs of an entry that encoding/json takes for the named field of
\* the probe: names match whatever the case of their letters.
FieldPairs(e, field) ==
    SelectSeq(e.pairs, LAMBDA p : p.key \in
        CASE field = "name" -> {<<"name">>, <<"NAME">>}
          [] OTHER          -> {<<field>>})

IsNull(v) == v.kind = "null"

\* A string field: the last that is not null, "" without one.
StringField(e, field) ==
    LET given == SelectSeq(FieldPairs(e, field), LAMBDA p : ~IsNull(p.val))
    IN  IF given = <<>> THEN <<>> ELSE DecodeString(Last(given).val.runes)

\* Unmarshal into the probe succeeds: an object whose name and description
\* are strings (or null); null itself leaves the probe empty.
Probes(e) ==
    \/ IsNull(e)
    \/ /\ e.kind = "obj"
       /\ \A f \in {"name", "description"} : \A i \in DOMAIN FieldPairs(e, f) :
             FieldPairs(e, f)[i].val.kind \in {"str", "null"}

Pairs(e) == IF IsNull(e) THEN [kind |-> "obj", pairs |-> <<>>] ELSE e

\* inputSchema, or else input_schema, or else {}; a null is a value here.
SchemaOf(e) ==
    LET main == FieldPairs(e, "inputSchema")
        alt == FieldPairs(e, "input_schema")
    IN  CASE main # <<>> -> decodeUseNumber(Last(main).val)
          [] main = <<>> /\ alt # <<>> -> decodeUseNumber(Last(alt).val)
          [] OTHER -> [kind |-> "obj", map |-> <<>>]

toolFingerprint(e) ==
    [kind |-> "obj",
     map |-> [k \in {<<"name">>, <<"description">>, <<"inputSchema">>} |->
                CASE k = <<"name">> -> [kind |-> "str", runes |-> StringField(Pairs(e), "name")]
                  [] k = <<"description">> ->
                        [kind |-> "str", runes |-> StringField(Pairs(e), "description")]
                  [] OTHER -> SchemaOf(Pairs(e))]]

NameOf(e) == StringField(Pairs(e), "name")

\* The listing in the order it was sent (a mutant).
ByNameUnsorted(list) == list

\* sort.SliceStable by name.
ByName(list) ==
    LET names == SetToSortSeq({NameOf(list[i]) : i \in DOMAIN list}, Before)
        Of(n) == SelectSeq(list, LAMBDA e : NameOf(e) = n)
    IN  FlattenSeq([i \in DOMAIN names |-> Of(names[i])])

toolsListHash(list) ==
    IF \E i \in DOMAIN list : ~Probes(list[i]) THEN Refused
    ELSE LET sorted == ByName(list)
         IN  canonicalAppend([kind |-> "arr",
                              items |-> [i \in DOMAIN sorted |-> toolFingerprint(sorted[i])]])

--------------------------------------------------------------------------
(* The text of a tool result *)

\* A walk that stops at arrays inside objects (a mutant).
RECURSIVE collectStringsFlat(_)
collectStringsFlat(v) ==
    CASE v.kind = "str"  -> {DecodeString(v.runes)}
      [] v.kind = "null" -> {<<>>}
      [] v.kind = "arr"  -> UNION {collectStringsFlat(v.items[i]) : i \in DOMAIN v.items}
      [] v.kind = "obj"  ->
            UNION {LET val == LastOf(DecodedPairs(v.pairs), k)
                   IN  IF val.kind = "arr" THEN {} ELSE collectStringsFlat(val) :
                      k \in KeysOf(DecodedPairs(v.pairs))}
      [] OTHER -> {}

\* The strings that are joined for the scanner, as a set: a map is walked
\* in no particular order.  null decodes into a string without an error.
RECURSIVE collectStrings(_)
collectStrings(v) ==
    CASE v.kind = "str"  -> {DecodeString(v.runes)}
      [] v.kind = "null" -> {<<>>}
      [] v.kind = "arr"  -> UNION {collectStrings(v.items[i]) : i \in DOMAIN v.items}
      [] v.kind = "obj"  ->
            UNION {collectStrings(LastOf(DecodedPairs(v.pairs), k)) :
                      k \in KeysOf(DecodedPairs(v.pairs))}
      [] OTHER -> {}

--------------------------------------------------------------------------

Lists == UNION {[1..n -> Entries] : n \in 0..MaxList}

Init ==
    /\ out = <<>>
    /\ \/ job = "values" /\ x \in Values /\ y \in Values
       \/ job = "lists" /\ x \in Lists /\ y \in Lists
       \/ job = "text" /\ x \in Values /\ y = x

HashValues ==
    /\ job = "values" /\ out = <<>>
    /\ out' = <<canonicalAppend(decodeUseNumber(x)), canonicalAppend(decodeUseNumber(y))>>
    /\ UNCHANGED <<job, x, y>>

HashLists ==
    /\ job = "lists" /\ out = <<>>
    /\ out' = <<toolsListHash(x), toolsListHash(y)>>
    /\ UNCHANGED <<job, x, y>>

CollectText ==
    /\ job = "text" /\ out = <<>>
    /\ out' = <<collectStrings(x)>>
    /\ UNCHANGED <<job, x, y>>

Done == out # <<>> /\ UNCHANGED vars

Next == HashValues \/ HashLists \/ CollectText \/ Done

Spec == Init /\ [][Next]_vars

--------------------------------------------------------------------------
(* Properties *)

\* What a JSON text says, with nothing collapsed: the order of the pairs
\* does not count, the last of several equal keys does, and undecodable
\* parts are told apart.  This is what mcp-sentinel compares.
RECURSIVE Meaning(_)
Meaning(v) ==
    CASE v.kind = "arr" -> [v EXCEPT !.items = [i \in DOMAIN @ |-> Meaning(@[i])]]
      [] v.kind = "obj" ->
            [kind |-> "obj", map |-> [k \in KeysOf(v.pairs) |-> Meaning(LastOf(v.pairs, k))]]
      [] OTHER -> v

Hashed(i) == out # <<>> /\ out[i] # Refused

\* A digest stands for what a text says.  "The failure mode is a spurious
\* drift alarm, never a false match": two texts that are hashed and have the
\* same digest say the same, whatever their strings contain; and texts that
\* say the same have the same digest, however a server orders its keys, or
\* neither has one (canonicalAppend, errReplacementChar).
DigestIsMeaning ==
    (job = "values" /\ out # <<>>) =>
        /\ Meaning(x) = Meaning(y) => out[1] = out[2]
        /\ (Hashed(1) /\ Hashed(2) /\ out[1] = out[2]) => Meaning(x) = Meaning(y)

\* What mcp-sentinel and a client see of an entry.
Surface(e) ==
    LET Last1(k, default) ==
            IF <<k>> \in KeysOf(Pairs(e).pairs) THEN LastOf(Pairs(e).pairs, <<k>>) ELSE default
        Empty == [kind |-> "str", runes |-> <<>>]
        Text(v) == IF IsNull(v) THEN Empty ELSE v
        NoSchema == [kind |-> "obj", pairs |-> <<>>]
    IN  [name |-> Text(Last1("name", Empty)),
         form |-> <<Text(Last1("description", Empty)),
                    Meaning(Last1("inputSchema", Last1("input_schema", NoSchema)))>>]

Surfaces(list) == [i \in DOMAIN list |-> Surface(list[i])]

\* The fields are spelled as the format has them.
Spelled(list) == \A i \in DOMAIN list : <<"NAME">> \notin KeysOf(Pairs(list[i]).pairs)

\* No name or description is given as a string and as null after it.
NoneErased(list) ==
    \A i \in DOMAIN list, field \in {"name", "description"} :
        LET pairs == FieldPairs(Pairs(list[i]), field)
        IN  \A j \in DOMAIN pairs : IsNull(Last(pairs).val) => IsNull(pairs[j].val)

Usual(list) == Spelled(list) /\ NoneErased(list)

\* The digest of a listing is what ToolsLock takes it for: equal exactly when
\* the listings agree name by name in all that a client sees, whatever the
\* order of the tools and of their fields (toolsListHash, toolFingerprint).
\* Two kinds of entries are excluded, for which it is not: those that spell a
\* field in other letters, as encoding/json takes "NAME" for "name", and those
\* that repeat a string field with null at the end, as encoding/json leaves
\* the string in its place where a reader that goes by the last value has none.
DigestIsSurface ==
    (job = "lists" /\ Hashed(1) /\ Hashed(2) /\ Usual(x) /\ Usual(y)) =>
        (out[1] = out[2] <=> SameDigest(Surfaces(x), Surfaces(y)))

\* All string values of a text, in whatever place, and whether keys repeat.
RECURSIVE StringsIn(_)
StringsIn(v) ==
    CASE v.kind = "str" -> {DecodeString(v.runes)}
      [] v.kind = "arr" -> UNION {StringsIn(v.items[i]) : i \in DOMAIN v.items}
      [] v.kind = "obj" -> UNION {StringsIn(v.pairs[i].val) : i \in DOMAIN v.pairs}
      [] OTHER -> {}

RECURSIVE Repeats(_)
Repeats(v) ==
    CASE v.kind = "arr" -> \E i \in DOMAIN v.items : Repeats(v.items[i])
      [] v.kind = "obj" ->
            \/ \E i \in DOMAIN v.pairs : Repeats(v.pairs[i].val)
            \/ \E i, j \in DOMAIN v.pairs :
                  i # j /\ DecodeString(v.pairs[i].key) = DecodeString(v.pairs[j].key)
      [] OTHER -> FALSE

\* "Every string value it contains" goes to the scanner, at every depth of a
\* result, unless a key is repeated: then only the last value is walked
\* while the client gets all of them (collectStrings).
EveryStringIsScanned ==
    (job = "text" /\ out # <<>> /\ ~Repeats(x)) => StringsIn(x) \subseteq out[1]
==========================================================================
