---------------------------------- MODULE Keys ----------------------------------
(***************************************************************************)
(* Key derivation of pkg/model: which parameters and headers of a request  *)
(* make up its key, in which order.  A string is the sequence of its       *)
(* character codes.  The two hashes of a key's text (64 and 128 bits) are  *)
(* taken to tell all texts apart, so the text stands for key, shard and    *)
(* fingerprint.  The path is not part of it.                               *)
(***************************************************************************)
EXTENDS Input, Integers, Sequences, SequencesExt

Amp      == 38
Eq       == 61
Question == 63
Percent  == 37
Plus     == 43
Space    == 32

\* Lexicographic order.
less(a, b) ==
    \/ IsStrictPrefix(a, b)
    \/ \E i \in 1..Min({Len(a), Len(b)}) :
        a[i] < b[i] /\ \A j \in 1..(i - 1) : a[j] = b[j]

\* Mutation: the pairs stay as they came.
Unsorted(kv) == kv

\* The loop stops in front of kv before the last pair that is not greater.
Place(sorted, kv) ==
    Max({0} \cup {j \in DOMAIN sorted : ~less(kv[1], sorted[j][1])}) + 1

\* Insertion sort by the first components; equal ones keep their order.
KVSlice(kv) ==
    LET sorted[n \in 0..Len(kv)] ==
            IF n = 0 THEN <<>>
            ELSE InsertAt(sorted[n - 1], Place(sorted[n - 1], kv[n]), kv[n])
    IN  sorted[Len(kv)]

\* The name begins with one that the rule allows.
Permits(prefixes, kv) == \E p \in prefixes : IsPrefix(p, kv[1])

\* The parameters that the rule allows, in their order.
Allowed(pairs, prefixes) ==
    LET allowed[n \in 0..Len(pairs)] ==
            IF n = 0 THEN <<>>
            ELSE IF Permits(prefixes, pairs[n]) THEN Append(allowed[n - 1], pairs[n])
            ELSE allowed[n - 1]
    IN  allowed[Len(pairs)]

\* The headers of the rule that the request has; the map gives them in any order.
AllowedHeaders(headers, names) ==
    SetToSeq({<<n, headers[n]>> : n \in {m \in names \cap DOMAIN headers : headers[m] # <<>>}})

\* The text that is hashed: names and values one after the other.
KeyText(queries, headers) ==
    FlattenSeq([i \in DOMAIN queries |-> queries[i][1] \o queries[i][2]])
      \o FlattenSeq([i \in DOMAIN headers |-> headers[i][1] \o headers[i][2]])

\* NewEntry: the key of a request under its rule.
KeyOf(rule, query, headers) ==
    KeyText(KVSlice(Allowed(query, rule.query)), KVSlice(AllowedHeaders(headers, rule.headers)))

-----------------------------------------------------------------------------
(* parseFilterAndSortQuery reads the query string itself.                  *)

Blank == [out |-> <<>>, key |-> <<>>, val |-> <<>>, kFound |-> FALSE, vFound |-> FALSE]

Flushed(s) == IF s.kFound THEN Append(s.out, <<s.key, s.val>>) ELSE s.out

\* Mutation: every "=" begins the value anew.
LastEq(s, c) ==
    IF c = Amp THEN [Blank EXCEPT !.out = Flushed(s), !.kFound = TRUE]
    ELSE IF c = Eq THEN [s EXCEPT !.vFound = TRUE, !.val = <<>>]
    ELSE IF s.vFound THEN [s EXCEPT !.val = Append(@, c)]
    ELSE [s EXCEPT !.kFound = TRUE, !.key = Append(@, c)]

\* One character.  A value before any name ("=a" at the start) is left out: the
\* code then cuts the name out of an empty range and panics.
ParseStep(s, c) ==
    IF c = Amp THEN [Blank EXCEPT !.out = Flushed(s), !.kFound = TRUE]
    ELSE IF c = Eq /\ ~s.vFound THEN [s EXCEPT !.vFound = TRUE]
    ELSE IF s.vFound THEN [s EXCEPT !.val = Append(@, c)]
    ELSE [s EXCEPT !.kFound = TRUE, !.key = Append(@, c)]

\* bytes.TrimLeft(b, "?").
Trimmed(b) ==
    LET n == Max({i \in 0..Len(b) : \A j \in 1..i : b[j] = Question})
    IN  SubSeq(b, n + 1, Len(b))

\* The loop over the characters, and what it left open at the end.
ParseText(b) ==
    LET parsed[n \in 0..Len(b)] == IF n = 0 THEN Blank ELSE ParseStep(parsed[n - 1], b[n])
    IN  Flushed(parsed[Len(b)])

parseQuery(b) == ParseText(Trimmed(b))

\* fasthttp decodes names and values: "+", and "%" with two hexadecimal digits.
Plain(s) == \A i \in DOMAIN s : s[i] \notin {Percent, Plus}

Hex(c) == CASE c \in 48..57  -> c - 48
            [] c \in 65..70  -> c - 55
            [] c \in 97..102 -> c - 87
            [] OTHER         -> 16

DecodeEscapes(s) ==
    LET n == Len(s)
        from[i \in 1..(n + 1)] ==
            IF i = n + 1 THEN <<>>
            ELSE IF s[i] # Percent THEN <<IF s[i] = Plus THEN Space ELSE s[i]>> \o from[i + 1]
            ELSE IF i + 2 > n THEN SubSeq(s, i, n)
            ELSE IF 16 \in {Hex(s[i + 1]), Hex(s[i + 2])} THEN <<Percent>> \o from[i + 1]
            ELSE <<16 * Hex(s[i + 1]) + Hex(s[i + 2])>> \o from[i + 3]
    IN  from[1]

Decode(s)   == IF Plain(s) THEN s ELSE DecodeEscapes(s)
Decoded(kv) == <<Decode(kv[1]), Decode(kv[2])>>

\* What fasthttp makes of the same bytes: what stands between two "&" it cuts at
\* the first "=", decodes, and drops if it has neither name nor value.
Split(p) ==
    LET at == Min({Len(p) + 1} \cup {i \in DOMAIN p : p[i] = Eq})
    IN  <<SubSeq(p, 1, at - 1), SubSeq(p, at + 1, Len(p))>>

\* The text from the last "&" before n up to n.
Piece(b, n) == SubSeq(b, Max({0} \cup {j \in 1..(n - 1) : b[j] = Amp}) + 1, n - 1)

WithArg(kv, out) == IF kv = <<<<>>, <<>>>> THEN out ELSE Append(out, kv)

QueryArgs(b) ==
    LET args[n \in 0..(Len(b) + 1)] ==
            IF n = 0 THEN <<>>
            ELSE IF n = Len(b) + 1 \/ b[n] = Amp THEN WithArg(Decoded(Split(Piece(b, n))), args[n - 1])
            ELSE args[n - 1]
    IN  args[Len(b) + 1]

-----------------------------------------------------------------------------
\* What the key is made of, and the query string that an entry is made of.
KeyRequest ==
    [rule : [query : SUBSET Text, headers : SUBSET Text], query : Seq(Field),
     headers : UNION {[names -> Text] : names \in SUBSET Text}]
QueryString == [prefixes : SUBSET Text, bytes : Text]

\* The order in which a client writes different parameters does not matter.
IgnoresOrder(rule, query, headers) ==
    IsInjective([i \in DOMAIN query |-> query[i][1]]) =>
        \A p \in SetToSeqs(DOMAIN query) :
            KeyOf(rule, [i \in DOMAIN query |-> query[p[i]]], headers)
              = KeyOf(rule, query, headers)

\* Entries that are made from a query string (mocks) get the key that requests
\* with this query have, if it has nothing to decode, which the raw parser never
\* does, and if the names that a rule allows are not empty.
SameAsQueryArgs(prefixes, b) ==
    Plain(b) /\ Trimmed(b) = b /\ (b # <<>> => b[1] # Eq) /\ <<>> \notin prefixes =>
        KVSlice(Allowed(parseQuery(b), prefixes)) = KVSlice(Allowed(QueryArgs(b), prefixes))

\* The entry of a request depends on what it asks for alone: not on the order of
\* its parameters, and not on whether the key is made from the parsed query or,
\* as for entries made of a query string, by the parser of its own, unless the
\* query has escapes (key_value.go, query.go, keys.go).
KeyIsOfTheRequest ==
    /\ part = "keys" => IgnoresOrder(input.rule, input.query, input.headers)
    /\ part = "parse" => SameAsQueryArgs(input.prefixes, input.bytes)
===============================================================================
