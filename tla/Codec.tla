--------------------------------- MODULE Codec ---------------------------------
(***************************************************************************)
(* How an entry is packed: its request and response into the payload       *)
(* (SetPayload and Payload), and the entry into a record of the dump       *)
(* (ToBytes and EntryFromBytes).  Numbers have a width of one cell instead *)
(* of four or eight bytes; strings are sequences of cells.                 *)
(***************************************************************************)
EXTENDS Input, Integers, Sequences

\* A string after its length.
Sized(s) == <<Len(s)>> \o s

\* Headers one after the other, each a name and a value with mid in between.
Packed(headers, mid) ==
    LET packed[n \in 0..Len(headers)] ==
            IF n = 0 THEN <<>>
            ELSE packed[n - 1] \o (Sized(headers[n][1]) \o (mid \o Sized(headers[n][2])))
    IN  packed[Len(headers)]

\* SetPayload.  A response header may have several values; each is packed as a
\* header of its own with one value.
Pack(req, resp) ==
    Sized(req.path) \o (Sized(req.query)
      \o (<<Len(req.headers)>> \o (Packed(req.headers, <<>>)
      \o (<<resp.status>> \o (<<Len(resp.headers)>> \o (Packed(resp.headers, <<1>>)
      \o Sized(resp.body)))))))

\* The string at an offset, and the offset after it.
StringAt(b, at) == SubSeq(b, at + 1, at + b[at])
After(b, at)    == at + 1 + b[at]

\* The offset after n headers from an offset on, and the headers; between a name
\* and its value, skip cells are not looked at.
HeadersAt(b, at, n, skip) ==
    LET read[i \in 0..n] ==
            IF i = 0 THEN [at |-> at, out |-> <<>>]
            ELSE LET name  == read[i - 1].at
                     value == After(b, name) + skip
                 IN  [at  |-> After(b, value),
                      out |-> Append(read[i - 1].out, <<StringAt(b, name), StringAt(b, value)>>)]
    IN  read[n]

\* Mutation: the values of a response header are not counted.
Uncounted == 0

\* Cells between a response header and its value, which is always one.
CountWidth == 1

\* Payload: the body is all that follows its length.
Unpack(b) ==
    LET query   == After(b, 1)
        nReq    == After(b, query)
        reqH    == HeadersAt(b, nReq + 1, b[nReq], 0)
        respH   == HeadersAt(b, reqH.at + 2, b[reqH.at + 1], CountWidth)
    IN  [req  |-> [path |-> StringAt(b, 1), query |-> StringAt(b, query), headers |-> reqH.out],
         resp |-> [status |-> b[reqH.at], headers |-> respH.out,
                   body |-> SubSeq(b, respH.at + 1, Len(b))]]

\* The record of an entry: its rule's path, its key (with shard and fingerprint),
\* the time of its refresh and its payload.
ToBytes(e) == Sized(e.rule) \o <<e.key>> \o <<e.refreshedAt>> \o Sized(e.payload)

\* The rule is looked up again; without it the record is skipped.
EntryFromBytes(b, rules) ==
    LET rest == After(b, 1)
    IN  IF StringAt(b, 1) \in rules
        THEN {[rule |-> StringAt(b, 1), key |-> b[rest], refreshedAt |-> b[rest + 1],
               payload |-> StringAt(b, rest + 2)]}
        ELSE {}

-----------------------------------------------------------------------------
\* What is packed, and the configuration under which it is loaded.
Exchange ==
    [rules : SUBSET Text, key : Nat,
     req   : [path : Text, query : Text, headers : Seq(Field)],
     resp  : [status : Nat, body : Text, headers : Seq(Field)]]

\* An entry that was dumped and loaded under a configuration that still has its
\* rule has the key it had and answers what was fetched.
RestoresEntry(rules, key, req, resp) ==
    LET e == [rule |-> req.path, key |-> key, refreshedAt |-> 0, payload |-> Pack(req, resp)]
    IN  req.path \in rules =>
            /\ EntryFromBytes(ToBytes(e), rules) = {e}
            /\ Unpack(e.payload) = [req |-> req, resp |-> resp]

\* A dumped entry comes back with its key, its request and its response
\* (payload.go and to_bytes.go).
DumpRestoresEntry ==
    part = "codec" => RestoresEntry(input.rules, input.key, input.req, input.resp)
===============================================================================
