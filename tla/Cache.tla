-------------------------------- MODULE Cache --------------------------------
(***************************************************************************)
(* What the storage promises the handlers (lru.Storage in                  *)
(* pkg/storage/lru/storage.go), without shards, lists, counters or pending *)
(* steps: at each key at most one entry; an entry is cached once, under    *)
(* the key of its request, and never comes back; its content may be        *)
(* renewed, but always for the same key and fingerprint; and a hit is an   *)
(* entry that was cached at one moment of the call.                        *)
(***************************************************************************)
CONSTANTS Request, KeyOf, PrintOf, Body, Elem, Nil, Client

Key     == {KeyOf[r] : r \in Request}
Content == [req : Request, body : Body]

VARIABLES entry,    \* entry[k]: the entry cached at key k, or Nil
          content,  \* content[e]: what entry e holds; Nil: never cached so far
          reply     \* reply[c]: the hit c is answering, <<request, entry>>, or Nil

vars == <<entry, content, reply>>

SameIdentity(q, r) == KeyOf[q] = KeyOf[r] /\ PrintOf[q] = PrintOf[r]

Init == /\ entry = [k \in Key |-> Nil]
        /\ content = [e \in Elem |-> Nil]
        /\ reply = [c \in Client |-> Nil]

Insert(e, c) ==
    /\ content[e] = Nil
    /\ content' = [content EXCEPT ![e] = c]
    /\ entry' = [entry EXCEPT ![KeyOf[c.req]] = e]
    /\ UNCHANGED reply

Renew(e, c) ==
    /\ content[e] # Nil
    /\ SameIdentity(c.req, content[e].req)
    /\ content' = [content EXCEPT ![e] = c]
    /\ UNCHANGED <<entry, reply>>

\* Eviction, collision and Clear: the entries of some keys go.
Forget(K) ==
    /\ entry' = [k \in Key |-> IF k \in K THEN Nil ELSE entry[k]]
    /\ UNCHANGED <<content, reply>>

Hit(p, r) ==
    LET e == entry[KeyOf[r]]
    IN  /\ reply[p] = Nil
        /\ e # Nil /\ SameIdentity(content[e].req, r)
        /\ reply' = [reply EXCEPT ![p] = <<r, e>>]
        /\ UNCHANGED <<entry, content>>

Answered(p) == /\ reply[p] # Nil
               /\ reply' = [reply EXCEPT ![p] = Nil]
               /\ UNCHANGED <<entry, content>>

Next == \/ \E e \in Elem, c \in Content : Insert(e, c) \/ Renew(e, c)
        \/ \E K \in SUBSET Key : Forget(K)
        \/ \E p \in Client : Answered(p) \/ \E r \in Request : Hit(p, r)

Spec == Init /\ [][Next]_vars
=============================================================================
