---------------------------- MODULE StorageProofs ----------------------------
(***************************************************************************)
(* Storage answers a request only with content of its key and fingerprint, *)
(* for all clients, requests, bodies, entries and shards.  The proof looks *)
(* at the map, the entries and the goroutines' locals only: whatever the   *)
(* races do to the LRU lists and to the counters, answers are right.       *)
(***************************************************************************)
EXTENDS Storage, TLAPS

\* The goroutines that use the content of an entry they found.
Reader == Client \cup {Refresher}

SameIdentity(q, r) == KeyOf[q] = KeyOf[r] /\ PrintOf[q] = PrintOf[r]

\* The entry the evictor works on comes from a list, of which nothing is known.
Types ==
    /\ items \in [Key -> Elem \cup {Nil}]
    /\ owner \in [Elem -> Request \cup {Nil}]
    /\ payload \in [Elem -> Content \cup {Nil}]
    /\ pc \in [Proc -> Label]
    /\ want \in [Proc -> Request \cup {Nil}]
    /\ new \in [Proc -> Elem \cup {Nil}]
    /\ old = [p \in Proc |-> old[p]]
    /\ \A p \in Reader : old[p] \in Elem \cup {Nil}

\* An entry holds content of the identity it was made for.
Sound ==
    \A e \in Elem :
        /\ owner[e] # Nil =>
              payload[e] \in Content /\ SameIdentity(payload[e].req, owner[e])
        /\ owner[e] = Nil => payload[e] = Nil

\* The map holds an entry under the key of its request.
Mapped ==
    \A k \in Key : items[k] # Nil => owner[items[k]] # Nil /\ KeyOf[owner[items[k]]] = k

\* What a goroutine refers to has not been discarded.
Alive ==
    /\ \A p \in Proc : new[p] # Nil => owner[new[p]] # Nil
    /\ \A p \in Reader : old[p] # Nil => owner[old[p]] # Nil

\* Between the fetch and the insertion nobody else has the new entry.
Storing == {"set", "swap", "unlistCheck", "unlist", "drop", "subLen", "subMem",
            "admit", "store"}

Hidden ==
    \A p \in Client : pc[p] \in Storing =>
        /\ new[p] # Nil
        /\ \A k \in Key : items[k] # new[p]
        /\ \A q \in Reader : old[q] # new[p]
        /\ \A q \in Proc \ {p} : new[q] # new[p]

\* What a handler has found is of the identity it wants, or stores.
Found ==
    \A p \in Client :
        /\ new[p] # Nil => pc[p] \in Storing \cup Inserting
        /\ pc[p] = "fetch" => want[p] # Nil
        /\ pc[p] \in {"set", "swap"} => want[p] = Nil
        /\ pc[p] \in Inserting => new[p] # Nil
        /\ pc[p] = "serve" => want[p] # Nil
        /\ pc[p] \in Answering =>
              old[p] # Nil /\ (want[p] # Nil => SameIdentity(owner[old[p]], want[p]))
        /\ pc[p] = "swap" => old[p] # Nil /\ SameIdentity(owner[old[p]], owner[new[p]])

\* The refresher repeats a request of the identity of the entry it refreshes.
Refreshing ==
    /\ pc[Refresher] \in {"refresh", "await"} => old[Refresher] # Nil
    /\ pc[Refresher] = "await" =>
          want[Refresher] # Nil /\ SameIdentity(want[Refresher], owner[old[Refresher]])

IInv == Types /\ Sound /\ Mapped /\ Alive /\ Hidden /\ Found /\ Refreshing

\* The part of the state the invariant is about.
watched == <<items, owner, payload, pc, want, new, old>>

\* The label sets are expanded everywhere.
USE DEF Storing, Inserting, Answering

-----------------------------------------------------------------------------
\* The invariant holds before the first call.
LEMMA InitIInv == Init => IInv
BY RingAssumption, StorageAssumption
DEF Init, IInv, Types, Sound, Mapped, Alive, Hidden, Found, Refreshing,
    Label, Proc, Reader, Key, Content

\* Steps on lists, counters and the evictor's scan do not touch it.
LEMMA StutterIInv == ASSUME IInv, UNCHANGED watched PROVE IInv'
<1> USE DEF watched, IInv
<1>1. Types'
  BY DEF Types
<1>2. Sound' /\ Mapped' /\ Alive'
  BY DEF Sound, Mapped, Alive
<1>3. Hidden'
  BY DEF Hidden
<1>4. Found' /\ Refreshing'
  BY DEF Found, Refreshing
<1> QED BY <1>1, <1>2, <1>3, <1>4

\* The goroutines are distinct.
LEMMA Goroutines ==
    /\ \A p \in Client : p \in Proc /\ p \in Reader /\ p # Evictor /\ p # Refresher
    /\ Evictor \in Proc /\ Evictor \notin Reader
    /\ Refresher \in Proc /\ Refresher \in Reader /\ Refresher # Evictor
    /\ Reader \subseteq Proc
BY StorageAssumption DEF Proc, Reader

\* What the map holds is an entry made for a request of that key.
LEMMA MappedEntry ==
    ASSUME IInv, NEW k \in Key, items[k] # Nil
    PROVE  /\ items[k] \in Elem
           /\ owner[items[k]] \in Request
           /\ KeyOf[owner[items[k]]] = k
           /\ payload[items[k]] \in Content
           /\ SameIdentity(payload[items[k]].req, owner[items[k]])
<1>1. items[k] \in Elem /\ owner[items[k]] # Nil /\ KeyOf[owner[items[k]]] = k
  BY DEF IInv, Types, Mapped
<1> QED BY <1>1 DEF IInv, Types, Sound

\* The entry a handler is storing, and the one it has found.
LEMMA NewEntry ==
    ASSUME IInv, NEW p \in Client, pc[p] \in Storing
    PROVE  /\ new[p] \in Elem
           /\ owner[new[p]] \in Request
           /\ KeyOf[owner[new[p]]] \in Key
           /\ payload[new[p]] \in Content
           /\ SameIdentity(payload[new[p]].req, owner[new[p]])
<1>1. new[p] \in Elem /\ new[p] # Nil
  BY Goroutines DEF IInv, Types, Hidden
<1>2. owner[new[p]] \in Request
  BY <1>1, Goroutines DEF IInv, Types, Alive
<1> QED BY <1>1, <1>2, RingAssumption, StorageAssumption DEF IInv, Types, Sound, Key

LEMMA OldEntry ==
    ASSUME IInv, NEW p \in Reader, old[p] # Nil
    PROVE  /\ old[p] \in Elem
           /\ owner[old[p]] \in Request
           /\ payload[old[p]] \in Content
           /\ SameIdentity(payload[old[p]].req, owner[old[p]])
<1>1. old[p] \in Elem /\ owner[old[p]] # Nil
  BY DEF IInv, Types, Alive
<1> QED BY <1>1 DEF IInv, Types, Sound

-----------------------------------------------------------------------------
\* A goroutine goes on to a label at which no more is known of its locals.
LEMMA GotoIInv ==
    ASSUME IInv, NEW p \in Proc, NEW label \in Label,
           p # Refresher,
           Goto(p, label), UNCHANGED <<items, owner, payload, want, new, old>>,
           label \notin {"fetch", "set", "swap"},
           p \in Client => (label \in Storing <=> pc[p] \in Storing),
           p \in Client => (label \in Inserting <=> pc[p] \in Inserting),
           label \in Answering => pc[p] \in {"touch", "move"},
           label = "serve" => want[p] # Nil
    PROVE  IInv'
<1> USE Goroutines DEF IInv, Goto
<1>1. Types'
  BY DEF Types
<1>2. Sound' /\ Mapped' /\ Alive'
  BY DEF Sound, Mapped, Alive
<1>3. Hidden'
  BY DEF Types, Hidden
<1>4. Found'
  BY DEF Types, Found
<1>5. Refreshing'
  BY DEF Types, Refreshing
<1> QED BY <1>1, <1>2, <1>3, <1>4, <1>5

\* A call ends without a change to the map or to an entry.
LEMMA FinishIInv ==
    ASSUME IInv, NEW p \in Proc, Finish(p), UNCHANGED <<items, owner, payload>>
    PROVE  IInv'
<1> USE Goroutines DEF IInv, Finish, Goto
<1>1. Types'
  BY DEF Types, Label
<1>2. Sound' /\ Mapped' /\ Alive'
  BY DEF Types, Sound, Mapped, Alive
<1>3. Hidden'
  BY RingAssumption DEF Types, Hidden
<1>4. Found'
  BY DEF Types, Found
<1>5. Refreshing'
  BY DEF Types, Refreshing
<1> QED BY <1>1, <1>2, <1>3, <1>4, <1>5

-----------------------------------------------------------------------------
\* A lookup finds an entry of the request's key and fingerprint, or nothing.
LEMMA GetIInv == ASSUME IInv, NEW p \in Client, NEW r \in Request, Get(p, r) PROVE IInv'
<1> USE Goroutines DEF IInv, Get, Ready, maps, entries
<1> DEFINE e == items[KeyOf[r]]
           hit == e # Nil /\ SamePrint(e, r)
<1>1. KeyOf[r] \in Key /\ r # Nil
  BY StorageAssumption DEF Key
<1>2. hit => e \in Elem /\ owner[e] # Nil /\ SameIdentity(owner[e], r)
  BY <1>1, MappedEntry, StorageAssumption DEF SamePrint, SameIdentity
<1>3. /\ pc[p] = "idle"
      /\ pc' = [pc EXCEPT ![p] = IF hit THEN "touch" ELSE "fetch"]
      /\ old' = [old EXCEPT ![p] = IF hit THEN e ELSE Nil]
      /\ want' = [want EXCEPT ![p] = r]
      /\ UNCHANGED <<items, owner, payload, new>>
  BY DEF Goto
<1> HIDE DEF e, hit, Get
<1>4. Types'
  BY <1>2, <1>3 DEF Types, Label
<1>5. Sound' /\ Mapped' /\ Alive'
  BY <1>2, <1>3 DEF Types, Sound, Mapped, Alive
<1>6. Hidden'
  BY <1>1, <1>2, <1>3, RingAssumption DEF Types, Hidden, hit, e
<1>7. Found'
  BY <1>1, <1>2, <1>3, RingAssumption DEF Types, Found
<1>8. Refreshing'
  BY <1>3 DEF Types, Refreshing
<1> QED BY <1>4, <1>5, <1>6, <1>7, <1>8

\* The entry made for an answer is one that nothing refers to.
LEMMA FetchedIInv == ASSUME IInv, NEW p \in Client, NEW b \in Body, Fetched(p, b) PROVE IInv'
<1> USE Goroutines DEF IInv
<1> DEFINE e == CHOOSE x \in Elem : owner[x] = Nil
           c == [req |-> want[p], body |-> b]
<1>1. e \in Elem /\ owner[e] = Nil
  BY DEF Fetched, Entries
<1>2. /\ pc[p] = "fetch"
      /\ pc' = [pc EXCEPT ![p] = "set"]
      /\ owner' = [owner EXCEPT ![e] = want[p]]
      /\ payload' = [payload EXCEPT ![e] = c]
      /\ new' = [new EXCEPT ![p] = e]
      /\ want' = [want EXCEPT ![p] = Nil]
      /\ UNCHANGED <<items, old>>
  BY DEF Fetched, Step, Ready, Goto, maps
<1>3. want[p] \in Request /\ c \in Content /\ c.req = want[p]
  BY <1>2 DEF Types, Found, Content
<1>4. /\ \A k \in Key : items[k] # e
      /\ \A q \in Proc : new[q] # e
      /\ \A q \in Reader : old[q] # e
  BY <1>1, RingAssumption DEF Mapped, Alive
<1> HIDE DEF e, c
<1>5. Types'
  BY <1>1, <1>2, <1>3 DEF Types, Label
<1>6. Sound'
  BY <1>1, <1>2, <1>3, StorageAssumption DEF Types, Sound, SameIdentity
<1>7. Mapped' /\ Alive'
  <2>1. \A x \in Elem : owner[x] # Nil => owner'[x] = owner[x]
    BY <1>1, <1>2 DEF Types
  <2>2. Mapped'
    BY <1>2, <2>1 DEF Types, Mapped
  <2>3. owner'[e] # Nil /\ new'[p] = e /\ \A q \in Proc \ {p} : new'[q] = new[q]
    BY <1>1, <1>2, <1>3, StorageAssumption DEF Types
  <2>4. \A q \in Proc : new'[q] # Nil => owner'[new'[q]] # Nil
    BY <2>1, <2>3 DEF Types, Alive
  <2>5. \A q \in Reader : old'[q] # Nil => owner'[old'[q]] # Nil
    BY <1>2, <2>1 DEF Types, Alive
  <2> QED BY <2>2, <2>4, <2>5 DEF Alive
<1>8. Hidden'
  BY <1>1, <1>2, <1>4, RingAssumption DEF Types, Hidden
<1>9. Found'
  <2>1. ASSUME NEW q \in Client, q # p
        PROVE  /\ pc'[q] = pc[q] /\ want'[q] = want[q] /\ new'[q] = new[q] /\ old'[q] = old[q]
               /\ owner'[old[q]] = owner[old[q]] /\ owner'[new[q]] = owner[new[q]]
    <3>1. pc'[q] = pc[q] /\ want'[q] = want[q] /\ new'[q] = new[q] /\ old'[q] = old[q]
      BY <1>2, <2>1 DEF Types
    <3>2. owner'[old[q]] = owner[old[q]] /\ owner'[new[q]] = owner[new[q]]
      BY <1>2, <1>4 DEF Types
    <3> QED BY <3>1, <3>2
  <2>2. pc'[p] = "set" /\ want'[p] = Nil
    BY <1>2 DEF Types
  <2> QED BY <2>1, <2>2 DEF Found
<1>10. Refreshing'
  BY <1>2, <1>4 DEF Types, Refreshing
<1> QED BY <1>5, <1>6, <1>7, <1>8, <1>9, <1>10

\* A handler's entry that is not stored takes nothing with it.
LEMMA DiscardKeeps ==
    ASSUME IInv, NEW p \in Client, pc[p] \in Storing, Discard(p),
           UNCHANGED <<items>>
    PROVE  /\ owner' = [owner EXCEPT ![new[p]] = Nil]
           /\ payload' = [payload EXCEPT ![new[p]] = Nil]
           /\ new[p] \in Elem
           /\ Sound' /\ Mapped'
           /\ \A q \in Proc \ {p} : new[q] # new[p] /\ owner'[new[q]] = owner[new[q]]
           /\ \A q \in Reader : old[q] # new[p] /\ owner'[old[q]] = owner[old[q]]
<1> USE Goroutines DEF IInv, Discard
<1>1. new[p] \in Elem
  BY NewEntry
<1>2. Sound'
  BY <1>1 DEF Types, Sound
<1>3. Mapped'
  BY <1>1 DEF Types, Mapped, Hidden
<1>4. /\ \A q \in Proc \ {p} : new[q] # new[p] /\ owner'[new[q]] = owner[new[q]]
      /\ \A q \in Reader : old[q] # new[p] /\ owner'[old[q]] = owner[old[q]]
  BY <1>1 DEF Types, Hidden
<1> QED BY <1>1, <1>2, <1>3, <1>4

LEMMA SetFoundIInv == ASSUME IInv, NEW p \in Client, SetFound(p) PROVE IInv'
<1> USE Goroutines DEF IInv
<1> DEFINE e == items[KeyOfEntry(new[p])]
<1>1. pc[p] = "set" /\ pc[p] \in Storing /\ want[p] = Nil
  BY DEF SetFound, Ready, Found
<1>2. /\ new[p] \in Elem /\ owner[new[p]] \in Request /\ KeyOfEntry(new[p]) \in Key
  BY <1>1, NewEntry DEF KeyOfEntry
<1>3. /\ e \in Elem /\ e # Nil /\ e # new[p] /\ owner[e] # Nil
      /\ SameIdentity(owner[e], owner[new[p]])
  BY <1>1, <1>2, MappedEntry, RingAssumption, StorageAssumption
     DEF SetFound, SamePrint, SameIdentity, KeyOfEntry, Hidden
<1>4. /\ old' = [old EXCEPT ![p] = e]
      /\ UNCHANGED <<items, want>>
  BY DEF SetFound, maps
<1>5. CASE /\ Goto(p, "touch") /\ Discard(p) /\ new' = [new EXCEPT ![p] = Nil]
  <2> HIDE DEF e
  <2>1. pc' = [pc EXCEPT ![p] = "touch"]
    BY <1>5 DEF Goto
  <2>2. /\ owner' = [owner EXCEPT ![new[p]] = Nil]
        /\ payload' = [payload EXCEPT ![new[p]] = Nil]
        /\ Sound' /\ Mapped'
        /\ \A q \in Proc \ {p} : new[q] # new[p] /\ owner'[new[q]] = owner[new[q]]
        /\ \A q \in Reader : old[q] # new[p] /\ owner'[old[q]] = owner[old[q]]
    BY <1>1, <1>4, <1>5, DiscardKeeps
  <2>3. owner'[e] = owner[e]
    BY <1>3, <2>2 DEF Types
  <2>4. Types'
    BY <1>2, <1>3, <1>4, <1>5, <2>1, <2>2 DEF Types, Label
  <2>5. Alive'
    <3>1. \A q \in Proc : new'[q] # Nil => owner'[new'[q]] # Nil
      BY <1>5, <2>2 DEF Types, Alive
    <3>2. \A q \in Reader : old'[q] # Nil => owner'[old'[q]] # Nil
      BY <1>3, <1>4, <2>2, <2>3 DEF Types, Alive
    <3> QED BY <3>1, <3>2 DEF Alive
  <2>6. Hidden'
    BY <1>2, <1>3, <1>4, <1>5, <2>1, MappedEntry, RingAssumption DEF Types, Hidden, e
  <2>7. Found'
    <3>1. ASSUME NEW q \in Client \ {p}
          PROVE  /\ pc'[q] = pc[q] /\ want'[q] = want[q] /\ new'[q] = new[q]
                 /\ old'[q] = old[q]
                 /\ owner'[old[q]] = owner[old[q]] /\ owner'[new[q]] = owner[new[q]]
      BY <1>4, <1>5, <2>1, <2>2 DEF Types
    <3>2. pc'[p] = "touch" /\ want'[p] = Nil /\ new'[p] = Nil /\ old'[p] = e
      BY <1>1, <1>4, <1>5, <2>1 DEF Types
    <3> QED BY <1>3, <3>1, <3>2 DEF Found
  <2>8. Refreshing'
    BY <1>4, <2>1, <2>2 DEF Types, Refreshing
  <2> QED BY <2>2, <2>4, <2>5, <2>6, <2>7, <2>8
<1>6. CASE Goto(p, "swap") /\ UNCHANGED <<entries, new>>
  <2>1. pc' = [pc EXCEPT ![p] = "swap"] /\ UNCHANGED <<owner, payload, new>>
    BY <1>6 DEF Goto, entries
  <2> HIDE DEF e
  <2>2. Types'
    BY <1>3, <1>4, <2>1 DEF Types, Label
  <2>3. Sound' /\ Mapped' /\ Alive'
    BY <1>3, <1>4, <2>1 DEF Types, Sound, Mapped, Alive
  <2>4. Hidden'
    BY <1>1, <1>2, <1>3, <1>4, <2>1 DEF Types, Hidden, e
  <2>5. Found'
    BY <1>1, <1>3, <1>4, <2>1 DEF Types, Found
  <2>6. Refreshing'
    BY <1>4, <2>1 DEF Types, Refreshing
  <2> QED BY <2>2, <2>3, <2>4, <2>5, <2>6
<1> QED BY <1>5, <1>6 DEF SetFound

LEMMA SetCollidesIInv == ASSUME IInv, NEW p \in Client, SetCollides(p) PROVE IInv'
<1> USE Goroutines DEF IInv
<1> DEFINE e == items[KeyOfEntry(new[p])]
<1>1. pc[p] = "set" /\ pc[p] \in Storing
  BY DEF SetCollides, Step, Ready
<1>2. KeyOfEntry(new[p]) \in Key
  BY <1>1, NewEntry DEF KeyOfEntry
<1>3. e # Nil /\ e \in Elem /\ owner[e] # Nil
  BY <1>2, MappedEntry, StorageAssumption DEF SetCollides
<1>4. /\ pc' = [pc EXCEPT ![p] = "unlistCheck"]
      /\ old' = [old EXCEPT ![p] = e]
      /\ UNCHANGED <<items, owner, payload, want, new>>
  BY DEF SetCollides, Step, Goto, maps, entries
<1> HIDE DEF e
<1>5. Types'
  BY <1>3, <1>4 DEF Types, Label
<1>6. Sound' /\ Mapped' /\ Alive'
  BY <1>3, <1>4 DEF Types, Sound, Mapped, Alive
<1>7. Hidden'
  BY <1>1, <1>2, <1>4 DEF Types, Hidden, e
<1>8. Found'
  BY <1>4 DEF Types, Found
<1>9. Refreshing'
  BY <1>4 DEF Types, Refreshing
<1> QED BY <1>5, <1>6, <1>7, <1>8, <1>9

\* The content that is swapped in has the identity of the entry it replaces.
LEMMA SwapIInv == ASSUME IInv, NEW p \in Client, Swap(p) PROVE IInv'
<1> USE Goroutines DEF IInv
<1>1. pc[p] = "swap" /\ pc[p] \in Storing /\ want[p] = Nil /\ old[p] # Nil
  BY DEF Swap, Step, Ready, Found
<1>2. /\ pc' = [pc EXCEPT ![p] = "touch"]
      /\ owner' = [owner EXCEPT ![new[p]] = Nil]
      /\ payload' = [payload EXCEPT ![old[p]] = payload[new[p]], ![new[p]] = Nil]
      /\ new' = [new EXCEPT ![p] = Nil]
      /\ UNCHANGED <<items, want, old>>
  BY DEF Swap, Step, Goto, maps
<1>3. /\ new[p] \in Elem /\ payload[new[p]] \in Content
      /\ SameIdentity(payload[new[p]].req, owner[new[p]])
      /\ old[p] \in Elem /\ owner[old[p]] # Nil
      /\ SameIdentity(owner[old[p]], owner[new[p]])
      /\ old[p] # new[p]
  BY <1>1, NewEntry, OldEntry, StorageAssumption DEF Found, Hidden
<1>4. Types'
  BY <1>2, <1>3 DEF Types, Label
<1>5. Sound'
  BY <1>2, <1>3 DEF Types, Sound, SameIdentity
<1>6. Mapped' /\ Alive'
  <2>1. /\ \A k \in Key : items[k] # new[p]
        /\ \A q \in Reader : old[q] # new[p]
        /\ \A q \in Proc \ {p} : new[q] # new[p]
    BY <1>1 DEF Hidden
  <2>2. \A x \in Elem : x # new[p] => owner'[x] = owner[x]
    BY <1>2, <1>3 DEF Types
  <2>3. Mapped'
    BY <1>2, <2>1, <2>2 DEF Types, Mapped
  <2> QED BY <1>2, <2>1, <2>2, <2>3 DEF Types, Alive
<1>7. Hidden'
  BY <1>2, RingAssumption DEF Types, Hidden
<1>8. Found'
  <2>1. ASSUME NEW q \in Client \ {p}
        PROVE  /\ pc'[q] = pc[q] /\ want'[q] = want[q] /\ new'[q] = new[q]
               /\ old'[q] = old[q]
               /\ owner'[old[q]] = owner[old[q]] /\ owner'[new[q]] = owner[new[q]]
    <3>1. old[q] # new[p] /\ new[q] # new[p]
      BY <1>1 DEF Hidden
    <3>2. owner'[old[q]] = owner[old[q]] /\ owner'[new[q]] = owner[new[q]]
      BY <1>2, <3>1 DEF Types
    <3>3. pc'[q] = pc[q] /\ want'[q] = want[q] /\ new'[q] = new[q] /\ old'[q] = old[q]
      BY <1>2 DEF Types
    <3> QED BY <3>2, <3>3
  <2>2. pc'[p] = "touch" /\ want'[p] = Nil /\ new'[p] = Nil /\ old'[p] = old[p]
    BY <1>1, <1>2 DEF Types
  <2> QED BY <1>1, <2>1, <2>2 DEF Found
<1>9. Refreshing'
  BY <1>1, <1>2, <1>3 DEF Types, Refreshing, Hidden
<1> QED BY <1>4, <1>5, <1>6, <1>7, <1>8, <1>9

LEMMA RejectIInv == ASSUME IInv, NEW p \in Client, Reject(p) PROVE IInv'
<1> USE Goroutines DEF IInv
<1>1. pc[p] \in Storing /\ Discard(p) /\ Finish(p) /\ UNCHANGED <<items>>
  BY DEF Reject, Ready, maps
<1>2. /\ pc' = [pc EXCEPT ![p] = "idle"]
      /\ want' = [want EXCEPT ![p] = Nil]
      /\ new' = [new EXCEPT ![p] = Nil]
      /\ old' = [old EXCEPT ![p] = Nil]
  BY <1>1 DEF Finish, Goto
<1>3. /\ owner' = [owner EXCEPT ![new[p]] = Nil]
      /\ payload' = [payload EXCEPT ![new[p]] = Nil]
      /\ new[p] \in Elem
      /\ Sound' /\ Mapped'
      /\ \A q \in Proc \ {p} : new[q] # new[p] /\ owner'[new[q]] = owner[new[q]]
      /\ \A q \in Reader : old[q] # new[p] /\ owner'[old[q]] = owner[old[q]]
  BY <1>1, DiscardKeeps
<1>4. Types'
  BY <1>1, <1>2, <1>3 DEF Types, Label
<1>5. Alive'
  BY <1>2, <1>3 DEF Types, Alive
<1>6. Hidden'
  BY <1>1, <1>2, RingAssumption DEF Types, Hidden
<1>7. Found'
  <2>1. ASSUME NEW q \in Client \ {p}
        PROVE  /\ pc'[q] = pc[q] /\ want'[q] = want[q] /\ new'[q] = new[q]
               /\ old'[q] = old[q]
               /\ owner'[old[q]] = owner[old[q]] /\ owner'[new[q]] = owner[new[q]]
    BY <1>2, <1>3 DEF Types
  <2>2. pc'[p] = "idle" /\ new'[p] = Nil
    BY <1>2 DEF Types
  <2> QED BY <2>1, <2>2 DEF Found
<1>8. Refreshing'
  BY <1>2, <1>3 DEF Types, Refreshing
<1> QED BY <1>3, <1>4, <1>5, <1>6, <1>7, <1>8

\* From here on others can find the entry.
LEMMA StoreIInv == ASSUME IInv, NEW p \in Client, Store(p) PROVE IInv'
<1> USE Goroutines DEF IInv
<1> DEFINE k == KeyOfEntry(new[p])
           label == IF items[k] = Nil THEN "addLen" ELSE "addMem"
<1>1. pc[p] = "store" /\ pc[p] \in Storing
  BY DEF Store, Ready
<1>2. /\ items' = [items EXCEPT ![k] = new[p]]
      /\ old' = [old EXCEPT ![p] = items[k]]
      /\ pc' = [pc EXCEPT ![p] = label]
      /\ UNCHANGED <<owner, payload, want, new>>
  BY DEF Store, Goto, entries
<1>3. /\ new[p] \in Elem /\ new[p] # Nil /\ owner[new[p]] # Nil
      /\ k \in Key /\ KeyOf[owner[new[p]]] = k
  BY <1>1, NewEntry, RingAssumption, StorageAssumption DEF KeyOfEntry
<1>4. items[k] \in Elem \cup {Nil} /\ (items[k] # Nil => owner[items[k]] # Nil)
  BY <1>3 DEF Types, Mapped
<1>5. \A q \in Client \ {p} : pc[q] \in Storing => new[q] # new[p] /\ new[q] # items[k]
  BY <1>3 DEF Hidden
<1> HIDE DEF k
<1>6. Types'
  BY <1>2, <1>3, <1>4 DEF Types, Label
<1>7. Sound' /\ Mapped' /\ Alive'
  BY <1>2, <1>3, <1>4 DEF Types, Sound, Mapped, Alive
<1>8. Hidden'
  BY <1>2, <1>3, <1>5 DEF Types, Hidden
<1>9. Found'
  BY <1>2, <1>3 DEF Types, Found
<1>10. Refreshing'
  BY <1>2 DEF Types, Refreshing
<1> QED BY <1>6, <1>7, <1>8, <1>9, <1>10

\* The replaced, or removed, entry is forgotten by the goroutine.
LEMMA ForgetOldIInv ==
    ASSUME IInv, NEW p \in Client \cup {Evictor}, NEW label \in Label,
           Goto(p, label), old' = [old EXCEPT ![p] = Nil],
           UNCHANGED <<items, owner, payload, want, new>>,
           label \in {"push", "evict", "admit"},
           label = "push" => pc[p] = "addMem",
           label = "admit" => pc[p] \in Storing,
           label = "evict" => p = Evictor
    PROVE  IInv'
<1> USE Goroutines DEF IInv, Goto
<1>1. Types'
  BY DEF Types
<1>2. Sound' /\ Mapped' /\ Alive'
  BY DEF Types, Sound, Mapped, Alive
<1>3. Hidden'
  BY RingAssumption DEF Types, Hidden
<1>4. Found'
  BY DEF Types, Found
<1>5. Refreshing'
  BY DEF Types, Refreshing
<1> QED BY <1>1, <1>2, <1>3, <1>4, <1>5

\* Removal takes the entry at the key, whichever it is, out of the map.
LEMMA DropIInv == ASSUME IInv, NEW p \in Client \cup {Evictor}, Drop(p) PROVE IInv'
<1> USE Goroutines DEF IInv
<1> DEFINE k == KeyOfEntry(old[p])
           found == items[k] # Nil
<1>1. PICK label \in Label :
         /\ pc' = [pc EXCEPT ![p] = label]
         /\ label = "subLen" \/ label = AfterRemove(p)
  BY DEF Drop, Goto, Label, AfterRemove
<1>2. /\ pc[p] = "drop" /\ pc[p] \in Storing
      /\ items' = [items EXCEPT ![k] = Nil]
      /\ old' = old \/ old' = [old EXCEPT ![p] = Nil]
      /\ UNCHANGED <<owner, payload, want, new>>
  BY DEF Drop, Ready, entries
<1>3. label \in {"subLen", "admit"} \/ (label = "evict" /\ p = Evictor)
  BY <1>1 DEF AfterRemove
<1> HIDE DEF k
<1>4. Types'
  BY <1>1, <1>2 DEF Types
<1>5. Sound' /\ Mapped' /\ Alive'
  BY <1>2 DEF Types, Sound, Mapped, Alive
<1>6. Hidden'
  BY <1>1, <1>2, <1>3, RingAssumption DEF Types, Hidden
<1>7. Found'
  BY <1>1, <1>2, <1>3 DEF Types, Found
<1>8. Refreshing'
  BY <1>1, <1>2, <1>3 DEF Types, Refreshing
<1> QED BY <1>4, <1>5, <1>6, <1>7, <1>8

\* Whatever the list yields is only the evictor's.
LEMMA EvictIInv == ASSUME IInv, Evict PROVE IInv'
<1> USE Goroutines DEF IInv
<1>1. PICK e : old' = [old EXCEPT ![Evictor] = e]
  BY DEF Evict
<1>2. /\ pc' = [pc EXCEPT ![Evictor] = "unlistCheck"]
      /\ UNCHANGED <<items, owner, payload, want, new>>
  BY DEF Evict, Step, Goto, maps, entries
<1>3. Types'
  BY <1>1, <1>2 DEF Types, Label
<1>4. Sound' /\ Mapped' /\ Alive'
  BY <1>1, <1>2 DEF Types, Sound, Mapped, Alive
<1>5. Hidden' /\ Found' /\ Refreshing'
  BY <1>1, <1>2 DEF Types, Hidden, Found, Refreshing
<1> QED BY <1>3, <1>4, <1>5

LEMMA SampleIInv == ASSUME IInv, Sample PROVE IInv'
<1> USE Goroutines DEF IInv
<1>1. PICK k \in Key : items[k] # Nil /\ old' = [old EXCEPT ![Refresher] = items[k]]
  BY DEF Sample
<1>2. /\ pc' = [pc EXCEPT ![Refresher] = "refresh"]
      /\ UNCHANGED <<items, owner, payload, want, new>>
  BY DEF Sample, Step, Goto, maps, entries
<1>3. Types'
  BY <1>1, <1>2 DEF Types, Label
<1>4. Sound' /\ Mapped' /\ Alive'
  BY <1>1, <1>2 DEF Types, Sound, Mapped, Alive
<1>5. Hidden'
  BY <1>1, <1>2 DEF Types, Hidden
<1>6. Found' /\ Refreshing'
  BY <1>1, <1>2 DEF Types, Found, Refreshing
<1> QED BY <1>3, <1>4, <1>5, <1>6

\* The repeated request is the one whose answer the entry holds.
LEMMA UnpackIInv == ASSUME IInv, Unpack PROVE IInv'
<1> USE Goroutines DEF IInv
<1>1. /\ pc[Refresher] = "refresh"
      /\ pc' = [pc EXCEPT ![Refresher] = "await"]
      /\ want' = [want EXCEPT ![Refresher] = payload[old[Refresher]].req]
      /\ UNCHANGED <<items, owner, payload, new, old>>
  BY DEF Unpack, Step, Ready, Goto, maps, entries
<1>2. /\ payload[old[Refresher]].req \in Request
      /\ SameIdentity(payload[old[Refresher]].req, owner[old[Refresher]])
      /\ old[Refresher] # Nil
  BY <1>1, OldEntry DEF Refreshing, Content
<1>3. Types'
  BY <1>1, <1>2 DEF Types, Label
<1>4. Sound' /\ Mapped' /\ Alive'
  BY <1>1 DEF Types, Sound, Mapped, Alive
<1>5. Hidden' /\ Found'
  BY <1>1 DEF Types, Hidden, Found
<1>6. Refreshing'
  BY <1>1, <1>2, StorageAssumption DEF Types, Refreshing
<1> QED BY <1>3, <1>4, <1>5, <1>6

\* The refresher renews an entry, perhaps one no longer cached, for its identity.
LEMMA RefreshedIInv == ASSUME IInv, NEW b \in Body, Refreshed(b) PROVE IInv'
<1> USE Goroutines DEF IInv
<1> DEFINE c == [req |-> want[Refresher], body |-> b]
<1>1. /\ pc[Refresher] = "await"
      /\ payload' = [payload EXCEPT ![old[Refresher]] = c]
      /\ pc' = [pc EXCEPT ![Refresher] = "idle"]
      /\ want' = [want EXCEPT ![Refresher] = Nil]
      /\ new' = [new EXCEPT ![Refresher] = Nil]
      /\ old' = [old EXCEPT ![Refresher] = Nil]
      /\ UNCHANGED <<items, owner>>
  BY DEF Refreshed, Ready, Finish, Goto, maps
<1>2. /\ old[Refresher] \in Elem /\ owner[old[Refresher]] # Nil
      /\ c \in Content /\ SameIdentity(c.req, owner[old[Refresher]])
  BY <1>1, OldEntry, StorageAssumption DEF Types, Refreshing, Content
<1> HIDE DEF c
<1>3. Types'
  BY <1>1, <1>2 DEF Types, Label
<1>4. Sound'
  BY <1>1, <1>2 DEF Types, Sound
<1>5. Mapped' /\ Alive'
  BY <1>1 DEF Types, Mapped, Alive
<1>6. Hidden'
  BY <1>1, RingAssumption DEF Types, Hidden
<1>7. Found' /\ Refreshing'
  BY <1>1 DEF Types, Found, Refreshing
<1> QED BY <1>3, <1>4, <1>5, <1>6, <1>7

LEMMA ClearShardIInv == ASSUME IInv, NEW s \in Shard, ClearShard(s) PROVE IInv'
<1> USE Goroutines DEF IInv
<1>1. /\ items' = [k \in Key |-> IF ShardOf(k) = s THEN Nil ELSE items[k]]
      /\ UNCHANGED <<owner, payload, pc, want, new, old>>
  BY DEF ClearShard, entries, calls
<1>2. \A k \in Key : items'[k] \in {items[k], Nil}
  BY <1>1
<1>3. Types'
  BY <1>1 DEF Types
<1>4. Sound' /\ Mapped' /\ Alive'
  BY <1>1, <1>2 DEF Types, Sound, Mapped, Alive
<1>5. Hidden'
  BY <1>1, <1>2, RingAssumption DEF Types, Hidden
<1>6. Found' /\ Refreshing'
  BY <1>1 DEF Found, Refreshing
<1> QED BY <1>3, <1>4, <1>5, <1>6

-----------------------------------------------------------------------------
LEMMA AfterTouchIInv ==
    ASSUME IInv, NEW p \in Client, pc[p] \in {"touch", "move"},
           AfterTouch(p), UNCHANGED <<items, owner, payload>>
    PROVE  IInv'
<1>1. CASE want[p] # Nil
  <2>1. Goto(p, "serve") /\ UNCHANGED <<items, owner, payload, want, new, old>>
    BY <1>1 DEF AfterTouch, calls
  <2> QED BY <1>1, <2>1, GotoIInv, Goroutines DEF Label
<1>2. CASE want[p] = Nil
  BY <1>2, FinishIInv, Goroutines DEF AfterTouch
<1> QED BY <1>1, <1>2

\* Between two decisions of a handler.
LEMMA WorkingIInv == ASSUME IInv, NEW p \in Client, Working(p) PROVE IInv'
<1> USE Goroutines
<1>1. CASE TouchSkips(p)
  BY <1>1, AfterTouchIInv DEF TouchSkips, Ready, maps, entries
<1>2. CASE Touch(p)
  BY <1>2, GotoIInv DEF Touch, Step, Ready, maps, entries, calls, Label
<1>3. CASE Move(p)
  BY <1>3, AfterTouchIInv DEF Move, Ready, maps, entries
<1>4. CASE Serve(p)
  BY <1>4, FinishIInv DEF Serve, maps, entries
<1>5. CASE SetFound(p)
  BY <1>5, SetFoundIInv
<1>6. CASE SetCollides(p)
  BY <1>6, SetCollidesIInv
<1>7. CASE SetMisses(p)
  BY <1>7, GotoIInv DEF SetMisses, Step, Ready, maps, entries, calls, Label
<1>8. CASE Swap(p)
  BY <1>8, SwapIInv
<1>9. CASE Admit(p)
  BY <1>9, GotoIInv DEF Admit, Step, Ready, maps, entries, calls, Label
<1>10. CASE Reject(p)
  BY <1>10, RejectIInv
<1>11. CASE Store(p)
  BY <1>11, StoreIInv
<1>12. CASE AddLen(p)
  BY <1>12, GotoIInv DEF AddLen, Step, Ready, entries, calls, Label
<1>13. CASE AddMem(p)
  BY <1>13, ForgetOldIInv DEF AddMem, Step, Ready, entries, Label
<1>14. CASE Push(p)
  BY <1>14, GotoIInv DEF Push, Step, Ready, maps, entries, calls, Label
<1>15. CASE SetElem(p)
  BY <1>15, FinishIInv DEF SetElem, maps
<1> QED BY <1>1, <1>2, <1>3, <1>4, <1>5, <1>6, <1>7, <1>8, <1>9, <1>10, <1>11, <1>12,
           <1>13, <1>14, <1>15 DEF Working

\* InMemoryStorage.Remove, by a handler or by the evictor.
LEMMA RemovingIInv ==
    ASSUME IInv, NEW p \in Client \cup {Evictor}, Removing(p) PROVE IInv'
<1> USE Goroutines
<1>1. CASE UnlistCheck(p)
  <2>1. PICK label \in {"unlist", "drop"} : Goto(p, label)
    BY <1>1 DEF UnlistCheck
  <2> QED BY <1>1, <2>1, GotoIInv DEF UnlistCheck, Ready, maps, entries, calls, Label
<1>2. CASE Unlist(p)
  BY <1>2, GotoIInv DEF Unlist, Step, Ready, maps, entries, calls, Label
<1>3. CASE Drop(p)
  BY <1>3, DropIInv
<1>4. CASE SubLen(p)
  BY <1>4, GotoIInv DEF SubLen, Step, Ready, entries, calls, Label
<1>5. CASE SubMem(p)
  <2>1. /\ Goto(p, AfterRemove(p)) /\ old' = [old EXCEPT ![p] = Nil]
        /\ UNCHANGED <<items, owner, payload, want, new>>
        /\ pc[p] \in Storing
    BY <1>5 DEF SubMem, Step, Ready, entries
  <2>2. /\ AfterRemove(p) \in {"evict", "admit"} /\ AfterRemove(p) \in Label
        /\ AfterRemove(p) = "evict" => p = Evictor
    BY DEF AfterRemove, Label
  <2> QED BY <2>1, <2>2, ForgetOldIInv
<1> QED BY <1>1, <1>2, <1>3, <1>4, <1>5 DEF Removing

LEMMA EvictorIInv == ASSUME IInv, EvictorStep PROVE IInv'
<1> USE Goroutines
<1>1. ASSUME NEW label \in {"pick", "evict", "next"}, Goto(Evictor, label),
             UNCHANGED <<items, owner, payload, want, new, old>>
      PROVE  IInv'
  BY <1>1, GotoIInv DEF Label
<1>2. CASE Tick
  BY <1>1, <1>2 DEF Tick, Step, maps, entries, calls
<1>3. CASE WithinLimit
  BY <1>3, FinishIInv DEF WithinLimit, maps, entries
<1>4. CASE Pick
  BY <1>1, <1>4 DEF Pick, maps, entries, calls
<1>5. CASE GoOn
  BY <1>1, <1>5 DEF GoOn, Step, maps, entries, calls
<1>6. CASE Evict
  BY <1>6, EvictIInv
<1>7. CASE EndOfList
  BY <1>1, <1>7 DEF EndOfList, Step, maps, entries, calls
<1> QED BY <1>2, <1>3, <1>4, <1>5, <1>6, <1>7 DEF EvictorStep

\* Every step of every goroutine keeps the invariant.
LEMMA NextIInv == IInv /\ [Next]_vars => IInv'
<1> SUFFICES ASSUME IInv, [Next]_vars PROVE IInv'
  OBVIOUS
<1>1. ASSUME NEW p \in Client, ClientStep(p) PROVE IInv'
  <2>1. ASSUME NEW r \in Request, Get(p, r) PROVE IInv'
    BY <2>1, GetIInv
  <2>2. ASSUME NEW b \in Body, Fetched(p, b) PROVE IInv'
    BY <2>2, FetchedIInv
  <2>3. CASE FetchFails(p)
    BY <2>3, FinishIInv, Goroutines DEF FetchFails, maps, entries
  <2> QED BY <1>1, <2>1, <2>2, <2>3, WorkingIInv, RemovingIInv DEF ClientStep
<1>2. CASE EvictorStep \/ Removing(Evictor)
  BY <1>2, EvictorIInv, RemovingIInv
<1>3. CASE RefresherStep
  <2>1. ASSUME NEW b \in Body, Refreshed(b) PROVE IInv'
    BY <2>1, RefreshedIInv
  <2>2. CASE RefreshFails
    BY <2>2, FinishIInv, Goroutines DEF RefreshFails, maps, entries
  <2> QED BY <1>3, <2>1, <2>2, SampleIInv, UnpackIInv DEF RefresherStep
<1>4. CASE RefreshMem \/ Clear \/ UNCHANGED vars
  BY <1>4, StutterIInv
     DEF RefreshMem, Clear, vars, maps, entries, calls, watched
<1>5. ASSUME NEW s \in Shard, ClearShard(s) PROVE IInv'
  BY <1>5, ClearShardIInv
<1> QED BY <1>1, <1>2, <1>3, <1>4, <1>5 DEF Next

\* It implies that the answer about to be given is one for the request.
LEMMA IInvAnswers == IInv => AnswersMatch
<1> SUFFICES ASSUME IInv, NEW p \in Client, pc[p] = "serve"
             PROVE  SameIdentity(payload[old[p]].req, want[p])
  BY DEF AnswersMatch, SameIdentity
<1>1. old[p] # Nil /\ SameIdentity(owner[old[p]], want[p])
  BY DEF IInv, Found
<1>2. SameIdentity(payload[old[p]].req, owner[old[p]])
  BY <1>1, OldEntry, Goroutines
<1> QED BY <1>1, <1>2 DEF SameIdentity

\* However lookups, insertions, collisions, updates in place, refreshes,
\* evictions and clears interleave, a request is only ever answered with
\* content fetched for its own key and fingerprint (storage.go Get and Set,
\* payload.go SwapPayloads, refresher.go refresh).
THEOREM AnswersMatchHolds == Spec => []AnswersMatch
<1>1. Init => IInv
  BY InitIInv
<1>2. IInv /\ [Next]_vars => IInv'
  BY NextIInv
<1>3. IInv => AnswersMatch
  BY IInvAnswers
<1> QED BY <1>1, <1>2, <1>3, PTL DEF Spec

-----------------------------------------------------------------------------
(* Storage implements Cache: each of its steps is a step of the abstract    *)
(* cache under the mapping of Storage, or changes nothing there.            *)

\* The entries that only their makers know are those being stored.
LEMMA Unknown ==
    ASSUME IInv
    PROVE  /\ \A p \in Client : pc[p] \in Storing => new[p] \in Private
           /\ \A p \in Client : new[p] \in Private => pc[p] \in Storing
           /\ \A k \in Key : items[k] \notin Private
           /\ \A q \in Reader : old[q] \notin Private
<1> USE Goroutines DEF IInv
<1>1. ASSUME NEW p \in Client, pc[p] \in Storing PROVE new[p] \in Private
  BY <1>1, NewEntry DEF Private
<1>2. ASSUME NEW p \in Client, new[p] \in Private PROVE pc[p] \in Storing
  <2>1. PICK q \in Client : new[q] = new[p] /\ pc[q] \notin Inserting
    BY <1>2 DEF Private
  <2>2. new[p] # Nil
    BY <1>2, RingAssumption DEF Private
  <2>3. pc[q] \in Storing
    BY <2>1, <2>2 DEF Found
  <2> QED BY <2>1, <2>3 DEF Hidden
<1>3. ASSUME NEW e \in Private PROVE \E p \in Client : new[p] = e /\ pc[p] \in Storing
  <2>1. PICK q \in Client : new[q] = e /\ pc[q] \notin Inserting
    BY DEF Private
  <2>2. e # Nil
    BY RingAssumption DEF Private
  <2> QED BY <2>1, <2>2 DEF Found
<1>4. \A k \in Key : items[k] \notin Private
  BY <1>3 DEF Hidden
<1>5. \A q \in Reader : old[q] \notin Private
  BY <1>3 DEF Hidden
<1> QED BY <1>1, <1>2, <1>4, <1>5

\* What the abstract cache sees of a goroutine that goes on.
LEMMA GotoView ==
    ASSUME IInv, NEW p \in Proc, NEW label \in Label,
           Goto(p, label), UNCHANGED <<payload, new>>,
           \A q \in Client : want'[q] = want[q],
           p \in Client => (label \in Inserting <=> pc[p] \in Inserting),
           p \in Client => (want[p] = Nil \/ (label \in Answering <=> pc[p] \in Answering)),
           \A q \in Client : pc[q] \in Answering => old'[q] = old[q]
    PROVE  contents' = contents /\ replies' = replies
<1> USE Goroutines DEF IInv
<1>1. pc' = [pc EXCEPT ![p] = label] /\ pc \in [Proc -> Label]
  BY DEF Goto, Types
<1>2. Private' = Private
  BY <1>1 DEF Private
<1>3. \A q \in Client : want[q] = Nil \/ (pc'[q] \in Answering <=> pc[q] \in Answering)
  BY <1>1
<1>4. replies' = replies
  BY <1>3 DEF replies
<1> QED BY <1>2, <1>4 DEF contents

\* What it sees of a goroutine whose call ends.
LEMMA FinishView ==
    ASSUME IInv, NEW p \in Proc, Finish(p), UNCHANGED payload,
           p \in Client => pc[p] \notin Storing
    PROVE  /\ contents' = contents
           /\ p \notin Client => replies' = replies
           /\ p \in Client => replies' = [replies EXCEPT ![p] = Nil]
<1> USE Goroutines DEF IInv
<1>1. /\ pc' = [pc EXCEPT ![p] = "idle"]
      /\ want' = [want EXCEPT ![p] = Nil]
      /\ new' = [new EXCEPT ![p] = Nil]
      /\ old' = [old EXCEPT ![p] = Nil]
  BY DEF Finish, Goto
<1>2. Private' = Private
  <2>1. ASSUME p \in Client PROVE new[p] = Nil \/ pc[p] \in Inserting
    BY <2>1 DEF Found
  <2>2. \A q \in Client \ {p} : new'[q] = new[q] /\ pc'[q] = pc[q]
    BY <1>1 DEF Types
  <2>3. new'[p] = Nil
    BY <1>1 DEF Types
  <2> QED BY <2>1, <2>2, <2>3, RingAssumption DEF Private
<1>3. contents' = contents
  BY <1>2 DEF contents
<1>4. /\ p \notin Client => replies' = replies
      /\ p \in Client => replies' = [replies EXCEPT ![p] = Nil]
  BY <1>1 DEF replies, Types
<1> QED BY <1>3, <1>4

-----------------------------------------------------------------------------
\* The steps of the abstract cache, in the terms of the mapping.
LEMMA Stutters ==
    ASSUME UNCHANGED <<items, contents, replies>>
    PROVE  [Cached!Next]_(Cached!vars)
BY DEF Cached!vars

LEMMA Answers ==
    ASSUME NEW p \in Client, replies' = [replies EXCEPT ![p] = Nil],
           UNCHANGED <<items, contents>>
    PROVE  [Cached!Next]_(Cached!vars)
<1>1. CASE replies[p] = Nil
  BY <1>1 DEF Cached!vars, replies
<1>2. CASE replies[p] # Nil
  BY <1>2 DEF Cached!Next, Cached!Answered
<1> QED BY <1>1, <1>2

LEMMA Forgets ==
    ASSUME NEW K \in SUBSET Key,
           items' = [k \in Key |-> IF k \in K THEN Nil ELSE items[k]],
           UNCHANGED <<contents, replies>>
    PROVE  [Cached!Next]_(Cached!vars)
BY DEF Cached!Next, Cached!Forget, Cached!Key, Key

LEMMA Renews ==
    ASSUME NEW e \in Elem, NEW c \in Content,
           contents[e] # Nil,
           SameIdentity(c.req, contents[e].req),
           contents' = [contents EXCEPT ![e] = c],
           UNCHANGED <<items, replies>>
    PROVE  [Cached!Next]_(Cached!vars)
BY DEF Cached!Next, Cached!Renew, Cached!Content, Content, Cached!SameIdentity, SameIdentity

LEMMA Inserts ==
    ASSUME NEW e \in Elem, NEW c \in Content,
           contents[e] = Nil,
           contents' = [contents EXCEPT ![e] = c],
           items' = [items EXCEPT ![KeyOf[c.req]] = e],
           UNCHANGED replies
    PROVE  [Cached!Next]_(Cached!vars)
BY DEF Cached!Next, Cached!Insert, Cached!Content, Content

LEMMA Hits ==
    ASSUME NEW p \in Client, NEW r \in Request,
           replies[p] = Nil, items[KeyOf[r]] # Nil,
           SameIdentity(contents[items[KeyOf[r]]].req, r),
           replies' = [replies EXCEPT ![p] = <<r, items[KeyOf[r]]>>],
           UNCHANGED <<items, contents>>
    PROVE  [Cached!Next]_(Cached!vars)
BY DEF Cached!Next, Cached!Hit, Cached!SameIdentity, SameIdentity

-----------------------------------------------------------------------------
\* A Get takes effect when it looks the entry up.
LEMMA GetRefines ==
    ASSUME IInv, NEW p \in Client, NEW r \in Request, Get(p, r)
    PROVE  [Cached!Next]_(Cached!vars)
<1> USE Goroutines DEF IInv
<1> DEFINE e == items[KeyOf[r]]
           hit == e # Nil /\ SamePrint(e, r)
<1>1. /\ pc[p] = "idle"
      /\ pc' = [pc EXCEPT ![p] = IF hit THEN "touch" ELSE "fetch"]
      /\ old' = [old EXCEPT ![p] = IF hit THEN e ELSE Nil]
      /\ want' = [want EXCEPT ![p] = r]
      /\ UNCHANGED <<items, payload, new>>
  BY DEF Get, Ready, Goto, maps, entries
<1>2. Private' = Private /\ contents' = contents
  <2>1. new[p] = Nil
    BY <1>1 DEF Found
  <2>2. Private' = Private
    BY <1>1, <2>1, RingAssumption DEF Private, Types
  <2> QED BY <1>1, <2>2 DEF contents
<1>3. replies[p] = Nil
  BY <1>1 DEF replies
<1>4. r # Nil /\ KeyOf[r] \in Key
  BY StorageAssumption DEF Key
<1>5. CASE hit
  <2>1. /\ e \in Elem /\ KeyOf[owner[e]] = KeyOf[r] /\ contents[e] = payload[e]
        /\ SameIdentity(payload[e].req, owner[e])
    BY <1>4, <1>5, MappedEntry, Unknown DEF contents
  <2>2. SameIdentity(contents[e].req, r)
    BY <1>5, <2>1 DEF SamePrint, SameIdentity
  <2>3. replies' = [replies EXCEPT ![p] = <<r, e>>]
    BY <1>1, <1>4, <1>5 DEF replies, Types
  <2> QED BY <1>1, <1>2, <1>3, <1>5, <2>2, <2>3, Hits
<1>6. CASE ~hit
  <2>1. replies' = replies
    BY <1>1, <1>6 DEF replies, Types
  <2> QED BY <1>1, <1>2, <2>1, Stutters
<1> QED BY <1>5, <1>6

\* A new entry is not seen before it is in the map.
LEMMA FetchedRefines ==
    ASSUME IInv, NEW p \in Client, NEW b \in Body, Fetched(p, b)
    PROVE  [Cached!Next]_(Cached!vars)
<1> USE Goroutines DEF IInv
<1> DEFINE e == CHOOSE x \in Elem : owner[x] = Nil
           c == [req |-> want[p], body |-> b]
<1>1. e \in Elem /\ owner[e] = Nil
  BY DEF Fetched, Entries
<1>2. /\ pc[p] = "fetch"
      /\ pc' = [pc EXCEPT ![p] = "set"]
      /\ payload' = [payload EXCEPT ![e] = c]
      /\ new' = [new EXCEPT ![p] = e]
      /\ want' = [want EXCEPT ![p] = Nil]
      /\ UNCHANGED <<items, old>>
  BY DEF Fetched, Step, Ready, Goto, maps
<1> HIDE DEF e, c
<1>3. /\ e \notin Private /\ payload[e] = Nil
      /\ new[p] = Nil
  BY <1>1, <1>2, RingAssumption DEF Private, Alive, Sound, Found
<1>4. Private' = Private \cup {e}
  BY <1>1, <1>2, <1>3, RingAssumption DEF Private, Types
<1>5. contents' = contents
  BY <1>1, <1>2, <1>3, <1>4 DEF contents, Types
<1>6. replies' = replies
  BY <1>2 DEF replies, Types
<1> QED BY <1>2, <1>5, <1>6, Stutters

\* Neither is it when it is discarded.
LEMMA DiscardView ==
    ASSUME IInv, NEW p \in Client, pc[p] \in Storing,
           Private' = Private \ {new[p]},
           payload' = [payload EXCEPT ![new[p]] = Nil]
    PROVE  contents' = contents
BY NewEntry, Unknown DEF contents, IInv, Types

LEMMA SetFoundRefines ==
    ASSUME IInv, NEW p \in Client, SetFound(p)
    PROVE  [Cached!Next]_(Cached!vars)
<1> USE Goroutines DEF IInv
<1> DEFINE e == items[KeyOfEntry(new[p])]
<1>1. /\ pc[p] = "set" /\ want[p] = Nil
      /\ old' = [old EXCEPT ![p] = e]
      /\ UNCHANGED <<items, want>>
  BY DEF SetFound, Ready, maps, Found
<1> HIDE DEF e
<1>2. new[p] \in Elem /\ \A q \in Client \ {p} : new[q] # new[p]
  BY <1>1, NewEntry DEF Hidden
<1>3. CASE Goto(p, "touch") /\ Discard(p) /\ new' = [new EXCEPT ![p] = Nil]
  <2>1. /\ pc' = [pc EXCEPT ![p] = "touch"]
        /\ payload' = [payload EXCEPT ![new[p]] = Nil]
    BY <1>3 DEF Goto, Discard
  <2>2. Private' = Private \ {new[p]}
    BY <1>1, <1>2, <1>3, <2>1, RingAssumption DEF Private, Types
  <2>3. contents' = contents
    BY <1>1, <2>1, <2>2, DiscardView
  <2>4. replies' = replies
    BY <1>1, <2>1 DEF replies, Types
  <2> QED BY <1>1, <2>3, <2>4, Stutters
<1>4. CASE Goto(p, "swap") /\ UNCHANGED <<entries, new>>
  <2>1. Goto(p, "swap") /\ UNCHANGED <<payload, new>>
    BY <1>4 DEF entries
  <2>2. \A q \in Client : pc[q] \in Answering => old'[q] = old[q]
    BY <1>1 DEF Types
  <2>3. contents' = contents /\ replies' = replies
    BY <1>1, <2>1, <2>2, GotoView DEF Label
  <2> QED BY <1>1, <2>3, Stutters
<1> QED BY <1>3, <1>4 DEF SetFound

\* An update in place renews the entry for the identity it has.
LEMMA SwapRefines ==
    ASSUME IInv, NEW p \in Client, Swap(p)
    PROVE  [Cached!Next]_(Cached!vars)
<1> USE Goroutines DEF IInv
<1>1. /\ pc[p] = "swap" /\ want[p] = Nil /\ old[p] # Nil
      /\ SameIdentity(owner[old[p]], owner[new[p]])
      /\ pc' = [pc EXCEPT ![p] = "touch"]
      /\ payload' = [payload EXCEPT ![old[p]] = payload[new[p]], ![new[p]] = Nil]
      /\ new' = [new EXCEPT ![p] = Nil]
      /\ UNCHANGED <<items, want, old>>
  BY DEF Swap, Step, Ready, Goto, maps, Found
<1>2. /\ new[p] \in Elem /\ payload[new[p]] \in Content
      /\ SameIdentity(payload[new[p]].req, owner[new[p]])
      /\ old[p] \in Elem /\ payload[old[p]] \in Content
      /\ SameIdentity(payload[old[p]].req, owner[old[p]])
  BY <1>1, NewEntry, OldEntry
<1>3. /\ new[p] \in Private /\ old[p] \notin Private
      /\ \A q \in Client \ {p} : new[q] # new[p]
  BY <1>1, Unknown DEF Hidden
<1>4. Private' = Private \ {new[p]}
  BY <1>1, <1>2, <1>3, RingAssumption DEF Private, Types
<1>5. contents' = [contents EXCEPT ![old[p]] = payload[new[p]]]
  BY <1>1, <1>2, <1>3, <1>4 DEF contents, Types
<1>6. contents[old[p]] = payload[old[p]] /\ contents[old[p]] # Nil
  BY <1>2, <1>3, StorageAssumption DEF contents
<1>7. SameIdentity(payload[new[p]].req, contents[old[p]].req)
  BY <1>1, <1>2, <1>6 DEF SameIdentity
<1>8. replies' = replies
  BY <1>1 DEF replies, Types
<1> QED BY <1>1, <1>2, <1>5, <1>6, <1>7, <1>8, Renews

LEMMA RejectRefines ==
    ASSUME IInv, NEW p \in Client, Reject(p)
    PROVE  [Cached!Next]_(Cached!vars)
<1> USE Goroutines DEF IInv
<1>1. /\ pc[p] = "admit"
      /\ pc' = [pc EXCEPT ![p] = "idle"]
      /\ payload' = [payload EXCEPT ![new[p]] = Nil]
      /\ new' = [new EXCEPT ![p] = Nil]
      /\ want' = [want EXCEPT ![p] = Nil]
      /\ old' = [old EXCEPT ![p] = Nil]
      /\ UNCHANGED items
  BY DEF Reject, Ready, Discard, Finish, Goto, maps
<1>2. new[p] \in Elem /\ \A q \in Client \ {p} : new[q] # new[p]
  BY <1>1, NewEntry DEF Hidden
<1>3. Private' = Private \ {new[p]}
  BY <1>1, <1>2, RingAssumption DEF Private, Types
<1>4. contents' = contents
  BY <1>1, <1>3, DiscardView
<1>5. replies' = replies
  BY <1>1 DEF replies, Types
<1> QED BY <1>1, <1>4, <1>5, Stutters

\* An insertion takes effect when the entry is put into the map.
LEMMA StoreRefines ==
    ASSUME IInv, NEW p \in Client, Store(p)
    PROVE  [Cached!Next]_(Cached!vars)
<1> USE Goroutines DEF IInv
<1> DEFINE k == KeyOfEntry(new[p])
           label == IF items[k] = Nil THEN "addLen" ELSE "addMem"
<1>1. /\ pc[p] = "store"
      /\ items' = [items EXCEPT ![k] = new[p]]
      /\ old' = [old EXCEPT ![p] = items[k]]
      /\ pc' = [pc EXCEPT ![p] = label]
      /\ UNCHANGED <<payload, want, new>>
  BY DEF Store, Ready, Goto, entries
<1>2. /\ new[p] \in Elem /\ payload[new[p]] \in Content
      /\ k = KeyOf[payload[new[p]].req]
  BY <1>1, NewEntry DEF KeyOfEntry, SameIdentity
<1>3. new[p] \in Private /\ \A q \in Client \ {p} : new[q] # new[p]
  BY <1>1, Unknown DEF Hidden
<1> HIDE DEF k
<1>4. Private' = Private \ {new[p]}
  BY <1>1, <1>3 DEF Private, Types
<1>5. contents[new[p]] = Nil /\ contents' = [contents EXCEPT ![new[p]] = payload[new[p]]]
  BY <1>1, <1>2, <1>3, <1>4 DEF contents, Types
<1>6. replies' = replies
  BY <1>1 DEF replies, Types
<1> QED BY <1>1, <1>2, <1>5, <1>6, Inserts

\* A removal takes effect when the map forgets the key.
LEMMA DropRefines ==
    ASSUME IInv, NEW p \in Client \cup {Evictor}, Drop(p)
    PROVE  [Cached!Next]_(Cached!vars)
<1> USE Goroutines DEF IInv
<1> DEFINE k == KeyOfEntry(old[p])
<1>1. PICK label \in Label : Goto(p, label) /\ label \in {"subLen", "evict", "admit"}
  BY DEF Drop, Label, AfterRemove
<1>2. /\ pc[p] = "drop"
      /\ items' = [items EXCEPT ![k] = Nil]
      /\ \A q \in Proc \ {p} : old'[q] = old[q]
      /\ UNCHANGED <<payload, want, new>>
  BY DEF Drop, Ready, entries, Types
<1>3. contents' = contents /\ replies' = replies
  BY <1>1, <1>2, GotoView
<1> HIDE DEF k
<1>4. items' = [x \in Key |-> IF x \in {k} \cap Key THEN Nil ELSE items[x]]
  BY <1>2 DEF Types
<1> QED BY <1>3, <1>4, Forgets

LEMMA EvictRefines == ASSUME IInv, Evict PROVE [Cached!Next]_(Cached!vars)
<1> USE Goroutines DEF IInv
<1>1. PICK e : old' = [old EXCEPT ![Evictor] = e]
  BY DEF Evict
<1>2. Goto(Evictor, "unlistCheck") /\ UNCHANGED <<items, payload, want, new>>
  BY DEF Evict, Step, maps, entries
<1>3. \A q \in Client : old'[q] = old[q]
  BY <1>1 DEF Types
<1>4. contents' = contents /\ replies' = replies
  BY <1>2, <1>3, GotoView DEF Label
<1> QED BY <1>2, <1>4, Stutters

LEMMA SampleRefines == ASSUME IInv, Sample \/ Unpack PROVE [Cached!Next]_(Cached!vars)
<1> USE Goroutines DEF IInv
<1>1. PICK label \in {"refresh", "await"} :
         Goto(Refresher, label) /\ UNCHANGED <<items, payload, new>>
  BY DEF Sample, Unpack, Step, maps, entries
<1>2. \A q \in Client : old'[q] = old[q] /\ want'[q] = want[q]
  BY DEF Sample, Unpack, Types
<1>3. contents' = contents /\ replies' = replies
  BY <1>1, <1>2, GotoView DEF Label
<1> QED BY <1>1, <1>3, Stutters

\* A refresh renews the entry, cached or not, for the identity it has.
LEMMA RefreshedRefines ==
    ASSUME IInv, NEW b \in Body, Refreshed(b)
    PROVE  [Cached!Next]_(Cached!vars)
<1> USE Goroutines DEF IInv
<1> DEFINE e == old[Refresher]
           c == [req |-> want[Refresher], body |-> b]
<1>1. /\ pc[Refresher] = "await"
      /\ payload' = [payload EXCEPT ![e] = c]
      /\ pc' = [pc EXCEPT ![Refresher] = "idle"]
      /\ want' = [want EXCEPT ![Refresher] = Nil]
      /\ new' = [new EXCEPT ![Refresher] = Nil]
      /\ old' = [old EXCEPT ![Refresher] = Nil]
      /\ UNCHANGED items
  BY DEF Refreshed, Ready, Finish, Goto, maps
<1>2. /\ e \in Elem /\ e \notin Private /\ payload[e] \in Content
      /\ SameIdentity(payload[e].req, owner[e])
      /\ c \in Content /\ SameIdentity(c.req, owner[e])
  BY <1>1, OldEntry, Unknown DEF Types, Refreshing, Content
<1> HIDE DEF e, c
<1>3. Private' = Private
  BY <1>1 DEF Private
<1>4. /\ contents[e] = payload[e] /\ contents[e] # Nil
      /\ contents' = [contents EXCEPT ![e] = c]
  <2>1. contents[e] = payload[e] /\ payload[e] # Nil
    BY <1>2, StorageAssumption DEF contents
  <2>2. contents' = [contents EXCEPT ![e] = c]
    BY <1>1, <1>2, <1>3 DEF contents, Types
  <2> QED BY <2>1, <2>2
<1>5. SameIdentity(c.req, contents[e].req)
  BY <1>2, <1>4 DEF SameIdentity
<1>6. replies' = replies
  BY <1>1 DEF replies
<1> QED BY <1>1, <1>2, <1>4, <1>5, <1>6, Renews

LEMMA ClearShardRefines ==
    ASSUME IInv, NEW s \in Shard, ClearShard(s)
    PROVE  [Cached!Next]_(Cached!vars)
<1>1. /\ items' = [k \in Key |-> IF k \in {x \in Key : ShardOf(x) = s} THEN Nil ELSE items[k]]
      /\ UNCHANGED <<payload, pc, want, new, old>>
  BY DEF ClearShard, entries, calls
<1>2. contents' = contents /\ replies' = replies
  BY <1>1 DEF contents, replies, Private
<1> QED BY <1>1, <1>2, Forgets

-----------------------------------------------------------------------------
\* The steps that the abstract cache does not have.
LEMMA Continues ==
    ASSUME IInv, NEW p \in Client \cup {Evictor}, NEW label \in Label,
           Goto(p, label), UNCHANGED <<items, payload, want, new>>,
           p \in Client => (label \in Inserting <=> pc[p] \in Inserting),
           p \in Client => (label \in Answering <=> pc[p] \in Answering),
           \A q \in Client : pc[q] \in Answering => old'[q] = old[q]
    PROVE  [Cached!Next]_(Cached!vars)
<1>1. contents' = contents /\ replies' = replies
  BY Goroutines, GotoView
<1> QED BY <1>1, Stutters

\* The end of a call, which answers the request if it had found an entry.
LEMMA Ends ==
    ASSUME IInv, NEW p \in Proc, Finish(p), UNCHANGED <<items, payload>>,
           p \in Client => pc[p] \notin Storing
    PROVE  [Cached!Next]_(Cached!vars)
<1>1. /\ contents' = contents
      /\ p \notin Client => replies' = replies
      /\ p \in Client => replies' = [replies EXCEPT ![p] = Nil]
  BY FinishView
<1>2. CASE p \in Client
  BY <1>1, <1>2, Answers
<1>3. CASE p \notin Client
  BY <1>1, <1>3, Stutters
<1> QED BY <1>2, <1>3

LEMMA AfterTouchRefines ==
    ASSUME IInv, NEW p \in Client, pc[p] \in {"touch", "move"},
           AfterTouch(p), UNCHANGED <<items, payload>>
    PROVE  [Cached!Next]_(Cached!vars)
<1>1. CASE want[p] # Nil
  <2>1. Goto(p, "serve") /\ UNCHANGED <<want, new, old>>
    BY <1>1 DEF AfterTouch, calls
  <2> QED BY <2>1, Continues DEF Label
<1>2. CASE want[p] = Nil
  BY <1>2, Ends, Goroutines DEF AfterTouch
<1> QED BY <1>1, <1>2

LEMMA WorkingRefines ==
    ASSUME IInv, NEW p \in Client, Working(p) PROVE [Cached!Next]_(Cached!vars)
<1> USE Goroutines
<1>1. CASE TouchSkips(p)
  BY <1>1, AfterTouchRefines DEF TouchSkips, Ready, maps, entries
<1>2. CASE Touch(p)
  BY <1>2, Continues DEF Touch, Step, Ready, maps, entries, calls, Label
<1>3. CASE Move(p)
  BY <1>3, AfterTouchRefines DEF Move, Ready, maps, entries
<1>4. CASE Serve(p)
  BY <1>4, Ends DEF Serve, Ready, maps, entries
<1>5. CASE SetFound(p)
  BY <1>5, SetFoundRefines
<1>6. CASE SetCollides(p)
  <2>1. /\ pc[p] = "set" /\ Goto(p, "unlistCheck")
        /\ \A q \in Client \ {p} : old'[q] = old[q]
        /\ UNCHANGED <<items, payload, want, new>>
    BY <1>6 DEF SetCollides, Step, Ready, maps, entries, IInv, Types
  <2> QED BY <2>1, Continues DEF Label
<1>7. CASE SetMisses(p)
  BY <1>7, Continues DEF SetMisses, Step, Ready, maps, entries, calls, Label
<1>8. CASE Swap(p)
  BY <1>8, SwapRefines
<1>9. CASE Admit(p)
  BY <1>9, Continues DEF Admit, Step, Ready, maps, entries, calls, Label
<1>10. CASE Reject(p)
  BY <1>10, RejectRefines
<1>11. CASE Store(p)
  BY <1>11, StoreRefines
<1>12. CASE AddLen(p)
  BY <1>12, Continues DEF AddLen, Step, Ready, entries, calls, Label
<1>13. CASE AddMem(p)
  <2>1. /\ pc[p] = "addMem" /\ Goto(p, "push")
        /\ \A q \in Client \ {p} : old'[q] = old[q]
        /\ UNCHANGED <<items, payload, want, new>>
    BY <1>13 DEF AddMem, Step, Ready, entries, IInv, Types
  <2> QED BY <2>1, Continues DEF Label
<1>14. CASE Push(p)
  BY <1>14, Continues DEF Push, Step, Ready, maps, entries, calls, Label
<1>15. CASE SetElem(p)
  BY <1>15, Ends DEF SetElem, Ready, maps
<1> QED BY <1>1, <1>2, <1>3, <1>4, <1>5, <1>6, <1>7, <1>8, <1>9, <1>10, <1>11, <1>12,
           <1>13, <1>14, <1>15 DEF Working

LEMMA RemovingRefines ==
    ASSUME IInv, NEW p \in Client \cup {Evictor}, Removing(p)
    PROVE  [Cached!Next]_(Cached!vars)
<1>1. CASE UnlistCheck(p)
  <2>1. PICK label \in {"unlist", "drop"} : Goto(p, label)
    BY <1>1 DEF UnlistCheck
  <2> QED BY <1>1, <2>1, Continues DEF UnlistCheck, Ready, maps, entries, calls, Label
<1>2. CASE Unlist(p)
  BY <1>2, Continues DEF Unlist, Step, Ready, maps, entries, calls, Label
<1>3. CASE Drop(p)
  BY <1>3, DropRefines
<1>4. CASE SubLen(p)
  BY <1>4, Continues DEF SubLen, Step, Ready, entries, calls, Label
<1>5. CASE SubMem(p)
  <2>1. /\ pc[p] = "subMem" /\ Goto(p, AfterRemove(p))
        /\ \A q \in Client \ {p} : old'[q] = old[q]
        /\ UNCHANGED <<items, payload, want, new>>
    BY <1>5, Goroutines DEF SubMem, Step, Ready, entries, IInv, Types
  <2>2. AfterRemove(p) \in {"evict", "admit"} /\ AfterRemove(p) \in Label
    BY DEF AfterRemove, Label
  <2> QED BY <2>1, <2>2, Continues
<1> QED BY <1>1, <1>2, <1>3, <1>4, <1>5 DEF Removing

LEMMA EvictorRefines == ASSUME IInv, EvictorStep PROVE [Cached!Next]_(Cached!vars)
<1> USE Goroutines
<1>1. ASSUME NEW label \in {"pick", "evict", "next"}, Goto(Evictor, label),
             UNCHANGED <<items, payload, want, new, old>>
      PROVE  [Cached!Next]_(Cached!vars)
  BY <1>1, Continues DEF Label
<1>2. CASE Tick
  BY <1>1, <1>2 DEF Tick, Step, maps, entries, calls
<1>3. CASE WithinLimit
  BY <1>3, Ends DEF WithinLimit, maps, entries
<1>4. CASE Pick
  BY <1>1, <1>4 DEF Pick, maps, entries, calls
<1>5. CASE GoOn
  BY <1>1, <1>5 DEF GoOn, Step, maps, entries, calls
<1>6. CASE Evict
  BY <1>6, EvictRefines
<1>7. CASE EndOfList
  BY <1>1, <1>7 DEF EndOfList, Step, maps, entries, calls
<1> QED BY <1>2, <1>3, <1>4, <1>5, <1>6, <1>7 DEF EvictorStep

-----------------------------------------------------------------------------
\* Before the first call nothing is cached and nothing is answered.
LEMMA InitRefines == Init => Cached!Init
<1> SUFFICES ASSUME Init PROVE Cached!Init
  OBVIOUS
<1>1. items = [k \in Cached!Key |-> Nil]
  BY DEF Init, Key, Cached!Key
<1>2. contents = [e \in Elem |-> Nil]
  BY DEF Init, contents
<1>3. replies = [p \in Client |-> Nil]
  BY Goroutines DEF Init, replies
<1> QED BY <1>1, <1>2, <1>3 DEF Cached!Init

\* Every step is a step of the abstract cache, or none of it.
LEMMA NextRefines == IInv /\ [Next]_vars => [Cached!Next]_(Cached!vars)
<1> SUFFICES ASSUME IInv, [Next]_vars PROVE [Cached!Next]_(Cached!vars)
  OBVIOUS
<1>1. ASSUME NEW p \in Client, ClientStep(p) PROVE [Cached!Next]_(Cached!vars)
  <2>1. ASSUME NEW r \in Request, Get(p, r) PROVE [Cached!Next]_(Cached!vars)
    BY <2>1, GetRefines
  <2>2. ASSUME NEW b \in Body, Fetched(p, b) PROVE [Cached!Next]_(Cached!vars)
    BY <2>2, FetchedRefines
  <2>3. CASE FetchFails(p)
    BY <2>3, Ends, Goroutines DEF FetchFails, Ready, maps, entries
  <2> QED BY <1>1, <2>1, <2>2, <2>3, WorkingRefines, RemovingRefines DEF ClientStep
<1>2. CASE EvictorStep \/ Removing(Evictor)
  BY <1>2, EvictorRefines, RemovingRefines
<1>3. CASE RefresherStep
  <2>1. ASSUME NEW b \in Body, Refreshed(b) PROVE [Cached!Next]_(Cached!vars)
    BY <2>1, RefreshedRefines
  <2>2. CASE RefreshFails
    BY <2>2, Ends, StorageAssumption DEF RefreshFails, maps, entries, Proc
  <2> QED BY <1>3, <2>1, <2>2, SampleRefines DEF RefresherStep
<1>4. CASE RefreshMem \/ Clear \/ UNCHANGED vars
  <2>1. UNCHANGED <<items, payload, pc, want, new, old>>
    BY <1>4 DEF RefreshMem, Clear, vars, maps, entries, calls
  <2>2. contents' = contents /\ replies' = replies
    BY <2>1 DEF contents, replies, Private
  <2> QED BY <2>1, <2>2, Stutters
<1>5. ASSUME NEW s \in Shard, ClearShard(s) PROVE [Cached!Next]_(Cached!vars)
  BY <1>5, ClearShardRefines
<1> QED BY <1>1, <1>2, <1>3, <1>4, <1>5 DEF Next

\* To the handlers the storage is the abstract cache: an entry is cached once,
\* under the key of its request, is renewed only for its own key and
\* fingerprint, and a hit is what the map held at one moment of the Get, in
\* spite of every interleaving of handlers, evictor, refresher and Clear
\* (pkg/storage/storage.go, pkg/storage/map/shard.go, refresher.go).
THEOREM ImplementsCacheHolds == Spec => ImplementsCache
<1>1. Init => IInv
  BY InitIInv
<1>2. IInv /\ [Next]_vars => IInv'
  BY NextIInv
<1>3. Init => Cached!Init
  BY InitRefines
<1>4. IInv /\ [Next]_vars => [Cached!Next]_(Cached!vars)
  BY NextRefines
<1> QED BY <1>1, <1>2, <1>3, <1>4, PTL DEF Spec, ImplementsCache, Cached!Spec
=============================================================================
