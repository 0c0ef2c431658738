---------------------------- MODULE StorageLists ----------------------------
(***************************************************************************)
(* The LRU lists of Storage.  First what holds of them however the         *)
(* handlers, the evictor, the refresher and Clear interleave, also when    *)
(* entries are moved or removed twice and a list falls apart: no step      *)
(* follows a nil pointer, and what is found through a list is an entry of  *)
(* its shard.  Then, for the workloads in which each list has one remover  *)
(* at most, that every list stays one closed ring, that it reaches what    *)
(* the map holds, and that nobody dereferences the root's value.           *)
(***************************************************************************)
EXTENDS StorageProofs, RingProofs, FiniteSetTheorems

Removal == {"unlistCheck", "unlist", "drop", "subLen", "subMem"}

\* The map has the entry already, its list has it not yet.
Waiting == {"addLen", "addMem", "push"}

\* Who may be at which step.
Roles ==
    /\ \A p \in Client : pc[p] \notin {"pick", "evict", "next", "refresh", "await"}
    /\ pc[Evictor] \in {"idle", "pick", "evict", "next"} \cup Removal
    /\ pc[Refresher] \in {"idle", "refresh", "await"}

Chained == ring \in [Shard -> RingType] /\ \A s \in Shard : Closed(ring[s])

InList(e) == e \in Linked(ring[ShardOfEntry(e)])

InNoList(e) == \A s \in Shard : e \notin Linked(ring[s])

\* A list links entries of its own shard, and every entry that has an element.
Placed ==
    /\ \A s \in Shard, e \in Elem :
           e \in Linked(ring[s]) => owner[e] # Nil /\ ShardOfEntry(e) = s
    /\ listed \in [Elem -> BOOLEAN]
    /\ \A e \in Elem : listed[e] => owner[e] # Nil /\ InList(e)

\* An entry is pushed once, by the goroutine that made it.
PushedOnce ==
    \A p \in Client :
        /\ new[p] # Nil => \A q \in Client \ {p} : new[q] # new[p]
        /\ pc[p] \in Storing \cup Waiting => InNoList(new[p])
        /\ pc[p] = "setElem" => InList(new[p])

\* What is moved or removed was found on a list, unless the process ended.
TakenFromList ==
    /\ \A p \in Client : pc[p] \in Removal => old[p] # Nil
    /\ old[Evictor] \in Elem \cup {Nil}
    /\ pc[Evictor] \in Removal /\ ~crashed =>
           old[Evictor] # Nil /\ owner[old[Evictor]] # Nil /\ InList(old[Evictor])
    /\ \A p \in Proc : pc[p] \in {"move", "unlist"} /\ ~crashed => listed[old[p]]

\* The evictor's scan stays within the shards.
Scanning ==
    /\ load \in [1..TotalShards -> Shard]
    /\ scan \in [shardOffset : 0..(Fat - 1), offset : Nat, shard : Shard]

Lists == Roles /\ Chained /\ Placed /\ PushedOnce /\ TakenFromList /\ Scanning

USE DEF Storing, Inserting, Answering, Removal, Waiting

-----------------------------------------------------------------------------
LEMMA InitLists == Init => Lists
<1> SUFFICES ASSUME Init PROVE Lists
  OBVIOUS
<1>1. Chained /\ \A s \in Shard : Linked(ring[s]) = {Root}
  BY EmptyCloses, EmptyRingHoldsNothing DEF Init, Chained
<1>2. Roles
  BY Goroutines DEF Init, Roles
<1>3. Placed
  BY <1>1, RingAssumption DEF Init, Placed
<1>4. PushedOnce /\ TakenFromList
  BY Goroutines DEF Init, PushedOnce, TakenFromList
<1>5. Scanning
  <2>1. 0 \in Shard /\ 0 \in 0..(Fat - 1)
    BY StorageAssumption DEF Shard
  <2> QED BY <2>1 DEF Init, Orders, Scanning
<1> QED BY <1>1, <1>2, <1>3, <1>4, <1>5 DEF Lists

\* Entries live in a shard of the map.
LEMMA Home ==
    ASSUME IInv, NEW e \in Elem, owner[e] # Nil
    PROVE  /\ ShardOfEntry(e) \in Shard /\ KeyOfEntry(e) \in Key
           /\ ShardOfEntry(e) = ShardOf(KeyOfEntry(e))
<1>1. owner[e] \in Request
  BY DEF IInv, Types
<1>2. KeyOf[owner[e]] \in Nat /\ TotalShards \in Nat \ {0}
  BY <1>1, StorageAssumption
<1>3. KeyOf[owner[e]] % TotalShards \in 0..(TotalShards - 1)
  BY <1>2
<1> QED BY <1>1, <1>3 DEF ShardOfEntry, KeyOfEntry, ShardOf, Shard, Key

\* A step of p that links nothing: it goes on to `label', working on x and y.
LEMMA LocalLists ==
    ASSUME IInv, Lists, NEW p \in Proc, NEW label \in Label, NEW x \in Elem \cup {Nil}, NEW y,
           pc' = [pc EXCEPT ![p] = label],
           new' = [new EXCEPT ![p] = x],
           old' = [old EXCEPT ![p] = y],
           listed' = listed, crashed => crashed', Scanning',
           Chained', \A s \in Shard : Linked(ring'[s]) = Linked(ring[s]),
           \A e \in Elem : owner'[e] = owner[e] \/ InNoList(e),
           p \in Client =>
               /\ label \notin {"pick", "evict", "next", "refresh", "await", "setElem"}
               /\ x # Nil => \A q \in Client \ {p} : new[q] # x
               /\ label \in Storing \cup Waiting => InNoList(x)
               /\ label \in Removal => y # Nil,
           p = Evictor =>
               /\ label \in {"idle", "pick", "evict", "next"} \cup Removal
               /\ y \in Elem \cup {Nil}
               /\ label \in Removal /\ ~crashed' => y # Nil /\ owner[y] # Nil /\ InList(y),
           p = Refresher => label \in {"idle", "refresh", "await"},
           label \in {"move", "unlist"} /\ ~crashed' => listed[y]
    PROVE  Lists'
<1> USE Goroutines DEF Lists
<1>1. /\ pc \in [Proc -> Label] /\ new \in [Proc -> Elem \cup {Nil}]
      /\ old = [q \in Proc |-> old[q]]
  BY DEF IInv, Types
<1>2. /\ pc'[p] = label /\ new'[p] = x /\ old'[p] = y
      /\ \A q \in Proc \ {p} : pc'[q] = pc[q] /\ new'[q] = new[q] /\ old'[q] = old[q]
  BY <1>1
<1>3. \A e : InNoList(e)' <=> InNoList(e)
  BY DEF InNoList
<1>4. ASSUME NEW e \in Elem, owner[e] # Nil, InList(e)
      PROVE  owner'[e] = owner[e] /\ ShardOfEntry(e)' = ShardOfEntry(e) /\ InList(e)'
  <2>1. ShardOfEntry(e) \in Shard
    BY <1>4, Home
  <2>2. owner'[e] = owner[e]
    BY <1>4, <2>1 DEF InNoList, InList
  <2>3. ShardOfEntry(e)' = ShardOfEntry(e)
    BY <2>2 DEF ShardOfEntry, KeyOfEntry
  <2> QED BY <1>4, <2>1, <2>2, <2>3 DEF InList
<1>5. Roles'
  BY <1>2 DEF Roles
<1>6. Placed'
  <2>1. ASSUME NEW s \in Shard, NEW e \in Elem, e \in Linked(ring'[s])
        PROVE  owner'[e] # Nil /\ ShardOfEntry(e)' = s
    <3>1. owner[e] # Nil /\ ShardOfEntry(e) = s /\ InList(e)
      BY <2>1 DEF Placed, InList
    <3> QED BY <1>4, <3>1
  <2>2. listed' \in [Elem -> BOOLEAN]
    BY DEF Placed
  <2>3. \A e \in Elem : listed'[e] => owner'[e] # Nil /\ InList(e)'
    BY <1>4 DEF Placed
  <2> QED BY <2>1, <2>2, <2>3 DEF Placed
<1>7. PushedOnce'
  <2>1. ASSUME NEW q \in Client, new'[q] # Nil PROVE \A o \in Client \ {q} : new'[o] # new'[q]
    BY <1>2, <2>1 DEF PushedOnce
  <2>2. ASSUME NEW q \in Client, pc'[q] \in Storing \cup Waiting PROVE InNoList(new[q])'
    BY <1>2, <2>2 DEF PushedOnce, InNoList
  <2>3. ASSUME NEW q \in Client, pc'[q] = "setElem" PROVE InList(new[q])'
    <3>1. q # p /\ pc[q] = "setElem" /\ new'[q] = new[q]
      BY <1>2, <2>3
    <3>2. PICK e \in Elem : e = new[q] /\ owner[e] # Nil /\ InList(e)
      BY <1>1, <3>1 DEF PushedOnce, IInv, Found, Alive
    <3>3. new'[q] = e /\ InList(e)'
      BY <1>4, <3>1, <3>2
    <3> QED BY <3>3 DEF InList, ShardOfEntry, KeyOfEntry
  <2> HIDE DEF Lists
  <2> QED BY <2>1, <2>2, <2>3 DEF PushedOnce
<1>8. TakenFromList'
  <2>1. \A q \in Client : pc'[q] \in Removal => old'[q] # Nil
    BY <1>2 DEF TakenFromList
  <2>2. old'[Evictor] \in Elem \cup {Nil}
    BY <1>2 DEF TakenFromList
  <2>3. ASSUME pc'[Evictor] \in Removal, ~crashed'
        PROVE  old'[Evictor] # Nil /\ owner'[old'[Evictor]] # Nil /\ InList(old[Evictor])'
    <3>1. PICK e \in Elem : e = old'[Evictor] /\ owner[e] # Nil /\ InList(e)
      BY <1>2, <2>2, <2>3 DEF TakenFromList
    <3>2. e # Nil /\ owner'[e] # Nil /\ InList(e)'
      BY <1>4, <3>1, RingAssumption
    <3> QED BY <3>1, <3>2 DEF InList, ShardOfEntry, KeyOfEntry
  <2>4. ASSUME NEW q \in Proc, pc'[q] \in {"move", "unlist"}, ~crashed' PROVE listed'[old'[q]]
    BY <1>2, <2>4 DEF TakenFromList
  <2> HIDE DEF Lists
  <2> QED BY <2>1, <2>2, <2>3, <2>4 DEF TakenFromList
<1> QED BY <1>5, <1>6, <1>7, <1>8

\* Steps that touch nothing of this.
LEMMA SameLists ==
    ASSUME Lists, UNCHANGED <<ring, owner, listed, pc, new, old, load, scan, crashed>>
    PROVE  Lists'
<1> USE DEF Lists
<1>1. Roles' /\ Scanning'
  BY DEF Roles, Scanning
<1>2. Chained' /\ Placed'
  BY DEF Chained, Placed, InList, ShardOfEntry, KeyOfEntry
<1>3. PushedOnce' /\ TakenFromList'
  BY DEF PushedOnce, TakenFromList, InList, InNoList, ShardOfEntry, KeyOfEntry
<1> QED BY <1>1, <1>2, <1>3

\* A goroutine goes on with the entries it has.
LEMMA GotoLists ==
    ASSUME IInv, Lists, NEW p \in Proc, NEW label \in Label, Goto(p, label),
           UNCHANGED <<listed, owner, new, old>>, Scanning', crashed => crashed',
           Chained', \A s \in Shard : Linked(ring'[s]) = Linked(ring[s]),
           p \in Client =>
               /\ label \notin {"pick", "evict", "next", "refresh", "await", "setElem"}
               /\ label \in Storing \cup Waiting => pc[p] \in Storing \cup Waiting
               /\ label \in Removal => pc[p] \in Removal,
           p = Evictor => /\ label \in {"idle", "pick", "evict", "next"} \cup Removal
                          /\ label \in Removal => pc[p] \in Removal,
           p = Refresher => label \in {"idle", "refresh", "await"},
           label \in {"move", "unlist"} => listed[old[p]]
    PROVE  Lists'
<1>1. PICK x, y : x = new[p] /\ y = old[p]
  OBVIOUS
<1>2. /\ pc' = [pc EXCEPT ![p] = label]
      /\ new' = [new EXCEPT ![p] = x] /\ x \in Elem \cup {Nil}
      /\ old' = [old EXCEPT ![p] = y]
  BY <1>1 DEF Goto, IInv, Types
<1>3. label \in {"move", "unlist"} /\ ~crashed' => listed[y]
  BY <1>1
<1>4. \A e \in Elem : owner'[e] = owner[e]
  OBVIOUS
<1>5. CASE p \in Client
  <2>1. /\ x # Nil => \A q \in Client \ {p} : new[q] # x
        /\ pc[p] \in Storing \cup Waiting => InNoList(x)
        /\ pc[p] \in Removal => y # Nil
    BY <1>1, <1>5 DEF Lists, PushedOnce, TakenFromList
  <2> HIDE DEF Storing, Removal, Waiting
  <2> QED BY <1>2, <1>3, <1>4, <1>5, <2>1, LocalLists, Goroutines
<1>6. CASE p = Evictor
  <2>1. /\ y \in Elem \cup {Nil}
        /\ pc[p] \in Removal /\ ~crashed => y # Nil /\ owner[y] # Nil /\ InList(y)
    BY <1>1, <1>6 DEF Lists, TakenFromList
  <2>2. label \in Removal /\ ~crashed' => y # Nil /\ owner[y] # Nil /\ InList(y)
    BY <1>6, <2>1
  <2> HIDE DEF Storing, Removal, Waiting
  <2> QED BY <1>2, <1>3, <1>4, <1>6, <2>1, <2>2, LocalLists, Goroutines
<1>7. CASE p = Refresher
  <2>1. label \in {"idle", "refresh", "await"}
    BY <1>7
  <2> HIDE DEF Storing, Removal, Waiting
  <2> QED BY <1>2, <1>3, <1>4, <1>7, <2>1, LocalLists, Goroutines
<1> QED BY <1>5, <1>6, <1>7 DEF Proc

\* The call of p ends.
LEMMA FinishLists ==
    ASSUME IInv, Lists, NEW p \in Proc, Finish(p),
           UNCHANGED <<listed, load, scan, crashed>>,
           Chained', \A s \in Shard : Linked(ring'[s]) = Linked(ring[s]),
           \A e \in Elem : owner'[e] = owner[e] \/ InNoList(e)
    PROVE  Lists'
<1>1. /\ pc' = [pc EXCEPT ![p] = "idle"] /\ "idle" \in Label
      /\ new' = [new EXCEPT ![p] = Nil] /\ old' = [old EXCEPT ![p] = Nil]
  BY DEF Finish, Goto, Label
<1>2. Scanning'
  BY DEF Lists, Scanning
<1> QED BY <1>1, <1>2, LocalLists, Goroutines

\* The lists are left as they are.
LEMMA SameRings ==
    ASSUME Lists, UNCHANGED <<ring>>
    PROVE  Chained' /\ \A s \in Shard : Linked(ring'[s]) = Linked(ring[s])
BY DEF Lists, Chained

\* An entry that is moved within its list or removed from it stays linked.
LEMMA RelinkLists ==
    ASSUME IInv, Lists, NEW e \in Elem, listed[e],
           \/ ring' = [ring EXCEPT ![ShardOfEntry(e)] = MoveToFront(@, e)]
           \/ ring' = [ring EXCEPT ![ShardOfEntry(e)] = RemoveElem(@, e)]
    PROVE  Chained' /\ \A s \in Shard : Linked(ring'[s]) = Linked(ring[s])
<1> DEFINE h == ShardOfEntry(e)
<1>1. owner[e] # Nil /\ e \in Linked(ring[h])
  BY DEF Lists, Placed, InList
<1>2. h \in Shard
  BY <1>1, Home
<1>3. PICK r : /\ ring' = [ring EXCEPT ![h] = r]
               /\ r \in {MoveToFront(ring[h], e), RemoveElem(ring[h], e)}
  OBVIOUS
<1>4. Closed(ring[h])
  BY <1>2 DEF Lists, Chained
<1>5. Closed(r) /\ Linked(r) = Linked(ring[h])
  BY <1>1, <1>3, <1>4, MethodsClose
<1> HIDE DEF h
<1>6. ASSUME NEW s \in Shard PROVE Closed(ring'[s]) /\ Linked(ring'[s]) = Linked(ring[s])
  <2>1. CASE s = h
    BY <1>2, <1>3, <1>5, <2>1 DEF Lists, Chained
  <2>2. CASE s # h
    BY <1>3, <2>2 DEF Lists, Chained
  <2> QED BY <2>1, <2>2
<1>7. ring' \in [Shard -> RingType]
  BY <1>2, <1>3, <1>5 DEF Lists, Chained, Closed
<1> QED BY <1>6, <1>7 DEF Chained

-----------------------------------------------------------------------------
(* The steps of a handler. *)

LEMMA AfterTouchLists ==
    ASSUME IInv, Lists, NEW p \in Client, AfterTouch(p),
           UNCHANGED <<listed, owner, load, scan, crashed>>,
           Chained', \A s \in Shard : Linked(ring'[s]) = Linked(ring[s])
    PROVE  Lists'
<1>1. Scanning'
  BY DEF Lists, Scanning
<1>2. CASE want[p] # Nil
  <2>1. Goto(p, "serve") /\ UNCHANGED <<new, old>> /\ "serve" \in Label
    BY <1>2 DEF AfterTouch, calls, Label
  <2> QED BY <1>1, <2>1, GotoLists, Goroutines
<1>3. CASE want[p] = Nil
  BY <1>3, FinishLists, Goroutines DEF AfterTouch
<1> QED BY <1>2, <1>3

\* A step of a handler between steps that change lists or entries.
LEMMA HandlerLists ==
    ASSUME IInv, Lists, NEW p \in Client, NEW label \in Label, NEW y,
           Goto(p, label), UNCHANGED <<ring, listed, owner, new, load, scan>>,
           crashed => crashed',
           old' = [old EXCEPT ![p] = y],
           label \notin {"pick", "evict", "next", "refresh", "await", "setElem", "move", "unlist"},
           label \in Storing \cup Waiting => pc[p] \in Storing \cup Waiting,
           label \in Removal => y # Nil
    PROVE  Lists'
<1>1. /\ pc' = [pc EXCEPT ![p] = label]
      /\ new' = [new EXCEPT ![p] = new[p]] /\ new[p] \in Elem \cup {Nil}
  BY Goroutines DEF Goto, IInv, Types
<1>2. /\ new[p] # Nil => \A q \in Client \ {p} : new[q] # new[p]
      /\ pc[p] \in Storing \cup Waiting => InNoList(new[p])
  BY DEF Lists, PushedOnce
<1>3. Scanning'
  BY DEF Lists, Scanning
<1> QED BY <1>1, <1>2, <1>3, LocalLists, SameRings, Goroutines

\* An entry that is given up before it was pushed is on no list.
LEMMA DiscardedLists ==
    ASSUME IInv, Lists, NEW p \in Client, pc[p] \in Storing,
           owner' = [owner EXCEPT ![new[p]] = Nil]
    PROVE  \A e \in Elem : owner'[e] = owner[e] \/ InNoList(e)
<1>1. owner \in [Elem -> Request \cup {Nil}]
  BY DEF IInv, Types
<1>2. InNoList(new[p])
  BY DEF Lists, PushedOnce
<1> QED BY <1>1, <1>2

LEMMA GetLists ==
    ASSUME IInv, Lists, NEW p \in Client, NEW r \in Request, Get(p, r) PROVE Lists'
<1> DEFINE e == items[KeyOf[r]]
           hit == e # Nil /\ SamePrint(e, r)
<1>1. /\ Goto(p, IF hit THEN "touch" ELSE "fetch")
      /\ old' = [old EXCEPT ![p] = IF hit THEN e ELSE Nil]
      /\ UNCHANGED <<ring, listed, owner, new, load, scan, crashed>>
  BY DEF Get, entries, evictor
<1> HIDE DEF e, hit
<1>2. (IF hit THEN "touch" ELSE "fetch") \in {"touch", "fetch"} /\ {"touch", "fetch"} \subseteq Label
  BY DEF Label
<1> QED BY <1>1, <1>2, HandlerLists

LEMMA FetchedLists ==
    ASSUME IInv, Lists, NEW p \in Client, NEW b \in Body, Fetched(p, b) PROVE Lists'
<1> DEFINE e == CHOOSE x \in Elem : owner[x] = Nil
<1>1. e \in Elem /\ owner[e] = Nil
  BY DEF Fetched, Entries
<1>2. /\ pc' = [pc EXCEPT ![p] = "set"] /\ "set" \in Label
      /\ owner' = [owner EXCEPT ![e] = want[p]]
      /\ new' = [new EXCEPT ![p] = e]
      /\ UNCHANGED <<ring, listed, old, load, scan, crashed>>
  BY DEF Fetched, Step, Goto, Label, evictor
<1> HIDE DEF e
<1>3. InNoList(e)
  BY <1>1 DEF Lists, Placed, InNoList
<1>4. \A x \in Elem : owner'[x] = owner[x] \/ InNoList(x)
  BY <1>1, <1>2, <1>3 DEF IInv, Types
<1>5. \A q \in Client : new[q] # e
  BY <1>1, Goroutines, RingAssumption DEF IInv, Alive
<1>6. old' = [old EXCEPT ![p] = old[p]]
  BY <1>2, Goroutines DEF IInv, Types
<1>7. Scanning'
  BY <1>2 DEF Lists, Scanning
<1> QED BY <1>1, <1>2, <1>3, <1>4, <1>5, <1>6, <1>7, LocalLists, SameRings, Goroutines

LEMMA SetFoundLists == ASSUME IInv, Lists, NEW p \in Client, SetFound(p) PROVE Lists'
<1> DEFINE e == items[KeyOfEntry(new[p])]
<1>1. /\ pc[p] = "set"
      /\ old' = [old EXCEPT ![p] = e]
      /\ UNCHANGED <<ring, load, scan, crashed>>
  BY DEF SetFound, Ready, evictor
<1> HIDE DEF e
<1>2. CASE Goto(p, "swap") /\ UNCHANGED <<entries, new>>
  BY <1>1, <1>2, HandlerLists DEF entries, Label
<1>3. CASE Goto(p, "touch") /\ Discard(p) /\ new' = [new EXCEPT ![p] = Nil]
  <2>1. /\ pc' = [pc EXCEPT ![p] = "touch"] /\ "touch" \in Label
        /\ owner' = [owner EXCEPT ![new[p]] = Nil] /\ listed' = listed
    BY <1>3 DEF Goto, Discard, Label
  <2>2. \A x \in Elem : owner'[x] = owner[x] \/ InNoList(x)
    BY <1>1, <2>1, DiscardedLists
  <2>3. Scanning'
    BY <1>1 DEF Lists, Scanning
  <2> QED BY <1>1, <1>3, <2>1, <2>2, <2>3, LocalLists, SameRings, Goroutines
<1> QED BY <1>2, <1>3 DEF SetFound

LEMMA SwapLists == ASSUME IInv, Lists, NEW p \in Client, Swap(p) PROVE Lists'
<1>1. /\ pc[p] = "swap"
      /\ pc' = [pc EXCEPT ![p] = "touch"] /\ "touch" \in Label
      /\ owner' = [owner EXCEPT ![new[p]] = Nil]
      /\ new' = [new EXCEPT ![p] = Nil]
      /\ UNCHANGED <<ring, listed, old, load, scan, crashed>>
  BY DEF Swap, Step, Ready, Goto, Label, evictor
<1>2. \A x \in Elem : owner'[x] = owner[x] \/ InNoList(x)
  BY <1>1, DiscardedLists
<1>3. Scanning'
  BY <1>1 DEF Lists, Scanning
<1>4. old' = [old EXCEPT ![p] = old[p]]
  BY <1>1, Goroutines DEF IInv, Types
<1> QED BY <1>1, <1>2, <1>3, <1>4, LocalLists, SameRings, Goroutines

LEMMA RejectLists == ASSUME IInv, Lists, NEW p \in Client, Reject(p) PROVE Lists'
<1>1. /\ pc[p] = "admit" /\ Finish(p)
      /\ owner' = [owner EXCEPT ![new[p]] = Nil]
      /\ UNCHANGED <<ring, listed, load, scan, crashed>>
  BY DEF Reject, Ready, Discard, evictor
<1>2. \A x \in Elem : owner'[x] = owner[x] \/ InNoList(x)
  BY <1>1, DiscardedLists
<1> QED BY <1>1, <1>2, FinishLists, SameRings, Goroutines

\* PushFront links the entry to the list of its shard, and to no other.
LEMMA PushLists == ASSUME IInv, Lists, NEW p \in Client, Push(p) PROVE Lists'
<1> USE Goroutines DEF Lists
<1> DEFINE e == new[p]
           h == ShardOfEntry(e)
<1>1. /\ pc[p] = "push" /\ pc' = [pc EXCEPT ![p] = "setElem"]
      /\ ring' = [ring EXCEPT ![h] = PushFront(@, e)]
      /\ UNCHANGED <<owner, listed, new, old, load, scan, crashed>>
  BY DEF Push, Step, Ready, Goto, entries, calls, evictor
<1>2. e \in Elem /\ e # Nil /\ owner[e] # Nil /\ InNoList(e)
  BY <1>1 DEF IInv, Types, Found, Alive, PushedOnce
<1>3. h \in Shard
  BY <1>2, Home
<1>4. Closed(ring[h])
  BY <1>3 DEF Chained
<1>5. /\ Closed(PushFront(ring[h], e))
      /\ Linked(PushFront(ring[h], e)) = Linked(ring[h]) \cup {e}
  BY <1>2, <1>4, MethodsClose
<1>6. \A x : ShardOfEntry(x)' = ShardOfEntry(x)
  BY <1>1 DEF ShardOfEntry, KeyOfEntry
<1> HIDE DEF h
<1>7. ASSUME NEW s \in Shard
      PROVE  /\ Closed(ring'[s])
             /\ Linked(ring'[s]) = IF s = h THEN Linked(ring[s]) \cup {e} ELSE Linked(ring[s])
  <2>1. CASE s = h
    BY <1>1, <1>3, <1>5, <2>1 DEF Chained
  <2>2. CASE s # h
    BY <1>1, <2>2 DEF Chained
  <2> QED BY <2>1, <2>2
<1>8. Chained'
  <2>1. ring' \in [Shard -> RingType]
    BY <1>1, <1>3, <1>5 DEF Chained, Closed
  <2> QED BY <1>7, <2>1 DEF Chained
<1>9. ASSUME NEW x \in Elem, owner[x] # Nil, InList(x) PROVE InList(x)'
  <2>1. ShardOfEntry(x) \in Shard
    BY <1>9, Home
  <2> QED BY <1>6, <1>7, <1>9, <2>1 DEF InList
<1>10. Roles' /\ Scanning'
  BY <1>1 DEF IInv, Types, Roles, Scanning
<1>11. Placed'
  <2>1. ASSUME NEW s \in Shard, NEW x \in Elem, x \in Linked(ring'[s])
        PROVE  owner'[x] # Nil /\ ShardOfEntry(x)' = s
    <3>1. CASE x \in Linked(ring[s])
      BY <1>1, <1>6, <3>1 DEF Placed
    <3>2. CASE x \notin Linked(ring[s])
      <4>1. s = h /\ x = e
        BY <1>7, <2>1, <3>2
      <4> QED BY <1>1, <1>2, <1>6, <4>1 DEF h
    <3> QED BY <3>1, <3>2
  <2>2. listed' \in [Elem -> BOOLEAN]
    BY <1>1 DEF Placed
  <2>3. \A x \in Elem : listed'[x] => owner'[x] # Nil /\ InList(x)'
    BY <1>1, <1>9 DEF Placed
  <2> QED BY <2>1, <2>2, <2>3 DEF Placed
<1>12. PushedOnce'
  <2>1. ASSUME NEW q \in Client, new'[q] # Nil PROVE \A o \in Client \ {q} : new'[o] # new'[q]
    BY <1>1, <2>1 DEF PushedOnce
  <2>2. ASSUME NEW q \in Client, pc'[q] \in Storing \cup Waiting PROVE InNoList(new[q])'
    <3>1. q # p /\ InNoList(new[q]) /\ new[q] # e
      BY <1>1, <1>2, <2>2 DEF IInv, Types, PushedOnce
    <3>2. \A s \in Shard : new[q] \notin Linked(ring'[s])
      BY <1>7, <3>1 DEF InNoList
    <3>3. new'[q] = new[q]
      BY <1>1
    <3> HIDE DEF e, h, Lists
    <3> QED BY <3>2, <3>3 DEF InNoList
  <2>3. ASSUME NEW q \in Client, pc'[q] = "setElem" PROVE InList(new[q])'
    <3>1. CASE q = p
      <4>1. e \in Linked(ring'[h])
        BY <1>3, <1>7
      <4> QED BY <1>1, <1>6, <3>1, <4>1 DEF InList, h
    <3>2. CASE q # p
      <4>1. new[q] \in Elem /\ owner[new[q]] # Nil /\ InList(new[q])
        BY <1>1, <2>3, <3>2 DEF IInv, Types, Found, Alive, PushedOnce
      <4>2. PICK x \in Elem : x = new[q] /\ InList(x)'
        BY <1>9, <4>1
      <4> QED BY <1>1, <4>2 DEF InList, ShardOfEntry, KeyOfEntry
    <3> QED BY <3>1, <3>2
  <2> HIDE DEF Lists, e
  <2> QED BY <2>1, <2>2, <2>3 DEF PushedOnce
<1>13. TakenFromList'
  <2>1. \A q \in Proc \ {p} : pc'[q] = pc[q]
    BY <1>1 DEF IInv, Types
  <2>2. ASSUME pc'[Evictor] \in Removal, ~crashed'
        PROVE  old'[Evictor] # Nil /\ owner'[old'[Evictor]] # Nil /\ InList(old[Evictor])'
    <3>1. PICK x \in Elem : x = old[Evictor] /\ owner[x] # Nil /\ InList(x)
      BY <1>1, <2>1, <2>2 DEF TakenFromList
    <3>2. x # Nil /\ InList(x)'
      BY <1>9, <3>1, RingAssumption
    <3> QED BY <1>1, <3>1, <3>2 DEF InList, ShardOfEntry, KeyOfEntry
  <2>3. \A q \in Client : pc'[q] \in Removal => old'[q] # Nil
    BY <1>1, <2>1 DEF IInv, Types, TakenFromList
  <2>4. \A q \in Proc : pc'[q] \in {"move", "unlist"} /\ ~crashed' => listed'[old'[q]]
    BY <1>1, <2>1 DEF IInv, Types, TakenFromList
  <2>5. old'[Evictor] \in Elem \cup {Nil}
    BY <1>1 DEF TakenFromList
  <2> HIDE DEF Lists, e
  <2> QED BY <2>2, <2>3, <2>4, <2>5 DEF TakenFromList
<1> QED BY <1>8, <1>10, <1>11, <1>12, <1>13

\* The entry learns of its element, which is on the list already.
LEMMA SetElemLists == ASSUME IInv, Lists, NEW p \in Client, SetElem(p) PROVE Lists'
<1> USE Goroutines DEF Lists
<1> DEFINE e == new[p]
<1>1. /\ pc[p] = "setElem" /\ pc' = [pc EXCEPT ![p] = "idle"]
      /\ new' = [new EXCEPT ![p] = Nil] /\ old' = [old EXCEPT ![p] = Nil]
      /\ listed' = [listed EXCEPT ![e] = TRUE]
      /\ UNCHANGED <<ring, owner, load, scan, crashed>>
  BY DEF SetElem, Ready, Finish, Goto, evictor
<1>2. e \in Elem /\ owner[e] # Nil /\ InList(e)
  BY <1>1 DEF IInv, Types, Found, Alive, PushedOnce
<1> HIDE DEF e
<1>3. /\ pc'[p] = "idle" /\ new'[p] = Nil /\ old'[p] = Nil
      /\ \A q \in Proc \ {p} : pc'[q] = pc[q] /\ new'[q] = new[q] /\ old'[q] = old[q]
  BY <1>1 DEF IInv, Types
<1>4. Roles' /\ Scanning' /\ Chained'
  BY <1>1, <1>3 DEF Roles, Scanning, Chained
<1>5. Placed'
  BY <1>1, <1>2 DEF Placed, InList, ShardOfEntry, KeyOfEntry
<1>6. PushedOnce'
  BY <1>1, <1>3 DEF PushedOnce, InList, InNoList, ShardOfEntry, KeyOfEntry
<1>7. TakenFromList'
  <2>1. \A x : listed[x] => listed'[x]
    BY <1>1 DEF Placed
  <2> QED BY <1>1, <1>3, <2>1 DEF TakenFromList, InList, ShardOfEntry, KeyOfEntry
<1> QED BY <1>4, <1>5, <1>6, <1>7

LEMMA WorkingLists == ASSUME IInv, Lists, NEW p \in Client, Working(p) PROVE Lists'
<1> USE Goroutines
<1>1. ASSUME UNCHANGED <<load, scan>> PROVE Scanning'
  BY <1>1 DEF Lists, Scanning
<1>2. CASE TouchSkips(p)
  <2>1. AfterTouch(p) /\ UNCHANGED <<ring, listed, owner, load, scan, crashed>>
    BY <1>2 DEF TouchSkips, entries, evictor
  <2> QED BY <2>1, AfterTouchLists, SameRings
<1>3. CASE Touch(p)
  <2>1. /\ Goto(p, "move") /\ "move" \in Label /\ listed[old[p]]
        /\ UNCHANGED <<ring, listed, owner, new, old, load, scan, crashed>>
    BY <1>3 DEF Touch, Step, entries, calls, evictor, Label
  <2> QED BY <1>1, <2>1, GotoLists, SameRings
<1>4. CASE Move(p)
  <2>1. /\ pc[p] = "move" /\ ~crashed /\ AfterTouch(p)
        /\ ring' = [ring EXCEPT ![ShardOfEntry(old[p])] = MoveToFront(@, old[p])]
        /\ UNCHANGED <<listed, owner, load, scan, crashed>>
    BY <1>4 DEF Move, Ready, entries, evictor
  <2>2. PICK e \in Elem : e = old[p]
    BY <2>1, RingAssumption DEF IInv, Types, Found
  <2>3. listed[e]
    BY <2>1, <2>2 DEF Lists, TakenFromList
  <2>4. ring' = [ring EXCEPT ![ShardOfEntry(e)] = MoveToFront(@, e)]
    BY <2>1, <2>2
  <2> QED BY <2>1, <2>3, <2>4, RelinkLists, AfterTouchLists
<1>5. CASE Serve(p)
  BY <1>5, FinishLists, SameRings DEF Serve, entries, evictor
<1>6. CASE SetFound(p)
  BY <1>6, SetFoundLists
<1>7. CASE SetCollides(p)
  <2> DEFINE e == items[KeyOfEntry(new[p])]
  <2>1. /\ pc[p] = "set" /\ Goto(p, "unlistCheck") /\ "unlistCheck" \in Label
        /\ e # Nil /\ old' = [old EXCEPT ![p] = e]
        /\ UNCHANGED <<ring, listed, owner, new, load, scan, crashed>>
    BY <1>7 DEF SetCollides, Step, Ready, entries, evictor, Label
  <2> QED BY <2>1, HandlerLists
<1>8. CASE SetMisses(p)
  <2>1. /\ pc[p] = "set" /\ Goto(p, "admit") /\ "admit" \in Label
        /\ UNCHANGED <<ring, listed, owner, new, old, load, scan, crashed>>
    BY <1>8 DEF SetMisses, Step, Ready, entries, calls, evictor, Label
  <2> QED BY <1>1, <2>1, GotoLists, SameRings
<1>9. CASE Swap(p)
  BY <1>9, SwapLists
<1>10. CASE Admit(p)
  <2>1. /\ pc[p] = "admit" /\ Goto(p, "store") /\ "store" \in Label /\ ~crashed
        /\ UNCHANGED <<ring, listed, owner, new, old, load, scan>>
    BY <1>10 DEF Admit, Step, Ready, entries, calls, evictor, Label
  <2> QED BY <1>1, <2>1, GotoLists, SameRings
<1>11. CASE Reject(p)
  BY <1>11, RejectLists
<1>12. CASE Store(p)
  <2> DEFINE k == KeyOfEntry(new[p])
             label == IF items[k] = Nil THEN "addLen" ELSE "addMem"
  <2>1. /\ pc[p] = "store" /\ Goto(p, label)
        /\ old' = [old EXCEPT ![p] = items[k]]
        /\ UNCHANGED <<ring, listed, owner, new, load, scan, crashed>>
    BY <1>12 DEF Store, Ready, entries, evictor
  <2>2. label \in {"addLen", "addMem"} /\ label \in Label
    BY DEF Label
  <2> HIDE DEF label, k
  <2> QED BY <2>1, <2>2, HandlerLists
<1>13. CASE AddLen(p)
  <2>1. /\ pc[p] = "addLen" /\ Goto(p, "addMem") /\ "addMem" \in Label
        /\ UNCHANGED <<ring, listed, owner, new, old, load, scan, crashed>>
    BY <1>13 DEF AddLen, Step, Ready, entries, calls, evictor, Label
  <2> QED BY <1>1, <2>1, GotoLists, SameRings
<1>14. CASE AddMem(p)
  <2>1. /\ pc[p] = "addMem" /\ Goto(p, "push") /\ "push" \in Label
        /\ old' = [old EXCEPT ![p] = Nil]
        /\ UNCHANGED <<ring, listed, owner, new, load, scan, crashed>>
    BY <1>14 DEF AddMem, Step, Ready, entries, evictor, Label
  <2> QED BY <2>1, HandlerLists
<1>15. CASE Push(p)
  BY <1>15, PushLists
<1>16. CASE SetElem(p)
  BY <1>16, SetElemLists
<1> QED BY <1>2, <1>3, <1>4, <1>5, <1>6, <1>7, <1>8, <1>9, <1>10, <1>11, <1>12, <1>13,
           <1>14, <1>15, <1>16 DEF Working

-----------------------------------------------------------------------------
(* InMemoryStorage.Remove, by a handler or by the evictor. *)

\* The entry that is removed, until the process ends.
LEMMA RemovedEntry ==
    ASSUME IInv, Lists, NEW p \in Client \cup {Evictor}, pc[p] \in Removal, ~crashed
    PROVE  /\ old[p] \in Elem /\ owner[old[p]] # Nil
           /\ ShardOfEntry(old[p]) \in Shard /\ KeyOfEntry(old[p]) \in Key
           /\ ShardOfEntry(old[p]) = ShardOf(KeyOfEntry(old[p]))
<1>1. old[p] \in Elem /\ owner[old[p]] # Nil
  <2>1. CASE p \in Client
    BY <2>1, Goroutines DEF Lists, TakenFromList, IInv, Types, Alive
  <2>2. CASE p = Evictor
    BY <2>2 DEF Lists, TakenFromList
  <2> QED BY <2>1, <2>2
<1> QED BY <1>1, Home

LEMMA RemovingLists ==
    ASSUME IInv, Lists, NEW p \in Client \cup {Evictor}, Removing(p) PROVE Lists'
<1> USE Goroutines
<1>1. ASSUME UNCHANGED <<load, scan>> PROVE Scanning'
  BY <1>1 DEF Lists, Scanning
<1>2. pc[p] \in Removal /\ ~crashed
  BY DEF Removing, UnlistCheck, Unlist, Drop, SubLen, SubMem, Step, Ready
<1>3. old[p] \in Elem
  BY <1>2, RemovedEntry
<1>4. CASE UnlistCheck(p)
  <2>1. PICK label \in {"unlist", "drop"} :
           /\ Goto(p, label) /\ label \in Label
           /\ label = "unlist" => listed[old[p]]
    BY <1>4 DEF UnlistCheck, Label
  <2>2. UNCHANGED <<ring, listed, owner, new, old, load, scan, crashed>>
    BY <1>4 DEF UnlistCheck, entries, calls, evictor
  <2> QED BY <1>1, <1>2, <2>1, <2>2, GotoLists, SameRings
<1>5. CASE Unlist(p)
  <2>1. /\ pc[p] = "unlist" /\ Goto(p, "drop") /\ "drop" \in Label
        /\ ring' = [ring EXCEPT ![ShardOfEntry(old[p])] = RemoveElem(@, old[p])]
        /\ UNCHANGED <<listed, owner, new, old, load, scan, crashed>>
    BY <1>5 DEF Unlist, Step, Ready, entries, calls, evictor, Label
  <2>2. PICK e \in Elem : e = old[p]
    BY <1>3
  <2>3. listed[e]
    BY <1>2, <2>1, <2>2 DEF Lists, TakenFromList
  <2>4. ring' = [ring EXCEPT ![ShardOfEntry(e)] = RemoveElem(@, e)]
    BY <2>1, <2>2
  <2>5. Chained' /\ \A s \in Shard : Linked(ring'[s]) = Linked(ring[s])
    BY <2>3, <2>4, RelinkLists
  <2> QED BY <1>1, <1>2, <2>1, <2>5, GotoLists
<1>6. AfterRemove(p) \in Label /\ AfterRemove(p) = IF p = Evictor THEN "evict" ELSE "admit"
  BY DEF AfterRemove, Label
<1>7. CASE SubLen(p)
  <2>1. /\ Goto(p, "subMem") /\ "subMem" \in Label
        /\ UNCHANGED <<ring, listed, owner, new, old, load, scan, crashed>>
    BY <1>7 DEF SubLen, Step, Ready, entries, calls, evictor, Label
  <2> QED BY <1>1, <1>2, <2>1, GotoLists, SameRings
<1>8. ASSUME Goto(p, AfterRemove(p)), old' = [old EXCEPT ![p] = Nil],
             UNCHANGED <<ring, listed, owner, new, load, scan, crashed>>
      PROVE  Lists'
  <2>1. PICK label, x : /\ label = AfterRemove(p) /\ x = new[p]
                        /\ label \in Label /\ x \in Elem \cup {Nil}
    BY <1>6 DEF IInv, Types
  <2>2. /\ pc' = [pc EXCEPT ![p] = label]
        /\ new' = [new EXCEPT ![p] = x]
    BY <1>8, <2>1 DEF Goto, IInv, Types
  <2>3. CASE p \in Client
    <3>1. label = "admit" /\ p # Evictor /\ p # Refresher
      BY <1>6, <2>1, <2>3
    <3>2. InNoList(x) /\ (x # Nil => \A q \in Client \ {p} : new[q] # x)
      BY <1>2, <2>1, <2>3 DEF Lists, PushedOnce
    <3> QED BY <1>1, <1>8, <2>1, <2>2, <3>1, <3>2, LocalLists, SameRings
  <2>4. CASE p = Evictor
    <3>1. label = "evict" /\ p \notin Client /\ p # Refresher
      BY <1>6, <2>1, <2>4
    <3> QED BY <1>1, <1>8, <2>1, <2>2, <3>1, LocalLists, SameRings
  <2> QED BY <2>3, <2>4
<1>9. CASE Drop(p)
  <2> DEFINE found == items[KeyOfEntry(old[p])] # Nil
  <2>1. /\ Goto(p, IF found THEN "subLen" ELSE AfterRemove(p))
        /\ old' = IF found THEN old ELSE [old EXCEPT ![p] = Nil]
        /\ UNCHANGED <<ring, listed, owner, new, load, scan, crashed>>
    BY <1>9 DEF Drop, entries, evictor
  <2> HIDE DEF found
  <2>2. CASE found
    <3>1. Goto(p, "subLen") /\ "subLen" \in Label /\ old' = old
      BY <2>1, <2>2 DEF Label
    <3> QED BY <1>1, <1>2, <2>1, <3>1, GotoLists, SameRings
  <2>3. CASE ~found
    BY <1>8, <2>1, <2>3
  <2> QED BY <2>2, <2>3
<1>10. CASE SubMem(p)
  BY <1>8, <1>10 DEF SubMem, Step, entries, evictor
<1> QED BY <1>4, <1>5, <1>7, <1>9, <1>10 DEF Removing

-----------------------------------------------------------------------------
(* The counters. *)

\* The counters are numbers: what is added and taken are weights of entries.
Amounts ==
    /\ len \in [Shard -> Int] /\ mem \in [Shard -> Int]
    /\ freed \in [Proc -> Int]

LEMMA InitAmounts == Init => Amounts
BY DEF Init, Amounts

\* An entry in use has a weight.
LEMMA EntryWeight ==
    ASSUME IInv, NEW e \in Elem, owner[e] # Nil
    PROVE  Weight(e) \in Int
<1>1. payload[e] \in Content
  BY DEF IInv, Sound
<1>2. PICK b \in Body : b = payload[e].body
  BY <1>1 DEF Content
<1> QED BY <1>2, StorageAssumption DEF Weight

\* One counter of many is given another value.
LEMMA Recount ==
    ASSUME NEW S, NEW f \in [S -> Int], NEW x, NEW n, x \in S => n \in Int
    PROVE  [f EXCEPT ![x] = n] \in [S -> Int]
OBVIOUS

\* The steps that count, or that forget what was counted.
LEMMA FinishAmounts ==
    ASSUME Amounts, NEW p \in Proc, Finish(p), UNCHANGED <<len, mem>>
    PROVE  Amounts'
BY DEF Finish, Amounts

LEMMA WorkingAmounts ==
    ASSUME IInv, Lists, Amounts, NEW p \in Client, Working(p) PROVE Amounts'
<1> USE Goroutines DEF maps, calls
<1>1. ASSUME UNCHANGED <<len, mem, freed>> PROVE Amounts'
  BY <1>1 DEF Amounts
<1>2. ASSUME AfterTouch(p), UNCHANGED maps PROVE Amounts'
  BY <1>1, <1>2, FinishAmounts DEF AfterTouch
<1>3. CASE TouchSkips(p) \/ Move(p)
  BY <1>2, <1>3 DEF TouchSkips, Move
<1>4. CASE Touch(p) \/ SetCollides(p) \/ SetMisses(p) \/ Swap(p) \/ Admit(p) \/ Push(p)
  BY <1>1, <1>4 DEF Touch, SetCollides, SetMisses, Swap, Admit, Push
<1>5. CASE Serve(p) \/ Reject(p) \/ SetElem(p)
  BY <1>5, FinishAmounts DEF Serve, Reject, SetElem
<1>6. CASE SetFound(p) \/ Store(p)
  BY <1>1, <1>6 DEF SetFound, Store
<1>7. CASE AddLen(p)
  <2>1. PICK s : len' = [len EXCEPT ![s] = len[s] + 1] /\ UNCHANGED <<mem, freed>>
    BY <1>7 DEF AddLen
  <2>2. s \in Shard => len[s] + 1 \in Int
    BY DEF Amounts
  <2> QED BY <2>1, <2>2, Recount DEF Amounts
<1>8. CASE AddMem(p)
  <2>1. pc[p] = "addMem" /\ UNCHANGED <<len, freed>>
        /\ mem' = [mem EXCEPT ![ShardOfEntry(new[p])] = @ + Added(p)]
    BY <1>8 DEF AddMem, Step, Ready
  <2>2. new[p] \in Elem /\ owner[new[p]] # Nil
    BY <2>1 DEF IInv, Types, Found, Alive
  <2>3. old[p] # Nil => old[p] \in Elem /\ owner[old[p]] # Nil
    BY DEF IInv, Types, Alive
  <2>4. Added(p) \in Int
    BY <2>2, <2>3, EntryWeight DEF Added
  <2>5. PICK s : mem' = [mem EXCEPT ![s] = mem[s] + Added(p)]
    BY <2>1
  <2>6. s \in Shard => mem[s] + Added(p) \in Int
    BY <2>4 DEF Amounts
  <2> QED BY <2>1, <2>5, <2>6, Recount DEF Amounts
<1> QED BY <1>3, <1>4, <1>5, <1>6, <1>7, <1>8 DEF Working

LEMMA RemovingAmounts ==
    ASSUME IInv, Lists, Amounts, NEW p \in Client \cup {Evictor}, Removing(p) PROVE Amounts'
<1> USE Goroutines DEF maps, calls
<1>1. CASE UnlistCheck(p) \/ Unlist(p)
  BY <1>1 DEF UnlistCheck, Unlist, Amounts
<1>2. CASE Drop(p)
  <2> DEFINE k == KeyOfEntry(old[p])
  <2>1. /\ pc[p] \in Removal /\ ~crashed /\ UNCHANGED <<len, mem>>
        /\ freed' = [freed EXCEPT ![p] = IF items[k] # Nil THEN Weight(items[k]) ELSE 0]
    BY <1>2 DEF Drop, Ready
  <2>2. k \in Key
    BY <2>1, RemovedEntry
  <2> HIDE DEF k
  <2>3. items[k] # Nil => items[k] \in Elem /\ owner[items[k]] # Nil
    BY <2>2 DEF IInv, Types, Mapped
  <2>4. (IF items[k] # Nil THEN Weight(items[k]) ELSE 0) \in Int
    BY <2>3, EntryWeight
  <2> QED BY <2>1, <2>4 DEF Amounts
<1>3. CASE SubLen(p)
  <2>1. PICK s : len' = [len EXCEPT ![s] = len[s] - 1] /\ UNCHANGED <<mem, freed>>
    BY <1>3 DEF SubLen
  <2>2. s \in Shard => len[s] - 1 \in Int
    BY DEF Amounts
  <2> QED BY <2>1, <2>2, Recount DEF Amounts
<1>4. CASE SubMem(p)
  <2>1. PICK s : mem' = [mem EXCEPT ![s] = mem[s] - freed[p]]
    BY <1>4 DEF SubMem
  <2>2. s \in Shard => mem[s] - freed[p] \in Int
    BY DEF Amounts
  <2>3. UNCHANGED len /\ freed' = [freed EXCEPT ![p] = 0]
    BY <1>4 DEF SubMem
  <2> QED BY <2>1, <2>2, <2>3, Recount DEF Amounts
<1> QED BY <1>1, <1>2, <1>3, <1>4 DEF Removing

LEMMA NextAmounts == IInv /\ Lists /\ Amounts /\ [Next]_vars => Amounts'
<1> SUFFICES ASSUME IInv, Lists, Amounts, [Next]_vars PROVE Amounts'
  OBVIOUS
<1> USE Goroutines DEF maps, calls
<1>1. ASSUME UNCHANGED <<len, mem, freed>> PROVE Amounts'
  BY <1>1 DEF Amounts
<1>2. ASSUME NEW p \in Client, ClientStep(p) PROVE Amounts'
  <2>1. CASE \E r \in Request : Get(p, r)
    BY <1>1, <2>1 DEF Get
  <2>2. CASE \E b \in Body : Fetched(p, b)
    BY <1>1, <2>2 DEF Fetched
  <2>3. CASE FetchFails(p)
    BY <2>3, FinishAmounts DEF FetchFails
  <2> QED BY <1>2, <2>1, <2>2, <2>3, WorkingAmounts, RemovingAmounts DEF ClientStep
<1>3. CASE EvictorStep
  <2>1. CASE WithinLimit
    BY <2>1, FinishAmounts DEF WithinLimit
  <2>2. CASE Tick \/ Pick \/ GoOn \/ Evict \/ EndOfList
    BY <1>1, <2>2 DEF Tick, Pick, GoOn, Evict, EndOfList
  <2> QED BY <1>3, <2>1, <2>2 DEF EvictorStep
<1>4. CASE Removing(Evictor)
  BY <1>4, RemovingAmounts
<1>5. CASE RefresherStep
  <2>1. CASE RefreshFails \/ \E b \in Body : Refreshed(b)
    BY <2>1, FinishAmounts DEF RefreshFails, Refreshed
  <2>2. CASE Sample \/ Unpack
    BY <1>1, <2>2 DEF Sample, Unpack
  <2> QED BY <1>5, <2>1, <2>2 DEF RefresherStep
<1>6. CASE RefreshMem \/ Clear \/ UNCHANGED vars
  BY <1>1, <1>6 DEF RefreshMem, Clear, vars
<1>7. CASE \E s \in Shard : ClearShard(s)
  BY <1>7 DEF ClearShard, Amounts
<1> QED BY <1>2, <1>3, <1>4, <1>5, <1>6, <1>7 DEF Next

-----------------------------------------------------------------------------
(* The evictor. *)

\* The sort of Rebalance is one of the shards that were in the list: no two
\* places have the same rank.
LEMMA RebalancedType ==
    ASSUME load \in [1..TotalShards -> Shard], mem \in [Shard -> Int]
    PROVE  Rebalanced \in [1..TotalShards -> Shard]
<1> DEFINE I == 1..TotalShards
           Before(j, i) == \/ mem[load[j]] > mem[load[i]]
                           \/ mem[load[j]] = mem[load[i]] /\ j < i
           B(i) == {j \in I : Before(j, i)}
           R == [i \in I |-> Rank(i)]
<1>1. TotalShards \in Nat \ {0}
  BY StorageAssumption
<1>2. IsFiniteSet(I) /\ Cardinality(I) = TotalShards
  BY <1>1, FS_Interval
<1>3. \A i \in I : mem[load[i]] \in Int /\ i \in Int
  OBVIOUS
<1>4. \A i \in I : Rank(i) = 1 + Cardinality(B(i))
  BY DEF Rank
<1> HIDE DEF I
<1>5. ASSUME NEW i \in I PROVE IsFiniteSet(B(i)) /\ Cardinality(B(i)) \in 0..(TotalShards - 1)
  <2>1. B(i) \in SUBSET (I \ {i})
    BY <1>3
  <2>2. IsFiniteSet(I \ {i}) /\ Cardinality(I \ {i}) = TotalShards - 1
    BY <1>2, FS_RemoveElement
  <2> HIDE DEF B
  <2>3. IsFiniteSet(B(i)) /\ Cardinality(B(i)) <= TotalShards - 1
    BY <2>1, <2>2, FS_Subset
  <2>4. Cardinality(B(i)) \in Nat
    BY <2>3, FS_CardinalityType
  <2> QED BY <1>1, <2>3, <2>4
<1>6. ASSUME NEW i \in I PROVE Rank(i) \in I
  <2>1. Cardinality(B(i)) \in 0..(TotalShards - 1) /\ Rank(i) = 1 + Cardinality(B(i))
    BY <1>4, <1>5
  <2> HIDE DEF B
  <2> QED BY <1>1, <2>1 DEF I
<1>7. ASSUME NEW i \in I, NEW k \in I, i \in B(k) PROVE Rank(i) < Rank(k)
  <2>1. B(i) \cup {i} \in SUBSET B(k) /\ i \notin B(i)
    BY <1>3, <1>7
  <2> HIDE DEF B
  <2>2. Cardinality(B(i) \cup {i}) = Cardinality(B(i)) + 1
    BY <1>5, <2>1, FS_AddElement
  <2>3. Cardinality(B(i) \cup {i}) <= Cardinality(B(k))
    BY <1>5, <2>1, FS_Subset
  <2> QED BY <1>4, <1>5, <2>2, <2>3
<1>8. ASSUME NEW i \in I, NEW k \in I, Rank(i) = Rank(k) PROVE i = k
  <2>1. i # k => i \in B(k) \/ k \in B(i)
    BY <1>3
  <2>2. Rank(i) \in Int
    BY <1>6 DEF I
  <2> QED BY <1>7, <1>8, <2>1, <2>2
<1>9. R \in Injection(I, I)
  BY <1>6, <1>8 DEF Injection, IsInjective
<1>10. R \in Surjection(I, I)
  BY <1>2, <1>9, FS_Injection
<1>11. \A n \in I : \E i \in I : Rank(i) = n
  BY <1>10 DEF Surjection
<1>12. \A n \in I : load[CHOOSE i \in I : Rank(i) = n] \in Shard
  BY <1>11 DEF I
<1> QED BY <1>12 DEF Rebalanced, I

LEMMA PickLists == ASSUME IInv, Lists, Amounts, Pick PROVE Lists'
<1> USE Goroutines
<1> DEFINE offset == IF Wraps(scan.shardOffset + 1) THEN 0 ELSE scan.shardOffset + 1
           sorted == IF Wraps(scan.shardOffset + 1) THEN Rebalanced ELSE load
           shard == IF offset < TotalShards THEN sorted[offset + 1] ELSE scan.shard
           label == IF offset < TotalShards /\ ring[shard].len # 0 THEN "evict" ELSE "pick"
<1>1. /\ load' = sorted
      /\ scan' = [shardOffset |-> offset, offset |-> 0, shard |-> shard]
      /\ Goto(Evictor, label)
      /\ UNCHANGED <<ring, listed, owner, new, old, crashed>>
  BY DEF Pick, entries, calls
<1>2. label \in {"evict", "pick"} /\ label \in Label
  BY DEF Label
<1>3. scan.shardOffset \in 0..(Fat - 1) /\ scan.shard \in Shard /\ load \in [1..TotalShards -> Shard]
  BY DEF Lists, Scanning
<1>4. sorted \in [1..TotalShards -> Shard]
  BY <1>3, RebalancedType DEF Lists, Scanning, Amounts
<1>5. offset \in 0..(Fat - 1)
  BY <1>3, StorageAssumption DEF Wraps
<1>6. shard \in Shard
  <2>1. offset < TotalShards => offset + 1 \in 1..TotalShards
    BY <1>5, StorageAssumption
  <2> HIDE DEF offset, sorted
  <2> QED BY <1>3, <1>4, <2>1
<1> HIDE DEF offset, sorted, shard, label
<1>7. Scanning'
  BY <1>1, <1>4, <1>5, <1>6 DEF Scanning
<1> QED BY <1>1, <1>2, <1>7, GotoLists, SameRings

\* Whatever Next(offset) finds is linked: an entry of the shard, or the root.
LEMMA EvictLists == ASSUME IInv, Lists, Evict PROVE Lists'
<1> USE Goroutines
<1>1. PICK y, x :
         /\ y = (IF Candidate = Root THEN Nil ELSE Candidate)
         /\ x = new[Evictor] /\ x \in Elem \cup {Nil}
  BY DEF IInv, Types
<1>2. /\ pc' = [pc EXCEPT ![Evictor] = "unlistCheck"] /\ "unlistCheck" \in Label
      /\ Candidate # Nil /\ ~crashed
      /\ crashed' = (Candidate = Root)
      /\ old' = [old EXCEPT ![Evictor] = y]
      /\ new' = [new EXCEPT ![Evictor] = x]
      /\ scan' = [scan EXCEPT !.offset = @ + 1]
      /\ UNCHANGED <<ring, listed, owner, load>>
  BY <1>1 DEF Evict, Step, Ready, Goto, entries, Label, IInv, Types
<1>3. scan.shard \in Shard /\ scan.offset \in Nat /\ Scanning'
  BY <1>2 DEF Lists, Scanning
<1>4. Candidate \in Linked(ring[scan.shard]) \cup {Nil}
  BY <1>3, NextAtLinked DEF Candidate, Lists, Chained
<1>5. Candidate \in Elem \cup {Root}
  BY <1>2, <1>4 DEF Linked, Node
<1>6. y \in Elem \cup {Nil}
  BY <1>1, <1>5
<1>7. ASSUME ~crashed' PROVE y # Nil /\ owner[y] # Nil /\ InList(y)
  <2>1. y \in Elem /\ y \in Linked(ring[scan.shard])
    BY <1>1, <1>2, <1>4, <1>5, <1>7
  <2>2. owner[y] # Nil /\ ShardOfEntry(y) = scan.shard
    BY <1>3, <2>1 DEF Lists, Placed
  <2> QED BY <2>1, <2>2, RingAssumption DEF InList
<1>8. Chained' /\ \A s \in Shard : Linked(ring'[s]) = Linked(ring[s])
  BY <1>2, SameRings
<1>9. "unlistCheck" \in Removal /\ "unlistCheck" \notin {"move", "unlist"}
  OBVIOUS
<1> HIDE DEF Storing, Removal, Waiting
<1> QED BY <1>1, <1>2, <1>3, <1>6, <1>7, <1>8, <1>9, LocalLists

LEMMA EvictorLists == ASSUME IInv, Lists, Amounts, EvictorStep PROVE Lists'
<1> USE Goroutines DEF entries, calls, evictor
<1>1. CASE Tick
  <2>1. /\ Goto(Evictor, "pick") /\ "pick" \in Label
        /\ scan' = [scan EXCEPT !.shardOffset = 0]
        /\ UNCHANGED <<ring, listed, owner, new, old, load, crashed>>
    BY <1>1 DEF Tick, Step, Label
  <2>2. Scanning'
    BY <2>1, StorageAssumption DEF Lists, Scanning
  <2> QED BY <2>1, <2>2, GotoLists, SameRings
<1>2. CASE WithinLimit
  BY <1>2, FinishLists, SameRings DEF WithinLimit
<1>3. CASE GoOn \/ EndOfList
  <2>1. PICK label \in {"next", "pick"} :
           /\ Goto(Evictor, label) /\ label \in Label
           /\ UNCHANGED <<ring, listed, owner, new, old, load, scan, crashed>>
    BY <1>3 DEF GoOn, EndOfList, Step, Label
  <2>2. Scanning'
    BY <2>1 DEF Lists, Scanning
  <2> QED BY <2>1, <2>2, GotoLists, SameRings
<1> QED BY <1>1, <1>2, <1>3, PickLists, EvictLists DEF EvictorStep

LEMMA RefresherLists == ASSUME IInv, Lists, RefresherStep PROVE Lists'
<1> USE Goroutines DEF entries, calls, evictor
<1>1. Scanning /\ (UNCHANGED <<load, scan>> => Scanning')
  BY DEF Lists, Scanning
<1>2. CASE RefreshFails \/ \E b \in Body : Refreshed(b)
  BY <1>2, FinishLists, SameRings DEF RefreshFails, Refreshed
<1>3. CASE Sample \/ Unpack
  <2>1. PICK label \in {"refresh", "await"} :
           /\ Goto(Refresher, label) /\ label \in Label
           /\ UNCHANGED <<ring, listed, owner, new, load, scan, crashed>>
    BY <1>3 DEF Sample, Unpack, Step, Label
  <2>2. PICK y : old' = [old EXCEPT ![Refresher] = y]
    <3>1. CASE Sample
      BY <3>1 DEF Sample
    <3>2. CASE Unpack
      BY <3>2 DEF Unpack, IInv, Types
    <3> QED BY <1>3, <3>1, <3>2
  <2>3. PICK x : x = new[Refresher] /\ x \in Elem \cup {Nil}
    BY DEF IInv, Types
  <2>4. /\ new' = [new EXCEPT ![Refresher] = x]
        /\ pc' = [pc EXCEPT ![Refresher] = label]
    BY <2>1, <2>3 DEF IInv, Types, Goto
  <2>5. label \notin {"move", "unlist"} /\ Refresher \notin Client
    BY <2>1
  <2> QED BY <1>1, <2>1, <2>2, <2>3, <2>4, <2>5, LocalLists, SameRings
<1> QED BY <1>2, <1>3 DEF RefresherStep

\* Every step keeps the lists so.
LEMMA NextLists == IInv /\ Lists /\ Amounts /\ [Next]_vars => Lists'
<1> SUFFICES ASSUME IInv, Lists, Amounts, [Next]_vars PROVE Lists'
  OBVIOUS
<1>1. ASSUME NEW p \in Client, ClientStep(p) PROVE Lists'
  <2>1. CASE FetchFails(p)
    BY <2>1, FinishLists, SameRings, Goroutines DEF FetchFails, entries, evictor
  <2> QED BY <1>1, <2>1, GetLists, FetchedLists, WorkingLists, RemovingLists DEF ClientStep
<1>2. CASE RefreshMem \/ Clear \/ UNCHANGED vars \/ \E s \in Shard : ClearShard(s)
  BY <1>2, SameLists DEF RefreshMem, Clear, ClearShard, vars, entries, calls, evictor
<1> QED BY <1>1, <1>2, EvictorLists, RemovingLists, RefresherLists DEF Next

-----------------------------------------------------------------------------
(***************************************************************************)
(* The rest is about workloads in which no entry is both moved and removed *)
(* by its list, since then a list falls apart: no two requests collide on  *)
(* a key, and either nothing is evicted or no request is repeated.         *)
(***************************************************************************)
\* No two requests have the same map key.
KeysApart == \A q, r \in Request : KeyOf[q] = KeyOf[r] => q = r

\* No two requests have the same key and fingerprint.
IdentitiesApart == \A q, r \in Request : SameIdentity(q, r) => q = r

\* Nothing is evicted, or no request is made again once it was cached.
OneUser == ~Eviction \/ ~Repeat

\* The entry is at some position of a list, counted from the front.
OnList(e) == \E s \in Shard : e \in Walk(ring[s])

Whole == \A s \in Shard : RingOf(ring[s], Walk(ring[s]))

\* What is about to be moved or removed is on its list.
Attached ==
    /\ ~crashed
    /\ \A p \in Client : pc[p] \notin Removal
    /\ pc[Evictor] \in {"unlistCheck", "unlist"} => OnList(old[Evictor])
    /\ ~Eviction =>
          /\ pc[Evictor] = "idle"
          /\ \A e \in Elem : listed[e] => OnList(e)
          /\ \A p \in Client : pc[p] = "setElem" => OnList(new[p])

\* A request that is not repeated has one handler or one entry.
Once ==
    ~Repeat =>
        /\ \A p \in Client : pc[p] \notin Answering \cup {"swap"}
        /\ \A e, f \in Elem : owner[e] # Nil /\ owner[e] = owner[f] => e = f
        /\ \A p \in Client : want[p] # Nil => \A e \in Elem : owner[e] # want[p]
        /\ \A p, q \in Client : want[p] # Nil /\ want[p] = want[q] => p = q

\* What the map holds is on a list, or is about to be pushed or dropped.
Reach ==
    \A k \in Key : items[k] # Nil =>
        \/ OnList(items[k])
        \/ \E p \in Client : new[p] = items[k] /\ pc[p] \in Waiting
        \/ old[Evictor] = items[k] /\ pc[Evictor] = "drop"

Ordered == Whole /\ Attached /\ Once /\ Reach

\* Everything that is known of a state of such a workload.
OInv == KeysApart /\ OneUser /\ IInv /\ Amounts /\ Lists /\ Ordered

\* A list holds entries of its shard.
LEMMA OnListHome ==
    ASSUME Lists, Whole, NEW e, NEW s \in Shard, e \in Walk(ring[s])
    PROVE  e \in Elem /\ ShardOfEntry(e) = s /\ owner[e] # Nil
<1>1. Closed(ring[s]) /\ RingOf(ring[s], Walk(ring[s]))
  BY DEF Lists, Chained, Whole
<1>2. e \in Elem /\ e \in Linked(ring[s])
  BY <1>1, RingWalk, RingLinked
<1> QED BY <1>2 DEF Lists, Placed

\* The lists are empty at first.
LEMMA InitOrdered == Init => Ordered
<1> SUFFICES ASSUME Init PROVE Ordered
  OBVIOUS
<1>1. ASSUME NEW s \in Shard PROVE RingOf(ring[s], Walk(ring[s]))
  <2>1. ring[s] = EmptyRing
    BY DEF Init
  <2>2. RingOf(EmptyRing, {})
    BY EmptyRingHoldsNothing
  <2>3. Walk(EmptyRing) = {}
    BY <2>2, RingWalk
  <2> QED BY <2>1, <2>2, <2>3
<1>2. Attached /\ Reach
  BY Goroutines DEF Init, Attached, Reach
<1>3. Once
  BY Goroutines DEF Init, Once
<1> QED BY <1>1, <1>2, <1>3 DEF Ordered, Whole

\* Entries are given up, and wants are met.
LEMMA OnceStays ==
    ASSUME IInv, Once, NEW p \in Proc, NEW label, Goto(p, label),
           p \in Client /\ ~Repeat => label \notin Answering \cup {"swap"},
           \A e \in Elem : owner'[e] \in {owner[e], Nil},
           \A q \in Client : want'[q] \in {want[q], Nil}
    PROVE  Once'
<1>1. ASSUME ~Repeat, NEW q \in Client PROVE pc'[q] \notin Answering \cup {"swap"}
  BY <1>1, Goroutines DEF Goto, IInv, Types, Once
<1>2. ASSUME ~Repeat, NEW e \in Elem, NEW f \in Elem, owner'[e] # Nil, owner'[e] = owner'[f]
      PROVE  e = f
  BY <1>2 DEF Once
<1>3. ASSUME ~Repeat, NEW q \in Client, want'[q] # Nil, NEW e \in Elem
      PROVE  owner'[e] # want'[q]
  BY <1>3 DEF Once
<1>4. ASSUME ~Repeat, NEW o \in Client, NEW q \in Client, want'[o] # Nil, want'[o] = want'[q]
      PROVE  o = q
  BY <1>4 DEF Once
<1> QED BY <1>1, <1>2, <1>3, <1>4 DEF Once

\* A step of a handler that leaves everything on its list.
LEMMA HandlerOrdered ==
    ASSUME IInv, Ordered, NEW p \in Client, NEW label \in Label, Goto(p, label),
           label \notin Removal \cup {"setElem"},
           pc[p] \in Waiting => label \in Waiting /\ new'[p] = new[p],
           \A q \in Client \ {p} : new'[q] = new[q],
           old'[Evictor] = old[Evictor],
           UNCHANGED <<items, listed>>, ~crashed',
           Whole', \A e : OnList(e) => OnList(e)',
           Once'
    PROVE  Ordered'
<1> USE DEF Ordered
<1>1. pc'[p] = label /\ \A q \in Proc \ {p} : pc'[q] = pc[q]
  BY Goroutines DEF Goto, IInv, Types
<1>2. ASSUME NEW e, NEW f, e = f, OnList(f) PROVE OnList(e)'
  BY <1>2
<1>3. Attached'
  <2>1. pc'[Evictor] \in {"unlistCheck", "unlist"} => OnList(old[Evictor])'
    BY <1>1, Goroutines DEF Attached, OnList
  <2>2. ASSUME ~Eviction, NEW e \in Elem, listed'[e] PROVE OnList(e)'
    BY <2>2 DEF Attached
  <2>3. ASSUME ~Eviction, NEW q \in Client, pc'[q] = "setElem" PROVE OnList(new[q])'
    <3>1. q # p /\ pc[q] = "setElem" /\ new'[q] = new[q]
      BY <1>1, <2>3, Goroutines
    <3> QED BY <2>3, <3>1 DEF Attached, OnList
  <2> QED BY <1>1, <2>1, <2>2, <2>3, Goroutines DEF Attached
<1>4. Reach'
  <2> SUFFICES ASSUME NEW k \in Key, items'[k] # Nil
               PROVE  \/ OnList(items[k])'
                      \/ \E q \in Client : new'[q] = items'[k] /\ pc'[q] \in Waiting
                      \/ old'[Evictor] = items'[k] /\ pc'[Evictor] = "drop"
    BY DEF Reach
  <2>1. CASE OnList(items[k])
    BY <2>1 DEF OnList
  <2>2. CASE \E q \in Client : new[q] = items[k] /\ pc[q] \in Waiting
    BY <1>1, <2>2, Goroutines
  <2>3. CASE old[Evictor] = items[k] /\ pc[Evictor] = "drop"
    BY <1>1, <2>3, Goroutines
  <2> QED BY <2>1, <2>2, <2>3 DEF Reach
<1> QED BY <1>3, <1>4

\* The lists are left as they are.
LEMMA SameOrder ==
    ASSUME Ordered, UNCHANGED ring
    PROVE  Whole' /\ \A e : OnList(e)' <=> OnList(e)
BY DEF Ordered, Whole, OnList

\* A handler goes on, or gives up, with the entries and lists as they are.
LEMMA GotoOrdered ==
    ASSUME IInv, Ordered, NEW p \in Client, NEW label \in Label, Goto(p, label),
           label \notin Removal \cup {"setElem"},
           ~Repeat => label \notin Answering \cup {"swap"},
           pc[p] \in Waiting => label \in Waiting /\ new'[p] = new[p],
           \A q \in Client \ {p} : new'[q] = new[q],
           \A q \in Client : want'[q] \in {want[q], Nil},
           \A e \in Elem : owner'[e] \in {owner[e], Nil},
           old'[Evictor] = old[Evictor],
           UNCHANGED <<items, listed>>, ~crashed',
           Whole', \A e : OnList(e) => OnList(e)'
    PROVE  Ordered'
<1>1. Once'
  BY OnceStays, Goroutines DEF Ordered
<1> QED BY <1>1, HandlerOrdered

LEMMA FinishOrdered ==
    ASSUME IInv, Ordered, NEW p \in Client, Finish(p), pc[p] \notin Waiting,
           \A e \in Elem : owner'[e] \in {owner[e], Nil},
           UNCHANGED <<items, listed, crashed>>,
           Whole', \A e : OnList(e) => OnList(e)'
    PROVE  Ordered'
<1>1. Goto(p, "idle") /\ "idle" \in Label
  BY DEF Finish, Label
<1>2. /\ \A q \in Client \ {p} : new'[q] = new[q]
      /\ \A q \in Client : want'[q] \in {want[q], Nil}
      /\ old'[Evictor] = old[Evictor]
  BY Goroutines DEF Finish, IInv, Types
<1>3. ~crashed'
  BY DEF Ordered, Attached
<1> QED BY <1>1, <1>2, <1>3, GotoOrdered

\* Discarding an entry, or nothing, only forgets owners.
LEMMA Forgotten ==
    ASSUME IInv, NEW x, owner' = owner \/ owner' = [owner EXCEPT ![x] = Nil]
    PROVE  \A e \in Elem : owner'[e] \in {owner[e], Nil}
BY DEF IInv, Types

LEMMA AfterTouchOrdered ==
    ASSUME IInv, Ordered, NEW p \in Client, AfterTouch(p), pc[p] \in {"touch", "move"},
           UNCHANGED <<items, listed, owner, crashed>>,
           Whole', \A e : OnList(e) => OnList(e)'
    PROVE  Ordered'
<1>1. CASE want[p] # Nil
  <2>1. Goto(p, "serve") /\ "serve" \in Label /\ UNCHANGED <<want, new, old>>
    BY <1>1 DEF AfterTouch, calls, Label
  <2>2. Repeat /\ ~crashed'
    BY DEF Ordered, Once, Attached
  <2> QED BY <2>1, <2>2, GotoOrdered, Goroutines
<1>2. CASE want[p] = Nil
  BY <1>2, FinishOrdered DEF AfterTouch
<1> QED BY <1>1, <1>2

\* The map holds an entry of the request's key, hence of the request.
LEMMA SameRequest ==
    ASSUME OInv, NEW r \in Request, items[KeyOf[r]] # Nil
    PROVE  items[KeyOf[r]] \in Elem /\ owner[items[KeyOf[r]]] = r
BY MappedEntry DEF OInv, KeysApart, Key

\* With distinct identities a hit is an entry of the request itself.
LEMMA HitIsOwn ==
    ASSUME IInv, IdentitiesApart, NEW r \in Request, items[KeyOf[r]] # Nil,
           SamePrint(items[KeyOf[r]], r)
    PROVE  items[KeyOf[r]] \in Elem /\ owner[items[KeyOf[r]]] = r
BY MappedEntry DEF IdentitiesApart, SameIdentity, SamePrint, Key

\* A request is taken up by the one handler that may ask for it.
LEMMA GetOnce ==
    ASSUME IInv, Once, IdentitiesApart, NEW p \in Client, NEW r \in Request, Get(p, r)
    PROVE  Once' /\ (pc'[p] = "touch" => Repeat)
<1> USE Goroutines
<1> DEFINE e == items[KeyOf[r]]
           hit == e # Nil /\ SamePrint(e, r)
           label == IF hit THEN "touch" ELSE "fetch"
<1>1. /\ pc[p] = "idle" /\ Goto(p, label) /\ MayAsk(r)
      /\ want' = [want EXCEPT ![p] = r]
      /\ UNCHANGED owner
  BY DEF Get, Ready, entries
<1>2. hit => Repeat
  BY <1>1, HitIsOwn DEF MayAsk
<1> HIDE DEF e, hit
<1>3. label \in {"touch", "fetch"} /\ (label = "touch" => Repeat)
  BY <1>2
<1> HIDE DEF label
<1>4. pc'[p] = label /\ \A q \in Client \ {p} : pc'[q] = pc[q]
  BY <1>1 DEF Goto, IInv, Types
<1>5. Once'
  <2> SUFFICES ASSUME ~Repeat PROVE Once'
    BY DEF Once
  <2> USE DEF Once
  <2>1. /\ \A x \in Elem : owner[x] # r
        /\ \A q \in Client : want[q] # r
    BY <1>1 DEF MayAsk
  <2>2. \A q \in Client : want'[q] = IF q = p THEN r ELSE want[q]
    BY <1>1 DEF IInv, Types
  <2>3. \A q \in Client : pc'[q] \notin Answering \cup {"swap"}
    BY <1>3, <1>4
  <2>4. \A q \in Client : want'[q] # Nil => \A x \in Elem : owner'[x] # want'[q]
    BY <1>1, <2>1, <2>2
  <2>5. \A o, q \in Client : want'[o] # Nil /\ want'[o] = want'[q] => o = q
    BY <2>1, <2>2
  <2>6. \A x, y \in Elem : owner'[x] # Nil /\ owner'[x] = owner'[y] => x = y
    BY <1>1
  <2> QED BY <2>3, <2>4, <2>5, <2>6
<1> QED BY <1>3, <1>4, <1>5

\* The handler hands its request over to the entry it makes.
LEMMA FetchedOnce ==
    ASSUME IInv, Once, NEW p \in Client, NEW b \in Body, Fetched(p, b) PROVE Once'
<1> USE Goroutines
<1> DEFINE e == CHOOSE x \in Elem : owner[x] = Nil
<1>1. /\ pc[p] = "fetch" /\ Goto(p, "set")
      /\ owner' = [owner EXCEPT ![e] = want[p]]
      /\ want' = [want EXCEPT ![p] = Nil]
  BY DEF Fetched, Step, Ready
<1>2. e \in Elem /\ owner[e] = Nil
  BY DEF Fetched, Entries
<1> HIDE DEF e
<1>3. want[p] # Nil
  BY <1>1 DEF IInv, Found
<1> SUFFICES ASSUME ~Repeat PROVE Once'
  BY DEF Once
<1> USE DEF Once
<1>4. \A x \in Elem : owner'[x] = IF x = e THEN want[p] ELSE owner[x]
  BY <1>1 DEF IInv, Types
<1>5. \A q \in Client : want'[q] = IF q = p THEN Nil ELSE want[q]
  BY <1>1 DEF IInv, Types
<1>6. \A q \in Client : pc'[q] \notin Answering \cup {"swap"}
  BY <1>1 DEF Goto, IInv, Types
<1>7. \A q \in Client : want'[q] # Nil => \A x \in Elem : owner'[x] # want'[q]
  BY <1>3, <1>4, <1>5
<1>8. \A o, q \in Client : want'[o] # Nil /\ want'[o] = want'[q] => o = q
  BY <1>5
<1>9. \A x, y \in Elem : owner'[x] # Nil /\ owner'[x] = owner'[y] => x = y
  BY <1>3, <1>4
<1> QED BY <1>6, <1>7, <1>8, <1>9

\* Set finds no entry of its request, which nobody else has asked for.
LEMMA FoundOnlyIfRepeated ==
    ASSUME IInv, Once, IdentitiesApart, NEW p \in Client, SetFound(p)
    PROVE  Repeat
<1> DEFINE e == items[KeyOfEntry(new[p])]
<1>1. pc[p] = "set" /\ e # Nil /\ SamePrint(e, owner[new[p]])
  BY DEF SetFound, Ready
<1>2. PICK r \in Request : r = owner[new[p]]
  BY <1>1, NewEntry
<1>3. e \in Elem /\ owner[e] = r
  BY <1>1, <1>2, HitIsOwn DEF KeyOfEntry
<1>4. new[p] \in Elem /\ e # new[p]
  BY <1>1, <1>2, <1>3, NewEntry DEF KeyOfEntry, IInv, Hidden, Key
<1> QED BY <1>2, <1>3, <1>4, StorageAssumption DEF Once

LEMMA GetOrdered ==
    ASSUME OInv, NEW p \in Client, NEW r \in Request, Get(p, r) PROVE Ordered'
<1>1. PICK label \in {"touch", "fetch"} : Goto(p, label) /\ label \in Label
  BY DEF Get, Label
<1>2. /\ pc[p] = "idle"
      /\ old'[Evictor] = old[Evictor]
      /\ UNCHANGED <<items, ring, listed, owner, new, crashed>>
  BY Goroutines DEF Get, Ready, maps, entries, OInv, IInv, Types
<1>3. Once'
  BY GetOnce DEF OInv, Ordered, KeysApart, IdentitiesApart, SameIdentity
<1>4. IInv /\ Ordered /\ ~crashed'
  BY <1>2 DEF OInv, Ordered, Attached
<1> QED BY <1>1, <1>2, <1>3, <1>4, HandlerOrdered, SameOrder

LEMMA FetchedOrdered ==
    ASSUME OInv, NEW p \in Client, NEW b \in Body, Fetched(p, b) PROVE Ordered'
<1>1. /\ pc[p] = "fetch" /\ Goto(p, "set") /\ "set" \in Label
      /\ UNCHANGED <<items, ring, listed, old, crashed>>
      /\ \A q \in Client \ {p} : new'[q] = new[q]
  BY Goroutines DEF Fetched, Step, Ready, maps, Label, OInv, IInv, Types
<1>2. Once'
  BY FetchedOnce DEF OInv, Ordered
<1>3. IInv /\ Ordered /\ ~crashed'
  BY <1>1 DEF OInv, Ordered, Attached
<1> QED BY <1>1, <1>2, <1>3, HandlerOrdered, SameOrder

\* The victim is the last element of a list, never the root.
LEMMA VictimIsEntry ==
    ASSUME Whole, NEW s \in Shard
    PROVE  FindVictim(s) \in Elem \cup {Nil}
<1> DEFINE near == Neighbours(s)
           found == {i \in DOMAIN near : Back(ring[near[i]]) # Nil}
<1>1. near \in Seq(Shard)
  <2>1. s \in Int /\ 0 <= s /\ s < TotalShards /\ TotalShards \in Nat
    BY StorageAssumption DEF Shard
  <2>2. s + 1 < TotalShards => s + 1 \in Shard
    BY <2>1, StorageAssumption DEF Shard
  <2>3. s - 1 > 0 => s - 1 \in Shard
    BY <2>1, StorageAssumption DEF Shard
  <2>4. (IF s + 1 < TotalShards THEN <<s + 1>> ELSE <<>>) \in Seq(Shard)
    BY <2>2
  <2>5. (IF s - 1 > 0 THEN <<s - 1>> ELSE <<>>) \in Seq(Shard)
    BY <2>3
  <2>6. <<s>> \in Seq(Shard)
    OBVIOUS
  <2> QED BY <2>4, <2>5, <2>6 DEF Neighbours
<1>2. found \in SUBSET Nat /\ \A i \in found : near[i] \in Shard
  <2> HIDE DEF near
  <2> QED BY <1>1
<1> HIDE DEF near
<1>3. CASE found = {}
  BY <1>3 DEF FindVictim, near
<1>4. CASE found # {}
  <2>1. \E x \in found : \A y \in found : x <= y
    BY <1>2, <1>4, LeastNat
  <2>2. Min(found) \in found
    BY <2>1 DEF Min
  <2>3. near[Min(found)] \in Shard
    BY <1>2, <2>2
  <2>4. Back(ring[near[Min(found)]]) \in Elem \cup {Nil}
    BY <2>3, RingWalk DEF Whole
  <2> QED BY <1>4, <2>4 DEF FindVictim, near
<1> QED BY <1>3, <1>4

\* PushFront puts the entry on the list of its shard.
LEMMA PushOrdered == ASSUME OInv, NEW p \in Client, Push(p) PROVE Ordered'
<1> USE Goroutines DEF OInv, Ordered
<1> DEFINE e == new[p]
           h == ShardOfEntry(e)
<1>1. /\ pc[p] = "push" /\ Goto(p, "setElem")
      /\ ring' = [ring EXCEPT ![h] = PushFront(@, e)]
      /\ UNCHANGED <<items, listed, owner, want, new, old, crashed>>
  BY DEF Push, Step, Ready, maps, entries, calls
<1>2. e \in Elem /\ owner[e] # Nil /\ InNoList(e)
  BY <1>1 DEF IInv, Types, Found, Alive, Lists, PushedOnce
<1>3. h \in Shard
  BY <1>2, Home
<1>4. ring[h] \in RingType /\ Closed(ring[h]) /\ RingOf(ring[h], Walk(ring[h]))
  BY <1>3 DEF Lists, Chained, Whole
<1>5. e \notin Walk(ring[h])
  BY <1>2, <1>3, <1>4, RingLinked DEF InNoList
<1>6. RingOf(PushFront(ring[h], e), Walk(ring[h]) \cup {e})
  BY <1>2, <1>4, <1>5, PushAdds
<1>7. Walk(PushFront(ring[h], e)) = Walk(ring[h]) \cup {e}
  BY <1>6, RingWalk
<1> HIDE DEF h
<1>8. ASSUME NEW s \in Shard
      PROVE  /\ RingOf(ring'[s], Walk(ring'[s]))
             /\ Walk(ring[s]) \subseteq Walk(ring'[s])
             /\ s = h => e \in Walk(ring'[s])
  <2>1. CASE s = h
    BY <1>1, <1>3, <1>6, <1>7, <2>1 DEF Lists, Chained
  <2>2. CASE s # h
    BY <1>1, <2>2 DEF Lists, Chained, Whole
  <2> QED BY <2>1, <2>2
<1>9. \A x : OnList(x) => OnList(x)'
  BY <1>8 DEF OnList
<1>10. OnList(new[p])'
  BY <1>1, <1>3, <1>8 DEF OnList
<1>11. pc'[p] = "setElem" /\ \A q \in Proc \ {p} : pc'[q] = pc[q]
  BY <1>1 DEF Goto, IInv, Types
<1>12. Once'
  BY <1>1, OnceStays
<1>13. Whole'
  BY <1>8 DEF Whole
<1> HIDE DEF e
<1>14. Attached'
  <2>1. pc'[Evictor] \in {"unlistCheck", "unlist"} => OnList(old[Evictor])'
    BY <1>1, <1>9, <1>11 DEF Attached, OnList
  <2>2. ASSUME ~Eviction, NEW x \in Elem, listed'[x] PROVE OnList(x)'
    BY <1>1, <1>9, <2>2 DEF Attached
  <2>3. ASSUME ~Eviction, NEW q \in Client, pc'[q] = "setElem" PROVE OnList(new[q])'
    BY <1>1, <1>9, <1>10, <1>11, <2>3 DEF Attached, OnList
  <2>4. \A q \in Client : pc'[q] \notin Removal
    BY <1>11 DEF Attached
  <2> QED BY <1>1, <1>11, <2>1, <2>2, <2>3, <2>4 DEF Attached
<1>15. Reach'
  <2> SUFFICES ASSUME NEW k \in Key, items[k] # Nil
               PROVE  \/ OnList(items[k])'
                      \/ \E q \in Client : new'[q] = items[k] /\ pc'[q] \in Waiting
                      \/ old'[Evictor] = items[k] /\ pc'[Evictor] = "drop"
    BY <1>1 DEF Reach, OnList
  <2>1. CASE OnList(items[k])
    BY <1>1, <1>9, <2>1 DEF OnList
  <2>2. ASSUME NEW q \in Client, new[q] = items[k], pc[q] \in Waiting PROVE OnList(items[k])' \/ q # p
    BY <1>1, <1>10, <2>2 DEF OnList
  <2>3. CASE old[Evictor] = items[k] /\ pc[Evictor] = "drop"
    BY <1>1, <1>11, <2>3
  <2>4. \A q \in Client \ {p} : new'[q] = new[q] /\ pc'[q] = pc[q]
    BY <1>1, <1>11
  <2> QED BY <2>1, <2>2, <2>3, <2>4 DEF Reach
<1> QED BY <1>12, <1>13, <1>14, <1>15

\* The entry learns of its element while the element is still on the list.
LEMMA SetElemOrdered == ASSUME OInv, NEW p \in Client, SetElem(p) PROVE Ordered'
<1> USE Goroutines DEF OInv, Ordered
<1> DEFINE e == new[p]
<1>1. /\ pc[p] = "setElem" /\ Finish(p)
      /\ listed' = [listed EXCEPT ![e] = TRUE]
      /\ UNCHANGED <<items, ring, owner, crashed>>
  BY DEF SetElem, Ready, maps
<1>2. Whole' /\ \A x : OnList(x)' <=> OnList(x)
  BY <1>1, SameOrder
<1>3. /\ pc'[p] = "idle" /\ \A q \in Proc \ {p} : pc'[q] = pc[q]
      /\ \A q \in Proc \ {p} : new'[q] = new[q] /\ old'[q] = old[q]
      /\ \A q \in Client : want'[q] \in {want[q], Nil}
  BY <1>1 DEF Finish, Goto, IInv, Types
<1>4. Once'
  BY <1>1, <1>3, OnceStays DEF Finish
<1>5. Attached'
  <2>1. pc'[Evictor] \in {"unlistCheck", "unlist"} => OnList(old[Evictor])'
    BY <1>2, <1>3 DEF Attached, OnList
  <2>2. ASSUME ~Eviction, NEW x \in Elem, listed'[x] PROVE OnList(x)'
    BY <1>1, <1>2, <2>2 DEF Attached, Lists, Placed
  <2>3. ASSUME ~Eviction, NEW q \in Client, pc'[q] = "setElem" PROVE OnList(new[q])'
    BY <1>2, <1>3, <2>3 DEF Attached, OnList
  <2>4. \A q \in Client : pc'[q] \notin Removal
    BY <1>3 DEF Attached
  <2> QED BY <1>1, <1>3, <2>1, <2>2, <2>3, <2>4 DEF Attached
<1>6. Reach'
  <2> SUFFICES ASSUME NEW k \in Key, items[k] # Nil
               PROVE  \/ OnList(items[k])'
                      \/ \E q \in Client : new'[q] = items[k] /\ pc'[q] \in Waiting
                      \/ old'[Evictor] = items[k] /\ pc'[Evictor] = "drop"
    BY <1>1 DEF Reach, OnList
  <2>1. OnList(items[k]) => OnList(items[k])'
    BY <1>1, <1>2 DEF OnList
  <2>2. \A q \in Client : pc[q] \in Waiting => q # p
    BY <1>1
  <2> QED BY <1>1, <1>3, <2>1, <2>2 DEF Reach
<1> QED BY <1>2, <1>4, <1>5, <1>6

\* The map gets the entry, which its handler has yet to push.
LEMMA StoreOrdered == ASSUME OInv, NEW p \in Client, Store(p) PROVE Ordered'
<1> USE Goroutines DEF OInv, Ordered
<1> DEFINE h == KeyOfEntry(new[p])
           label == IF items[h] = Nil THEN "addLen" ELSE "addMem"
<1>1. /\ pc[p] = "store" /\ Goto(p, label)
      /\ items' = [items EXCEPT ![h] = new[p]]
      /\ old' = [old EXCEPT ![p] = items[h]]
      /\ UNCHANGED <<ring, listed, owner, want, new, crashed>>
  BY DEF Store, Ready, entries
<1>2. label \in Waiting
  OBVIOUS
<1> HIDE DEF h, label
<1>3. Whole' /\ \A x : OnList(x)' <=> OnList(x)
  BY <1>1, SameOrder
<1>4. /\ pc'[p] = label /\ \A q \in Proc \ {p} : pc'[q] = pc[q]
      /\ old'[Evictor] = old[Evictor]
  BY <1>1 DEF Goto, IInv, Types
<1>5. Once'
  BY <1>1, <1>2, OnceStays
<1>6. Attached'
  <2>1. pc'[Evictor] \in {"unlistCheck", "unlist"} => OnList(old[Evictor])'
    BY <1>3, <1>4 DEF Attached, OnList
  <2>2. ASSUME ~Eviction, NEW x \in Elem, listed'[x] PROVE OnList(x)'
    BY <1>1, <1>3, <2>2 DEF Attached
  <2>3. ASSUME ~Eviction, NEW q \in Client, pc'[q] = "setElem" PROVE OnList(new[q])'
    BY <1>1, <1>2, <1>3, <1>4, <2>3 DEF Attached, OnList
  <2>4. \A q \in Client : pc'[q] \notin Removal
    BY <1>2, <1>4 DEF Attached
  <2> QED BY <1>1, <1>4, <2>1, <2>2, <2>3, <2>4 DEF Attached
<1>7. Reach'
  <2> SUFFICES ASSUME NEW k \in Key, items'[k] # Nil
               PROVE  \/ OnList(items[k])'
                      \/ \E q \in Client : new'[q] = items'[k] /\ pc'[q] \in Waiting
                      \/ old'[Evictor] = items'[k] /\ pc'[Evictor] = "drop"
    BY DEF Reach
  <2>1. CASE k = h
    BY <1>1, <1>2, <1>4, <2>1 DEF IInv, Types
  <2>2. CASE k # h
    <3>1. items'[k] = items[k]
      BY <1>1, <2>2
    <3>2. OnList(items[k]) => OnList(items[k])'
      BY <1>3, <3>1 DEF OnList
    <3>3. \A q \in Client : pc[q] \in Waiting => new'[q] = new[q] /\ pc'[q] \in Waiting
      BY <1>1, <1>2, <1>4
    <3> QED BY <1>1, <1>4, <3>1, <3>2, <3>3 DEF Reach
  <2> QED BY <2>1, <2>2
<1> QED BY <1>3, <1>5, <1>6, <1>7

\* A touched entry is moved within its list.
LEMMA MoveOrdered == ASSUME OInv, NEW p \in Client, Move(p) PROVE Ordered'
<1> USE Goroutines DEF OInv, Ordered
<1>1. /\ pc[p] = "move" /\ AfterTouch(p)
      /\ ring' = [ring EXCEPT ![ShardOfEntry(old[p])] = MoveToFront(@, old[p])]
      /\ UNCHANGED <<items, listed, owner, crashed>>
  BY DEF Move, Ready, maps, entries
<1>2. ~Eviction
  BY <1>1 DEF Once, OneUser
<1>3. listed[old[p]] /\ old[p] \in Elem
  BY <1>1 DEF Lists, TakenFromList, Attached, IInv, Types, Found
<1>4. PICK e \in Elem, s \in Shard : e = old[p] /\ e \in Walk(ring[s])
  BY <1>2, <1>3 DEF Attached, OnList
<1>5. ShardOfEntry(e) = s
  BY <1>4, OnListHome
<1>6. ring' = [ring EXCEPT ![s] = MoveToFront(@, e)]
  BY <1>1, <1>4, <1>5
<1>7. ring[s] \in RingType /\ RingOf(ring[s], Walk(ring[s]))
  BY DEF Lists, Chained, Whole
<1>8. RingOf(MoveToFront(ring[s], e), Walk(ring[s]))
  BY <1>4, <1>7, MoveKeeps
<1>9. Walk(MoveToFront(ring[s], e)) = Walk(ring[s])
  BY <1>8, RingWalk
<1>10. ASSUME NEW t \in Shard
       PROVE  RingOf(ring'[t], Walk(ring'[t])) /\ Walk(ring'[t]) = Walk(ring[t])
  <2>1. CASE s = t
    BY <1>6, <1>8, <1>9, <2>1 DEF Lists, Chained
  <2>2. CASE s # t
    BY <1>6, <2>2 DEF Lists, Chained, Whole
  <2> QED BY <2>1, <2>2
<1>11. Whole' /\ \A x : OnList(x) => OnList(x)'
  BY <1>10 DEF Whole, OnList
<1> HIDE DEF OInv, Ordered
<1>12. IInv /\ Ordered
  BY DEF OInv
<1> QED BY <1>1, <1>11, <1>12, AfterTouchOrdered

LEMMA WorkingOrdered == ASSUME OInv, NEW p \in Client, Working(p) PROVE Ordered'
<1> USE Goroutines
<1>1. IInv /\ Ordered /\ ~crashed /\ (~Repeat => pc[p] \notin Answering \cup {"swap"})
  BY DEF OInv, Ordered, Attached, Once
<1>2. ASSUME UNCHANGED ring PROVE Whole' /\ \A x : OnList(x) => OnList(x)'
  BY <1>1, <1>2, SameOrder
<1>3. CASE TouchSkips(p)
  <2>1. /\ pc[p] = "touch" /\ AfterTouch(p)
        /\ UNCHANGED <<items, ring, listed, owner, crashed>>
    BY <1>3 DEF TouchSkips, Ready, maps, entries
  <2> QED BY <1>1, <1>2, <2>1, AfterTouchOrdered
<1>4. CASE Touch(p)
  <2>1. /\ pc[p] = "touch" /\ Goto(p, "move") /\ "move" \in Label
        /\ UNCHANGED <<items, ring, listed, owner, want, new, old, crashed>>
    BY <1>4 DEF Touch, Step, Ready, maps, entries, calls, Label
  <2> QED BY <1>1, <1>2, <2>1, GotoOrdered
<1>5. CASE Serve(p)
  <2>1. /\ pc[p] = "serve" /\ Finish(p)
        /\ UNCHANGED <<items, ring, listed, owner, crashed>>
    BY <1>5 DEF Serve, Ready, maps, entries
  <2> QED BY <1>1, <1>2, <2>1, FinishOrdered
<1>6. CASE SetFound(p)
  <2> DEFINE e == items[KeyOfEntry(new[p])]
  <2>1. /\ pc[p] = "set" /\ e # Nil
        /\ old' = [old EXCEPT ![p] = e]
        /\ UNCHANGED <<items, ring, want, crashed>>
        /\ \/ Goto(p, "touch") /\ Discard(p) /\ new' = [new EXCEPT ![p] = Nil]
           \/ Goto(p, "swap") /\ UNCHANGED <<listed, owner, new>>
    BY <1>6 DEF SetFound, Ready, maps, entries
  <2>2. Repeat
    BY <1>1, <1>6, FoundOnlyIfRepeated
       DEF OInv, Ordered, KeysApart, IdentitiesApart, SameIdentity
  <2>3. old'[Evictor] = old[Evictor]
    BY <1>1, <2>1 DEF IInv, Types
  <2>4. CASE Goto(p, "touch") /\ Discard(p) /\ new' = [new EXCEPT ![p] = Nil]
    <3>1. \A x \in Elem : owner'[x] \in {owner[x], Nil}
      BY <1>1, <2>4, Forgotten DEF Discard
    <3>2. \A q \in Client \ {p} : new'[q] = new[q]
      BY <1>1, <2>4 DEF IInv, Types
    <3>3. listed' = listed /\ "touch" \in Label
      BY <2>4 DEF Discard, Label
    <3> QED BY <1>1, <1>2, <2>1, <2>2, <2>3, <2>4, <3>1, <3>2, <3>3, GotoOrdered
  <2>5. CASE Goto(p, "swap") /\ UNCHANGED <<listed, owner, new>>
    <3>1. "swap" \in Label
      BY DEF Label
    <3> QED BY <1>1, <1>2, <2>1, <2>2, <2>3, <2>5, <3>1, GotoOrdered
  <2> QED BY <2>1, <2>4, <2>5
<1>7. CASE SetCollides(p)
  <2> DEFINE e == items[KeyOfEntry(new[p])]
  <2>1. pc[p] = "set" /\ e # Nil /\ ~SamePrint(e, owner[new[p]])
    BY <1>7 DEF SetCollides, Step, Ready
  <2>2. PICK r \in Request : r = owner[new[p]]
    BY <1>1, <2>1, NewEntry
  <2>3. owner[e] = r
    BY <2>1, <2>2, SameRequest DEF KeyOfEntry
  <2> QED BY <2>1, <2>2, <2>3 DEF SamePrint
<1>8. CASE SetMisses(p)
  <2>1. /\ pc[p] = "set" /\ Goto(p, "admit") /\ "admit" \in Label
        /\ UNCHANGED <<items, ring, listed, owner, want, new, old, crashed>>
    BY <1>8 DEF SetMisses, Step, Ready, maps, entries, calls, Label
  <2> QED BY <1>1, <1>2, <2>1, GotoOrdered
<1>9. CASE Swap(p)
  <2>1. /\ pc[p] = "swap" /\ Goto(p, "touch") /\ "touch" \in Label
        /\ owner' = [owner EXCEPT ![new[p]] = Nil]
        /\ new' = [new EXCEPT ![p] = Nil]
        /\ UNCHANGED <<items, ring, listed, want, old, crashed>>
    BY <1>9 DEF Swap, Step, Ready, maps, Label
  <2>2. \A x \in Elem : owner'[x] \in {owner[x], Nil}
    BY <1>1, <2>1, Forgotten
  <2>3. \A q \in Client \ {p} : new'[q] = new[q]
    BY <1>1, <2>1 DEF IInv, Types
  <2> QED BY <1>1, <1>2, <2>1, <2>2, <2>3, GotoOrdered
<1>10. CASE Admit(p)
  <2>1. /\ pc[p] = "admit" /\ Goto(p, "store") /\ "store" \in Label
        /\ crashed' = (~Room /\ Victim(p) = Root)
        /\ UNCHANGED <<items, ring, listed, owner, want, new, old>>
    BY <1>10 DEF Admit, Step, Ready, maps, entries, calls, Label
  <2>2. new[p] \in Elem /\ owner[new[p]] # Nil
    BY <1>1, <2>1, NewEntry, StorageAssumption
  <2>3. Victim(p) \in Elem \cup {Nil}
    BY <1>1, <2>2, Home, VictimIsEntry DEF Victim, Ordered
  <2>4. ~crashed'
    BY <2>1, <2>3, RingAssumption
  <2> QED BY <1>1, <1>2, <2>1, <2>4, GotoOrdered
<1>11. CASE Reject(p)
  <2>1. /\ pc[p] = "admit" /\ Finish(p) /\ Discard(p)
        /\ UNCHANGED <<items, ring, crashed>>
    BY <1>11 DEF Reject, Ready, maps
  <2>2. (\A x \in Elem : owner'[x] \in {owner[x], Nil}) /\ listed' = listed
    BY <1>1, <2>1, Forgotten DEF Discard
  <2> QED BY <1>1, <1>2, <2>1, <2>2, FinishOrdered
<1>12. CASE AddLen(p)
  <2>1. /\ pc[p] = "addLen" /\ Goto(p, "addMem") /\ "addMem" \in Label
        /\ UNCHANGED <<items, ring, listed, owner, want, new, old, crashed>>
    BY <1>12 DEF AddLen, Step, Ready, entries, calls, Label
  <2> QED BY <1>1, <1>2, <2>1, GotoOrdered
<1>13. CASE AddMem(p)
  <2>1. /\ pc[p] = "addMem" /\ Goto(p, "push") /\ "push" \in Label
        /\ old' = [old EXCEPT ![p] = Nil]
        /\ UNCHANGED <<items, ring, listed, owner, want, new, crashed>>
    BY <1>13 DEF AddMem, Step, Ready, entries, Label
  <2>2. old'[Evictor] = old[Evictor]
    BY <1>1, <2>1 DEF IInv, Types
  <2> QED BY <1>1, <1>2, <2>1, <2>2, GotoOrdered
<1> QED BY <1>3, <1>4, <1>5, <1>6, <1>7, <1>8, <1>9, <1>10, <1>11, <1>12, <1>13,
           MoveOrdered, StoreOrdered, PushOrdered, SetElemOrdered DEF Working

\* A step of the evictor between two lists or two entries.
LEMMA EvictorOrdered ==
    ASSUME IInv, Ordered, NEW label \in Label, Goto(Evictor, label),
           pc[Evictor] # "drop",
           ~Eviction => label = "idle",
           label \in {"unlistCheck", "unlist"} => OnList(old'[Evictor]),
           label = "drop" => old' = old,
           UNCHANGED <<items, ring, listed, owner>>,
           \A q \in Client : new'[q] = new[q] /\ want'[q] = want[q],
           ~crashed'
    PROVE  Ordered'
<1> USE Goroutines DEF Ordered
<1>1. pc'[Evictor] = label /\ \A q \in Proc \ {Evictor} : pc'[q] = pc[q]
  BY DEF Goto, IInv, Types
<1>2. Whole' /\ \A x : OnList(x)' <=> OnList(x)
  BY SameOrder
<1>3. Once'
  BY OnceStays
<1>4. Attached'
  <2>1. pc'[Evictor] \in {"unlistCheck", "unlist"} => OnList(old[Evictor])'
    BY <1>1, <1>2 DEF OnList
  <2>2. ASSUME ~Eviction, NEW x \in Elem, listed'[x] PROVE OnList(x)'
    BY <1>2, <2>2 DEF Attached
  <2>3. ASSUME ~Eviction, NEW q \in Client, pc'[q] = "setElem" PROVE OnList(new[q])'
    BY <1>1, <1>2, <2>3 DEF Attached, OnList
  <2>4. \A q \in Client : pc'[q] \notin Removal
    BY <1>1 DEF Attached
  <2> QED BY <1>1, <2>1, <2>2, <2>3, <2>4 DEF Attached
<1>5. Reach'
  <2> SUFFICES ASSUME NEW k \in Key, items[k] # Nil
               PROVE  \/ OnList(items[k])'
                      \/ \E q \in Client : new'[q] = items[k] /\ pc'[q] \in Waiting
                      \/ old'[Evictor] = items[k] /\ pc'[Evictor] = "drop"
    BY DEF Reach, OnList
  <2>1. OnList(items[k]) => OnList(items[k])'
    BY <1>2 DEF OnList
  <2>2. \A q \in Client : new'[q] = new[q] /\ pc'[q] = pc[q]
    BY <1>1
  <2> QED BY <2>1, <2>2 DEF Reach
<1> QED BY <1>2, <1>3, <1>4, <1>5

\* The evicted entry leaves the list before it leaves the map.
LEMMA UnlistOrdered == ASSUME OInv, Unlist(Evictor) PROVE Ordered'
<1> USE Goroutines DEF OInv, Ordered
<1>1. /\ pc[Evictor] = "unlist" /\ Goto(Evictor, "drop")
      /\ ring' = [ring EXCEPT ![ShardOfEntry(old[Evictor])] = RemoveElem(@, old[Evictor])]
      /\ UNCHANGED <<items, listed, owner, want, new, old, crashed>>
  BY DEF Unlist, Step, Ready, maps, entries, calls
<1>2. PICK e, s : s \in Shard /\ e = old[Evictor] /\ e \in Walk(ring[s])
  BY <1>1 DEF Attached, OnList
<1>3. ShardOfEntry(e) = s
  BY <1>2, OnListHome
<1>4. ring' = [ring EXCEPT ![s] = RemoveElem(@, e)]
  BY <1>1, <1>2, <1>3
<1>5. ring[s] \in RingType /\ RingOf(ring[s], Walk(ring[s]))
  BY <1>2 DEF Lists, Chained, Whole
<1>6. RingOf(RemoveElem(ring[s], e), Walk(ring[s]) \ {e})
  BY <1>2, <1>5, RemoveTakes
<1>7. Walk(RemoveElem(ring[s], e)) = Walk(ring[s]) \ {e}
  BY <1>6, RingWalk
<1>8. ASSUME NEW t \in Shard
      PROVE  RingOf(ring'[t], Walk(ring'[t])) /\ Walk(ring[t]) \ {e} \subseteq Walk(ring'[t])
  <2>1. CASE s = t
    BY <1>2, <1>4, <1>6, <1>7, <2>1 DEF Lists, Chained
  <2>2. CASE s # t
    BY <1>4, <2>2 DEF Lists, Chained, Whole
  <2> QED BY <2>1, <2>2
<1>9. Whole' /\ \A x : OnList(x) /\ x # e => OnList(x)'
  BY <1>8 DEF Whole, OnList
<1>10. pc'[Evictor] = "drop" /\ \A q \in Proc \ {Evictor} : pc'[q] = pc[q]
  BY <1>1 DEF Goto, IInv, Types
<1>11. Once'
  BY <1>1, OnceStays
<1>12. Eviction
  BY <1>1 DEF Attached
<1>13. Attached'
  BY <1>1, <1>10, <1>12 DEF Attached
<1>14. Reach'
  <2> SUFFICES ASSUME NEW k \in Key, items[k] # Nil
               PROVE  \/ OnList(items[k])'
                      \/ \E q \in Client : new'[q] = items[k] /\ pc'[q] \in Waiting
                      \/ old'[Evictor] = items[k] /\ pc'[Evictor] = "drop"
    BY <1>1 DEF Reach, OnList
  <2>1. OnList(items[k]) /\ items[k] # e => OnList(items[k])'
    BY <1>1, <1>9 DEF OnList
  <2>2. items[k] = e => old'[Evictor] = items[k] /\ pc'[Evictor] = "drop"
    BY <1>1, <1>2, <1>10
  <2> QED BY <1>1, <1>10, <2>1, <2>2 DEF Reach
<1> QED BY <1>9, <1>11, <1>13, <1>14

LEMMA DropOrdered == ASSUME OInv, Drop(Evictor) PROVE Ordered'
<1> USE Goroutines DEF OInv, Ordered
<1> DEFINE h == KeyOfEntry(old[Evictor])
<1>1. PICK label \in {"subLen", "evict"} :
         /\ pc[Evictor] = "drop" /\ Goto(Evictor, label)
         /\ items' = [items EXCEPT ![h] = Nil]
         /\ UNCHANGED <<ring, listed, owner, want, new, crashed>>
  BY DEF Drop, Ready, AfterRemove, entries
<1>2. pc'[Evictor] = label /\ \A q \in Proc \ {Evictor} : pc'[q] = pc[q]
  BY <1>1 DEF Goto, IInv, Types
<1>3. Whole' /\ \A x : OnList(x)' <=> OnList(x)
  BY <1>1, SameOrder
<1>4. Once'
  BY <1>1, OnceStays
<1>5. Eviction
  BY <1>1 DEF Attached
<1>6. Attached'
  BY <1>1, <1>2, <1>5 DEF Attached
<1>7. Reach'
  <2> SUFFICES ASSUME NEW k \in Key, items'[k] # Nil
               PROVE  \/ OnList(items[k])'
                      \/ \E q \in Client : new'[q] = items'[k] /\ pc'[q] \in Waiting
                      \/ old'[Evictor] = items'[k] /\ pc'[Evictor] = "drop"
    BY DEF Reach
  <2>1. k # h /\ items'[k] = items[k]
    BY <1>1 DEF IInv, Types
  <2>2. old[Evictor] # items[k]
    BY <2>1 DEF IInv, Mapped, KeyOfEntry
  <2>3. OnList(items[k]) => OnList(items[k])'
    BY <1>3, <2>1 DEF OnList
  <2> HIDE DEF h
  <2> QED BY <1>1, <1>2, <2>1, <2>2, <2>3 DEF Reach
<1> QED BY <1>3, <1>4, <1>6, <1>7

\* On whole lists the candidate is an entry.
LEMMA EvictOrdered == ASSUME OInv, Evict PROVE Ordered'
<1> USE DEF OInv, Ordered
<1>1. /\ pc[Evictor] = "next" /\ Goto(Evictor, "unlistCheck") /\ "unlistCheck" \in Label
      /\ Candidate # Nil
      /\ crashed' = (Candidate = Root)
      /\ old' = [old EXCEPT ![Evictor] = IF Candidate = Root THEN Nil ELSE Candidate]
      /\ UNCHANGED <<items, ring, listed, owner, want, new>>
  BY DEF Evict, Step, Ready, maps, entries, Label
<1>2. scan.shard \in Shard /\ scan.offset \in Nat
  BY DEF Lists, Scanning
<1>3. RingOf(ring[scan.shard], Walk(ring[scan.shard]))
  BY <1>2 DEF Whole
<1>4. Candidate \in Walk(ring[scan.shard]) /\ Candidate \in Elem
  BY <1>1, <1>2, <1>3, RingWalk DEF Candidate
<1>5. ~crashed' /\ old'[Evictor] = Candidate
  BY <1>1, <1>4, RingAssumption, Goroutines DEF IInv, Types
<1>6. OnList(old'[Evictor])
  BY <1>2, <1>4, <1>5 DEF OnList
<1>7. Eviction
  BY <1>1 DEF Attached
<1> QED BY <1>1, <1>5, <1>6, <1>7, EvictorOrdered

\* The evictor, from one decision to the next.
LEMMA EvictingOrdered ==
    ASSUME OInv, EvictorStep \/ Removing(Evictor) PROVE Ordered'
<1> USE Goroutines
<1>1. /\ IInv /\ Ordered /\ ~crashed
      /\ ~Eviction => pc[Evictor] = "idle"
      /\ pc[Evictor] \in {"unlistCheck", "unlist"} => OnList(old[Evictor])
  BY DEF OInv, Ordered, Attached
<1>2. CASE WithinLimit
  <2>1. /\ pc[Evictor] = "pick" /\ Finish(Evictor)
        /\ UNCHANGED <<items, ring, listed, owner, crashed>>
    BY <1>2 DEF WithinLimit, Ready, maps, entries
  <2>2. /\ Goto(Evictor, "idle") /\ "idle" \in Label
        /\ \A q \in Client : new'[q] = new[q] /\ want'[q] = want[q]
    BY <1>1, <2>1 DEF Finish, Label, IInv, Types
  <2> QED BY <1>1, <2>1, <2>2, EvictorOrdered
<1>3. CASE Tick \/ Pick \/ GoOn \/ EndOfList
  <2>1. PICK label \in {"pick", "evict", "next"} :
           /\ Goto(Evictor, label) /\ label \in Label
           /\ pc[Evictor] \in {"pick", "evict", "next"} \/ (Eviction /\ pc[Evictor] = "idle")
           /\ UNCHANGED <<items, ring, listed, owner, want, new, old, crashed>>
    <3>1. {"pick", "evict", "next"} \subseteq Label
      BY DEF Label
    <3>2. CASE Tick
      BY <3>1, <3>2 DEF Tick, Step, Ready, maps, entries, calls
    <3>3. CASE Pick
      <4>1. \E label \in {"pick", "evict"} : Goto(Evictor, label)
        BY <3>3 DEF Pick
      <4>2. /\ pc[Evictor] = "pick"
            /\ UNCHANGED <<items, ring, listed, owner, want, new, old, crashed>>
        BY <3>3 DEF Pick, Ready, maps, entries, calls
      <4> QED BY <3>1, <4>1, <4>2
    <3>4. CASE GoOn
      <4>1. Goto(Evictor, IF OverLimit THEN "next" ELSE "pick")
        BY <3>4 DEF GoOn, Step
      <4>2. /\ pc[Evictor] = "evict"
            /\ UNCHANGED <<items, ring, listed, owner, want, new, old, crashed>>
        BY <3>4 DEF GoOn, Step, Ready, maps, entries, calls
      <4> QED BY <3>1, <4>1, <4>2
    <3>5. CASE EndOfList
      BY <3>1, <3>5 DEF EndOfList, Step, Ready, maps, entries, calls
    <3> QED BY <1>3, <3>2, <3>3, <3>4, <3>5
  <2> QED BY <1>1, <2>1, EvictorOrdered
<1>4. CASE UnlistCheck(Evictor)
  <2>1. PICK label \in {"unlist", "drop"} :
           /\ pc[Evictor] = "unlistCheck"
           /\ Goto(Evictor, label) /\ label \in Label
           /\ UNCHANGED <<items, ring, listed, owner, want, new, old, crashed>>
    BY <1>4 DEF UnlistCheck, Ready, maps, entries, calls, Label
  <2> QED BY <1>1, <2>1, EvictorOrdered
<1>5. CASE SubLen(Evictor) \/ SubMem(Evictor)
  <2>1. PICK label \in {"subMem", "evict"} :
           /\ pc[Evictor] \in {"subLen", "subMem"}
           /\ Goto(Evictor, label) /\ label \in Label
           /\ UNCHANGED <<items, ring, listed, owner, want, new, crashed>>
    BY <1>5 DEF SubLen, SubMem, Step, Ready, AfterRemove, maps, entries, calls, Label
  <2> QED BY <1>1, <2>1, EvictorOrdered
<1> QED BY <1>2, <1>3, <1>4, <1>5, EvictOrdered, UnlistOrdered, DropOrdered
        DEF EvictorStep, Removing

LEMMA ClearOrdered == ASSUME OInv, NEW s \in Shard, ClearShard(s) PROVE Ordered'
<1> USE DEF OInv, Ordered
<1>1. /\ items' = [k \in Key |-> IF ShardOf(k) = s THEN Nil ELSE items[k]]
      /\ UNCHANGED <<ring, listed, owner, want, new, old, pc, crashed>>
  BY DEF ClearShard, entries, calls
<1>2. Whole' /\ \A x : OnList(x)' <=> OnList(x)
  BY <1>1, SameOrder
<1>3. Once'
  BY <1>1 DEF Once
<1>4. Attached'
  BY <1>1 DEF Attached, OnList
<1>5. Reach'
  <2> SUFFICES ASSUME NEW k \in Key, items'[k] # Nil
               PROVE  \/ OnList(items[k])'
                      \/ \E q \in Client : new'[q] = items'[k] /\ pc'[q] \in Waiting
                      \/ old'[Evictor] = items'[k] /\ pc'[Evictor] = "drop"
    BY DEF Reach
  <2>1. items'[k] = items[k] /\ items[k] # Nil
    BY <1>1
  <2>2. OnList(items[k]) => OnList(items[k])'
    BY <1>1, <2>1 DEF OnList
  <2> QED BY <1>1, <2>1, <2>2 DEF Reach
<1> QED BY <1>2, <1>3, <1>4, <1>5

\* The refresher is not a user of the lists.
LEMMA RefresherOrdered == ASSUME OInv, RefresherStep PROVE Ordered'
<1> USE Goroutines DEF OInv, Ordered
<1>1. PICK label : /\ Goto(Refresher, label)
                   /\ UNCHANGED <<items, ring, listed, owner, crashed>>
  <2>1. CASE Sample
    BY <2>1 DEF Sample, Step, maps, entries
  <2>2. CASE Unpack
    BY <2>2 DEF Unpack, Step, maps, entries
  <2>3. CASE RefreshFails \/ \E b \in Body : Refreshed(b)
    BY <2>3 DEF RefreshFails, Refreshed, Finish, maps, entries
  <2> QED BY <2>1, <2>2, <2>3 DEF RefresherStep
<1>2. \A q \in Client \cup {Evictor} : /\ pc'[q] = pc[q] /\ new'[q] = new[q]
                                       /\ old'[q] = old[q] /\ want'[q] = want[q]
  <2>1. CASE Sample
    BY <2>1 DEF Sample, Step, Goto, IInv, Types
  <2>2. CASE Unpack
    BY <2>2 DEF Unpack, Step, Goto, IInv, Types
  <2>3. CASE RefreshFails \/ \E b \in Body : Refreshed(b)
    BY <2>3 DEF RefreshFails, Refreshed, Finish, Goto, IInv, Types
  <2> QED BY <2>1, <2>2, <2>3 DEF RefresherStep
<1>3. Whole' /\ \A x : OnList(x)' <=> OnList(x)
  BY <1>1, SameOrder
<1>4. Once'
  BY <1>1, <1>2, OnceStays
<1>5. Attached'
  <2>1. pc'[Evictor] \in {"unlistCheck", "unlist"} => OnList(old[Evictor])'
    BY <1>2, <1>3 DEF Attached, OnList
  <2>2. ASSUME ~Eviction, NEW x \in Elem, listed'[x] PROVE OnList(x)'
    BY <1>1, <1>3, <2>2 DEF Attached
  <2>3. ASSUME ~Eviction, NEW q \in Client, pc'[q] = "setElem" PROVE OnList(new[q])'
    BY <1>2, <1>3, <2>3 DEF Attached, OnList
  <2> QED BY <1>1, <1>2, <2>1, <2>2, <2>3 DEF Attached
<1>6. Reach'
  <2> SUFFICES ASSUME NEW k \in Key, items[k] # Nil
               PROVE  \/ OnList(items[k])'
                      \/ \E q \in Client : new'[q] = items[k] /\ pc'[q] \in Waiting
                      \/ old'[Evictor] = items[k] /\ pc'[Evictor] = "drop"
    BY <1>1 DEF Reach, OnList
  <2>1. OnList(items[k]) => OnList(items[k])'
    BY <1>1, <1>3 DEF OnList
  <2> QED BY <1>2, <2>1 DEF Reach
<1> QED BY <1>3, <1>4, <1>5, <1>6

LEMMA NextOrdered == OInv /\ [Next]_vars => OInv'
<1> SUFFICES ASSUME OInv, [Next]_vars PROVE Ordered'
  BY NextIInv, NextLists, NextAmounts DEF OInv
<1>1. IInv /\ Ordered /\ ~crashed
  BY DEF OInv, Ordered, Attached
<1>2. ASSUME NEW p \in Client, ClientStep(p) PROVE Ordered'
  <2>1. CASE FetchFails(p)
    <3>1. /\ pc[p] = "fetch" /\ Finish(p)
          /\ UNCHANGED <<items, ring, listed, owner, crashed>>
      BY <2>1 DEF FetchFails, Ready, maps, entries
    <3> QED BY <1>1, <3>1, FinishOrdered, SameOrder
  <2>2. ~Removing(p)
    BY <1>1 DEF Ordered, Attached, Removing, UnlistCheck, Unlist, Drop, SubLen, SubMem, Step, Ready
  <2> QED BY <1>2, <2>1, <2>2, GetOrdered, FetchedOrdered, WorkingOrdered DEF ClientStep
<1>3. CASE RefreshMem \/ Clear \/ UNCHANGED vars
  <2>1. UNCHANGED <<items, ring, listed, owner, want, new, old, pc, crashed>>
    BY <1>3 DEF RefreshMem, Clear, vars, maps, entries, calls
  <2>2. Whole' /\ Attached' /\ Once' /\ Reach'
    BY <1>1, <2>1 DEF Ordered, Whole, Attached, Once, Reach, OnList
  <2> QED BY <2>2 DEF Ordered
<1> QED BY <1>2, <1>3, EvictingOrdered, RefresherOrdered, ClearOrdered DEF Next

LEMMA OInvImplies == OInv => RingsIntact /\ MappedAreListed /\ NeverPanics
<1> SUFFICES ASSUME OInv PROVE RingsIntact /\ MappedAreListed /\ NeverPanics
  OBVIOUS
<1> USE DEF OInv, Ordered
<1>1. RingsIntact
  <2>1. \A s \in Shard : RingOf(ring[s], Walk(ring[s])) /\ Walk(ring[s]) \subseteq Elem
    BY RingWalk DEF Whole
  <2> QED BY <2>1 DEF RingsIntact, Intact
<1>2. NeverPanics
  BY DEF Attached, NeverPanics
<1>3. ASSUME NEW k \in Key, items[k] # Nil, OnList(items[k])
      PROVE  \E i \in 0..(ring[ShardOf(k)].len - 1) : NextAt(ring[ShardOf(k)], i) = items[k]
  <2>1. PICK s \in Shard : items[k] \in Walk(ring[s])
    BY <1>3 DEF OnList
  <2>2. ShardOfEntry(items[k]) = s /\ KeyOf[owner[items[k]]] = k
    BY <1>3, <2>1, OnListHome, MappedEntry
  <2>3. s = ShardOf(k)
    BY <2>2 DEF ShardOfEntry, KeyOfEntry
  <2> QED BY <2>1, <2>3 DEF Walk
<1>4. MappedAreListed
  BY <1>3, Goroutines DEF Reach, MappedAreListed
<1> QED BY <1>1, <1>2, <1>4

\* The invariant of such workloads.
LEMMA OInvHolds == KeysApart /\ OneUser /\ Spec => []OInv
<1>1. KeysApart /\ OneUser /\ Init => OInv
  BY InitIInv, InitLists, InitOrdered, InitAmounts DEF OInv
<1>2. OInv /\ [Next]_vars => OInv'
  BY NextOrdered
<1> QED BY <1>1, <1>2, PTL DEF Spec

\* Whatever handlers, evictor, refresher and Clear do at once, every list stays
\* one closed ring with as many elements as its counter says
\* (doubly_linked.go Len, Next, Back).
THEOREM RingsIntactHolds == KeysApart /\ OneUser /\ Spec => []RingsIntact
<1>1. OInv => RingsIntact
  BY OInvImplies
<1> QED BY <1>1, OInvHolds, PTL

\* What the map holds the evictor can reach, unless the handler that stores it
\* has yet to push it or the evictor is about to drop it (storage.go Set and
\* Remove, balancer.go Push and Remove).
THEOREM MappedAreListedHolds == KeysApart /\ OneUser /\ Spec => []MappedAreListed
<1>1. OInv => MappedAreListed
  BY OInvImplies
<1> QED BY <1>1, OInvHolds, PTL

\* Neither the admission check nor the evictor takes the root of a list for an
\* entry (balancer.go FindVictim, evictor.go).
THEOREM NeverPanicsHolds == KeysApart /\ OneUser /\ Spec => []NeverPanics
<1>1. OInv => NeverPanics
  BY OInvImplies
<1> QED BY <1>1, OInvHolds, PTL
=============================================================================
