--------------------------------- MODULE Pools ---------------------------------
(***************************************************************************)
(* Who uses which pair of a request and a response.  Handlers, refreshes   *)
(* and health checks take pairs from fasthttp's pools and give them back   *)
(* by releasers, which they defer; what is released while it is in use, or *)
(* twice, ends up in two hands.  The request and the response of a pair    *)
(* come and go together, so a pair is one object.  A new object is one     *)
(* that nobody has used yet.                                               *)
(***************************************************************************)
EXTENDS Integers, Sequences, SequencesExt, FiniteSets

CONSTANTS
    NoPair, NoUser,
    User,     \* goroutines that use pairs
    Pair,
    NumHeads, \* how many headers an answer of the upstream has
    LetThrough \* the numbers of those that the cache rule lists; none: all

ASSUME PoolsAssumption ==
    /\ NoUser \notin User /\ NoPair \notin Pair
    /\ NumHeads \in Nat /\ LetThrough \subseteq 1..NumHeads
    /\ IsFiniteSet(User) => Cardinality(Pair) >= 2 * Cardinality(User)

VARIABLES
    pooled,   \* pooled[o]: how many references to o the pools hold
    query,    \* query[o]: whose request o's request is
    reply,    \* reply[o]: the headers of o's response: whose answer, which header
    using     \* using[u]: where u is; its source and its pair; its deferred releases

poolVars == <<pooled, query, reply, using>>

AtRest == [pc |-> "rest", kind |-> "none", source |-> NoPair, pair |-> NoPair, defers |-> <<>>]

Use ==
    [pc     : {"rest", "fetch", "send", "filter", "store", "respond", "return"},
     kind   : {"none", "hit", "miss", "proxy", "refresh", "check", "mock"},
     source : Pair \cup {NoPair}, pair : Pair \cup {NoPair},
     defers : BoundedSeq(Pair, 2)]

PoolsTypeOK ==
    /\ pooled \in [Pair -> Nat]
    /\ query \in [Pair -> User \cup {NoUser}]
    /\ \A o \in Pair : \A i \in DOMAIN reply[o] :
           reply[o][i] \in (User \cup {NoUser}) \X (1..NumHeads)
    /\ using \in [User -> Use]

PoolsInit ==
    /\ pooled = [o \in Pair |-> 1]
    /\ query = [o \in Pair |-> NoUser]
    /\ reply = [o \in Pair |-> <<>>]
    /\ using = [u \in User |-> AtRest]

Heads(u)     == [i \in 1..NumHeads |-> <<u, i>>]
IsAllowed(h) == LetThrough = {} \/ h[2] \in LetThrough

\* The positions of the headers that the rule lists, in their order.
Kept(cells) ==
    LET kept[n \in 0..Len(cells)] ==
            IF n = 0 THEN <<>>
            ELSE IF IsAllowed(cells[n]) THEN Append(kept[n - 1], n) ELSE kept[n - 1]
    IN  kept[Len(cells)]

AllowedHeads(u) == [i \in DOMAIN Kept(Heads(u)) |-> Heads(u)[Kept(Heads(u))[i]]]

Continue(u, s) == using' = [using EXCEPT ![u] = s]
GoTo(u, pc)    == Continue(u, [using[u] EXCEPT !.pc = pc])

Acquire(o) == pooled[o] > 0 /\ pooled' = [pooled EXCEPT ![o] = @ - 1]

\* A released object is reset and put back, whoever else refers to it.
Release(o) ==
    /\ pooled' = [pooled EXCEPT ![o] = @ + 1]
    /\ query' = [query EXCEPT ![o] = NoUser]
    /\ reply' = [reply EXCEPT ![o] = <<>>]

\* Payload: a pair that is filled with what the entry holds, and its releaser.
Unpacked(u, o, kind, pc) ==
    /\ using[u].pc = "rest"
    /\ Acquire(o)
    /\ query' = [query EXCEPT ![o] = u]
    /\ reply' = [reply EXCEPT ![o] = AllowedHeads(u)]
    /\ Continue(u, [pc |-> pc, kind |-> kind, source |-> o, pair |-> o, defers |-> <<o>>])

\* FromEntry; and the refresh of an entry, which repeats the entry's request.
ServeEntry(u, o) == Unpacked(u, o, "hit", "respond")
RepeatEntry(u, o) == Unpacked(u, o, "refresh", "fetch")

\* The cluster has no backend to give: no pair, and a releaser that does nothing.
NoBackend(u) ==
    /\ using[u].pc = "fetch"
    /\ GoTo(u, "return")
    /\ UNCHANGED <<pooled, query, reply>>

\* Fetch copies the incoming request, or the one that is repeated.
Copy(u, o) ==
    /\ Acquire(o)
    /\ \/ /\ using[u].pc = "rest"
          /\ query' = [query EXCEPT ![o] = u]
          /\ \E kind \in {"miss", "proxy"} :
                Continue(u, [using[u] EXCEPT !.pc = "send", !.kind = kind, !.pair = o])
       \/ /\ using[u].pc = "fetch"
          /\ query' = [query EXCEPT ![o] = query[using[u].source]]
          /\ Continue(u, [using[u] EXCEPT !.pc = "send", !.pair = o])
    /\ UNCHANGED reply

\* The upstream answers the request that the pair holds by now.
Replied(u) ==
    /\ using[u].pc = "send" /\ using[u].kind # "check"
    /\ LET o == using[u].pair IN reply' = [reply EXCEPT ![o] = Heads(query[o])]
    /\ GoTo(u, "filter")
    /\ UNCHANGED <<pooled, query>>

\* GetSingleMock fills a pair, makes an entry of it and releases it.
MakeMock(u, o) ==
    /\ using[u].pc = "rest"
    /\ Acquire(o)
    /\ query' = [query EXCEPT ![o] = u]
    /\ reply' = [reply EXCEPT ![o] = Heads(u)]
    /\ Continue(u, [using[u] EXCEPT !.pc = "store", !.kind = "mock", !.pair = o,
                                    !.defers = <<o>>])

\* Mutation: the failed call releases the pair and returns its releaser, too.
TimedOutReleasesTwice(u) ==
    /\ using[u].pc = "send" /\ using[u].kind # "check"
    /\ Release(using[u].pair)
    /\ Continue(u, [using[u] EXCEPT !.pc = "return", !.defers = Append(@, using[u].pair)])

\* A failed call releases the pair at once and returns a releaser that does nothing.
TimedOut(u) ==
    /\ using[u].pc = "send" /\ using[u].kind # "check"
    /\ Release(using[u].pair)
    /\ GoTo(u, "return")

\* filterHeaders collects keys and values that are slices of the header's own
\* cells, resets the header and adds them again: the i-th goes to the i-th cell.
Compact(cells) ==
    LET kept == Kept(cells)
        written[n \in 0..Len(kept)] ==
            IF n = 0 THEN cells
            ELSE [written[n - 1] EXCEPT ![n] = written[n - 1][kept[n]]]
    IN  SubSeq(written[Len(kept)], 1, Len(kept))

\* Without a rule nothing is filtered.  Fetch returns the releaser, which the
\* caller defers.  A refresh gives up on a status other than 200.
Filter(u) ==
    /\ using[u].pc = "filter"
    /\ LET o == using[u].pair
           k == using[u].kind
       IN  /\ IF k = "proxy" THEN UNCHANGED reply
                             ELSE reply' = [reply EXCEPT ![o] = Compact(@)]
           /\ \E pc \in CASE k = "miss"    -> {"store"}
                          [] k = "proxy"   -> {"respond"}
                          [] k = "refresh" -> {"store", "return"} :
                 Continue(u, [using[u] EXCEPT !.pc = pc, !.defers = Append(@, o)])
    /\ UNCHANGED <<pooled, query>>

\* SetPayload copies the request and the response into the entry.
StoreReply(u) ==
    /\ using[u].pc = "store"
    /\ GoTo(u, IF using[u].kind = "miss" THEN "respond" ELSE "return")
    /\ UNCHANGED <<pooled, query, reply>>

\* FromResponse copies the response into the answer of the handler.
SendReply(u) ==
    /\ using[u].pc = "respond"
    /\ GoTo(u, "return")
    /\ UNCHANGED <<pooled, query, reply>>

\* The deferred releasers run, the last one first.
RunDefers(u) ==
    /\ using[u].pc = "return"
    /\ IF using[u].defers = <<>>
       THEN using' = [using EXCEPT ![u] = AtRest] /\ UNCHANGED <<pooled, query, reply>>
       ELSE /\ Release(Last(using[u].defers))
            /\ Continue(u, [using[u] EXCEPT !.defers = Front(@)])

\* IsHealthy defers both releases before it fills the pair, and only looks at
\* the status of an answer.
AskHealth(u, o) ==
    /\ using[u].pc = "rest"
    /\ Acquire(o)
    /\ query' = [query EXCEPT ![o] = u]
    /\ Continue(u, [using[u] EXCEPT !.pc = "send", !.kind = "check", !.pair = o,
                                    !.defers = <<o>>])
    /\ UNCHANGED reply

HealthKnown(u) ==
    /\ using[u].pc = "send" /\ using[u].kind = "check"
    /\ LET o == using[u].pair
       IN  reply' \in {[reply EXCEPT ![o] = Heads(query[o])], reply}
    /\ GoTo(u, "return")
    /\ UNCHANGED <<pooled, query>>

PoolsNext ==
    \E u \in User :
        \/ NoBackend(u) \/ Replied(u) \/ TimedOut(u) \/ Filter(u) \/ StoreReply(u)
        \/ SendReply(u) \/ RunDefers(u) \/ HealthKnown(u)
        \/ \E o \in Pair :
              ServeEntry(u, o) \/ RepeatEntry(u, o) \/ Copy(u, o) \/ MakeMock(u, o)
                \/ AskHealth(u, o)

PoolsSpec == PoolsInit /\ [][PoolsNext]_poolVars

-----------------------------------------------------------------------------
\* What a goroutine sends is its own request, and what it stores or answers is
\* the upstream's reply to this request with exactly the headers that the rule
\* allows (all of them where no rule is asked): no pair is in two hands.
ReadsOwn ==
    \A u \in User :
        LET s == using[u]
        IN  /\ s.pc \in {"send", "filter", "store", "respond"} => query[s.pair] = u
            /\ s.pc = "fetch" => query[s.source] = u
            /\ s.pc \in {"store", "respond"} =>
                   reply[s.pair] = IF s.kind \in {"proxy", "mock"} THEN Heads(u)
                                   ELSE AllowedHeads(u)
===============================================================================
