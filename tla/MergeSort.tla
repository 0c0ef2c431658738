------------------------------- MODULE MergeSort -------------------------------
(***************************************************************************)
(* List.Sort of pkg/list, pointer by pointer, in descending order as the   *)
(* balancer calls it.  The list is locked, but the weights it compares are *)
(* the counters of the shards, which go on changing: an answer may differ  *)
(* from the one that the weights gave when the sort began.                 *)
(*                                                                         *)
(* scale holds the weights at the beginning of a sort and the comparisons  *)
(* (by number) that find them changed; h holds the pointers and the number *)
(* of comparisons so far.  A loop is a function of its rounds, of which a  *)
(* list of len elements needs len at most; behind its end nothing changes. *)
(***************************************************************************)
EXTENDS Input, Ring, FiniteSets

Pointers == [Node -> Node \cup {Nil}]
Heap     == [next : Pointers, prev : Pointers, asked : Nat]

\* Mutation: of equal weights the first argument goes first.
NotLighter(scale, a, b) == scale.weight[a] >= scale.weight[b]

\* The comparison for DESC, while the weights stand still.
Heavier(scale, a, b) == scale.weight[a] > scale.weight[b]

\* What the next comparison answers.
isLess(scale, h, a, b) == Heavier(scale, a, b) # (h.asked + 1 \in scale.changed)

Join(h, a, b) == [h EXCEPT !.next[a] = b, !.prev[b] = a]

Cut(h, slow, mid) == [h EXCEPT !.next[slow] = Nil, !.prev[mid] = Nil]

-----------------------------------------------------------------------------
\* splitHalf: fast goes twice as far as slow.
Hop(h, s) ==
    IF s.fast # Nil /\ h.next[s.fast] # Nil /\ h.next[h.next[s.fast]] # Nil
    THEN [slow |-> h.next[s.slow], fast |-> h.next[h.next[s.fast]]]
    ELSE s

\* The last element of the first half.
Half(h, head, len) ==
    LET hop[k \in 0..len] ==
            IF k = 0 THEN [slow |-> head, fast |-> head] ELSE Hop(h, hop[k - 1])
    IN  hop[len].slow

\* An element goes from one of the chains behind the tail of the merged one.
Take(m, pick, h) ==
    [h    |-> IF m.tail = Nil THEN h ELSE Join(h, m.tail, pick),
     a    |-> IF pick = m.a THEN m.h.next[m.a] ELSE m.a,
     b    |-> IF pick = m.a THEN m.b ELSE m.h.next[m.b],
     head |-> IF m.tail = Nil THEN pick ELSE m.head,
     tail |-> pick]

\* One round: the heads of both chains are compared; what is left of one of them
\* follows without a comparison.
Pick(scale, m) ==
    IF m.a # Nil /\ m.b # Nil
    THEN Take(m, IF isLess(scale, m.h, m.a, m.b) THEN m.a ELSE m.b, [m.h EXCEPT !.asked = @ + 1])
    ELSE IF m.a # Nil THEN Take(m, m.a, m.h)
    ELSE IF m.b # Nil THEN Take(m, m.b, m.h)
    ELSE m

\* The chains from a and from b become one.
mergeByWeight(scale, h, a, b, len) ==
    LET round[k \in 0..len] ==
            IF k = 0 THEN [h |-> h, a |-> a, b |-> b, head |-> Nil, tail |-> Nil]
            ELSE Pick(scale, round[k - 1])
    IN  [h |-> round[len].h, head |-> round[len].head]

\* The second half is sorted first, and is the first argument of the merge.  A
\* list of len elements is cut len times at most, one half after the other.
mergeSortByWeight(scale, h, head, len) ==
    LET sorted[d \in 0..len] == [x \in Heap \X Elem |->
            IF d = 0 \/ x[1].next[x[2]] = Nil THEN [h |-> x[1], head |-> x[2]]
            ELSE LET slow  == Half(x[1], x[2], len)
                     mid   == x[1].next[slow]
                     left  == sorted[d - 1][<<Cut(x[1], slow, mid), mid>>]
                     right == sorted[d - 1][<<left.h, x[2]>>]
                 IN  mergeByWeight(scale, right.h, left.head, right.head, len)]
    IN  sorted[len][<<h, head>>]

\* One round: the successor points back.
Follow(s) ==
    IF s.h.next[s.curr] = Nil THEN s
    ELSE [h    |-> [s.h EXCEPT !.prev[s.h.next[s.curr]] = s.curr],
          curr |-> s.h.next[s.curr]]

\* The chain is closed to a ring again.
CloseRing(h, head, len) ==
    LET walk[k \in 0..len] ==
            IF k = 0 THEN [h |-> Join(h, Root, head), curr |-> head] ELSE Follow(walk[k - 1])
    IN  Join(walk[len].h, walk[len].curr, Root)

Sort(r, scale) ==
    IF r.len < 2 THEN r
    ELSE LET opened == [next  |-> [r.next EXCEPT ![r.prev[Root]] = Nil],
                        prev  |-> [r.prev EXCEPT ![r.next[Root]] = Nil],
                        asked |-> 0]
             sorted == mergeSortByWeight(scale, opened, r.next[Root], r.len)
             closed == CloseRing(sorted.h, sorted.head, r.len)
         IN  [next |-> closed.next, prev |-> closed.prev, len |-> r.len]

-----------------------------------------------------------------------------
\* The list that Register makes of the elements of s.
RingFrom(s) ==
    LET ring[n \in 0..Len(s)] == IF n = 0 THEN EmptyRing ELSE PushBack(ring[n - 1], s[n])
    IN  ring[Len(s)]

\* The stable order by descending weight.
Before(s, weight, j, i) ==
    \/ weight[s[j]] > weight[s[i]]
    \/ weight[s[j]] = weight[s[i]] /\ j < i

Ranked(s, weight) ==
    [n \in DOMAIN s |->
        s[CHOOSE i \in DOMAIN s : n = 1 + Cardinality({j \in DOMAIN s : Before(s, weight, j, i)})]]

\* Lists of different elements, and what becomes of their weights.
Weighing ==
    {x \in [list : Seq(Elem), weight : UNION {[E -> Int] : E \in SUBSET Elem}, changed : SUBSET Nat] :
        /\ \A i, j \in DOMAIN x.list : x.list[i] = x.list[j] => i = j
        /\ \A i \in DOMAIN x.list : x.list[i] \in DOMAIN x.weight}

\* However the weights move, the sorted list is one closed ring of the elements
\* it had; if they stand still, it is in the order that Rebalanced of Storage
\* relies on.
SortsOrKeeps(s, scale) ==
    LET r == Sort(RingFrom(s), scale)
    IN  /\ RingOf(r, {s[i] : i \in DOMAIN s})
        /\ scale.changed = {} => Represents(r, Len(s), Ranked(s, scale.weight))

\* The list of shards is one closed ring after its sort, however the weights move
\* meanwhile, and in descending order if they do not (Sort of doubly_linked.go,
\* which the balancer calls while the shards change).
ShardsStayListed == part = "sort" => SortsOrKeeps(input.list, input)
===============================================================================
