-------------------------------- MODULE Ring --------------------------------
(***************************************************************************)
(* The circular doubly linked list of pkg/list/doubly_linked.go as a value *)
(* and its critical sections as operators from rings to rings.  A ring is  *)
(* the `next' and `prev' pointers of the elements and of the sentinel root *)
(* together with the separate length counter.  An operator performs the    *)
(* pointer writes of the Go method one after the other, so that it says    *)
(* what the code does even to a ring, or to an element, that is not in the *)
(* state the method expects.                                               *)
(***************************************************************************)
EXTENDS Integers

CONSTANTS Elem,  \* the list elements
          Root,  \* the sentinel, List.root
          Nil    \* Go's nil

ASSUME RingAssumption == /\ Root \notin Elem
                         /\ Nil \notin Elem
                         /\ Nil # Root

Node == Elem \cup {Root}

RingType == [next : [Node -> Node \cup {Nil}],
             prev : [Node -> Node \cup {Nil}],
             len  : Int]

-----------------------------------------------------------------------------
\* New: the root points at itself, no element is linked.
EmptyRing ==
    LET links == [n \in Node |-> IF n = Root THEN Root ELSE Nil]
    IN  [next |-> links, prev |-> links, len |-> 0]

\* The four writes that put e between the root and the first element.
LinkFirst(r, e) ==
    LET first == r.next[Root]
    IN  [r EXCEPT !.prev = [@ EXCEPT ![e] = Root, ![first] = e],
                  !.next = [@ EXCEPT ![e] = first, ![Root] = e]]

\* The four writes that put e between the last element and the root.
LinkLast(r, e) ==
    LET last == r.prev[Root]
    IN  [r EXCEPT !.prev = [@ EXCEPT ![e] = last, ![Root] = e],
                  !.next = [@ EXCEPT ![e] = Root, ![last] = e]]

\* Mutation: the successor keeps pointing back at the removed element.
UnlinkForward(r, e) == [r EXCEPT !.next = [@ EXCEPT ![r.prev[e]] = r.next[e]]]

\* The two writes that bypass e; e keeps its own pointers.
Unlink(r, e) ==
    LET next == [r.next EXCEPT ![r.prev[e]] = r.next[e]]
        prev == [r.prev EXCEPT ![next[e]] = r.prev[e]]
    IN  [r EXCEPT !.next = next, !.prev = prev]

\* Mutations: a push that is not counted, a move that attaches without
\* detaching, that counts as a removal, or that goes to the wrong end.
PushUncounted(r, e) == LinkFirst(r, e)
AttachOnly(r, e)    == LinkFirst(r, e)
MoveCounted(r, e)   == [LinkFirst(Unlink(r, e), e) EXCEPT !.len = @ - 1]
MoveToBack(r, e)    == LinkLast(Unlink(r, e), e)

PushFront(r, e)   == [LinkFirst(r, e) EXCEPT !.len = @ + 1]
PushBack(r, e)    == [LinkLast(r, e) EXCEPT !.len = @ + 1]
RemoveElem(r, e)  == [Unlink(r, e) EXCEPT !.len = @ - 1]
MoveToFront(r, e) == LinkFirst(Unlink(r, e), e)

\* Back: nil of an empty list, otherwise whatever the root's prev is.
Back(r) == IF r.len = 0 THEN Nil ELSE r.prev[Root]

\* Mutation: the range check is off by one.
NextAtLate(r, offset) ==
    LET hop[i \in 0..offset] == IF i = 0 THEN r.next[Root] ELSE r.next[hop[i - 1]]
    IN  IF offset < 0 \/ offset > r.len THEN Nil ELSE hop[offset]

\* Next(offset): nil out of range, otherwise offset hops from the first node.
NextAt(r, offset) ==
    LET hop[i \in 0..offset] == IF i = 0 THEN r.next[Root] ELSE r.next[hop[i - 1]]
    IN  IF offset < 0 \/ offset >= r.len THEN Nil ELSE hop[offset]

-----------------------------------------------------------------------------
\* Position i of the ring whose elements are s[1], ..., s[n]; the root is
\* before the first and after the last.
At(s, n, i) == IF i = 0 \/ i = n + 1 THEN Root ELSE s[i]

\* The pointers of r that start at the root or at one of the n elements of s
\* are exactly those of the sequence s.
Represents(r, n, s) ==
    /\ \A i, j \in 1..n : s[i] = s[j] => i = j
    /\ \A i \in 0..n : /\ r.next[At(s, n, i)] = At(s, n, i + 1)
                       /\ r.prev[At(s, n, i + 1)] = At(s, n, i)

\* One closed ring through the root that holds exactly the elements of S and
\* as many as the length counter says.
RingOf(r, S) ==
    /\ r.len \in Nat
    /\ \E s \in [1..r.len -> Elem] : /\ Represents(r, r.len, s)
                                     /\ {s[i] : i \in 1..r.len} = S

Intact(r) == \E S \in SUBSET Elem : RingOf(r, S)
=============================================================================
