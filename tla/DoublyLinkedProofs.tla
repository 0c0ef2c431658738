------------------------- MODULE DoublyLinkedProofs -------------------------
(***************************************************************************)
(* The list of pkg/list, used by any number of goroutines on any number of *)
(* elements, stays one closed ring of the elements pushed and not removed, *)
(* and so does a list of shards that the balancer sorts.                   *)
(***************************************************************************)
EXTENDS DoublyLinked, MergeSort, RingProofs, FiniteSetTheorems, SequenceTheorems

\* An element on the list has one owner; a caller about to move one holds it.
Ownership ==
    /\ \A g, h \in Goroutine : g # h => Owned(g) \cap Owned(h) = {}
    /\ \A g \in Goroutine :
          /\ pc[g] = "move" => arg[g] \in held[g]
          /\ pc[g] = "remove" => arg[g] \in Elem \ held[g]

IInv == TypeOK /\ RingIntegrity /\ Ownership

\* The elements of a ring have a predecessor: a fresh element is not on it.
LEMMA ListedNotFresh ==
    ASSUME NEW r \in RingType, NEW S, RingOf(r, S)
    PROVE  \A e \in S : r.prev[e] # Nil
<1>1. r.len \in Nat
  BY DEF RingOf
<1>2. PICK s \in [1..r.len -> Elem] : /\ Represents(r, r.len, s)
                                      /\ {s[i] : i \in 1..r.len} = S
  BY DEF RingOf
<1>3. ASSUME NEW i \in 1..r.len
      PROVE  r.prev[s[i]] # Nil
  <2>1. i - 1 \in 0..r.len /\ (i - 1) + 1 = i
    BY <1>1
  <2>2. r.prev[At(s, r.len, i)] = At(s, r.len, i - 1)
    BY <1>2, <2>1 DEF Represents
  <2>3. At(s, r.len, i) = s[i] /\ At(s, r.len, i - 1) \in Node
    BY <1>1, <1>2, <2>1, Positions DEF Represents
  <2> QED BY <2>2, <2>3, RingAssumption DEF Node
<1> QED BY <1>2, <1>3

\* The inductive invariant holds initially.
LEMMA InitIInv == Init => IInv
<1> SUFFICES ASSUME Init PROVE IInv
  OBVIOUS
<1>1. Listed = {}
  BY DEF Init, Listed, Owned
<1>2. TypeOK
  BY EmptyRingHoldsNothing DEF Init, TypeOK, RingOf
<1>3. RingIntegrity
  BY <1>1, EmptyRingHoldsNothing DEF Init, RingIntegrity
<1>4. Ownership
  BY DEF Init, Ownership, Owned
<1> QED BY <1>2, <1>3, <1>4 DEF IInv

\* Every step of every goroutine keeps it.
LEMMA NextIInv == IInv /\ [Next]_vars => IInv'
<1> SUFFICES ASSUME IInv, [Next]_vars PROVE IInv'
  OBVIOUS
<1> USE DEF IInv
<1>1. ASSUME NEW g \in Goroutine, NEW e \in Elem, Push(g, e)
      PROVE  IInv'
  <2>1. e \notin Listed
    BY <1>1, ListedNotFresh DEF Push, Fresh, TypeOK, RingIntegrity
  <2>2. Owned(g)' = Owned(g) \cup {e} /\ \A h \in Goroutine : h # g => Owned(h)' = Owned(h)
    BY <1>1 DEF Push, Owned, TypeOK
  <2>3. Listed' = Listed \cup {e}
    BY <2>2 DEF Listed
  <2>4. ring' \in RingType /\ RingOf(ring', Listed')
    BY <1>1, <2>1, <2>3, PushAdds DEF Push, TypeOK, RingIntegrity
  <2>5. TypeOK'
    BY <1>1, <2>4 DEF Push, TypeOK, RingOf
  <2>6. Ownership'
    BY <1>1, <2>1, <2>2 DEF Push, Ownership, Listed, TypeOK
  <2> QED BY <2>4, <2>5, <2>6 DEF RingIntegrity
<1>2. ASSUME NEW g \in Goroutine, NEW e \in Elem, MoveCheck(g, e)
      PROVE  IInv'
  <2>1. \A h \in Goroutine : Owned(h)' = Owned(h)
    BY <1>2 DEF MoveCheck, Call, Owned, TypeOK
  <2>2. Listed' = Listed
    BY <2>1 DEF Listed
  <2>3. TypeOK'
    BY <1>2 DEF MoveCheck, Call, TypeOK
  <2>4. Ownership'
    BY <1>2, <2>1 DEF MoveCheck, Call, Ownership, TypeOK
  <2> QED BY <1>2, <2>2, <2>3, <2>4 DEF RingIntegrity, MoveCheck
<1>3. ASSUME NEW g \in Goroutine, NEW e \in Elem, RemoveCheck(g, e)
      PROVE  IInv'
  <2>1. \A h \in Goroutine : Owned(h)' = Owned(h)
    BY <1>3 DEF RemoveCheck, Call, Owned, TypeOK
  <2>2. Listed' = Listed
    BY <2>1 DEF Listed
  <2>3. TypeOK'
    BY <1>3 DEF RemoveCheck, Call, TypeOK
  <2>4. Ownership'
    BY <1>3, <2>1 DEF RemoveCheck, Call, Ownership, TypeOK
  <2> QED BY <1>3, <2>2, <2>3, <2>4 DEF RingIntegrity, RemoveCheck
<1>4. ASSUME NEW g \in Goroutine, Move(g)
      PROVE  IInv'
  <2>1. arg[g] \in Listed
    BY <1>4 DEF Move, Return, Ownership, Listed, Owned
  <2>2. \A h \in Goroutine : Owned(h)' = Owned(h)
    BY <1>4 DEF Move, Return, Owned, TypeOK
  <2>3. Listed' = Listed
    BY <2>2 DEF Listed
  <2>4. ring' \in RingType /\ RingOf(ring', Listed')
    BY <1>4, <2>1, <2>3, MoveKeeps DEF Move, TypeOK, RingIntegrity
  <2>5. TypeOK'
    BY <1>4, <2>4 DEF Move, Return, TypeOK, RingOf
  <2>6. Ownership'
    BY <1>4, <2>2 DEF Move, Return, Ownership, TypeOK
  <2> QED BY <2>4, <2>5, <2>6 DEF RingIntegrity
<1>5. ASSUME NEW g \in Goroutine, Remove(g)
      PROVE  IInv'
  <2>1. arg[g] \in Listed /\ arg[g] \notin held[g]
    BY <1>5 DEF Remove, Return, Ownership, Listed, Owned
  <2>2. /\ Owned(g)' = Owned(g) \ {arg[g]}
        /\ \A h \in Goroutine : h # g => Owned(h)' = Owned(h) /\ arg[g] \notin Owned(h)
    BY <1>5, <2>1 DEF Remove, Return, Owned, TypeOK, Ownership
  <2>3. Listed' = Listed \ {arg[g]}
    BY <2>2 DEF Listed
  <2>4. ring' \in RingType /\ RingOf(ring', Listed')
    BY <1>5, <2>1, <2>3, RemoveTakes DEF Remove, TypeOK, RingIntegrity
  <2>5. TypeOK'
    BY <1>5, <2>4 DEF Remove, Return, TypeOK, RingOf
  <2>6. Ownership'
    BY <1>5, <2>2 DEF Remove, Return, Ownership, TypeOK
  <2> QED BY <2>4, <2>5, <2>6 DEF RingIntegrity
<1>6. ASSUME UNCHANGED vars
      PROVE  IInv'
  BY <1>6 DEF vars, TypeOK, RingIntegrity, Ownership, Listed, Owned
<1> QED BY <1>1, <1>2, <1>3, <1>4, <1>5, <1>6 DEF Next

\* Any number of goroutines that keep to their own elements, however their
\* calls interleave and however stale a check before the lock is, leave one
\* closed ring of exactly the elements pushed and not yet removed.
THEOREM RingIntegrityHolds == Spec => []RingIntegrity
<1>1. IInv => RingIntegrity
  BY DEF IInv
<1> QED BY <1>1, InitIInv, NextIInv, PTL DEF Spec

\* The pointers stay pointers to nodes and the length counter never goes
\* negative.
THEOREM TypeCorrect == Spec => []TypeOK
<1>1. IInv => TypeOK
  BY DEF IInv
<1> QED BY <1>1, InitIInv, NextIInv, PTL DEF Spec
-----------------------------------------------------------------------------
(* The list implements the sequence of ListOrder: every locked body is one   *)
(* step of it, and the checks in front of the locks are none.                *)

OrderOf(r) == [i \in 1..r.len |-> NextAt(r, i - 1)]

CutAt(s, k) == SubSeq(s, 1, k - 1) \o SubSeq(s, k + 1, Len(s))

\* Walking a ring enumerates the sequence it represents.
LEMMA OrderRepresented ==
    ASSUME NEW r, r.len \in Nat, NEW s \in [1..r.len -> Elem], Represents(r, r.len, s)
    PROVE  OrderOf(r) = s
<1>1. ASSUME NEW i \in 1..r.len PROVE NextAt(r, i - 1) = s[i]
  <2>1. i - 1 \in 0..(r.len - 1) /\ (i - 1) + 1 = i
    OBVIOUS
  <2> QED BY <2>1, NextAtIsPosition
<1> QED BY <1>1 DEF OrderOf

\* What the constructions of RingProofs are as sequences.
LEMMA SequenceForms ==
    ASSUME NEW n \in Nat, NEW s \in [1..n -> Elem], NEW e \in Elem
    PROVE  /\ Prepend(s, n, e) = <<e>> \o s
           /\ AppendTo(s, n, e) = Append(s, e)
           /\ \A k \in 1..n : DropAt(s, n, k) = CutAt(s, k)
<1>1. s \in Seq(Elem) /\ Len(s) = n
  OBVIOUS
<1>2. Prepend(s, n, e) = <<e>> \o s
  <2> DEFINE u == <<e>> \o s
  <2>1. <<e>> \in Seq(Elem) /\ Len(<<e>>) = 1
    OBVIOUS
  <2>2. /\ u \in Seq(Elem) /\ Len(u) = n + 1
        /\ \A i \in 1..(n + 1) : u[i] = IF i = 1 THEN e ELSE s[i - 1]
    BY <1>1, <2>1, ConcatProperties
  <2> HIDE DEF u
  <2>3. Prepend(s, n, e) \in Seq(Elem) /\ Len(Prepend(s, n, e)) = n + 1
    BY DEF Prepend
  <2>4. \A i \in 1..(n + 1) : Prepend(s, n, e)[i] = u[i]
    BY <2>2 DEF Prepend
  <2> QED BY <2>2, <2>3, <2>4, SeqEqual DEF u
<1>3. AppendTo(s, n, e) = Append(s, e)
  <2>1. /\ Append(s, e) \in Seq(Elem) /\ Len(Append(s, e)) = n + 1
        /\ \A i \in 1..(n + 1) : Append(s, e)[i] = IF i = n + 1 THEN e ELSE s[i]
    BY <1>1
  <2>2. AppendTo(s, n, e) \in Seq(Elem) /\ Len(AppendTo(s, n, e)) = n + 1
    BY DEF AppendTo
  <2>3. \A i \in 1..(n + 1) : AppendTo(s, n, e)[i] = Append(s, e)[i]
    BY <2>1 DEF AppendTo
  <2> QED BY <2>1, <2>2, <2>3, SeqEqual
<1>4. ASSUME NEW k \in 1..n PROVE DropAt(s, n, k) = CutAt(s, k)
  <2> DEFINE a == SubSeq(s, 1, k - 1)
             b == SubSeq(s, k + 1, n)
             u == a \o b
  <2>1. a \in Seq(Elem) /\ Len(a) = k - 1 /\ \A i \in 1..(k - 1) : a[i] = s[i]
    BY <1>1, SubSeqProperties
  <2>2. b \in Seq(Elem) /\ Len(b) = n - k /\ \A i \in 1..(n - k) : b[i] = s[k + i]
    BY <1>1, SubSeqProperties
  <2> HIDE DEF a, b
  <2>3. /\ u \in Seq(Elem) /\ Len(u) = (k - 1) + (n - k)
        /\ \A i \in 1..((k - 1) + (n - k)) : u[i] = IF i <= k - 1 THEN a[i] ELSE b[i - (k - 1)]
    <3>1. /\ u \in Seq(Elem) /\ Len(u) = Len(a) + Len(b)
          /\ \A i \in 1..(Len(a) + Len(b)) : u[i] = IF i <= Len(a) THEN a[i] ELSE b[i - Len(a)]
      BY <2>1, <2>2, ConcatProperties, Zenon
    <3> HIDE DEF u
    <3> QED BY <2>1, <2>2, <3>1
  <2> HIDE DEF u
  <2>4. Len(u) = n - 1 /\ \A i \in 1..(n - 1) : u[i] = IF i < k THEN s[i] ELSE s[i + 1]
    <3>1. (k - 1) + (n - k) = n - 1
      OBVIOUS
    <3>2. ASSUME NEW i \in 1..(n - 1) PROVE u[i] = IF i < k THEN s[i] ELSE s[i + 1]
      <4>1. CASE i < k
        BY <2>1, <2>3, <3>1, <4>1
      <4>2. CASE i >= k
        <5>1. i - (k - 1) \in 1..(n - k) /\ k + (i - (k - 1)) = i + 1
          BY <4>2
        <5> QED BY <2>2, <2>3, <3>1, <4>2, <5>1
      <4> QED BY <4>1, <4>2
    <3> QED BY <2>3, <3>1, <3>2
  <2>5. DropAt(s, n, k) \in Seq(Elem) /\ Len(DropAt(s, n, k)) = n - 1
    BY DEF DropAt
  <2>6. \A i \in 1..(n - 1) : DropAt(s, n, k)[i] = u[i]
    BY <2>4 DEF DropAt
  <2>7. DropAt(s, n, k) = u
    BY <2>3, <2>4, <2>5, <2>6, SeqEqual
  <2> QED BY <1>1, <2>7 DEF CutAt, u, a, b
<1> QED BY <1>2, <1>3, <1>4

\* Setting the counter does not change what the links represent.
LEMMA RecountedOrder ==
    ASSUME NEW p \in RingType, NEW m \in Nat, NEW t \in [1..m -> Elem], Represents(p, m, t)
    PROVE  OrderOf([p EXCEPT !.len = m]) = t
<1> DEFINE q == [p EXCEPT !.len = m]
<1>1. q.len = m /\ q.next = p.next /\ q.prev = p.prev
  BY DEF RingType
<1>2. Represents(q, m, t)
  BY <1>1 DEF Represents
<1> HIDE DEF q
<1>3. OrderOf(q) = t
  BY <1>1, <1>2, OrderRepresented
<1> QED BY <1>3 DEF q

\* The methods on the sequence that a ring represents.
LEMMA PushOrder ==
    ASSUME NEW r \in RingType, NEW S, RingOf(r, S), NEW e \in Elem, e \notin S
    PROVE  /\ S = {OrderOf(r)[i] : i \in DOMAIN OrderOf(r)}
           /\ OrderOf(PushFront(r, e)) = <<e>> \o OrderOf(r)
           /\ OrderOf(PushBack(r, e)) = Append(OrderOf(r), e)
<1> DEFINE n == r.len
<1>1. n \in Nat
  BY DEF RingOf
<1>2. PICK s \in [1..n -> Elem] : Represents(r, n, s) /\ ElemsOf(s, n) = S
  BY DEF RingOf, ElemsOf
<1>3. OrderOf(r) = s /\ e \notin ElemsOf(s, n)
  BY <1>1, <1>2, OrderRepresented
<1>4. S = {s[i] : i \in DOMAIN s}
  BY <1>2 DEF ElemsOf
<1>5. OrderOf(PushFront(r, e)) = <<e>> \o s
  <2> DEFINE p == LinkFirst(r, e)
             t == Prepend(s, n, e)
  <2>1. /\ p \in RingType /\ p.len = n
        /\ t \in [1..(n + 1) -> Elem]
        /\ Represents(p, n + 1, t)
    BY <1>1, <1>2, <1>3, LinkFirstPrepends
  <2>2. PushFront(r, e) = [p EXCEPT !.len = n + 1]
    BY <2>1 DEF PushFront
  <2>3. t = <<e>> \o s
    BY <1>1, <1>2, SequenceForms
  <2> HIDE DEF p, t
  <2>4. n + 1 \in Nat
    BY <1>1
  <2> QED BY <2>1, <2>2, <2>3, <2>4, RecountedOrder
<1>6. OrderOf(PushBack(r, e)) = Append(s, e)
  <2> DEFINE p == LinkLast(r, e)
             t == AppendTo(s, n, e)
  <2>1. /\ p \in RingType /\ p.len = n
        /\ t \in [1..(n + 1) -> Elem]
        /\ Represents(p, n + 1, t)
    BY <1>1, <1>2, <1>3, LinkLastAppends
  <2>2. PushBack(r, e) = [p EXCEPT !.len = n + 1]
    BY <2>1 DEF PushBack
  <2>3. t = Append(s, e)
    BY <1>1, <1>2, SequenceForms
  <2> HIDE DEF p, t
  <2>4. n + 1 \in Nat
    BY <1>1
  <2> QED BY <2>1, <2>2, <2>3, <2>4, RecountedOrder
<1> QED BY <1>3, <1>4, <1>5, <1>6

LEMMA TakeOrder ==
    ASSUME NEW r \in RingType, NEW S, RingOf(r, S), NEW e \in S
    PROVE  \E k \in DOMAIN OrderOf(r) :
              /\ OrderOf(r)[k] = e
              /\ OrderOf(RemoveElem(r, e)) = CutAt(OrderOf(r), k)
              /\ OrderOf(MoveToFront(r, e)) = <<e>> \o CutAt(OrderOf(r), k)
<1> DEFINE n == r.len
<1>1. n \in Nat
  BY DEF RingOf
<1>2. PICK s \in [1..n -> Elem] : Represents(r, n, s) /\ ElemsOf(s, n) = S
  BY DEF RingOf, ElemsOf
<1>3. PICK k \in 1..n : s[k] = e
  BY <1>2 DEF ElemsOf
<1>4. OrderOf(r) = s
  BY <1>1, <1>2, OrderRepresented
<1> DEFINE p == Unlink(r, e)
           t == DropAt(s, n, k)
           q == LinkFirst(p, e)
           u == Prepend(t, n - 1, e)
<1>5. /\ p \in RingType /\ p.len = n
      /\ n - 1 \in Nat
      /\ t \in [1..(n - 1) -> Elem]
      /\ Represents(p, n - 1, t)
      /\ ElemsOf(t, n - 1) = S \ {e}
      /\ e \in Elem
  BY <1>1, <1>2, <1>3, UnlinkDrops
<1>6. t = CutAt(s, k)
  BY <1>1, <1>2, <1>3, <1>5, SequenceForms
<1>7. OrderOf(RemoveElem(r, e)) = t
  <2>1. RemoveElem(r, e) = [p EXCEPT !.len = n - 1]
    BY <1>5 DEF RemoveElem
  <2> HIDE DEF p, t
  <2> QED BY <1>5, <2>1, RecountedOrder
<1>8. OrderOf(MoveToFront(r, e)) = <<e>> \o t
  <2> HIDE DEF p, t
  <2>1. /\ q \in RingType /\ q.len = n
        /\ u \in [1..((n - 1) + 1) -> Elem]
        /\ Represents(q, (n - 1) + 1, u)
    BY <1>5, LinkFirstPrepends
  <2>2. u = <<e>> \o t
    BY <1>5, SequenceForms
  <2>3. (n - 1) + 1 = n
    BY <1>1
  <2> HIDE DEF q, u
  <2>4. OrderOf(q) = u
    BY <1>1, <2>1, <2>3, OrderRepresented
  <2> QED BY <2>2, <2>4 DEF MoveToFront, p, q
<1>9. k \in DOMAIN s
  BY <1>2
<1> QED BY <1>3, <1>4, <1>6, <1>7, <1>8, <1>9

\* Every step is a step on the sequence, or none.
LEMMA NextRefines == IInv /\ [Next]_vars => [Order!Next]_order
<1> SUFFICES ASSUME IInv, [Next]_vars PROVE [Order!Next]_order
  OBVIOUS
<1> USE DEF IInv
<1>1. order = OrderOf(ring) /\ order' = OrderOf(ring')
  BY DEF order, OrderOf
<1>2. ASSUME NEW g \in Goroutine, NEW e \in Elem, Push(g, e)
      PROVE  [Order!Next]_order
  <2>1. e \notin Listed
    BY <1>2, ListedNotFresh DEF Push, Fresh, TypeOK, RingIntegrity
  <2>2. /\ Listed = {order[i] : i \in DOMAIN order}
        /\ order' \in {<<e>> \o order, Append(order, e)}
    BY <1>1, <1>2, <2>1, PushOrder DEF Push, TypeOK, RingIntegrity
  <2>3. Order!PushFront(e) \/ Order!PushBack(e)
    BY <2>1, <2>2 DEF Order!PushFront, Order!PushBack, Order!Members
  <2> QED BY <2>3 DEF Order!Next
<1>3. ASSUME NEW g \in Goroutine, NEW e \in Elem, MoveCheck(g, e) \/ RemoveCheck(g, e)
      PROVE  [Order!Next]_order
  BY <1>1, <1>3 DEF MoveCheck, RemoveCheck
<1>4. ASSUME NEW g \in Goroutine, Move(g)
      PROVE  [Order!Next]_order
  <2>1. arg[g] \in Listed
    BY <1>4 DEF Move, Return, Ownership, Listed, Owned
  <2>2. PICK k \in DOMAIN order : order[k] = arg[g] /\ order' = <<arg[g]>> \o CutAt(order, k)
    BY <1>1, <1>4, <2>1, TakeOrder DEF Move, TypeOK, RingIntegrity
  <2>3. Order!Raise(k)
    BY <2>2 DEF Order!Raise, Order!Without, CutAt
  <2> QED BY <2>3 DEF Order!Next
<1>5. ASSUME NEW g \in Goroutine, Remove(g)
      PROVE  [Order!Next]_order
  <2>1. arg[g] \in Listed
    BY <1>5 DEF Remove, Return, Ownership, Listed, Owned
  <2>2. PICK k \in DOMAIN order : order' = CutAt(order, k)
    BY <1>1, <1>5, <2>1, TakeOrder DEF Remove, TypeOK, RingIntegrity
  <2>3. Order!Remove(k)
    BY <2>2 DEF Order!Remove, Order!Without, CutAt
  <2> QED BY <2>3 DEF Order!Next
<1>6. CASE UNCHANGED vars
  BY <1>1, <1>6 DEF vars
<1> QED BY <1>2, <1>3, <1>4, <1>5, <1>6 DEF Next

\* Each locked body of pkg/list takes effect at once, as the operation on a
\* sequence that its name says, in the order other goroutines observe.
THEOREM ImplementsOrder == Spec => OrderSpec
<1>1. Init => Order!Init
  <2> SUFFICES ASSUME Init PROVE Order!Init
    OBVIOUS
  <2>1. ring.len = 0
    BY DEF Init, EmptyRing
  <2>2. order = <<>>
    BY <2>1 DEF order
  <2> QED BY <2>2 DEF Order!Init
<1>2. IInv /\ [Next]_vars => [Order!Next]_order
  BY NextRefines
<1> QED BY <1>1, <1>2, InitIInv, NextIInv, PTL DEF Spec, OrderSpec, Order!Spec

-----------------------------------------------------------------------------
(* MergeSort: each of its recursions from 0 on has a solution.              *)

\* Induction up to a bound.
LEMMA UpTo ==
    ASSUME NEW N \in Nat, NEW T, 0 \in T, \A n \in 1..N : n - 1 \in T => n \in T
    PROVE  \A n \in 0..N : n \in T
<1> DEFINE U == {n \in Nat : n <= N => n \in T}
<1>1. 0 \in U
  OBVIOUS
<1>2. ASSUME NEW n \in U PROVE n + 1 \in U
  <2> SUFFICES ASSUME n + 1 <= N PROVE n + 1 \in T
    OBVIOUS
  <2>1. n \in Nat /\ n <= N /\ n + 1 \in 1..N /\ (n + 1) - 1 = n
    OBVIOUS
  <2>2. n \in T
    BY <2>1
  <2> QED BY <2>1, <2>2
<1>3. U = Nat
  <2> HIDE DEF U
  <2>1. U \in SUBSET Nat
    BY DEF U
  <2> QED BY <1>1, <1>2, <2>1, NatSubset
<1> QED BY <1>3

Hops(h, head, n, f) ==
    f = [k \in 0..n |-> IF k = 0 THEN [slow |-> head, fast |-> head] ELSE Hop(h, f[k - 1])]

LEMMA HopsExist ==
    ASSUME NEW h, NEW head, NEW n \in Nat
    PROVE  \E f : Hops(h, head, n, f)
<1> DEFINE T == {m \in Nat : \E f : Hops(h, head, m, f)}
<1>1. 0 \in T
  <2> DEFINE g == [k \in 0..0 |-> [slow |-> head, fast |-> head]]
  <2>1. \A k \in 0..0 : k = 0
    OBVIOUS
  <2>2. Hops(h, head, 0, g)
    BY <2>1 DEF Hops
  <2> HIDE DEF g
  <2> QED BY <2>2
<1>2. ASSUME NEW m \in T PROVE m + 1 \in T
  <2>1. m \in Nat /\ m + 1 # 0 /\ (m + 1) - 1 = m /\ m \in 0..m
    OBVIOUS
  <2>2. PICK f : Hops(h, head, m, f)
    OBVIOUS
  <2> DEFINE last == Hop(h, f[m])
             g == [k \in 0..(m + 1) |-> IF k = m + 1 THEN last ELSE f[k]]
  <2>3. \A k \in 0..m : f[k] = IF k = 0 THEN [slow |-> head, fast |-> head] ELSE Hop(h, f[k - 1])
    BY <2>2 DEF Hops
  <2>4. g[m + 1] = last /\ \A k \in 0..m : g[k] = f[k]
    <3> HIDE DEF last
    <3> QED BY <2>1
  <2>5. ASSUME NEW k \in 0..(m + 1)
        PROVE  g[k] = IF k = 0 THEN [slow |-> head, fast |-> head] ELSE Hop(h, g[k - 1])
    <3> HIDE DEF g
    <3>1. CASE k = m + 1
      <4>1. g[k - 1] = f[m]
        BY <2>1, <2>4, <3>1
      <4> QED BY <2>1, <2>4, <3>1, <4>1
    <3>2. CASE k # m + 1
      <4>1. k \in 0..m /\ (k # 0 => k - 1 \in 0..m)
        BY <2>1, <3>2
      <4>2. k # 0 => g[k - 1] = f[k - 1]
        BY <2>4, <4>1
      <4> QED BY <2>3, <2>4, <4>1, <4>2
    <3> QED BY <3>1, <3>2
  <2>6. g = [k \in 0..(m + 1) |-> g[k]]
    OBVIOUS
  <2> HIDE DEF g
  <2>7. Hops(h, head, m + 1, g)
    BY <2>5, <2>6 DEF Hops
  <2> QED BY <2>1, <2>7
<1>3. T = Nat
  <2> HIDE DEF T
  <2>1. T \in SUBSET Nat
    BY DEF T
  <2> QED BY <1>1, <1>2, <2>1, NatSubset
<1> QED BY <1>3

Unmerged(h, a, b) == [h |-> h, a |-> a, b |-> b, head |-> Nil, tail |-> Nil]

Rounds(scale, h, a, b, n, f) ==
    f = [k \in 0..n |-> IF k = 0 THEN Unmerged(h, a, b) ELSE Pick(scale, f[k - 1])]

LEMMA RoundsExist ==
    ASSUME NEW scale, NEW h, NEW a, NEW b, NEW n \in Nat
    PROVE  \E f : Rounds(scale, h, a, b, n, f)
<1> DEFINE T == {m \in Nat : \E f : Rounds(scale, h, a, b, m, f)}
<1>1. 0 \in T
  <2> DEFINE g == [k \in 0..0 |-> Unmerged(h, a, b)]
  <2>1. \A k \in 0..0 : k = 0
    OBVIOUS
  <2>2. Rounds(scale, h, a, b, 0, g)
    BY <2>1 DEF Rounds
  <2> HIDE DEF g
  <2> QED BY <2>2
<1>2. ASSUME NEW m \in T PROVE m + 1 \in T
  <2>1. m \in Nat /\ m + 1 # 0 /\ (m + 1) - 1 = m /\ m \in 0..m
    OBVIOUS
  <2>2. PICK f : Rounds(scale, h, a, b, m, f)
    OBVIOUS
  <2> DEFINE last == Pick(scale, f[m])
             g == [k \in 0..(m + 1) |-> IF k = m + 1 THEN last ELSE f[k]]
  <2>3. \A k \in 0..m : f[k] = IF k = 0 THEN Unmerged(h, a, b) ELSE Pick(scale, f[k - 1])
    BY <2>2 DEF Rounds
  <2>4. g[m + 1] = last /\ \A k \in 0..m : g[k] = f[k]
    <3> HIDE DEF last
    <3> QED BY <2>1
  <2>5. ASSUME NEW k \in 0..(m + 1)
        PROVE  g[k] = IF k = 0 THEN Unmerged(h, a, b) ELSE Pick(scale, g[k - 1])
    <3> HIDE DEF g
    <3>1. CASE k = m + 1
      <4>1. g[k - 1] = f[m]
        BY <2>1, <2>4, <3>1
      <4> QED BY <2>1, <2>4, <3>1, <4>1
    <3>2. CASE k # m + 1
      <4>1. k \in 0..m /\ (k # 0 => k - 1 \in 0..m)
        BY <2>1, <3>2
      <4>2. k # 0 => g[k - 1] = f[k - 1]
        BY <2>4, <4>1
      <4> QED BY <2>3, <2>4, <4>1, <4>2
    <3> QED BY <3>1, <3>2
  <2>6. g = [k \in 0..(m + 1) |-> g[k]]
    OBVIOUS
  <2> HIDE DEF g
  <2>7. Rounds(scale, h, a, b, m + 1, g)
    BY <2>5, <2>6 DEF Rounds
  <2> QED BY <2>1, <2>7
<1>3. T = Nat
  <2> HIDE DEF T
  <2>1. T \in SUBSET Nat
    BY DEF T
  <2> QED BY <1>1, <1>2, <2>1, NatSubset
<1> QED BY <1>3

Walks(h, head, n, f) ==
    f = [k \in 0..n |-> IF k = 0 THEN [h |-> Join(h, Root, head), curr |-> head] ELSE Follow(f[k - 1])]

LEMMA WalksExist ==
    ASSUME NEW h, NEW head, NEW n \in Nat
    PROVE  \E f : Walks(h, head, n, f)
<1> DEFINE T == {m \in Nat : \E f : Walks(h, head, m, f)}
<1>1. 0 \in T
  <2> DEFINE g == [k \in 0..0 |-> [h |-> Join(h, Root, head), curr |-> head]]
  <2>1. \A k \in 0..0 : k = 0
    OBVIOUS
  <2>2. Walks(h, head, 0, g)
    BY <2>1 DEF Walks
  <2> HIDE DEF g
  <2> QED BY <2>2
<1>2. ASSUME NEW m \in T PROVE m + 1 \in T
  <2>1. m \in Nat /\ m + 1 # 0 /\ (m + 1) - 1 = m /\ m \in 0..m
    OBVIOUS
  <2>2. PICK f : Walks(h, head, m, f)
    OBVIOUS
  <2> DEFINE last == Follow(f[m])
             g == [k \in 0..(m + 1) |-> IF k = m + 1 THEN last ELSE f[k]]
  <2>3. \A k \in 0..m : f[k] = IF k = 0 THEN [h |-> Join(h, Root, head), curr |-> head] ELSE Follow(f[k - 1])
    BY <2>2 DEF Walks
  <2>4. g[m + 1] = last /\ \A k \in 0..m : g[k] = f[k]
    <3> HIDE DEF last
    <3> QED BY <2>1
  <2>5. ASSUME NEW k \in 0..(m + 1)
        PROVE  g[k] = IF k = 0 THEN [h |-> Join(h, Root, head), curr |-> head] ELSE Follow(g[k - 1])
    <3> HIDE DEF g
    <3>1. CASE k = m + 1
      <4>1. g[k - 1] = f[m]
        BY <2>1, <2>4, <3>1
      <4> QED BY <2>1, <2>4, <3>1, <4>1
    <3>2. CASE k # m + 1
      <4>1. k \in 0..m /\ (k # 0 => k - 1 \in 0..m)
        BY <2>1, <3>2
      <4>2. k # 0 => g[k - 1] = f[k - 1]
        BY <2>4, <4>1
      <4> QED BY <2>3, <2>4, <4>1, <4>2
    <3> QED BY <3>1, <3>2
  <2>6. g = [k \in 0..(m + 1) |-> g[k]]
    OBVIOUS
  <2> HIDE DEF g
  <2>7. Walks(h, head, m + 1, g)
    BY <2>5, <2>6 DEF Walks
  <2> QED BY <2>1, <2>7
<1>3. T = Nat
  <2> HIDE DEF T
  <2>1. T \in SUBSET Nat
    BY DEF T
  <2> QED BY <1>1, <1>2, <2>1, NatSubset
<1> QED BY <1>3

Pushes(s, n, f) ==
    f = [k \in 0..n |-> IF k = 0 THEN EmptyRing ELSE PushBack(f[k - 1], s[k])]

LEMMA PushesExist ==
    ASSUME NEW s, NEW n \in Nat
    PROVE  \E f : Pushes(s, n, f)
<1> DEFINE T == {m \in Nat : \E f : Pushes(s, m, f)}
<1>1. 0 \in T
  <2> DEFINE g == [k \in 0..0 |-> EmptyRing]
  <2>1. \A k \in 0..0 : k = 0
    OBVIOUS
  <2>2. Pushes(s, 0, g)
    BY <2>1 DEF Pushes
  <2> HIDE DEF g
  <2> QED BY <2>2
<1>2. ASSUME NEW m \in T PROVE m + 1 \in T
  <2>1. m \in Nat /\ m + 1 # 0 /\ (m + 1) - 1 = m /\ m \in 0..m
    OBVIOUS
  <2>2. PICK f : Pushes(s, m, f)
    OBVIOUS
  <2> DEFINE last == PushBack(f[m], s[m + 1])
             g == [k \in 0..(m + 1) |-> IF k = m + 1 THEN last ELSE f[k]]
  <2>3. \A k \in 0..m : f[k] = IF k = 0 THEN EmptyRing ELSE PushBack(f[k - 1], s[k])
    BY <2>2 DEF Pushes
  <2>4. g[m + 1] = last /\ \A k \in 0..m : g[k] = f[k]
    <3> HIDE DEF last
    <3> QED BY <2>1
  <2>5. ASSUME NEW k \in 0..(m + 1)
        PROVE  g[k] = IF k = 0 THEN EmptyRing ELSE PushBack(g[k - 1], s[k])
    <3> HIDE DEF g
    <3>1. CASE k = m + 1
      <4>1. g[k - 1] = f[m]
        BY <2>1, <2>4, <3>1
      <4> QED BY <2>1, <2>4, <3>1, <4>1
    <3>2. CASE k # m + 1
      <4>1. k \in 0..m /\ (k # 0 => k - 1 \in 0..m)
        BY <2>1, <3>2
      <4>2. k # 0 => g[k - 1] = f[k - 1]
        BY <2>4, <4>1
      <4> QED BY <2>3, <2>4, <4>1, <4>2
    <3> QED BY <3>1, <3>2
  <2>6. g = [k \in 0..(m + 1) |-> g[k]]
    OBVIOUS
  <2> HIDE DEF g
  <2>7. Pushes(s, m + 1, g)
    BY <2>5, <2>6 DEF Pushes
  <2> QED BY <2>1, <2>7
<1>3. T = Nat
  <2> HIDE DEF T
  <2>1. T \in SUBSET Nat
    BY DEF T
  <2> QED BY <1>1, <1>2, <2>1, NatSubset
<1> QED BY <1>3

\* A level of the recursion, given the one below.
Sorter(scale, len, d, g) ==
    [x \in Heap \X Elem |->
        IF d = 0 \/ x[1].next[x[2]] = Nil THEN [h |-> x[1], head |-> x[2]]
        ELSE LET slow  == Half(x[1], x[2], len)
                 mid   == x[1].next[slow]
                 left  == g[<<Cut(x[1], slow, mid), mid>>]
                 right == g[<<left.h, x[2]>>]
             IN  mergeByWeight(scale, right.h, left.head, right.head, len)]

\* The lowest level is the same whatever is said to be below it.
LEMMA LowestLevel ==
    ASSUME NEW scale, NEW len, NEW g
    PROVE  Sorter(scale, len, 0, g) = [x \in Heap \X Elem |-> [h |-> x[1], head |-> x[2]]]
BY DEF Sorter

Sorts(scale, len, n, f) ==
    f = [k \in 0..n |-> Sorter(scale, len, k, f[k - 1])]

LEMMA SortsExist ==
    ASSUME NEW scale, NEW len, NEW n \in Nat
    PROVE  \E f : Sorts(scale, len, n, f)
<1> DEFINE T == {m \in Nat : \E f : Sorts(scale, len, m, f)}
<1>1. 0 \in T
  <2> DEFINE g == [k \in 0..0 |-> Sorter(scale, len, 0, <<>>)]
  <2>1. \A k \in 0..0 : k = 0
    OBVIOUS
  <2>2. Sorts(scale, len, 0, g)
    BY <2>1, LowestLevel DEF Sorts
  <2> HIDE DEF g
  <2> QED BY <2>2
<1>2. ASSUME NEW m \in T PROVE m + 1 \in T
  <2>1. m \in Nat /\ m + 1 # 0 /\ (m + 1) - 1 = m /\ m \in 0..m
    OBVIOUS
  <2>2. PICK f : Sorts(scale, len, m, f)
    OBVIOUS
  <2> DEFINE last == Sorter(scale, len, m + 1, f[m])
             g == [k \in 0..(m + 1) |-> IF k = m + 1 THEN last ELSE f[k]]
  <2>3. \A k \in 0..m : f[k] = Sorter(scale, len, k, f[k - 1])
    BY <2>2 DEF Sorts
  <2>4. g[m + 1] = last /\ \A k \in 0..m : g[k] = f[k]
    <3> HIDE DEF last
    <3> QED BY <2>1
  <2>5. ASSUME NEW k \in 0..(m + 1)
        PROVE  g[k] = Sorter(scale, len, k, g[k - 1])
    <3> HIDE DEF g
    <3>1. CASE k = m + 1
      <4>1. g[k - 1] = f[m]
        BY <2>1, <2>4, <3>1
      <4> QED BY <2>1, <2>4, <3>1, <4>1
    <3>2. CASE k # m + 1
      <4>1. k \in 0..m /\ (k # 0 => k - 1 \in 0..m)
        BY <2>1, <3>2
      <4>2. k # 0 => g[k - 1] = f[k - 1]
        BY <2>4, <4>1
      <4> QED BY <2>3, <2>4, <4>1, <4>2, LowestLevel
    <3> QED BY <3>1, <3>2
  <2>6. g = [k \in 0..(m + 1) |-> g[k]]
    OBVIOUS
  <2> HIDE DEF g
  <2>7. Sorts(scale, len, m + 1, g)
    BY <2>5, <2>6 DEF Sorts
  <2> QED BY <2>1, <2>7
<1>3. T = Nat
  <2> HIDE DEF T
  <2>1. T \in SUBSET Nat
    BY DEF T
  <2> QED BY <1>1, <1>2, <2>1, NatSubset
<1> QED BY <1>3

-----------------------------------------------------------------------------
(* MergeSort: chains of elements.                                           *)

\* The elements of a sequence, each of them once.
Once(c) == c \in Seq(Elem) /\ \A i, j \in 1..Len(c) : c[i] = c[j] => i = j

\* A pointer leads from each element of c to the next one, and the last to nil.
Chain(nx, c) ==
    /\ Once(c)
    /\ Len(c) >= 1
    /\ \A i \in 1..Len(c) : nx[c[i]] = IF i = Len(c) THEN Nil ELSE c[i + 1]

\* The elements of a sequence.
Members(c) == {c[i] : i \in 1..Len(c)}

\* A heap whose pointers are the ones of h but for the elements of S.
Elsewhere(h, g, S) == g \in Heap /\ \A x \in Node \ S : g.next[x] = h.next[x]

LEMMA ElemFacts ==
    ASSUME NEW e \in Elem
    PROVE  e \in Node /\ e # Nil /\ e # Root /\ Root \in Node /\ Root # Nil
BY RingAssumption DEF Node

LEMMA HeapParts ==
    ASSUME NEW h \in Heap
    PROVE  /\ h.next \in [Node -> Node \cup {Nil}] /\ h.prev \in [Node -> Node \cup {Nil}]
           /\ h.asked \in Nat
           /\ h = [next |-> h.next, prev |-> h.prev, asked |-> h.asked]
BY DEF Heap, Pointers

LEMMA JoinIs ==
    ASSUME NEW h \in Heap, NEW a \in Node, NEW b \in Node
    PROVE  LET g == Join(h, a, b)
           IN  /\ g \in Heap /\ g.asked = h.asked
               /\ g.next[a] = b /\ \A x \in Node \ {a} : g.next[x] = h.next[x]
               /\ g.prev[b] = a /\ \A x \in Node \ {b} : g.prev[x] = h.prev[x]
<1> DEFINE g == Join(h, a, b)
           nx == [h.next EXCEPT ![a] = b]
           pv == [h.prev EXCEPT ![b] = a]
<1>1. /\ h.next \in [Node -> Node \cup {Nil}] /\ h.prev \in [Node -> Node \cup {Nil}]
      /\ h.asked \in Nat
      /\ h = [next |-> h.next, prev |-> h.prev, asked |-> h.asked]
  BY HeapParts
<1>2. /\ nx \in [Node -> Node \cup {Nil}] /\ nx[a] = b
      /\ \A x \in Node \ {a} : nx[x] = h.next[x]
  BY <1>1
<1>3. /\ pv \in [Node -> Node \cup {Nil}] /\ pv[b] = a
      /\ \A x \in Node \ {b} : pv[x] = h.prev[x]
  BY <1>1
<1>4. g = [h EXCEPT !.next = nx, !.prev = pv]
  BY DEF Join
<1> HIDE DEF g, nx, pv
<1>5. g = [next |-> nx, prev |-> pv, asked |-> h.asked]
  BY <1>1, <1>4
<1>6. g \in Heap /\ g.next = nx /\ g.prev = pv /\ g.asked = h.asked
  BY <1>1, <1>2, <1>3, <1>5 DEF Heap, Pointers
<1> QED BY <1>2, <1>3, <1>6 DEF g

LEMMA CutPointers ==
    ASSUME NEW h \in Heap, NEW a \in Node, NEW b \in Node
    PROVE  LET g == Cut(h, a, b)
           IN  /\ g \in Heap
               /\ g.next[a] = Nil /\ \A x \in Node \ {a} : g.next[x] = h.next[x]
<1> DEFINE g == Cut(h, a, b)
           nx == [h.next EXCEPT ![a] = Nil]
           pv == [h.prev EXCEPT ![b] = Nil]
<1>1. /\ h.next \in [Node -> Node \cup {Nil}] /\ h.prev \in [Node -> Node \cup {Nil}]
      /\ h.asked \in Nat
      /\ h = [next |-> h.next, prev |-> h.prev, asked |-> h.asked]
  BY HeapParts
<1>2. /\ nx \in [Node -> Node \cup {Nil}] /\ nx[a] = Nil
      /\ \A x \in Node \ {a} : nx[x] = h.next[x]
  BY <1>1
<1>3. pv \in [Node -> Node \cup {Nil}]
  BY <1>1
<1>4. g = [h EXCEPT !.next = nx, !.prev = pv]
  BY DEF Cut
<1> HIDE DEF g, nx, pv
<1>5. g = [next |-> nx, prev |-> pv, asked |-> h.asked]
  BY <1>1, <1>4
<1>6. g \in Heap /\ g.next = nx
  BY <1>1, <1>2, <1>3, <1>5 DEF Heap, Pointers
<1> QED BY <1>2, <1>6 DEF g

LEMMA ChainParts ==
    ASSUME NEW nx, NEW c, Chain(nx, c)
    PROVE  /\ c \in Seq(Elem) /\ Len(c) \in Nat /\ Len(c) >= 1
           /\ \A i \in 1..Len(c) : c[i] \in Elem /\ c[i] \in Node /\ c[i] # Nil
           /\ \A i \in 1..Len(c) : nx[c[i]] = IF i = Len(c) THEN Nil ELSE c[i + 1]
           /\ \A i, j \in 1..Len(c) : c[i] = c[j] => i = j
<1>1. c \in Seq(Elem)
  BY DEF Chain, Once
<1>2. \A i \in 1..Len(c) : c[i] \in Elem
  BY <1>1
<1>3. \A i \in 1..Len(c) : c[i] \in Node /\ c[i] # Nil
  BY <1>2, ElemFacts
<1> QED BY <1>1, <1>2, <1>3 DEF Chain, Once

\* slow is at i while fast is at 2i - 1, which is in the chain.
LEMMA HopStays ==
    ASSUME NEW h, NEW c, Chain(h.next, c), NEW i \in 1..Len(c), 2 * i - 1 <= Len(c)
    PROVE  \E j \in 1..Len(c) :
              /\ 2 * j - 1 <= Len(c)
              /\ Hop(h, [slow |-> c[i], fast |-> c[2 * i - 1]]) = [slow |-> c[j], fast |-> c[2 * j - 1]]
<1> DEFINE N == Len(c)
           f == 2 * i - 1
<1>1. /\ N \in Nat /\ \A k \in 1..N : c[k] \in Elem /\ c[k] # Nil
      /\ \A k \in 1..N : h.next[c[k]] = IF k = N THEN Nil ELSE c[k + 1]
  BY ChainParts
<1> HIDE DEF N
<1>2. f \in 1..N /\ i \in 1..N
  BY <1>1 DEF N
<1>3. Hop(h, [slow |-> c[i], fast |-> c[f]])
        = IF c[f] # Nil /\ h.next[c[f]] # Nil /\ h.next[h.next[c[f]]] # Nil
          THEN [slow |-> h.next[c[i]], fast |-> h.next[h.next[c[f]]]]
          ELSE [slow |-> c[i], fast |-> c[f]]
  BY DEF Hop
<1>4. CASE f + 2 <= N
  <2>1. f + 1 \in 1..N /\ f + 2 \in 1..N /\ f # N /\ f + 1 # N /\ i # N /\ i + 1 \in 1..N
    BY <1>1, <1>2, <1>4
  <2>2. h.next[c[f]] = c[f + 1] /\ h.next[c[f + 1]] = c[(f + 1) + 1] /\ h.next[c[i]] = c[i + 1]
    BY <1>1, <1>2, <2>1
  <2>3. (f + 1) + 1 = 2 * (i + 1) - 1 /\ 2 * (i + 1) - 1 \in 1..N /\ 2 * (i + 1) - 1 <= N
    BY <1>2, <2>1
  <2>4. c[f] # Nil /\ c[f + 1] # Nil /\ c[(f + 1) + 1] # Nil
    BY <1>1, <1>2, <2>1, <2>3
  <2>5. Hop(h, [slow |-> c[i], fast |-> c[f]]) = [slow |-> c[i + 1], fast |-> c[2 * (i + 1) - 1]]
    BY <1>3, <2>2, <2>3, <2>4
  <2> HIDE DEF f
  <2> QED BY <2>1, <2>3, <2>5 DEF N, f
<1>5. CASE ~(f + 2 <= N)
  <2>1. f = N \/ f + 1 = N
    BY <1>1, <1>2, <1>5
  <2>2. Hop(h, [slow |-> c[i], fast |-> c[f]]) = [slow |-> c[i], fast |-> c[f]]
    <3>1. CASE f = N
      BY <1>1, <1>2, <1>3, <3>1
    <3>2. CASE f + 1 = N
      <4>1. f # N /\ f + 1 \in 1..N
        BY <1>1, <1>2, <3>2
      <4>2. h.next[c[f]] = c[f + 1] /\ h.next[c[f + 1]] = Nil
        BY <1>1, <1>2, <3>2, <4>1
      <4> QED BY <1>3, <4>2
    <3> QED BY <2>1, <3>1, <3>2
  <2> QED BY <1>2, <2>2 DEF N
<1> QED BY <1>4, <1>5

\* A chain of two elements or more is cut before its end.
LEMMA HalfIs ==
    ASSUME NEW h, NEW c, Chain(h.next, c), Len(c) >= 2, NEW len \in Nat
    PROVE  \E m \in 1..(Len(c) - 1) : Half(h, c[1], len) = c[m]
<1> DEFINE N == Len(c)
           f == CHOOSE g : Hops(h, c[1], len, g)
           At2(s) == \E i \in 1..N : 2 * i - 1 <= N /\ s = [slow |-> c[i], fast |-> c[2 * i - 1]]
           T == {k \in 0..len : At2(f[k])}
<1>1. Hops(h, c[1], len, f)
  BY HopsExist
<1>2. Half(h, c[1], len) = f[len].slow
  BY DEF Half, Hops
<1> HIDE DEF f
<1>3. /\ f[0] = [slow |-> c[1], fast |-> c[1]]
      /\ \A k \in 1..len : f[k] = Hop(h, f[k - 1])
  <2>1. 0 \in 0..len /\ \A k \in 1..len : k \in 0..len /\ k # 0
    OBVIOUS
  <2> QED BY <1>1, <2>1 DEF Hops
<1>4. N \in Nat
  BY ChainParts
<1>5. 0 \in T
  <2>1. 1 \in 1..N /\ 2 * 1 - 1 <= N /\ 2 * 1 - 1 = 1 /\ 0 \in 0..len
    BY <1>4
  <2> HIDE DEF N
  <2>2. At2(f[0])
    BY <1>3, <2>1
  <2> QED BY <2>1, <2>2
<1>6. ASSUME NEW k \in 1..len, k - 1 \in T PROVE k \in T
  <2>1. PICK i \in 1..N : 2 * i - 1 <= N /\ f[k - 1] = [slow |-> c[i], fast |-> c[2 * i - 1]]
    BY <1>6
  <2>2. PICK j \in 1..N :
           /\ 2 * j - 1 <= N
           /\ Hop(h, [slow |-> c[i], fast |-> c[2 * i - 1]]) = [slow |-> c[j], fast |-> c[2 * j - 1]]
    BY <2>1, HopStays
  <2>3. f[k] = [slow |-> c[j], fast |-> c[2 * j - 1]] /\ k \in 0..len
    BY <1>3, <2>1, <2>2
  <2> HIDE DEF N
  <2>4. At2(f[k])
    BY <2>2, <2>3
  <2> HIDE DEF At2
  <2> QED BY <2>3, <2>4
<1>7. At2(f[len])
  <2> HIDE DEF T, At2
  <2>1. \A k \in 0..len : k \in T
    BY <1>5, <1>6, UpTo
  <2>2. len \in T
    BY <2>1
  <2> QED BY <2>2 DEF T
<1>8. PICK i \in 1..N : 2 * i - 1 <= N /\ f[len] = [slow |-> c[i], fast |-> c[2 * i - 1]]
  BY <1>7
<1>9. i \in 1..(N - 1) /\ f[len].slow = c[i]
  BY <1>4, <1>8
<1> QED BY <1>2, <1>9

\* The two halves are chains.
LEMMA CutIs ==
    ASSUME NEW h \in Heap, NEW c, Chain(h.next, c), NEW m \in 1..(Len(c) - 1)
    PROVE  LET g == Cut(h, c[m], c[m + 1])
               u == SubSeq(c, 1, m)
               v == SubSeq(c, m + 1, Len(c))
           IN  /\ Elsewhere(h, g, Members(c))
               /\ Chain(g.next, u) /\ Len(u) = m /\ \A i \in 1..m : u[i] = c[i]
               /\ Chain(g.next, v) /\ Len(v) = Len(c) - m
               /\ \A i \in 1..(Len(c) - m) : v[i] = c[m + i]
<1> DEFINE N == Len(c)
           g == Cut(h, c[m], c[m + 1])
           u == SubSeq(c, 1, m)
           v == SubSeq(c, m + 1, N)
<1>1. /\ c \in Seq(Elem) /\ N \in Nat /\ N >= 1
      /\ \A i \in 1..N : c[i] \in Elem /\ c[i] \in Node /\ c[i] # Nil
      /\ \A i \in 1..N : h.next[c[i]] = IF i = N THEN Nil ELSE c[i + 1]
      /\ \A i, j \in 1..N : c[i] = c[j] => i = j
  BY ChainParts
<1>2. m \in Nat /\ m \in 1..N /\ m + 1 \in 1..N /\ m # N
  BY <1>1
<1>3. u \in Seq(Elem) /\ Len(u) = m /\ \A i \in 1..m : u[i] = c[i]
  BY <1>1, <1>2
<1>4. v \in Seq(Elem) /\ Len(v) = N - m /\ \A i \in 1..(N - m) : v[i] = c[m + i]
  BY <1>1, <1>2
<1>5. /\ g \in Heap /\ g.next[c[m]] = Nil
      /\ \A x \in Node \ {c[m]} : g.next[x] = h.next[x]
  <2> DEFINE a == c[m]
             b == c[m + 1]
  <2>1. a \in Node /\ b \in Node
    BY <1>1, <1>2
  <2> HIDE DEF a, b
  <2> DEFINE k == Cut(h, a, b)
  <2>2. k \in Heap /\ k.next[a] = Nil /\ \A x \in Node \ {a} : k.next[x] = h.next[x]
    BY <2>1, CutPointers
  <2>3. g = k
    BY DEF a, b
  <2> HIDE DEF k, g
  <2> QED BY <2>2, <2>3 DEF a
<1> HIDE DEF g, u, v, N
<1>6. \A i \in 1..N : i # m => g.next[c[i]] = IF i = N THEN Nil ELSE c[i + 1]
  BY <1>1, <1>2, <1>5
<1>7. Elsewhere(h, g, Members(c))
  <2>1. c[m] \in Members(c)
    BY <1>2 DEF Members, N
  <2> QED BY <1>5, <2>1 DEF Elsewhere
<1>8. Chain(g.next, u)
  <2>1. \A i \in 1..m : i \in 1..N /\ (i # m => i # N /\ i + 1 \in 1..m)
    BY <1>1, <1>2
  <2>2. Once(u)
    BY <1>1, <1>3, <2>1 DEF Once
  <2>3. ASSUME NEW i \in 1..m PROVE g.next[u[i]] = IF i = m THEN Nil ELSE u[i + 1]
    BY <1>3, <1>5, <1>6, <2>1
  <2> QED BY <1>2, <1>3, <2>2, <2>3 DEF Chain
<1>9. Chain(g.next, v)
  <2>1. \A i \in 1..(N - m) : m + i \in 1..N /\ m + i # m
    BY <1>1, <1>2
  <2>2. Once(v)
    <3>1. ASSUME NEW i \in 1..(N - m), NEW j \in 1..(N - m), v[i] = v[j] PROVE i = j
      <4>1. m + i = m + j
        <5>1. v[i] = c[m + i] /\ v[j] = c[m + j]
          BY <1>4
        <5>2. m + i \in 1..N /\ m + j \in 1..N
          BY <2>1
        <5> QED BY <1>1, <3>1, <5>1, <5>2
      <4> QED BY <1>2, <4>1
    <3> QED BY <1>4, <3>1 DEF Once
  <2>3. ASSUME NEW i \in 1..(N - m) PROVE g.next[v[i]] = IF i = N - m THEN Nil ELSE v[i + 1]
    <3>1. v[i] = c[m + i] /\ g.next[c[m + i]] = IF m + i = N THEN Nil ELSE c[m + i + 1]
      BY <1>4, <1>6, <2>1
    <3>2. CASE i = N - m
      <4>1. m + i = N
        BY <1>1, <1>2, <3>2
      <4> QED BY <3>1, <3>2, <4>1
    <3>3. CASE i # N - m
      <4>1. m + i # N /\ i + 1 \in 1..(N - m) /\ m + (i + 1) = m + i + 1
        BY <1>1, <1>2, <3>3
      <4>2. v[i + 1] = c[m + i + 1]
        BY <1>4, <4>1
      <4> QED BY <3>1, <3>3, <4>1, <4>2
    <3> QED BY <3>2, <3>3
  <2>4. N - m >= 1
    BY <1>1, <1>2
  <2> QED BY <1>4, <2>2, <2>3, <2>4 DEF Chain
<1> QED BY <1>3, <1>4, <1>7, <1>8, <1>9 DEF g, u, v, N

-----------------------------------------------------------------------------
(* MergeSort: two chains become one.                                        *)

\* Different elements, none of them in both sequences.
Apart(X, Y) == Once(X) /\ Once(Y) /\ Members(X) \cap Members(Y) = {}

\* What was taken from X if p is next, and what is next.
Taken(X, p) == {X[i] : i \in 1..(p - 1)}
Front(X, p) == IF p <= Len(X) THEN X[p] ELSE Nil

\* The rest of X is still a chain.
Remains(nx, X, p) == \A i \in p..Len(X) : nx[X[i]] = Front(X, i + 1)

\* D is what was taken from X and Y so far, in the order of its pointers; its
\* last pointer still leads to where it led.
Merging(h, g, D, X, p, Y, q) ==
    /\ p \in 1..(Len(X) + 1) /\ q \in 1..(Len(Y) + 1)
    /\ Once(D) /\ Len(D) = (p - 1) + (q - 1)
    /\ Members(D) = Taken(X, p) \cup Taken(Y, q)
    /\ Elsewhere(h, g, Members(X) \cup Members(Y))
    /\ \A i \in 1..(Len(D) - 1) : g.next[D[i]] = D[i + 1]
    /\ Len(D) # 0 => g.next[D[Len(D)]] \in {Front(X, p), Front(Y, q)}
    /\ Remains(g.next, X, p) /\ Remains(g.next, Y, q)

LEMMA MergingSwaps ==
    ASSUME NEW h, NEW g, NEW D, NEW X, NEW p, NEW Y, NEW q, Merging(h, g, D, X, p, Y, q),
           Apart(X, Y)
    PROVE  Merging(h, g, D, Y, q, X, p) /\ Apart(Y, X)
<1>1. Len(X) \in Nat /\ Len(Y) \in Nat /\ p \in Nat /\ q \in Nat
  BY DEF Merging, Apart, Once
<1>2. (p - 1) + (q - 1) = (q - 1) + (p - 1)
  BY <1>1
<1>3. Members(X) \cup Members(Y) = Members(Y) \cup Members(X)
  OBVIOUS
<1>4. Members(Y) \cap Members(X) = {}
  BY DEF Apart
<1>5. Taken(X, p) \cup Taken(Y, q) = Taken(Y, q) \cup Taken(X, p)
  OBVIOUS
<1>6. {Front(X, p), Front(Y, q)} = {Front(Y, q), Front(X, p)}
  OBVIOUS
<1>7. Merging(h, g, D, Y, q, X, p)
  BY <1>2, <1>3, <1>5, <1>6 DEF Merging
<1> QED BY <1>4, <1>7 DEF Apart

LEMMA OnceParts ==
    ASSUME NEW c, Once(c)
    PROVE  /\ c \in Seq(Elem) /\ Len(c) \in Nat
           /\ \A i \in 1..Len(c) : c[i] \in Elem /\ c[i] \in Node /\ c[i] # Nil
           /\ \A i, j \in 1..Len(c) : c[i] = c[j] => i = j
<1>1. c \in Seq(Elem)
  BY DEF Once
<1>2. \A i \in 1..Len(c) : c[i] \in Elem
  BY <1>1
<1>3. \A i \in 1..Len(c) : c[i] \in Node /\ c[i] # Nil
  BY <1>2, ElemFacts
<1> QED BY <1>1, <1>2, <1>3 DEF Once

LEMMA NotTaken ==
    ASSUME NEW X, NEW Y, Apart(X, Y), NEW p \in 1..(Len(X) + 1), NEW q \in 1..(Len(Y) + 1),
           NEW i \in p..Len(X)
    PROVE  X[i] \notin Taken(X, p) \cup Taken(Y, q)
<1>1. /\ Len(X) \in Nat /\ Len(Y) \in Nat
      /\ \A j, k \in 1..Len(X) : X[j] = X[k] => j = k
  BY OnceParts DEF Apart
<1>2. i \in 1..Len(X)
  BY <1>1
<1>3. X[i] \notin Taken(X, p)
  <2> SUFFICES ASSUME NEW j \in 1..(p - 1), X[j] = X[i] PROVE FALSE
    BY DEF Taken
  <2>1. j \in 1..Len(X) /\ j # i
    BY <1>1
  <2> QED BY <1>1, <1>2, <2>1
<1>4. X[i] \notin Taken(Y, q)
  <2> SUFFICES ASSUME NEW j \in 1..(q - 1), Y[j] = X[i] PROVE FALSE
    BY DEF Taken
  <2>1. j \in 1..Len(Y)
    BY <1>1
  <2>2. X[i] \in Members(X) \cap Members(Y)
    BY <1>2, <2>1 DEF Members
  <2> QED BY <2>2 DEF Apart
<1> QED BY <1>3, <1>4

LEMMA AppendOnce ==
    ASSUME NEW D, Once(D), NEW e \in Elem, e \notin Members(D)
    PROVE  /\ Once(Append(D, e)) /\ Len(Append(D, e)) = Len(D) + 1 /\ Len(D) \in Nat
           /\ Append(D, e)[Len(D) + 1] = e
           /\ \A i \in 1..Len(D) : Append(D, e)[i] = D[i]
           /\ Members(Append(D, e)) = Members(D) \cup {e}
<1> DEFINE c == Append(D, e)
<1>1. /\ D \in Seq(Elem) /\ Len(D) \in Nat /\ \A i, j \in 1..Len(D) : D[i] = D[j] => i = j
  BY OnceParts
<1>2. /\ c \in Seq(Elem) /\ Len(c) = Len(D) + 1 /\ c[Len(D) + 1] = e
      /\ \A i \in 1..Len(D) : c[i] = D[i]
  BY <1>1
<1> HIDE DEF c
<1>3. 1..Len(c) = 1..Len(D) \cup {Len(D) + 1}
  BY <1>1, <1>2
<1>4. \A i \in 1..Len(D) : D[i] # e
  BY DEF Members
<1>5. ASSUME NEW i \in 1..Len(c), NEW j \in 1..Len(c), c[i] = c[j] PROVE i = j
  <2>1. CASE i \in 1..Len(D) /\ j \in 1..Len(D)
    BY <1>1, <1>2, <1>5, <2>1
  <2>2. CASE i = Len(D) + 1 /\ j \in 1..Len(D)
    BY <1>2, <1>4, <1>5, <2>2
  <2>3. CASE j = Len(D) + 1 /\ i \in 1..Len(D)
    BY <1>2, <1>4, <1>5, <2>3
  <2>4. CASE i = Len(D) + 1 /\ j = Len(D) + 1
    BY <2>4
  <2> QED BY <1>3, <2>1, <2>2, <2>3, <2>4
<1>6. Members(c) = Members(D) \cup {e}
  BY <1>2, <1>3 DEF Members
<1> QED BY <1>1, <1>2, <1>5, <1>6 DEF Once, c

\* The next element of X goes behind the tail.
LEMMA TakeOne ==
    ASSUME NEW h, NEW g, NEW D, NEW X, NEW p, NEW Y, NEW q, Apart(X, Y),
           Merging(h, g, D, X, p, Y, q), p <= Len(X)
    PROVE  LET tail == IF Len(D) = 0 THEN Nil ELSE D[Len(D)]
               k == IF tail = Nil THEN g ELSE Join(g, tail, X[p])
           IN  Merging(h, k, Append(D, X[p]), X, p + 1, Y, q)
<1> DEFINE tail == IF Len(D) = 0 THEN Nil ELSE D[Len(D)]
           k == IF tail = Nil THEN g ELSE Join(g, tail, X[p])
           e == X[p]
           c == Append(D, e)
           n == Len(D)
<1>1. /\ p \in 1..(Len(X) + 1) /\ q \in 1..(Len(Y) + 1)
      /\ Once(D) /\ n = (p - 1) + (q - 1)
      /\ Members(D) = Taken(X, p) \cup Taken(Y, q)
      /\ Elsewhere(h, g, Members(X) \cup Members(Y))
      /\ \A i \in 1..(n - 1) : g.next[D[i]] = D[i + 1]
      /\ Remains(g.next, X, p) /\ Remains(g.next, Y, q)
  BY DEF Merging
<1>2. /\ Len(X) \in Nat /\ Len(Y) \in Nat /\ n \in Nat /\ p \in 1..Len(X)
      /\ \A i \in 1..Len(X) : X[i] \in Elem /\ X[i] \in Node /\ X[i] # Nil
      /\ \A i \in 1..Len(Y) : Y[i] \in Node
      /\ \A i \in 1..n : D[i] \in Node /\ D[i] # Nil
      /\ \A i, j \in 1..n : D[i] = D[j] => i = j
  BY <1>1, OnceParts DEF Apart
<1>3. \A i \in p..Len(X) : X[i] \notin Members(D)
  BY <1>1, NotTaken
<1>4. \A i \in q..Len(Y) : Y[i] \notin Members(D)
  <2>1. Apart(Y, X)
    BY DEF Apart
  <2>2. \A i \in q..Len(Y) : Y[i] \notin Taken(Y, q) \cup Taken(X, p)
    BY <1>1, <2>1, NotTaken
  <2> QED BY <1>1, <2>2
<1>5. e \in Elem /\ e \in Node /\ e \notin Members(D)
  BY <1>2, <1>3
<1>6. /\ Once(c) /\ Len(c) = n + 1 /\ c[n + 1] = e /\ \A i \in 1..n : c[i] = D[i]
      /\ Members(c) = Members(D) \cup {e}
  BY <1>1, <1>5, AppendOnce
<1> HIDE DEF c, e
\* The pointers that k has.
<1>7. /\ k \in Heap
      /\ n # 0 => k.next[D[n]] = e
      /\ \A x \in Node \ Members(D) : k.next[x] = g.next[x]
      /\ \A i \in 1..(n - 1) : k.next[D[i]] = g.next[D[i]]
  <2>1. g \in Heap
    BY <1>1 DEF Elsewhere
  <2>2. CASE n = 0
    <3>1. k = g
      BY <2>2
    <3>2. 1..(n - 1) = {}
      BY <2>2
    <3> QED BY <2>1, <2>2, <3>1, <3>2
  <2>3. CASE n # 0
    <3>1. n \in 1..n /\ D[n] \in Node /\ D[n] # Nil /\ D[n] \in Members(D)
      BY <1>2, <2>3 DEF Members
    <3> DEFINE t == D[n]
    <3>2. k = Join(g, t, e)
      BY <2>3, <3>1 DEF e
    <3> HIDE DEF k
    <3>3. t \in Node /\ t \in Members(D)
      BY <3>1
    <3> HIDE DEF t
    <3> DEFINE w == Join(g, t, e)
    <3>6. w \in Heap /\ w.next[t] = e /\ \A x \in Node \ {t} : w.next[x] = g.next[x]
      BY <1>5, <2>1, <3>3, JoinIs
    <3> HIDE DEF w
    <3>7. k = w
      BY <3>2 DEF w
    <3>4. k \in Heap /\ k.next[t] = e /\ \A x \in Node \ {t} : k.next[x] = g.next[x]
      BY <3>6, <3>7
    <3>5. ASSUME NEW i \in 1..(n - 1) PROVE k.next[D[i]] = g.next[D[i]]
      <4>1. i \in 1..n /\ i # n /\ n \in 1..n
        BY <1>2, <2>3
      <4>2. D[i] \in Node /\ D[i] # t
        BY <1>2, <4>1 DEF t
      <4> QED BY <3>4, <4>2
    <3> QED BY <3>3, <3>4, <3>5 DEF t
  <2> QED BY <2>2, <2>3
<1> HIDE DEF k
<1>8. Elsewhere(h, k, Members(X) \cup Members(Y))
  <2>1. Members(D) \subseteq Members(X) \cup Members(Y)
    <3>1. Taken(X, p) \subseteq Members(X)
      BY <1>1, <1>2 DEF Taken, Members
    <3>2. Taken(Y, q) \subseteq Members(Y)
      BY <1>1, <1>2 DEF Taken, Members
    <3> QED BY <1>1, <3>1, <3>2
  <2> QED BY <1>1, <1>7, <2>1 DEF Elsewhere
<1>9. Remains(k.next, Y, q)
  <2>1. \A i \in q..Len(Y) : Y[i] \in Node
    BY <1>1, <1>2
  <2> QED BY <1>1, <1>4, <1>7, <2>1 DEF Remains
<1>10. \A i \in p..Len(X) : k.next[X[i]] = Front(X, i + 1)
  <2>1. \A i \in p..Len(X) : X[i] \in Node
    BY <1>1, <1>2
  <2> QED BY <1>1, <1>3, <1>7, <2>1 DEF Remains
<1>11. Remains(k.next, X, p + 1)
  <2>1. \A i \in (p + 1)..Len(X) : i \in p..Len(X)
    BY <1>1, <1>2
  <2> QED BY <1>10, <2>1 DEF Remains
<1>12. k.next[c[n + 1]] = Front(X, p + 1)
  <2>1. p \in p..Len(X)
    BY <1>2
  <2> QED BY <1>6, <1>10, <2>1 DEF e
<1>13. \A i \in 1..n : k.next[c[i]] = c[i + 1]
  <2> TAKE i \in 1..n
  <2>1. CASE i = n
    BY <1>2, <1>6, <1>7, <2>1
  <2>2. CASE i # n
    <3>1. i \in 1..(n - 1) /\ i + 1 \in 1..n
      BY <1>2, <2>2
    <3> QED BY <1>1, <1>6, <1>7, <3>1
  <2> QED BY <2>1, <2>2
<1>14. Members(c) = Taken(X, p + 1) \cup Taken(Y, q)
  <2>1. 1..((p + 1) - 1) = 1..(p - 1) \cup {p}
    BY <1>2
  <2>2. Taken(X, p + 1) = Taken(X, p) \cup {e}
    BY <2>1 DEF Taken, e
  <2> QED BY <1>1, <1>6, <2>2
<1>15. p + 1 \in 1..(Len(X) + 1) /\ n + 1 = ((p + 1) - 1) + (q - 1) /\ (n + 1) - 1 = n
  BY <1>1, <1>2
<1> HIDE DEF n
<1>16. Merging(h, k, c, X, p + 1, Y, q)
  BY <1>1, <1>6, <1>8, <1>9, <1>11, <1>12, <1>13, <1>14, <1>15 DEF Merging
<1> QED BY <1>16 DEF k, c, e

\* Each element of D goes before the rest of X.
Awaits(R, D, X, p) == \A i \in 1..Len(D), j \in p..Len(X) : <<D[i], X[j]>> \in R

\* c is in the order R.
InOrder(R, c) == \A i, j \in 1..Len(c) : i < j => <<c[i], c[j]>> \in R

Transitive(R) == \A x, y, z \in Elem : <<x, y>> \in R /\ <<y, z>> \in R => <<x, z>> \in R

LEMMA OrderKept ==
    ASSUME NEW R, Transitive(R), NEW X, NEW Y, Apart(X, Y), InOrder(R, X), InOrder(R, Y),
           NEW p \in 1..Len(X), NEW q \in 1..(Len(Y) + 1),
           NEW D, Once(D), X[p] \notin Members(D),
           InOrder(R, D), Awaits(R, D, X, p), Awaits(R, D, Y, q),
           q <= Len(Y) => <<X[p], Y[q]>> \in R
    PROVE  /\ InOrder(R, Append(D, X[p]))
           /\ Awaits(R, Append(D, X[p]), X, p + 1)
           /\ Awaits(R, Append(D, X[p]), Y, q)
<1> DEFINE e == X[p]
           c == Append(D, e)
           n == Len(D)
<1>1. /\ Len(X) \in Nat /\ Len(Y) \in Nat
      /\ \A i \in 1..Len(X) : X[i] \in Elem
      /\ \A i \in 1..Len(Y) : Y[i] \in Elem
  BY OnceParts DEF Apart
<1>2. e \in Elem /\ e \notin Members(D)
  BY <1>1
<1> HIDE DEF e
<1>3. /\ n \in Nat /\ Len(c) = n + 1 /\ c[n + 1] = e
      /\ \A i \in 1..n : c[i] = D[i]
  BY <1>2, AppendOnce
<1> HIDE DEF c, n
<1>4. 1..Len(c) = 1..n \cup {n + 1}
  BY <1>3
<1>5. \A i \in 1..n : <<D[i], e>> \in R
  <2>1. p \in p..Len(X)
    BY <1>1
  <2> QED BY <2>1 DEF Awaits, n, e
<1>6. ASSUME NEW i \in 1..Len(c), NEW j \in 1..Len(c), i < j PROVE <<c[i], c[j]>> \in R
  <2>1. CASE j = n + 1
    <3>1. i \in 1..n
      BY <1>3, <1>6, <2>1
    <3> QED BY <1>3, <1>5, <2>1, <3>1
  <2>2. CASE j # n + 1
    <3>1. i \in 1..n /\ j \in 1..n
      BY <1>3, <1>6, <2>2
    <3> QED BY <1>3, <1>6, <3>1 DEF InOrder, n
  <2> QED BY <2>1, <2>2
<1>7. \A j \in (p + 1)..Len(X) : <<e, X[j]>> \in R
  <2> TAKE j \in (p + 1)..Len(X)
  <2>1. p < j /\ j \in 1..Len(X)
    BY <1>1
  <2> QED BY <2>1 DEF InOrder, e
<1>8. \A j \in q..Len(Y) : <<e, Y[j]>> \in R
  <2> TAKE j \in q..Len(Y)
  <2>1. q \in 1..Len(Y) /\ j \in 1..Len(Y) /\ (q = j \/ q < j) /\ q <= Len(Y)
    BY <1>1
  <2>2. <<e, Y[q]>> \in R
    BY <2>1 DEF e
  <2>3. CASE q = j
    BY <2>2, <2>3
  <2>4. CASE q < j
    <3>1. <<Y[q], Y[j]>> \in R
      BY <2>1, <2>4 DEF InOrder
    <3>2. Y[q] \in Elem /\ Y[j] \in Elem
      BY <1>1, <2>1
    <3> QED BY <1>2, <2>2, <3>1, <3>2 DEF Transitive
  <2> QED BY <2>1, <2>3, <2>4
<1>9. ASSUME NEW i \in 1..Len(c), NEW j \in (p + 1)..Len(X) PROVE <<c[i], X[j]>> \in R
  <2>1. CASE i = n + 1
    BY <1>3, <1>7, <2>1
  <2>2. CASE i # n + 1
    <3>1. i \in 1..n /\ j \in p..Len(X)
      BY <1>1, <1>4, <2>2
    <3> QED BY <1>3, <3>1 DEF Awaits, n
  <2> QED BY <2>1, <2>2
<1>10. ASSUME NEW i \in 1..Len(c), NEW j \in q..Len(Y) PROVE <<c[i], Y[j]>> \in R
  <2>1. CASE i = n + 1
    BY <1>3, <1>8, <2>1
  <2>2. CASE i # n + 1
    <3>1. i \in 1..n
      BY <1>4, <2>2
    <3> QED BY <1>3, <3>1 DEF Awaits, n
  <2> QED BY <2>1, <2>2
<1>11. InOrder(R, c)
  BY <1>6 DEF InOrder
<1>12. Awaits(R, c, X, p + 1) /\ Awaits(R, c, Y, q)
  BY <1>9, <1>10 DEF Awaits
<1> QED BY <1>11, <1>12 DEF c, e

-----------------------------------------------------------------------------
(* MergeSort: the rounds of a merge.                                        *)

\* However many comparisons were made so far, the answer on x and y is what R says.
Agrees(scale, R, x, y) ==
    \A h \in Heap : IF isLess(scale, h, x, y) THEN <<x, y>> \in R ELSE <<y, x>> \in R

AgreesOn(scale, R, X, Y) == \A i \in 1..Len(X), j \in 1..Len(Y) : Agrees(scale, R, X[i], Y[j])

\* What a merge starts from.
Mergeable(scale, R, h, X, Y) ==
    /\ h \in Heap /\ Apart(X, Y) /\ Transitive(R)
    /\ Remains(h.next, X, 1) /\ Remains(h.next, Y, 1)
    /\ InOrder(R, X) /\ InOrder(R, Y) /\ AgreesOn(scale, R, X, Y)

\* The state of a merge that has taken D from X and Y.
Merged(R, h, X, Y, m, D, p, q) ==
    /\ Merging(h, m.h, D, X, p, Y, q)
    /\ InOrder(R, D) /\ Awaits(R, D, X, p) /\ Awaits(R, D, Y, q)
    /\ m = [h |-> m.h, a |-> Front(X, p), b |-> Front(Y, q),
            head |-> IF Len(D) = 0 THEN Nil ELSE D[1],
            tail |-> IF Len(D) = 0 THEN Nil ELSE D[Len(D)]]

\* After k rounds k elements are taken, or all.
AfterRounds(R, h, X, Y, m, k) ==
    \E D, p, q : /\ Merged(R, h, X, Y, m, D, p, q)
                 /\ Len(D) >= k \/ (p = Len(X) + 1 /\ q = Len(Y) + 1)

LEMMA FrontIs ==
    ASSUME NEW X, Once(X), NEW p \in 1..(Len(X) + 1)
    PROVE  /\ Front(X, p) # Nil => p \in 1..Len(X) /\ Front(X, p) = X[p]
           /\ Front(X, p) = Nil => p = Len(X) + 1
<1>1. Len(X) \in Nat /\ \A i \in 1..Len(X) : X[i] # Nil
  BY OnceParts
<1>2. CASE p <= Len(X)
  <2>1. p \in 1..Len(X)
    BY <1>1, <1>2
  <2> QED BY <1>1, <1>2, <2>1 DEF Front
<1>3. CASE ~(p <= Len(X))
  BY <1>1, <1>3 DEF Front
<1> QED BY <1>2, <1>3

\* The pointers of g, possibly after one more comparison.
Recounted(g, a) == a \in {g, [g EXCEPT !.asked = @ + 1]}

\* The number of comparisons has no part in a merge.
LEMMA AskedMerging ==
    ASSUME NEW h, NEW g, NEW D, NEW X, NEW p, NEW Y, NEW q, Merging(h, g, D, X, p, Y, q),
           NEW a, Recounted(g, a)
    PROVE  Merging(h, a, D, X, p, Y, q)
<1>1. g \in Heap
  BY DEF Merging, Elsewhere
<1>2. a \in Heap /\ a.next = g.next
  BY <1>1 DEF Heap, Recounted
<1> QED BY <1>2 DEF Merging, Elsewhere

\* What becomes of a merge if the next element of X, the one sequence or the other,
\* is taken.
OneTaken(R, h, g, D, X, p, Y, q, a) ==
    LET e == X[p]
        c == Append(D, e)
        tail == IF Len(D) = 0 THEN Nil ELSE D[Len(D)]
        k == IF tail = Nil THEN a ELSE Join(a, tail, e)
    IN  /\ Merging(h, k, c, X, p + 1, Y, q)
        /\ InOrder(R, c) /\ Awaits(R, c, X, p + 1) /\ Awaits(R, c, Y, q)
        /\ e = Front(X, p) /\ e # Nil /\ e \notin Members(Y)
        /\ g.next[e] = Front(X, p + 1)
        /\ Len(c) = Len(D) + 1 /\ Len(D) \in Nat
        /\ c[Len(c)] = e
        /\ c[1] = IF tail = Nil THEN e ELSE D[1]
        /\ tail = Nil <=> Len(D) = 0

LEMMA TakeFrom ==
    ASSUME NEW h, NEW g, NEW D, NEW X, NEW p, NEW Y, NEW q, Apart(X, Y),
           Merging(h, g, D, X, p, Y, q), p <= Len(X),
           NEW R, Transitive(R), InOrder(R, X), InOrder(R, Y),
           InOrder(R, D), Awaits(R, D, X, p), Awaits(R, D, Y, q),
           q <= Len(Y) => <<X[p], Y[q]>> \in R,
           NEW a, Recounted(g, a)
    PROVE  OneTaken(R, h, g, D, X, p, Y, q, a)
<1> DEFINE e == X[p]
           c == Append(D, e)
           n == Len(D)
           tail == IF n = 0 THEN Nil ELSE D[n]
           k == IF tail = Nil THEN a ELSE Join(a, tail, e)
<1>1. /\ p \in 1..(Len(X) + 1) /\ q \in 1..(Len(Y) + 1) /\ Once(D)
      /\ Members(D) = Taken(X, p) \cup Taken(Y, q)
      /\ Remains(g.next, X, p)
  BY DEF Merging
<1>2. /\ Once(X) /\ Len(X) \in Nat /\ p \in 1..Len(X) /\ p \in p..Len(X)
      /\ \A i \in 1..Len(X) : X[i] \in Elem /\ X[i] # Nil
  BY <1>1, OnceParts DEF Apart
<1>3. e \in Elem /\ e # Nil /\ e = Front(X, p) /\ e \notin Members(D)
  <2>1. e \notin Taken(X, p) \cup Taken(Y, q)
    BY <1>1, <1>2, NotTaken
  <2> QED BY <1>1, <1>2, <2>1 DEF Front
<1>4. e \notin Members(Y)
  <2>1. e \in Members(X)
    BY <1>2 DEF Members
  <2> QED BY <2>1 DEF Apart
<1>5. g.next[e] = Front(X, p + 1)
  BY <1>1, <1>2 DEF Remains
<1>6. n \in Nat /\ \A i \in 1..n : D[i] # Nil
  BY <1>1, OnceParts
<1>7. tail = Nil <=> n = 0
  <2>1. CASE n = 0
    BY <2>1
  <2>2. CASE n # 0
    <3>1. n \in 1..n
      BY <1>6, <2>2
    <3> QED BY <1>6, <2>2, <3>1
  <2> QED BY <2>1, <2>2
<1>8. Merging(h, k, c, X, p + 1, Y, q)
  <2>1. Merging(h, a, D, X, p, Y, q)
    BY AskedMerging
  <2> QED BY <2>1, TakeOne
<1>9. InOrder(R, c) /\ Awaits(R, c, X, p + 1) /\ Awaits(R, c, Y, q)
  BY <1>1, <1>2, <1>3, OrderKept
<1>10. Len(c) = n + 1 /\ c[n + 1] = e /\ \A i \in 1..n : c[i] = D[i]
  <2> HIDE DEF e, n
  <2> QED BY <1>1, <1>3, AppendOnce DEF n
<1>11. c[1] = IF tail = Nil THEN e ELSE D[1]
  <2> HIDE DEF c, tail, e
  <2>1. CASE n = 0
    <3>1. n + 1 = 1
      BY <2>1
    <3> QED BY <1>7, <1>10, <2>1, <3>1
  <2>2. CASE n # 0
    <3>1. 1 \in 1..n
      BY <1>6, <2>2
    <3> QED BY <1>7, <1>10, <2>2, <3>1
  <2> QED BY <2>1, <2>2
<1> HIDE DEF k, c, e, tail
<1>12. Len(c) = n + 1 /\ c[Len(c)] = e
  BY <1>10
<1> QED BY <1>3, <1>4, <1>5, <1>6, <1>7, <1>8, <1>9, <1>11, <1>12 DEF k, c, e, tail, OneTaken

LEMMA TakeFirst ==
    ASSUME NEW scale, NEW R, NEW h, NEW X, NEW Y, Mergeable(scale, R, h, X, Y),
           NEW m, NEW D, NEW p, NEW q, Merged(R, h, X, Y, m, D, p, q), p <= Len(X),
           q <= Len(Y) => <<X[p], Y[q]>> \in R,
           NEW a, Recounted(m.h, a)
    PROVE  /\ Merged(R, h, X, Y, Take(m, m.a, a), Append(D, X[p]), p + 1, q)
           /\ Len(Append(D, X[p])) = Len(D) + 1 /\ Len(D) \in Nat
<1> DEFINE g == m.h
           e == X[p]
           c == Append(D, e)
           tail == IF Len(D) = 0 THEN Nil ELSE D[Len(D)]
           k == IF tail = Nil THEN a ELSE Join(a, tail, e)
<1>1. /\ Merging(h, g, D, X, p, Y, q)
      /\ InOrder(R, D) /\ Awaits(R, D, X, p) /\ Awaits(R, D, Y, q)
      /\ m = [h |-> g, a |-> Front(X, p), b |-> Front(Y, q),
              head |-> IF Len(D) = 0 THEN Nil ELSE D[1], tail |-> tail]
  BY DEF Merged
<1> HIDE DEF g
<1>2. Apart(X, Y) /\ Transitive(R) /\ InOrder(R, X) /\ InOrder(R, Y)
  BY DEF Mergeable
<1>3. Recounted(g, a)
  BY DEF g
<1>4. /\ Merging(h, k, c, X, p + 1, Y, q)
      /\ InOrder(R, c) /\ Awaits(R, c, X, p + 1) /\ Awaits(R, c, Y, q)
      /\ e = Front(X, p) /\ e # Nil /\ e \notin Members(Y)
      /\ g.next[e] = Front(X, p + 1)
      /\ Len(c) = Len(D) + 1 /\ Len(D) \in Nat
      /\ c[Len(c)] = e
      /\ c[1] = IF tail = Nil THEN e ELSE D[1]
      /\ tail = Nil <=> Len(D) = 0
  <2>1. OneTaken(R, h, g, D, X, p, Y, q, a)
    BY <1>1, <1>2, <1>3, TakeFrom
  <2> QED BY <2>1 DEF OneTaken
<1>5. m.a = e /\ m.b = Front(Y, q) /\ m.h = g /\ m.tail = tail /\ m.head = IF Len(D) = 0 THEN Nil ELSE D[1]
  <2> HIDE DEF tail, e
  <2> QED BY <1>1, <1>4
<1> HIDE DEF c, e, tail
<1>6. Take(m, m.a, a) = [h |-> k, a |-> Front(X, p + 1), b |-> Front(Y, q),
                         head |-> IF tail = Nil THEN e ELSE D[1], tail |-> e]
  BY <1>4, <1>5 DEF Take
<1> HIDE DEF k
<1>7. Len(c) # 0
  BY <1>4
<1>8. Merged(R, h, X, Y, Take(m, m.a, a), c, p + 1, q)
  BY <1>4, <1>6, <1>7 DEF Merged
<1> QED BY <1>4, <1>8 DEF c, e

LEMMA TakeSecond ==
    ASSUME NEW scale, NEW R, NEW h, NEW X, NEW Y, Mergeable(scale, R, h, X, Y),
           NEW m, NEW D, NEW p, NEW q, Merged(R, h, X, Y, m, D, p, q), q <= Len(Y),
           p <= Len(X) => <<Y[q], X[p]>> \in R,
           NEW a, Recounted(m.h, a)
    PROVE  /\ Merged(R, h, X, Y, Take(m, m.b, a), Append(D, Y[q]), p, q + 1)
           /\ Len(Append(D, Y[q])) = Len(D) + 1 /\ Len(D) \in Nat
<1> DEFINE g == m.h
           e == Y[q]
           c == Append(D, e)
           tail == IF Len(D) = 0 THEN Nil ELSE D[Len(D)]
           k == IF tail = Nil THEN a ELSE Join(a, tail, e)
<1>1. /\ Merging(h, g, D, X, p, Y, q)
      /\ InOrder(R, D) /\ Awaits(R, D, X, p) /\ Awaits(R, D, Y, q)
      /\ m = [h |-> g, a |-> Front(X, p), b |-> Front(Y, q),
              head |-> IF Len(D) = 0 THEN Nil ELSE D[1], tail |-> tail]
  BY DEF Merged
<1> HIDE DEF g
<1>2. Apart(X, Y) /\ Transitive(R) /\ InOrder(R, X) /\ InOrder(R, Y)
  BY DEF Mergeable
<1>3. Recounted(g, a)
  BY DEF g
<1>9. Merging(h, g, D, Y, q, X, p) /\ Apart(Y, X)
  BY <1>1, <1>2, MergingSwaps
<1>4. /\ Merging(h, k, c, Y, q + 1, X, p)
      /\ InOrder(R, c) /\ Awaits(R, c, Y, q + 1) /\ Awaits(R, c, X, p)
      /\ e = Front(Y, q) /\ e # Nil /\ e \notin Members(X)
      /\ g.next[e] = Front(Y, q + 1)
      /\ Len(c) = Len(D) + 1 /\ Len(D) \in Nat
      /\ c[Len(c)] = e
      /\ c[1] = IF tail = Nil THEN e ELSE D[1]
      /\ tail = Nil <=> Len(D) = 0
  <2>1. OneTaken(R, h, g, D, Y, q, X, p, a)
    BY <1>1, <1>2, <1>3, <1>9, TakeFrom
  <2> QED BY <2>1 DEF OneTaken
<1>5. m.a = Front(X, p) /\ m.b = e /\ m.h = g /\ m.tail = tail /\ m.head = IF Len(D) = 0 THEN Nil ELSE D[1]
  <2> HIDE DEF tail, e
  <2> QED BY <1>1, <1>4
<1> HIDE DEF c, e, tail
<1>10. e # m.a
  <2>1. Once(X) /\ p \in 1..(Len(X) + 1)
    BY <1>1, <1>2 DEF Apart, Merging
  <2>2. Front(X, p) # Nil => Front(X, p) \in Members(X)
    BY <2>1, FrontIs DEF Members
  <2> QED BY <1>4, <1>5, <2>2
<1>6. Take(m, m.b, a) = [h |-> k, a |-> Front(X, p), b |-> Front(Y, q + 1),
                         head |-> IF tail = Nil THEN e ELSE D[1], tail |-> e]
  BY <1>4, <1>5, <1>10 DEF Take
<1> HIDE DEF k
<1>7. Len(c) # 0
  BY <1>4
<1>11. Merging(h, k, c, X, p, Y, q + 1)
  <2>1. Apart(Y, X)
    BY <1>9
  <2> QED BY <1>4, <2>1, MergingSwaps
<1>8. Merged(R, h, X, Y, Take(m, m.b, a), c, p, q + 1)
  BY <1>4, <1>6, <1>7, <1>11 DEF Merged
<1> QED BY <1>4, <1>8 DEF c, e

LEMMA PickRound ==
    ASSUME NEW scale, NEW R, NEW h, NEW X, NEW Y, Mergeable(scale, R, h, X, Y),
           NEW m, NEW k \in Nat, AfterRounds(R, h, X, Y, m, k)
    PROVE  AfterRounds(R, h, X, Y, Pick(scale, m), k + 1)
<1> DEFINE w == Pick(scale, m)
<1> SUFFICES AfterRounds(R, h, X, Y, w, k + 1)
  OBVIOUS
<1> HIDE DEF w
<1>1. PICK D, p, q : /\ Merged(R, h, X, Y, m, D, p, q)
                     /\ Len(D) >= k \/ (p = Len(X) + 1 /\ q = Len(Y) + 1)
  BY DEF AfterRounds
<1>2. /\ Once(X) /\ Once(Y) /\ p \in 1..(Len(X) + 1) /\ q \in 1..(Len(Y) + 1)
      /\ m.a = Front(X, p) /\ m.b = Front(Y, q) /\ m.h \in Heap
  <2>1. Merging(h, m.h, D, X, p, Y, q) /\ m.a = Front(X, p) /\ m.b = Front(Y, q)
    BY <1>1 DEF Merged
  <2> QED BY <2>1 DEF Mergeable, Apart, Merging, Elsewhere
<1>3. Len(X) \in Nat /\ Len(Y) \in Nat
  BY <1>2, OnceParts
<1>4. ASSUME m.a # Nil, NEW a, Recounted(m.h, a), w = Take(m, m.a, a), q <= Len(Y) => <<X[p], Y[q]>> \in R
      PROVE  AfterRounds(R, h, X, Y, w, k + 1)
  <2>1. p \in 1..Len(X) /\ p <= Len(X) /\ p # Len(X) + 1
    BY <1>2, <1>3, <1>4, FrontIs
  <2>2. /\ Merged(R, h, X, Y, w, Append(D, X[p]), p + 1, q)
        /\ Len(Append(D, X[p])) = Len(D) + 1 /\ Len(D) \in Nat
    BY <1>1, <1>4, <2>1, TakeFirst
  <2>3. Len(Append(D, X[p])) >= k + 1
    BY <1>1, <2>1, <2>2
  <2> QED BY <2>2, <2>3 DEF AfterRounds
<1>5. ASSUME m.b # Nil, NEW a, Recounted(m.h, a), w = Take(m, m.b, a), p <= Len(X) => <<Y[q], X[p]>> \in R
      PROVE  AfterRounds(R, h, X, Y, w, k + 1)
  <2>1. q \in 1..Len(Y) /\ q <= Len(Y) /\ q # Len(Y) + 1
    BY <1>2, <1>3, <1>5, FrontIs
  <2>2. /\ Merged(R, h, X, Y, w, Append(D, Y[q]), p, q + 1)
        /\ Len(Append(D, Y[q])) = Len(D) + 1 /\ Len(D) \in Nat
    BY <1>1, <1>5, <2>1, TakeSecond
  <2>3. Len(Append(D, Y[q])) >= k + 1
    BY <1>1, <2>1, <2>2
  <2> QED BY <2>2, <2>3 DEF AfterRounds
<1>6. CASE m.a # Nil /\ m.b # Nil
  <2> DEFINE a == [m.h EXCEPT !.asked = @ + 1]
  <2>1. Recounted(m.h, a)
    BY DEF Recounted
  <2>2. w = Take(m, IF isLess(scale, m.h, m.a, m.b) THEN m.a ELSE m.b, a)
    BY <1>6 DEF Pick, w
  <2> HIDE DEF a
  <2>3. p \in 1..Len(X) /\ m.a = X[p] /\ q \in 1..Len(Y) /\ m.b = Y[q]
    BY <1>2, <1>6, FrontIs
  <2>4. Agrees(scale, R, X[p], Y[q])
    BY <2>3 DEF Mergeable, AgreesOn
  <2>5. CASE isLess(scale, m.h, m.a, m.b)
    <3>1. <<X[p], Y[q]>> \in R
      BY <1>2, <2>3, <2>4, <2>5 DEF Agrees
    <3> QED BY <1>4, <1>6, <2>1, <2>2, <2>5, <3>1
  <2>6. CASE ~isLess(scale, m.h, m.a, m.b)
    <3>1. <<Y[q], X[p]>> \in R
      BY <1>2, <2>3, <2>4, <2>6 DEF Agrees
    <3> QED BY <1>5, <1>6, <2>1, <2>2, <2>6, <3>1
  <2> QED BY <2>5, <2>6
<1>7. CASE m.a # Nil /\ m.b = Nil
  <2>1. w = Take(m, m.a, m.h) /\ Recounted(m.h, m.h)
    BY <1>7 DEF w, Pick, Recounted
  <2>2. q = Len(Y) + 1
    BY <1>2, <1>7, FrontIs
  <2>3. ~(q <= Len(Y))
    BY <1>3, <2>2
  <2> QED BY <1>4, <1>7, <2>1, <2>3
<1>8. CASE m.a = Nil /\ m.b # Nil
  <2>1. w = Take(m, m.b, m.h) /\ Recounted(m.h, m.h)
    BY <1>8 DEF w, Pick, Recounted
  <2>2. p = Len(X) + 1
    BY <1>2, <1>8, FrontIs
  <2>3. ~(p <= Len(X))
    BY <1>3, <2>2
  <2> QED BY <1>5, <1>8, <2>1, <2>3
<1>9. CASE m.a = Nil /\ m.b = Nil
  <2>1. w = m
    BY <1>9 DEF w, Pick
  <2>2. p = Len(X) + 1 /\ q = Len(Y) + 1
    BY <1>2, <1>9, FrontIs
  <2> QED BY <1>1, <2>1, <2>2 DEF AfterRounds
<1> QED BY <1>6, <1>7, <1>8, <1>9

\* C is a chain of the elements of S in the order R, and the other pointers of h
\* are where they were.
Arranged(R, h, r, S, n, C) ==
    /\ Chain(r.h.next, C) /\ Members(C) = S /\ Len(C) = n /\ InOrder(R, C)
    /\ Elsewhere(h, r.h, S) /\ r.head = C[1]

LEMMA MergeIs ==
    ASSUME NEW scale, NEW R, NEW h, NEW X, NEW Y, Mergeable(scale, R, h, X, Y),
           Len(X) >= 1, Len(Y) >= 1, NEW len \in Nat, Len(X) + Len(Y) <= len
    PROVE  \E C : Arranged(R, h, mergeByWeight(scale, h, X[1], Y[1], len),
                           Members(X) \cup Members(Y), Len(X) + Len(Y), C)
<1> DEFINE f == CHOOSE g : Rounds(scale, h, X[1], Y[1], len, g)
           T == {k \in 0..len : AfterRounds(R, h, X, Y, f[k], k)}
           r == mergeByWeight(scale, h, X[1], Y[1], len)
<1>1. Rounds(scale, h, X[1], Y[1], len, f)
  BY RoundsExist
<1>2. r = [h |-> f[len].h, head |-> f[len].head]
  BY DEF mergeByWeight, Rounds, Unmerged
<1> HIDE DEF f, r
<1>3. f[0] = Unmerged(h, X[1], Y[1]) /\ \A k \in 1..len : f[k] = Pick(scale, f[k - 1])
  <2>1. 0 \in 0..len /\ \A k \in 1..len : k \in 0..len /\ k # 0
    OBVIOUS
  <2> QED BY <1>1, <2>1 DEF Rounds
<1>4. Once(X) /\ Once(Y) /\ Len(X) \in Nat /\ Len(Y) \in Nat /\ h \in Heap
  BY OnceParts DEF Mergeable, Apart
<1>5. AfterRounds(R, h, X, Y, f[0], 0)
  <2> DEFINE D == <<>>
             m == f[0]
  <2>1. D \in Seq(Elem) /\ Len(D) = 0 /\ 1..Len(D) = {}
    OBVIOUS
  <2>2. Once(D) /\ Members(D) = {}
    BY <2>1 DEF Once, Members
  <2>3. 1..(1 - 1) = {} /\ 1..(Len(D) - 1) = {}
    BY <2>1
  <2>4. Taken(X, 1) = {} /\ Taken(Y, 1) = {}
    BY <2>3 DEF Taken
  <2>5. m.h = h
    BY <1>3 DEF Unmerged
  <2>6. Front(X, 1) = X[1] /\ Front(Y, 1) = Y[1]
    BY DEF Front
  <2> HIDE DEF D
  <2>7. m = [h |-> m.h, a |-> Front(X, 1), b |-> Front(Y, 1),
             head |-> IF Len(D) = 0 THEN Nil ELSE D[1],
             tail |-> IF Len(D) = 0 THEN Nil ELSE D[Len(D)]]
    BY <1>3, <2>1, <2>5, <2>6 DEF Unmerged
  <2> HIDE DEF m
  <2>8. Merging(h, m.h, D, X, 1, Y, 1)
    <3>1. 1 \in 1..(Len(X) + 1) /\ 1 \in 1..(Len(Y) + 1) /\ Len(D) = (1 - 1) + (1 - 1)
      BY <1>4, <2>1
    <3>2. Elsewhere(h, m.h, Members(X) \cup Members(Y))
      BY <1>4, <2>5 DEF Elsewhere
    <3>3. Remains(m.h.next, X, 1) /\ Remains(m.h.next, Y, 1)
      BY <2>5 DEF Mergeable
    <3> QED BY <2>1, <2>2, <2>3, <2>4, <3>1, <3>2, <3>3 DEF Merging
  <2>9. InOrder(R, D) /\ Awaits(R, D, X, 1) /\ Awaits(R, D, Y, 1)
    BY <2>1 DEF InOrder, Awaits
  <2>10. Merged(R, h, X, Y, m, D, 1, 1)
    BY <2>7, <2>8, <2>9 DEF Merged
  <2>11. Len(D) >= 0
    BY <2>1
  <2> QED BY <2>10, <2>11 DEF AfterRounds, m
<1>6. ASSUME NEW k \in 1..len, k - 1 \in T PROVE k \in T
  <2>1. AfterRounds(R, h, X, Y, f[k - 1], k - 1)
    BY <1>6
  <2>2. k - 1 \in Nat /\ (k - 1) + 1 = k /\ k \in 0..len
    OBVIOUS
  <2>3. AfterRounds(R, h, X, Y, Pick(scale, f[k - 1]), (k - 1) + 1)
    BY <2>1, <2>2, PickRound
  <2> QED BY <1>3, <2>2, <2>3
<1>7. AfterRounds(R, h, X, Y, f[len], len)
  <2>1. 0 \in T
    <3>1. 0 \in 0..len
      OBVIOUS
    <3> QED BY <1>5, <3>1
  <2> HIDE DEF T
  <2>2. \A k \in 0..len : k \in T
    BY <1>6, <2>1, UpTo
  <2>3. len \in T
    BY <2>2
  <2> QED BY <2>3 DEF T
<1>8. PICK D, p, q : /\ Merged(R, h, X, Y, f[len], D, p, q)
                     /\ Len(D) >= len \/ (p = Len(X) + 1 /\ q = Len(Y) + 1)
  BY <1>7 DEF AfterRounds
<1> DEFINE g == f[len].h
           n == Len(D)
<1>9. /\ p \in 1..(Len(X) + 1) /\ q \in 1..(Len(Y) + 1)
      /\ Once(D) /\ n = (p - 1) + (q - 1)
      /\ Members(D) = Taken(X, p) \cup Taken(Y, q)
      /\ Elsewhere(h, g, Members(X) \cup Members(Y))
      /\ \A i \in 1..(n - 1) : g.next[D[i]] = D[i + 1]
      /\ n # 0 => g.next[D[n]] \in {Front(X, p), Front(Y, q)}
      /\ InOrder(R, D)
      /\ f[len].head = IF n = 0 THEN Nil ELSE D[1]
  <2>1. Merging(h, g, D, X, p, Y, q) /\ InOrder(R, D) /\ f[len].head = IF n = 0 THEN Nil ELSE D[1]
    BY <1>8 DEF Merged
  <2> QED BY <2>1 DEF Merging
<1> HIDE DEF g
<1>10. p = Len(X) + 1 /\ q = Len(Y) + 1 /\ n = Len(X) + Len(Y) /\ n >= 1 /\ n # 0
  <2>1. n = (p - 1) + (q - 1) /\ p \in 1..(Len(X) + 1) /\ q \in 1..(Len(Y) + 1)
    BY <1>9
  <2>2. n >= len \/ (p = Len(X) + 1 /\ q = Len(Y) + 1)
    BY <1>8
  <2>3. p = Len(X) + 1 /\ q = Len(Y) + 1
    BY <1>4, <2>1, <2>2
  <2> HIDE DEF n
  <2>4. n = Len(X) + Len(Y)
    BY <1>4, <2>1, <2>3
  <2> QED BY <1>4, <2>3, <2>4
<1>11. Front(X, p) = Nil /\ Front(Y, q) = Nil
  BY <1>4, <1>10 DEF Front
<1>12. Members(D) = Members(X) \cup Members(Y)
  <2>1. p - 1 = Len(X) /\ q - 1 = Len(Y)
    BY <1>4, <1>10
  <2> QED BY <1>9, <2>1 DEF Taken, Members
<1>13. r.h = g /\ r.head = D[1]
  BY <1>2, <1>9, <1>10 DEF g
<1>14. Chain(g.next, D)
  <2>1. ASSUME NEW i \in 1..n PROVE g.next[D[i]] = IF i = n THEN Nil ELSE D[i + 1]
    <3>1. CASE i = n
      BY <1>9, <1>10, <1>11, <3>1
    <3>2. CASE i # n
      <4>1. i \in 1..(n - 1)
        BY <1>4, <1>10, <3>2
      <4> QED BY <1>9, <3>2, <4>1
    <3> QED BY <3>1, <3>2
  <2> QED BY <1>9, <1>10, <2>1 DEF Chain
<1>15. Arranged(R, h, r, Members(X) \cup Members(Y), Len(X) + Len(Y), D)
  BY <1>9, <1>10, <1>12, <1>13, <1>14 DEF Arranged
<1> QED BY <1>15 DEF r

-----------------------------------------------------------------------------
(* MergeSort: a chain is sorted.                                            *)

\* An element asks to go before the ones in front of it, and R says when it does.
Follows(scale, R, c) == \A i, j \in 1..Len(c) : i < j => Agrees(scale, R, c[j], c[i])

\* The level d sorts every chain of up to d + 1 elements.
SortsAt(scale, R, len, d, g) ==
    \A h \in Heap : \A c :
        Chain(h.next, c) /\ Len(c) <= d + 1 /\ Len(c) <= len /\ Follows(scale, R, c)
        => \E C : Arranged(R, h, g[<<h, c[1]>>], Members(c), Len(c), C)

LEMMA ElsewhereTwice ==
    ASSUME NEW h, NEW g, NEW k, NEW S, NEW T, NEW U, S \subseteq U, T \subseteq U,
           Elsewhere(h, g, S), Elsewhere(g, k, T)
    PROVE  Elsewhere(h, k, U)
BY DEF Elsewhere

LEMMA ChainElsewhere ==
    ASSUME NEW h, NEW g, NEW S, Elsewhere(h, g, S), NEW c, Chain(h.next, c),
           Members(c) \cap S = {}
    PROVE  Chain(g.next, c)
<1>1. \A i \in 1..Len(c) : c[i] \in Node /\ h.next[c[i]] = IF i = Len(c) THEN Nil ELSE c[i + 1]
  BY ChainParts
<1>2. \A i \in 1..Len(c) : c[i] \notin S
  BY DEF Members
<1>3. \A i \in 1..Len(c) : g.next[c[i]] = IF i = Len(c) THEN Nil ELSE c[i + 1]
  BY <1>1, <1>2 DEF Elsewhere
<1> QED BY <1>3 DEF Chain

LEMMA ChainRemains ==
    ASSUME NEW nx, NEW c, Chain(nx, c)
    PROVE  Remains(nx, c, 1) /\ Once(c) /\ Len(c) \in Nat /\ Len(c) >= 1 /\ 1 \in 1..Len(c)
<1>1. /\ Len(c) \in Nat /\ Len(c) >= 1
      /\ \A i \in 1..Len(c) : nx[c[i]] = IF i = Len(c) THEN Nil ELSE c[i + 1]
  BY ChainParts
<1>2. ASSUME NEW i \in 1..Len(c) PROVE nx[c[i]] = Front(c, i + 1)
  <2>1. CASE i = Len(c)
    BY <1>1, <2>1 DEF Front
  <2>2. CASE i # Len(c)
    <3>1. i + 1 <= Len(c)
      BY <1>1, <2>2
    <3> QED BY <1>1, <2>2, <3>1 DEF Front
  <2> QED BY <2>1, <2>2
<1>3. Once(c)
  BY DEF Chain
<1> QED BY <1>1, <1>2, <1>3 DEF Remains

\* The halves of c, and what there is to know of them.
Halves(c, m, u, v) ==
    /\ m \in 1..(Len(c) - 1)
    /\ Len(u) = m /\ \A i \in 1..m : u[i] = c[i]
    /\ Len(v) = Len(c) - m /\ \A i \in 1..(Len(c) - m) : v[i] = c[m + i]

LEMMA HalvesAre ==
    ASSUME NEW c, Once(c), NEW m, NEW u, NEW v, Halves(c, m, u, v)
    PROVE  /\ Members(u) \cup Members(v) = Members(c)
           /\ Members(u) \cap Members(v) = {}
           /\ v[1] = c[m + 1] /\ u[1] = c[1]
<1> DEFINE N == Len(c)
<1>1. N \in Nat /\ \A i, j \in 1..N : c[i] = c[j] => i = j
  BY OnceParts
<1>2. /\ m \in Nat /\ m \in 1..(N - 1)
      /\ Len(u) = m /\ \A i \in 1..m : u[i] = c[i]
      /\ Len(v) = N - m /\ \A i \in 1..(N - m) : v[i] = c[m + i]
  BY <1>1 DEF Halves
<1> HIDE DEF N
<1>3. \A i \in 1..m : i \in 1..N /\ \A j \in 1..(N - m) : m + j \in 1..N /\ i # m + j
  BY <1>1, <1>2
<1>4. \A i \in 1..N : i \in 1..m \/ (i - m \in 1..(N - m) /\ m + (i - m) = i)
  BY <1>1, <1>2
<1>5. Members(u) = {c[i] : i \in 1..m} /\ Members(v) = {c[m + i] : i \in 1..(N - m)}
  BY <1>2 DEF Members
<1>6. Members(c) = {c[i] : i \in 1..N}
  BY DEF Members, N
<1>7. Members(u) \cup Members(v) \subseteq Members(c)
  <2>1. 1 \in 1..m
    BY <1>2
  <2> QED BY <1>3, <1>5, <1>6, <2>1
<1>8. Members(c) \subseteq Members(u) \cup Members(v)
  <2> SUFFICES ASSUME NEW i \in 1..N PROVE c[i] \in Members(u) \cup Members(v)
    BY <1>6
  <2>1. CASE i \in 1..m
    BY <1>5, <2>1
  <2>2. CASE i - m \in 1..(N - m) /\ m + (i - m) = i
    BY <1>5, <2>2
  <2> QED BY <1>4, <2>1, <2>2
<1>9. Members(u) \cap Members(v) = {}
  BY <1>1, <1>3, <1>5
<1>10. v[1] = c[m + 1] /\ u[1] = c[1]
  <2>1. 1 \in 1..m /\ 1 \in 1..(N - m)
    BY <1>1, <1>2
  <2> QED BY <1>2, <2>1
<1> QED BY <1>7, <1>8, <1>9, <1>10

LEMMA HalvesFollow ==
    ASSUME NEW scale, NEW R, NEW c, Once(c), Follows(scale, R, c),
           NEW m, NEW u, NEW v, Halves(c, m, u, v)
    PROVE  /\ Follows(scale, R, u) /\ Follows(scale, R, v)
           /\ \A x \in Members(v), y \in Members(u) : Agrees(scale, R, x, y)
<1> DEFINE N == Len(c)
<1>1. N \in Nat
  BY OnceParts
<1>2. /\ m \in Nat /\ m \in 1..(N - 1)
      /\ Len(u) = m /\ \A i \in 1..m : u[i] = c[i]
      /\ Len(v) = N - m /\ \A i \in 1..(N - m) : v[i] = c[m + i]
  BY <1>1 DEF Halves
<1>3. \A i, j \in 1..N : i < j => Agrees(scale, R, c[j], c[i])
  BY DEF Follows
<1> HIDE DEF N
<1>4. Follows(scale, R, u)
  <2>1. \A i \in 1..m : i \in 1..N
    BY <1>1, <1>2
  <2> QED BY <1>2, <1>3, <2>1 DEF Follows
<1>5. Follows(scale, R, v)
  <2>1. \A i \in 1..(N - m) : m + i \in 1..N
    BY <1>1, <1>2
  <2>2. \A i, j \in 1..(N - m) : i < j => m + i < m + j
    BY <1>1, <1>2
  <2> QED BY <1>2, <1>3, <2>1, <2>2 DEF Follows
<1>6. ASSUME NEW x \in Members(v), NEW y \in Members(u) PROVE Agrees(scale, R, x, y)
  <2>1. PICK i \in 1..(N - m) : x = v[i]
    BY <1>2 DEF Members
  <2>2. PICK j \in 1..m : y = u[j]
    BY <1>2 DEF Members
  <2>3. m + i \in 1..N /\ j \in 1..N /\ j < m + i
    BY <1>1, <1>2
  <2> QED BY <1>2, <1>3, <2>1, <2>2, <2>3
<1> QED BY <1>4, <1>5, <1>6

LEMMA SortStep ==
    ASSUME NEW scale, NEW R, Transitive(R), NEW len \in Nat, NEW d \in 1..len, NEW g,
           SortsAt(scale, R, len, d - 1, g)
    PROVE  SortsAt(scale, R, len, d, Sorter(scale, len, d, g))
<1> DEFINE f == Sorter(scale, len, d, g)
<1> SUFFICES ASSUME NEW h \in Heap, NEW c, Chain(h.next, c), Len(c) <= d + 1, Len(c) <= len,
                    Follows(scale, R, c)
             PROVE  \E C : Arranged(R, h, f[<<h, c[1]>>], Members(c), Len(c), C)
  BY DEF SortsAt
<1> DEFINE r == f[<<h, c[1]>>]
           N == Len(c)
<1>1. /\ Once(c) /\ N \in Nat /\ N >= 1
      /\ \A i \in 1..N : c[i] \in Elem /\ c[i] # Nil
      /\ \A i \in 1..N : h.next[c[i]] = IF i = N THEN Nil ELSE c[i + 1]
  BY ChainParts DEF Chain
<1>2. <<h, c[1]>> \in Heap \X Elem /\ d # 0
  <2>1. 1 \in 1..N
    BY <1>1
  <2> QED BY <1>1, <2>1
<1>3. r = IF h.next[c[1]] = Nil THEN [h |-> h, head |-> c[1]]
          ELSE LET slow  == Half(h, c[1], len)
                   mid   == h.next[slow]
                   left  == g[<<Cut(h, slow, mid), mid>>]
                   right == g[<<left.h, c[1]>>]
               IN  mergeByWeight(scale, right.h, left.head, right.head, len)
  BY <1>2 DEF Sorter
<1> HIDE DEF r, f, N
<1> SUFFICES \E C : Arranged(R, h, r, Members(c), N, C)
  BY DEF r, f, N
<1>4. CASE N = 1
  <2>1. 1 \in 1..N /\ 1 = N
    BY <1>4
  <2>2. r = [h |-> h, head |-> c[1]]
    BY <1>1, <1>3, <2>1
  <2>3. InOrder(R, c)
    <3>1. \A i, j \in 1..N : ~(i < j)
      BY <1>4
    <3> QED BY <3>1 DEF InOrder, N
  <2>4. Elsewhere(h, h, Members(c))
    BY DEF Elsewhere
  <2>5. Arranged(R, h, r, Members(c), N, c)
    BY <2>2, <2>3, <2>4 DEF Arranged, N
  <2> QED BY <2>5
<1>5. CASE N # 1
  <2>1. 1 \in 1..N /\ 2 \in 1..N /\ N >= 2 /\ 1 # N
    BY <1>1, <1>5
  <2>2. h.next[c[1]] # Nil
    BY <1>1, <2>1
  <2>3. PICK m \in 1..(N - 1) : Half(h, c[1], len) = c[m]
    BY <2>1, HalfIs DEF N
  <2>4. m \in Nat /\ m \in 1..N /\ m # N /\ m + 1 \in 1..N /\ m < d + 1 /\ N - m < d + 1
    BY <1>1, <2>1, <2>3 DEF N
  <2>5. h.next[c[m]] = c[m + 1]
    BY <1>1, <2>4
  <2> DEFINE cut   == Cut(h, c[m], c[m + 1])
             u     == SubSeq(c, 1, m)
             v     == SubSeq(c, m + 1, Len(c))
             left  == g[<<cut, c[m + 1]>>]
             right == g[<<left.h, c[1]>>]
  <2>6. r = mergeByWeight(scale, right.h, left.head, right.head, len)
    BY <1>3, <2>2, <2>3, <2>5
  <2>7. /\ Elsewhere(h, cut, Members(c))
        /\ Chain(cut.next, u) /\ Chain(cut.next, v)
        /\ Halves(c, m, u, v)
    <3>1. m \in 1..(Len(c) - 1)
      BY <2>3 DEF N
    <3> QED BY <3>1, CutIs DEF Halves
  <2> HIDE DEF cut, u, v, left, right
  <2>8. /\ Members(u) \cup Members(v) = Members(c) /\ Members(u) \cap Members(v) = {}
        /\ v[1] = c[m + 1] /\ u[1] = c[1]
        /\ Follows(scale, R, u) /\ Follows(scale, R, v)
        /\ \A x \in Members(v), y \in Members(u) : Agrees(scale, R, x, y)
    BY <1>1, <2>7, HalvesAre, HalvesFollow
  <2>9. /\ Len(u) = m /\ Len(v) = N - m
        /\ Len(u) <= (d - 1) + 1 /\ Len(v) <= (d - 1) + 1 /\ Len(u) <= len /\ Len(v) <= len
    BY <1>1, <2>4, <2>7 DEF Halves, N
  <2>10. cut \in Heap
    BY <2>7 DEF Elsewhere
  \* The second half first.
  <2>11. PICK C1 : Arranged(R, cut, left, Members(v), Len(v), C1)
    BY <2>7, <2>8, <2>9, <2>10 DEF SortsAt, left
  <2>12. /\ Chain(left.h.next, C1) /\ Members(C1) = Members(v) /\ Len(C1) = Len(v)
         /\ InOrder(R, C1) /\ Elsewhere(cut, left.h, Members(v)) /\ left.head = C1[1]
    BY <2>11 DEF Arranged
  <2>13. left.h \in Heap /\ Chain(left.h.next, u)
    BY <2>7, <2>8, <2>12, ChainElsewhere DEF Elsewhere
  <2>14. PICK C2 : Arranged(R, left.h, right, Members(u), Len(u), C2)
    BY <2>8, <2>9, <2>13 DEF SortsAt, right
  <2>15. /\ Chain(right.h.next, C2) /\ Members(C2) = Members(u) /\ Len(C2) = Len(u)
         /\ InOrder(R, C2) /\ Elsewhere(left.h, right.h, Members(u)) /\ right.head = C2[1]
    BY <2>14 DEF Arranged
  <2>16. right.h \in Heap /\ Chain(right.h.next, C1)
    <3>1. Members(C1) \cap Members(u) = {}
      BY <2>8, <2>12
    <3> QED BY <2>12, <2>15, <3>1, ChainElsewhere DEF Elsewhere
  <2>17. Mergeable(scale, R, right.h, C1, C2)
    <3>1. Remains(right.h.next, C1, 1) /\ Remains(right.h.next, C2, 1) /\ Once(C1) /\ Once(C2)
      BY <2>15, <2>16, ChainRemains
    <3>2. Members(C1) \cap Members(C2) = {}
      BY <2>8, <2>12, <2>15
    <3>3. AgreesOn(scale, R, C1, C2)
      <4>1. \A i \in 1..Len(C1) : C1[i] \in Members(v)
        BY <2>12 DEF Members
      <4>2. \A i \in 1..Len(C2) : C2[i] \in Members(u)
        BY <2>15 DEF Members
      <4> QED BY <2>8, <4>1, <4>2 DEF AgreesOn
    <3> QED BY <2>12, <2>15, <2>16, <3>1, <3>2, <3>3 DEF Mergeable, Apart
  <2>18. Len(C1) >= 1 /\ Len(C2) >= 1 /\ Len(C1) + Len(C2) = N /\ Len(C1) + Len(C2) <= len
    BY <1>1, <2>4, <2>9, <2>12, <2>15 DEF N
  <2>19. PICK C : Arranged(R, right.h, r, Members(C1) \cup Members(C2), Len(C1) + Len(C2), C)
    <3>1. r = mergeByWeight(scale, right.h, C1[1], C2[1], len)
      BY <2>6, <2>12, <2>15
    <3> QED BY <2>17, <2>18, <3>1, MergeIs
  <2>20. Members(C1) \cup Members(C2) = Members(c)
    BY <2>8, <2>12, <2>15
  <2>21. Elsewhere(h, r.h, Members(c))
    <3>1. Elsewhere(h, left.h, Members(c))
      BY <2>7, <2>8, <2>12, ElsewhereTwice
    <3>2. Elsewhere(h, right.h, Members(c))
      BY <2>8, <2>15, <3>1, ElsewhereTwice
    <3>3. Elsewhere(right.h, r.h, Members(c))
      BY <2>19, <2>20 DEF Arranged
    <3> QED BY <3>2, <3>3, ElsewhereTwice
  <2>22. Arranged(R, h, r, Members(c), N, C)
    BY <2>18, <2>19, <2>20, <2>21 DEF Arranged
  <2> QED BY <2>22
<1> QED BY <1>4, <1>5

\* The lowest level leaves a single element as it is.
LEMMA SortBase ==
    ASSUME NEW scale, NEW R, NEW len, NEW g
    PROVE  SortsAt(scale, R, len, 0, Sorter(scale, len, 0, g))
<1> DEFINE f == Sorter(scale, len, 0, g)
<1>1. ASSUME NEW h \in Heap, NEW c, Chain(h.next, c), Len(c) <= 0 + 1
      PROVE  \E C : Arranged(R, h, f[<<h, c[1]>>], Members(c), Len(c), C)
  <2>1. Len(c) \in Nat /\ Len(c) >= 1 /\ \A i \in 1..Len(c) : c[i] \in Elem
    BY <1>1, ChainParts
  <2>2. Len(c) = 1
    <3>1. \A n \in Nat : n >= 1 /\ n <= 0 + 1 => n = 1
      OBVIOUS
    <3> QED BY <1>1, <2>1, <3>1, Zenon
  <2>3. <<h, c[1]>> \in Heap \X Elem
    BY <2>1, <2>2
  <2>4. f[<<h, c[1]>>] = [h |-> h, head |-> c[1]]
    BY <2>3, LowestLevel
  <2> HIDE DEF f
  <2>5. InOrder(R, c)
    <3>1. \A i, j \in 1..Len(c) : ~(i < j)
      BY <2>2
    <3> QED BY <3>1 DEF InOrder
  <2>6. Elsewhere(h, h, Members(c))
    BY DEF Elsewhere
  <2>7. Arranged(R, h, f[<<h, c[1]>>], Members(c), Len(c), c)
    BY <1>1, <2>4, <2>5, <2>6 DEF Arranged
  <2> QED BY <2>7
<1> HIDE DEF f
<1>2. SortsAt(scale, R, len, 0, f)
  BY <1>1 DEF SortsAt
<1> QED BY <1>2 DEF f

LEMMA SortIs ==
    ASSUME NEW scale, NEW R, Transitive(R), NEW len \in Nat, NEW h \in Heap, NEW c,
           Chain(h.next, c), Len(c) <= len, Follows(scale, R, c)
    PROVE  \E C : Arranged(R, h, mergeSortByWeight(scale, h, c[1], len), Members(c), Len(c), C)
<1> DEFINE f == CHOOSE k : Sorts(scale, len, len, k)
           T == {d \in 0..len : SortsAt(scale, R, len, d, f[d])}
<1>1. Sorts(scale, len, len, f)
  BY SortsExist
<1>2. mergeSortByWeight(scale, h, c[1], len) = f[len][<<h, c[1]>>]
  BY DEF mergeSortByWeight, Sorts, Sorter
<1> HIDE DEF f
<1>3. \A k \in 0..len : f[k] = Sorter(scale, len, k, f[k - 1])
  BY <1>1 DEF Sorts
<1>4. SortsAt(scale, R, len, 0, f[0])
  <2>1. 0 \in 0..len
    OBVIOUS
  <2> QED BY <1>3, <2>1, SortBase
<1>5. ASSUME NEW d \in 1..len, d - 1 \in T PROVE d \in T
  <2>1. d \in 0..len /\ SortsAt(scale, R, len, d - 1, f[d - 1])
    BY <1>5
  <2> QED BY <1>3, <2>1, SortStep
<1>6. SortsAt(scale, R, len, len, f[len])
  <2>1. 0 \in T
    <3>1. 0 \in 0..len
      OBVIOUS
    <3> QED BY <1>4, <3>1
  <2> HIDE DEF T
  <2>2. \A k \in 0..len : k \in T
    BY <1>5, <2>1, UpTo
  <2>3. len \in T
    BY <2>2
  <2> QED BY <2>3 DEF T
<1>7. Len(c) <= len + 1
  BY ChainParts
<1> QED BY <1>2, <1>6, <1>7 DEF SortsAt

-----------------------------------------------------------------------------
(* MergeSort: the ring that a sort opens, sorts and closes.                 *)

\* The predecessors are known up to the i-th element.
PointsBack(h, c, i) ==
    /\ h \in Heap /\ Chain(h.next, c) /\ h.next[Root] = c[1]
    /\ i \in 1..Len(c)
    /\ \A j \in 1..i : h.prev[c[j]] = IF j = 1 THEN Root ELSE c[j - 1]

\* After k rounds, of which there may be too many.
Followed(c, s, k) ==
    \E i \in 1..Len(c) : /\ s = [h |-> s.h, curr |-> c[i]] /\ PointsBack(s.h, c, i)
                         /\ i >= k + 1 \/ i = Len(c)

LEMMA FollowRound ==
    ASSUME NEW c, NEW s, NEW k \in Nat, Followed(c, s, k)
    PROVE  Followed(c, Follow(s), k + 1)
<1> DEFINE N == Len(c)
<1>1. PICK i \in 1..N : /\ s = [h |-> s.h, curr |-> c[i]] /\ PointsBack(s.h, c, i)
                        /\ i >= k + 1 \/ i = N
  BY DEF Followed
<1> DEFINE h == s.h
<1>2. /\ h \in Heap /\ Chain(h.next, c) /\ h.next[Root] = c[1]
      /\ \A j \in 1..i : h.prev[c[j]] = IF j = 1 THEN Root ELSE c[j - 1]
      /\ s = [h |-> h, curr |-> c[i]]
  BY <1>1 DEF PointsBack
<1>3. /\ N \in Nat /\ Once(c)
      /\ \A j \in 1..N : c[j] \in Elem /\ c[j] \in Node /\ c[j] # Nil
      /\ \A j \in 1..N : h.next[c[j]] = IF j = N THEN Nil ELSE c[j + 1]
      /\ \A j, l \in 1..N : c[j] = c[l] => j = l
  BY <1>2, ChainParts DEF Chain
<1> HIDE DEF h, N
<1>4. CASE i = N
  <2>1. Follow(s) = s
    BY <1>2, <1>3, <1>4 DEF Follow
  <2> QED BY <1>1, <1>4, <2>1 DEF Followed, N
<1>5. CASE i # N
  <2>1. i + 1 \in 1..N /\ (i + 1) - 1 = i /\ i + 1 # 1 /\ i + 1 >= (k + 1) + 1
    BY <1>1, <1>3, <1>5
  <2> DEFINE x == c[i + 1]
             g == [h EXCEPT !.prev[x] = c[i]]
  <2>2. h.next[c[i]] = x /\ x \in Node /\ x # Nil /\ c[i] \in Node
    BY <1>3, <1>5, <2>1
  <2>3. Follow(s) = [h |-> g, curr |-> x]
    BY <1>2, <2>2 DEF Follow
  <2> HIDE DEF x
  <2>4. /\ g \in Heap /\ g.next = h.next
        /\ g.prev[x] = c[i] /\ \A y \in Node \ {x} : g.prev[y] = h.prev[y]
    BY <1>2, <2>2 DEF Heap, Pointers
  <2> HIDE DEF g
  <2>5. ASSUME NEW j \in 1..(i + 1) PROVE g.prev[c[j]] = IF j = 1 THEN Root ELSE c[j - 1]
    <3>1. CASE j = i + 1
      BY <2>1, <2>4, <3>1 DEF x
    <3>2. CASE j # i + 1
      <4>1. j \in 1..i /\ j \in 1..N
        BY <1>3, <2>1, <3>2
      <4>2. c[j] \in Node \ {x}
        BY <1>3, <2>1, <3>2, <4>1 DEF x
      <4> QED BY <1>2, <2>4, <4>1, <4>2
    <3> QED BY <3>1, <3>2
  <2>6. PointsBack(g, c, i + 1)
    BY <1>2, <2>1, <2>4, <2>5 DEF PointsBack, N
  <2>7. Follow(s) = [h |-> Follow(s).h, curr |-> c[i + 1]] /\ Follow(s).h = g
    BY <2>3 DEF x
  <2> QED BY <2>1, <2>6, <2>7 DEF Followed, N
<1> QED BY <1>4, <1>5

LEMMA CloseIs ==
    ASSUME NEW h \in Heap, NEW c, Chain(h.next, c), NEW len \in Nat, len = Len(c)
    PROVE  Represents(CloseRing(h, c[1], len), len, c)
<1> DEFINE f == CHOOSE g : Walks(h, c[1], len, g)
           T == {k \in 0..len : Followed(c, f[k], k)}
           r == CloseRing(h, c[1], len)
<1>1. Walks(h, c[1], len, f)
  BY WalksExist
<1>2. r = Join(f[len].h, f[len].curr, Root)
  BY DEF CloseRing, Walks
<1> HIDE DEF f, r
<1>3. /\ f[0] = [h |-> Join(h, Root, c[1]), curr |-> c[1]]
      /\ \A k \in 1..len : f[k] = Follow(f[k - 1])
  <2>1. 0 \in 0..len /\ \A k \in 1..len : k \in 0..len /\ k # 0
    OBVIOUS
  <2> QED BY <1>1, <2>1 DEF Walks
<1>4. /\ len >= 1 /\ Once(c) /\ c \in Seq(Elem)
      /\ \A i \in 1..len : c[i] \in Elem /\ c[i] \in Node /\ c[i] # Nil /\ c[i] # Root
      /\ \A i \in 1..len : h.next[c[i]] = IF i = len THEN Nil ELSE c[i + 1]
      /\ \A i, j \in 1..len : c[i] = c[j] => i = j
  <2>1. /\ Len(c) >= 1 /\ c \in Seq(Elem)
        /\ \A i \in 1..len : c[i] \in Elem /\ c[i] \in Node /\ c[i] # Nil
        /\ \A i \in 1..len : h.next[c[i]] = IF i = len THEN Nil ELSE c[i + 1]
        /\ \A i, j \in 1..len : c[i] = c[j] => i = j
    BY ChainParts
  <2>2. \A i \in 1..len : c[i] # Root
    BY <2>1, RingAssumption
  <2> QED BY <2>1, <2>2 DEF Chain
<1>5. Root \in Node
  BY DEF Node
<1>6. Followed(c, f[0], 0)
  <2> DEFINE e == c[1]
             g == Join(h, Root, e)
  <2>1. 1 \in 1..len
    BY <1>4
  <2>2. e \in Node /\ e # Root
    BY <1>4, <2>1
  <2> HIDE DEF e
  <2>3. /\ g \in Heap /\ g.next[Root] = e /\ g.prev[e] = Root
        /\ \A x \in Node \ {Root} : g.next[x] = h.next[x]
    BY <1>5, <2>2, JoinIs
  <2>4. f[0] = [h |-> g, curr |-> e]
    BY <1>3 DEF e
  <2> HIDE DEF g
  <2>5. \A i \in 1..len : g.next[c[i]] = IF i = len THEN Nil ELSE c[i + 1]
    BY <1>4, <2>3
  <2>6. Chain(g.next, c)
    BY <1>4, <2>5 DEF Chain
  <2>7. PointsBack(g, c, 1)
    <3>1. \A j \in 1..1 : j = 1
      OBVIOUS
    <3> QED BY <2>1, <2>3, <2>6, <3>1 DEF PointsBack, e
  <2>8. f[0].h = g /\ f[0] = [h |-> f[0].h, curr |-> c[1]] /\ 1 >= 0 + 1
    BY <2>4 DEF e
  <2> QED BY <2>1, <2>7, <2>8 DEF Followed
<1>7. ASSUME NEW k \in 1..len, k - 1 \in T PROVE k \in T
  <2>1. k - 1 \in Nat /\ (k - 1) + 1 = k /\ k \in 0..len /\ Followed(c, f[k - 1], k - 1)
    BY <1>7
  <2>2. Followed(c, Follow(f[k - 1]), (k - 1) + 1)
    BY <2>1, FollowRound
  <2> QED BY <1>3, <2>1, <2>2
<1>8. Followed(c, f[len], len)
  <2>1. 0 \in T
    <3>1. 0 \in 0..len
      OBVIOUS
    <3> QED BY <1>6, <3>1
  <2> HIDE DEF T
  <2>2. \A k \in 0..len : k \in T
    BY <1>7, <2>1, UpTo
  <2>3. len \in T
    BY <2>2
  <2> QED BY <2>3 DEF T
<1> DEFINE g == f[len].h
           last == c[len]
<1>9. f[len].curr = last /\ PointsBack(g, c, len)
  <2>1. PICK i \in 1..len : /\ f[len] = [h |-> g, curr |-> c[i]] /\ PointsBack(g, c, i)
                            /\ i >= len + 1 \/ i = len
    BY <1>8 DEF Followed
  <2>2. i = len
    BY <2>1
  <2> HIDE DEF g
  <2> QED BY <2>1, <2>2
<1>10. r = Join(g, last, Root)
  BY <1>2, <1>9
<1> HIDE DEF g, last
<1>11. /\ g \in Heap /\ g.next[Root] = c[1]
       /\ \A i \in 1..len : g.next[c[i]] = IF i = len THEN Nil ELSE c[i + 1]
       /\ \A j \in 1..len : g.prev[c[j]] = IF j = 1 THEN Root ELSE c[j - 1]
  <2>1. Chain(g.next, c)
    BY <1>9 DEF PointsBack
  <2> QED BY <1>9, <2>1, ChainParts DEF PointsBack
<1>12. len \in 1..len /\ 1 \in 1..len /\ last \in Node /\ last # Root
  BY <1>4 DEF last
<1> DEFINE w == Join(g, last, Root)
<1>13. /\ w.next[last] = Root /\ \A x \in Node \ {last} : w.next[x] = g.next[x]
       /\ w.prev[Root] = last /\ \A x \in Node \ {Root} : w.prev[x] = g.prev[x]
  BY <1>5, <1>11, <1>12, JoinIs
<1> HIDE DEF w
<1>14. r = w
  BY <1>10 DEF w
<1>15. ASSUME NEW i \in 0..len
       PROVE  r.next[At(c, len, i)] = At(c, len, i + 1) /\ r.prev[At(c, len, i + 1)] = At(c, len, i)
  <2>1. CASE i = 0
    <3>1. At(c, len, i) = Root /\ At(c, len, i + 1) = c[1] /\ c[1] \in Node \ {Root} /\ Root \in Node \ {last}
      BY <1>4, <1>5, <1>12, <2>1 DEF At
    <3> QED BY <1>11, <1>12, <1>13, <1>14, <3>1
  <2>2. CASE i = len
    <3>1. At(c, len, i) = last /\ At(c, len, i + 1) = Root
      BY <1>4, <2>2 DEF At, last
    <3> QED BY <1>13, <1>14, <3>1
  <2>3. CASE i # 0 /\ i # len
    <3>1. i \in 1..len /\ i + 1 \in 1..len /\ i + 1 # 1 /\ (i + 1) - 1 = i /\ i # len + 1 /\ i + 1 # len + 1 /\ i + 1 # 0
      BY <2>3
    <3>2. At(c, len, i) = c[i] /\ At(c, len, i + 1) = c[i + 1]
      BY <2>3, <3>1 DEF At
    <3>3. c[i] \in Node \ {last} /\ c[i + 1] \in Node \ {Root}
      BY <1>4, <1>12, <2>3, <3>1 DEF last
    <3> QED BY <1>11, <1>13, <1>14, <2>3, <3>1, <3>2, <3>3
  <2> QED BY <2>1, <2>2, <2>3
<1>16. Represents(r, len, c)
  BY <1>4, <1>15 DEF Represents
<1> QED BY <1>16 DEF r

\* A ring of c, and its length.
Holds(r, c) == r \in RingType /\ Once(c) /\ r.len = Len(c) /\ Represents(r, Len(c), c)

\* A sort leaves a ring of the same elements, in the order R.
LEMMA RingSorted ==
    ASSUME NEW scale, NEW R, Transitive(R), NEW r, NEW c, Holds(r, c), Follows(scale, R, c)
    PROVE  \E C : /\ Represents(Sort(r, scale), Len(c), C) /\ Sort(r, scale).len = Len(c)
                  /\ Once(C) /\ Members(C) = Members(c) /\ Len(C) = Len(c) /\ InOrder(R, C)
<1> DEFINE n == Len(c)
           q == Sort(r, scale)
<1>1. /\ Once(c) /\ n \in Nat /\ r.len = n /\ r \in RingType
      /\ \A i \in 1..n : c[i] \in Elem /\ c[i] \in Node /\ c[i] # Nil /\ c[i] # Root
      /\ \A i, j \in 1..n : c[i] = c[j] => i = j
      /\ \A i \in 0..n : r.next[At(c, n, i)] = At(c, n, i + 1) /\ r.prev[At(c, n, i + 1)] = At(c, n, i)
  <2>1. Once(c) /\ r.len = n /\ r \in RingType /\ Represents(r, n, c)
    BY DEF Holds
  <2>2. /\ n \in Nat /\ \A i \in 1..n : c[i] \in Elem /\ c[i] \in Node /\ c[i] # Nil
        /\ \A i, j \in 1..n : c[i] = c[j] => i = j
    BY <2>1, OnceParts
  <2> QED BY <2>1, <2>2, RingAssumption DEF Represents
<1> HIDE DEF n, q
<1> SUFFICES \E C : /\ Represents(q, n, C) /\ q.len = n
                    /\ Once(C) /\ Members(C) = Members(c) /\ Len(C) = n /\ InOrder(R, C)
  BY DEF n, q
<1>2. CASE n < 2
  <2>1. q = r
    BY <1>1, <1>2 DEF Sort, q
  <2>2. \A i, j \in 1..n : ~(i < j)
    BY <1>1, <1>2
  <2>3. InOrder(R, c) /\ Represents(r, n, c)
    BY <2>2 DEF InOrder, Holds, n
  <2> QED BY <1>1, <2>1, <2>3 DEF n
<1>3. CASE ~(n < 2)
  <2>1. 1 \in 1..n /\ n \in 1..n /\ 0 \in 0..n /\ n \in 0..n /\ n # 0 /\ 0 # n
    BY <1>1, <1>3
  <2>2. /\ At(c, n, 0) = Root /\ At(c, n, n + 1) = Root
        /\ \A i \in 1..n : At(c, n, i) = c[i]
    BY <1>1, <2>1 DEF At
  <2>3. r.next[Root] = c[1] /\ r.prev[Root] = c[n]
    <3>1. r.next[At(c, n, 0)] = At(c, n, 0 + 1) /\ r.prev[At(c, n, n + 1)] = At(c, n, n)
      BY <1>1, <2>1
    <3>2. 0 + 1 = 1
      OBVIOUS
    <3> QED BY <2>1, <2>2, <3>1, <3>2
  <2> DEFINE nx == [r.next EXCEPT ![c[n]] = Nil]
             pv == [r.prev EXCEPT ![c[1]] = Nil]
             opened == [next |-> nx, prev |-> pv, asked |-> 0]
             sorted == mergeSortByWeight(scale, opened, c[1], n)
             closed == CloseRing(sorted.h, sorted.head, n)
  <2>4. q = [next |-> closed.next, prev |-> closed.prev, len |-> n]
    BY <1>1, <1>3, <2>3 DEF Sort, q
  <2>5. /\ nx \in Pointers /\ pv \in Pointers
        /\ nx[c[n]] = Nil /\ \A x \in Node \ {c[n]} : nx[x] = r.next[x]
    BY <1>1, <2>1 DEF RingType, Pointers
  <2> HIDE DEF nx, pv
  <2>6. opened \in Heap /\ opened.next = nx
    BY <2>5 DEF Heap
  <2> HIDE DEF opened
  <2>7. ASSUME NEW i \in 1..n PROVE nx[c[i]] = IF i = n THEN Nil ELSE c[i + 1]
    <3>1. CASE i = n
      BY <2>5, <3>1
    <3>2. CASE i # n
      <4>1. i + 1 \in 1..n /\ i \in 0..n
        BY <1>1, <3>2
      <4>2. c[i] \in Node \ {c[n]}
        BY <1>1, <2>1, <3>2
      <4>3. r.next[At(c, n, i)] = At(c, n, i + 1)
        BY <1>1, <4>1
      <4> QED BY <2>2, <2>5, <3>2, <4>1, <4>2, <4>3
    <3> QED BY <3>1, <3>2
  <2>8. Chain(opened.next, c) /\ Len(c) <= n
    BY <1>1, <1>3, <2>6, <2>7 DEF Chain, n
  <2>9. PICK C : Arranged(R, opened, sorted, Members(c), n, C)
    BY <1>1, <2>6, <2>8, SortIs DEF n
  <2> HIDE DEF sorted
  <2>10. /\ Chain(sorted.h.next, C) /\ Members(C) = Members(c) /\ Len(C) = n /\ InOrder(R, C)
         /\ sorted.h \in Heap /\ sorted.head = C[1]
    BY <2>9 DEF Arranged, Elsewhere
  <2>11. Represents(closed, n, C)
    BY <1>1, <2>10, CloseIs
  <2> HIDE DEF closed
  <2>12. q.len = n /\ q.next = closed.next /\ q.prev = closed.prev
    BY <2>4
  <2>13. Represents(q, n, C)
    BY <2>11, <2>12 DEF Represents
  <2>14. Once(C)
    BY <2>10 DEF Chain
  <2> QED BY <2>10, <2>12, <2>13, <2>14
<1> QED BY <1>2, <1>3

-----------------------------------------------------------------------------
(* MergeSort: the list that Register makes, and the order that is promised. *)

LEMMA RingFromHolds ==
    ASSUME NEW s, Once(s)
    PROVE  Holds(RingFrom(s), s)
<1> DEFINE N == Len(s)
           f == CHOOSE g : Pushes(s, N, g)
           t(k) == [i \in 1..k |-> s[i]]
           T == {k \in 0..N : f[k] \in RingType /\ f[k].len = k /\ Represents(f[k], k, t(k))}
<1>1. N \in Nat /\ s \in Seq(Elem) /\ \A i \in 1..N : s[i] \in Elem
  BY OnceParts
<1>2. \A i, j \in 1..N : s[i] = s[j] => i = j
  BY OnceParts
<1>3. Pushes(s, N, f)
  BY <1>1, PushesExist
<1>4. RingFrom(s) = f[N]
  BY DEF RingFrom, Pushes
<1> HIDE DEF f, N
<1>5. f[0] = EmptyRing /\ \A k \in 1..N : f[k] = PushBack(f[k - 1], s[k])
  <2>1. 0 \in 0..N /\ \A k \in 1..N : k \in 0..N /\ k # 0
    BY <1>1
  <2> QED BY <1>3, <2>1 DEF Pushes
<1>6. 0 \in T
  <2>1. EmptyRing \in RingType /\ EmptyRing.len = 0 /\ EmptyRing.next[Root] = Root /\ EmptyRing.prev[Root] = Root
    BY EmptyRingHoldsNothing DEF EmptyRing, Node
  <2>2. At(t(0), 0, 0) = Root /\ At(t(0), 0, 0 + 1) = Root /\ \A i \in 0..0 : i = 0
    BY DEF At
  <2> HIDE DEF t
  <2>3. Represents(EmptyRing, 0, t(0))
    BY <2>1, <2>2 DEF Represents
  <2> QED BY <1>1, <1>5, <2>1, <2>3
<1>7. ASSUME NEW k \in 1..N, k - 1 \in T PROVE k \in T
  <2> DEFINE m == k - 1
             r == f[m]
             e == s[k]
             p == LinkLast(r, e)
  <2>1. m \in Nat /\ m + 1 = k /\ k \in 0..N /\ e \in Elem /\ f[k] = PushBack(r, e)
    BY <1>1, <1>5
  <2>2. r \in RingType /\ r.len = m /\ Represents(r, m, t(m))
    BY <1>7
  <2>3. t(m) \in [1..m -> Elem]
    BY <1>1
  <2>4. e \notin ElemsOf(t(m), m)
    <3> SUFFICES ASSUME NEW i \in 1..m PROVE s[i] # s[k]
      BY DEF ElemsOf
    <3>1. i \in 1..N /\ i # k
      BY <1>1
    <3> QED BY <1>2, <3>1
  <2>5. AppendTo(t(m), m, e) = t(k)
    BY <2>1 DEF AppendTo
  <2> HIDE DEF m, r, e, p, t
  <2>6. p \in RingType /\ p.len = m /\ Represents(p, k, t(k))
    BY <2>1, <2>2, <2>3, <2>4, <2>5, LinkLastAppends DEF p
  <2>7. f[k] = [p EXCEPT !.len = @ + 1]
    BY <2>1 DEF PushBack, p
  <2>8. f[k] \in RingType /\ f[k].len = k /\ f[k].next = p.next /\ f[k].prev = p.prev
    BY <2>1, <2>6, <2>7 DEF RingType
  <2>9. Represents(f[k], k, t(k))
    BY <2>6, <2>8 DEF Represents
  <2> QED BY <2>1, <2>8, <2>9
<1>8. f[N] \in RingType /\ f[N].len = N /\ Represents(f[N], N, t(N))
  <2> HIDE DEF T
  <2>1. \A k \in 0..N : k \in T
    BY <1>1, <1>6, <1>7, UpTo
  <2>2. N \in T
    BY <1>1, <2>1
  <2> QED BY <2>2 DEF T
<1>9. t(N) = s
  BY <1>1 DEF N
<1> QED BY <1>4, <1>8, <1>9 DEF Holds, N

\* What a list is sorted by: the stable order if the weights stand still, none if
\* they move.
OrderFor(s, scale) ==
    {z \in Elem \X Elem :
        scale.changed = {} => \E i, j \in 1..Len(s) : z = <<s[i], s[j]>> /\ Before(s, scale.weight, i, j)}

\* A list and the weights of its elements.
Weighed(s, scale) == Once(s) /\ \A i \in 1..Len(s) : scale.weight[s[i]] \in Int

LEMMA OrderForIs ==
    ASSUME NEW s, NEW scale, Weighed(s, scale), scale.changed = {},
           NEW i \in 1..Len(s), NEW j \in 1..Len(s)
    PROVE  <<s[i], s[j]>> \in OrderFor(s, scale) <=> Before(s, scale.weight, i, j)
<1>1. s[i] \in Elem /\ s[j] \in Elem /\ \A k, l \in 1..Len(s) : s[k] = s[l] => k = l
  BY OnceParts DEF Weighed
<1>2. ASSUME <<s[i], s[j]>> \in OrderFor(s, scale) PROVE Before(s, scale.weight, i, j)
  <2>1. PICK k, l \in 1..Len(s) : <<s[i], s[j]>> = <<s[k], s[l]>> /\ Before(s, scale.weight, k, l)
    BY <1>2 DEF OrderFor
  <2>2. s[i] = s[k] /\ s[j] = s[l]
    BY <2>1
  <2>3. i = k /\ j = l
    BY <1>1, <2>2
  <2> QED BY <2>1, <2>3
<1>3. ASSUME Before(s, scale.weight, i, j) PROVE <<s[i], s[j]>> \in OrderFor(s, scale)
  BY <1>1, <1>3 DEF OrderFor
<1> QED BY <1>2, <1>3

LEMMA OrderForTransitive ==
    ASSUME NEW s, NEW scale, Weighed(s, scale)
    PROVE  Transitive(OrderFor(s, scale))
<1> DEFINE R == OrderFor(s, scale)
           w == scale.weight
<1>1. CASE scale.changed # {}
  BY <1>1 DEF Transitive, OrderFor
<1>2. CASE scale.changed = {}
  <2> SUFFICES ASSUME NEW x \in Elem, NEW y \in Elem, NEW z \in Elem,
                      <<x, y>> \in R, <<y, z>> \in R
               PROVE  <<x, z>> \in R
    BY DEF Transitive
  <2>1. PICK i, j \in 1..Len(s) : <<x, y>> = <<s[i], s[j]>> /\ Before(s, w, i, j)
    BY <1>2 DEF OrderFor
  <2>2. PICK k, l \in 1..Len(s) : <<y, z>> = <<s[k], s[l]>> /\ Before(s, w, k, l)
    BY <1>2 DEF OrderFor
  <2>3. x = s[i] /\ y = s[j] /\ y = s[k] /\ z = s[l]
    BY <2>1, <2>2
  <2>4. j = k
    BY <2>3, OnceParts DEF Weighed
  <2>5. Before(s, w, i, l)
    <3>1. w[s[i]] \in Int /\ w[s[j]] \in Int /\ w[s[l]] \in Int /\ Len(s) \in Nat
      BY OnceParts DEF Weighed
    <3> QED BY <2>1, <2>2, <2>4, <3>1 DEF Before
  <2>6. <<s[i], s[l]>> \in R
    BY <1>2, <2>5, OrderForIs
  <2> QED BY <2>3, <2>6
<1> QED BY <1>1, <1>2

LEMMA OrderForFollows ==
    ASSUME NEW s, NEW scale, Weighed(s, scale)
    PROVE  Follows(scale, OrderFor(s, scale), s)
<1> DEFINE R == OrderFor(s, scale)
<1> SUFFICES ASSUME NEW i \in 1..Len(s), NEW j \in 1..Len(s), i < j, NEW h \in Heap
             PROVE  IF isLess(scale, h, s[j], s[i]) THEN <<s[j], s[i]>> \in R ELSE <<s[i], s[j]>> \in R
  BY DEF Follows, Agrees
<1>1. s[i] \in Elem /\ s[j] \in Elem /\ scale.weight[s[i]] \in Int /\ scale.weight[s[j]] \in Int
  BY OnceParts DEF Weighed
<1>2. CASE scale.changed # {}
  BY <1>1, <1>2 DEF OrderFor
<1>3. CASE scale.changed = {}
  <2>1. isLess(scale, h, s[j], s[i]) <=> scale.weight[s[j]] > scale.weight[s[i]]
    <3>1. h.asked + 1 \notin scale.changed
      BY <1>3
    <3> QED BY <3>1 DEF isLess, Heavier
  <2>2. CASE scale.weight[s[j]] > scale.weight[s[i]]
    <3>1. Before(s, scale.weight, j, i)
      BY <2>2 DEF Before
    <3> QED BY <1>3, <2>1, <2>2, <3>1, OrderForIs
  <2>3. CASE ~(scale.weight[s[j]] > scale.weight[s[i]])
    <3>1. Before(s, scale.weight, i, j)
      BY <1>1, <2>3 DEF Before
    <3> QED BY <1>3, <2>1, <2>3, <3>1, OrderForIs
  <2> QED BY <2>2, <2>3
<1> QED BY <1>2, <1>3

\* The elements before another one are the ones that C has in front of it.
Predecessors(s, weight, i) == {j \in DOMAIN s : Before(s, weight, j, i)}

\* at tells the position in s of each element of C, which has the same elements
\* in the stable order.
Positioned(s, weight, C, at) ==
    /\ Len(C) = Len(s) /\ Len(s) \in Nat
    /\ at \in [1..Len(s) -> 1..Len(s)]
    /\ \A n \in 1..Len(s) : C[n] = s[at[n]]
    /\ \A k, n \in 1..Len(s) : at[k] = at[n] => k = n
    /\ \A i \in 1..Len(s) : \E n \in 1..Len(s) : at[n] = i
    /\ \A k, n \in 1..Len(s) : k < n => Before(s, weight, at[k], at[n])

LEMMA PositionsExist ==
    ASSUME NEW s, NEW scale, Weighed(s, scale), scale.changed = {},
           NEW C, Once(C), Members(C) = Members(s), Len(C) = Len(s), InOrder(OrderFor(s, scale), C)
    PROVE  \E at : Positioned(s, scale.weight, C, at)
<1> DEFINE N == Len(s)
           at == [n \in 1..N |-> CHOOSE i \in 1..N : s[i] = C[n]]
<1>1. /\ N \in Nat /\ \A i, j \in 1..N : s[i] = s[j] => i = j
      /\ \A i, j \in 1..N : C[i] = C[j] => i = j
  BY OnceParts DEF Weighed
<1>2. Members(C) = {C[i] : i \in 1..N} /\ Members(s) = {s[i] : i \in 1..N}
  BY DEF Members
<1>3. ASSUME NEW n \in 1..N PROVE at[n] \in 1..N /\ C[n] = s[at[n]]
  <2>1. C[n] \in {s[i] : i \in 1..N}
    BY <1>2
  <2>2. \E i \in 1..N : s[i] = C[n]
    BY <2>1
  <2> QED BY <2>2
<1>4. at = [n \in 1..N |-> at[n]]
  OBVIOUS
<1> HIDE DEF at, N
<1>5. at \in [1..N -> 1..N]
  BY <1>3, <1>4
<1>6. \A k, n \in 1..N : at[k] = at[n] => k = n
  BY <1>1, <1>3
<1>7. ASSUME NEW i \in 1..N PROVE \E n \in 1..N : at[n] = i
  <2>1. s[i] \in {C[n] : n \in 1..N}
    BY <1>2
  <2>2. PICK n \in 1..N : C[n] = s[i]
    BY <2>1
  <2>3. at[n] \in 1..N /\ s[at[n]] = s[i]
    BY <1>3, <2>2
  <2> QED BY <1>1, <2>3
<1>8. ASSUME NEW k \in 1..N, NEW n \in 1..N, k < n PROVE Before(s, scale.weight, at[k], at[n])
  <2>1. <<C[k], C[n]>> \in OrderFor(s, scale)
    BY <1>8 DEF InOrder, N
  <2>2. at[k] \in 1..N /\ at[n] \in 1..N /\ C[k] = s[at[k]] /\ C[n] = s[at[n]]
    BY <1>3
  <2>3. <<s[at[k]], s[at[n]]>> \in OrderFor(s, scale)
    BY <2>1, <2>2
  <2> QED BY <2>2, <2>3, OrderForIs DEF N
<1> QED BY <1>1, <1>3, <1>5, <1>6, <1>7, <1>8 DEF Positioned, N

\* The n-th element of C has n - 1 predecessors.
LEMMA Preceded ==
    ASSUME NEW s, NEW scale, Weighed(s, scale), s \in Seq(Elem),
           NEW C, NEW at, Positioned(s, scale.weight, C, at), NEW n \in 1..Len(s)
    PROVE  Cardinality(Predecessors(s, scale.weight, at[n])) = n - 1
<1> DEFINE N == Len(s)
           w == scale.weight
           S == Predecessors(s, w, at[n])
           f == [k \in 1..(n - 1) |-> at[k]]
<1>1. /\ N \in Nat /\ at \in [1..N -> 1..N]
      /\ \A k, l \in 1..N : at[k] = at[l] => k = l
      /\ \A i \in 1..N : \E k \in 1..N : at[k] = i
      /\ \A k, l \in 1..N : k < l => Before(s, w, at[k], at[l])
  BY DEF Positioned
<1>2. S = {j \in 1..N : Before(s, w, j, at[n])}
  BY DEF Predecessors
<1>3. \A i \in 1..N : w[s[i]] \in Int
  BY DEF Weighed
<1> HIDE DEF S, w
<1>4. \A k \in 1..(n - 1) : k \in 1..N /\ k < n
  BY <1>1
<1>5. ASSUME NEW j \in S PROVE \E k \in 1..(n - 1) : at[k] = j
  <2>1. j \in 1..N /\ Before(s, w, j, at[n])
    BY <1>2
  <2>2. PICK k \in 1..N : at[k] = j
    BY <1>1, <2>1
  <2>3. at[n] \in 1..N
    BY <1>1
  <2>4. ~Before(s, w, at[n], j)
    <3>1. w[s[j]] \in Int /\ w[s[at[n]]] \in Int
      BY <1>3, <2>1, <2>3
    <3> QED BY <2>1, <2>3, <3>1 DEF Before
  <2>5. k # n
    <3>1. ~Before(s, w, j, j)
      <4>1. w[s[j]] \in Int
        BY <1>3, <2>1
      <4> QED BY <2>1, <4>1 DEF Before
    <3> QED BY <2>1, <2>2, <3>1
  <2>6. ~(n < k)
    BY <1>1, <2>2, <2>4
  <2>7. k \in 1..(n - 1)
    BY <1>1, <2>5, <2>6
  <2> QED BY <2>2, <2>7
<1>6. ASSUME NEW k \in 1..(n - 1) PROVE at[k] \in S
  BY <1>1, <1>2, <1>4
<1>7. f \in [1..(n - 1) -> S]
  BY <1>6
<1>8. \A k, l \in 1..(n - 1) : f[k] = f[l] => k = l
  BY <1>1, <1>4
<1>9. \A j \in S : \E k \in 1..(n - 1) : f[k] = j
  BY <1>5
<1> HIDE DEF f
<1>10. f \in Bijection(1..(n - 1), S)
  BY <1>7, <1>8, <1>9 DEF Bijection, Injection, Surjection, IsInjective
<1>11. n - 1 \in Nat /\ ExistsBijection(1..(n - 1), S)
  BY <1>10 DEF ExistsBijection
<1>12. Cardinality(S) = n - 1
  BY <1>11, FS_CountingElements
<1> QED BY <1>12 DEF S, w

LEMMA RankedIs ==
    ASSUME NEW s, NEW scale, Weighed(s, scale), s \in Seq(Elem),
           NEW C, C \in Seq(Elem), NEW at, Positioned(s, scale.weight, C, at)
    PROVE  Ranked(s, scale.weight) = C
<1> DEFINE N == Len(s)
           w == scale.weight
           P(n) == CHOOSE i \in DOMAIN s : n = 1 + Cardinality(Predecessors(s, w, i))
<1>1. /\ N \in Nat /\ at \in [1..N -> 1..N] /\ Len(C) = N
      /\ \A n \in 1..N : C[n] = s[at[n]]
      /\ \A i \in 1..N : \E n \in 1..N : at[n] = i
  BY DEF Positioned
<1>2. \A n \in 1..N : Cardinality(Predecessors(s, w, at[n])) = n - 1
  BY Preceded
<1>3. DOMAIN s = 1..N
  OBVIOUS
<1>4. Ranked(s, w) = [n \in 1..N |-> s[P(n)]]
  BY <1>3 DEF Ranked, Predecessors
<1>5. ASSUME NEW n \in 1..N PROVE s[P(n)] = C[n]
  <2>1. n = 1 + Cardinality(Predecessors(s, w, at[n])) /\ at[n] \in DOMAIN s
    <3>1. n = 1 + (n - 1)
      BY <1>1
    <3>2. Cardinality(Predecessors(s, w, at[n])) = n - 1
      BY <1>2
    <3>3. at[n] \in DOMAIN s
      BY <1>1, <1>3
    <3> QED BY <3>1, <3>2, <3>3
  <2>2. P(n) \in DOMAIN s /\ n = 1 + Cardinality(Predecessors(s, w, P(n)))
    BY <2>1
  <2> HIDE DEF P
  <2>3. PICK k \in 1..N : at[k] = P(n)
    BY <1>1, <1>3, <2>2
  <2>4. n = 1 + (k - 1)
    BY <1>2, <2>2, <2>3
  <2>5. n = k
    BY <2>4
  <2> QED BY <1>1, <2>3, <2>5
<1> HIDE DEF P
<1>6. C = [n \in 1..N |-> C[n]]
  BY <1>1
<1> QED BY <1>4, <1>5, <1>6

\* However many elements a list has and however their weights move while it is
\* sorted, it is one closed ring of the same elements afterwards; if the weights
\* stand still, it is in their stable order (Sort of doubly_linked.go).
THEOREM ShardsStayListedHolds ==
    ASSUME part = "sort" => input \in Weighing
    PROVE  ShardsStayListed
<1> SUFFICES ASSUME part = "sort" PROVE SortsOrKeeps(input.list, input)
  BY DEF ShardsStayListed
<1> DEFINE s == input.list
           scale == input
           R == OrderFor(s, scale)
           r == Sort(RingFrom(s), scale)
           n == Len(s)
<1>1. s \in Seq(Elem) /\ DOMAIN s = 1..n /\ n \in Nat
  BY DEF Weighing
<1>2. Weighed(s, scale)
  <2>1. /\ \A i, j \in 1..n : s[i] = s[j] => i = j
        /\ \A i \in 1..n : s[i] \in DOMAIN scale.weight
    BY <1>1 DEF Weighing
  <2>2. PICK E : scale.weight \in [E -> Int]
    BY DEF Weighing
  <2>3. \A i \in 1..n : scale.weight[s[i]] \in Int
    BY <2>1, <2>2
  <2> QED BY <1>1, <2>1, <2>3 DEF Weighed, Once
<1>3. Once(s)
  BY <1>2 DEF Weighed
<1> HIDE DEF s, scale, R, r, n
<1>4. PICK C : /\ Represents(r, n, C) /\ r.len = n
               /\ Once(C) /\ Members(C) = Members(s) /\ Len(C) = n /\ InOrder(R, C)
  <2>1. Transitive(R) /\ Follows(scale, R, s)
    BY <1>2, OrderForTransitive, OrderForFollows DEF R
  <2>2. Holds(RingFrom(s), s)
    BY <1>3, RingFromHolds
  <2> QED BY <2>1, <2>2, RingSorted DEF r, n
<1>5. C \in Seq(Elem)
  BY <1>4 DEF Once
<1>6. RingOf(r, {s[i] : i \in DOMAIN s})
  <2>1. C \in [1..n -> Elem]
    BY <1>4, <1>5
  <2>2. {C[i] : i \in 1..n} = {s[i] : i \in DOMAIN s}
    BY <1>1, <1>4 DEF Members, n
  <2> QED BY <1>1, <1>4, <2>1, <2>2 DEF RingOf
<1>7. ASSUME scale.changed = {} PROVE Represents(r, Len(s), Ranked(s, scale.weight))
  <2>1. PICK at : Positioned(s, scale.weight, C, at)
    BY <1>2, <1>4, <1>7, PositionsExist DEF R, n
  <2>2. Ranked(s, scale.weight) = C
    BY <1>1, <1>2, <1>5, <2>1, RankedIs
  <2> QED BY <1>4, <2>2 DEF n
<1>8. SortsOrKeeps(s, scale)
  BY <1>6, <1>7 DEF SortsOrKeeps, r
<1> QED BY <1>8 DEF s, scale
=============================================================================
