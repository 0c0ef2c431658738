----------------------------- MODULE RingProofs -----------------------------
(***************************************************************************)
(* What the pointer writes of pkg/list/doubly_linked.go do to a ring that  *)
(* represents a sequence: each critical section leaves a ring, of the      *)
(* sequence one would expect.                                              *)
(***************************************************************************)
EXTENDS Ring, NaturalsInduction, WellFoundedInduction, TLAPS

\* s with e put in front, s with e put behind, and s without its k-th element.
Prepend(s, n, e)   == [i \in 1..(n + 1) |-> IF i = 1 THEN e ELSE s[i - 1]]
AppendTo(s, n, e)  == [i \in 1..(n + 1) |-> IF i = n + 1 THEN e ELSE s[i]]
DropAt(s, n, k)    == [i \in 1..(n - 1) |-> IF i < k THEN s[i] ELSE s[i + 1]]
ElemsOf(s, n)      == {s[i] : i \in 1..n}

\* The positions of a represented sequence are nodes, all different except
\* that the root is both the first and the last.
LEMMA Positions ==
    ASSUME NEW n \in Nat, NEW s \in [1..n -> Elem],
           \A i, j \in 1..n : s[i] = s[j] => i = j
    PROVE  /\ \A i \in 0..(n + 1) : At(s, n, i) \in Node
           /\ \A i \in 1..n : At(s, n, i) = s[i] /\ s[i] \in Elem /\ s[i] # Root
           /\ At(s, n, 0) = Root
           /\ At(s, n, n + 1) = Root
           /\ \A i, j \in 0..n : At(s, n, i) = At(s, n, j) => i = j
           /\ \A i, j \in 1..(n + 1) : At(s, n, i) = At(s, n, j) => i = j
BY RingAssumption DEF At, Node

\* Linking a new element behind the root prepends it (PushFront, MoveToFront).
LEMMA LinkFirstPrepends ==
    ASSUME NEW r \in RingType, NEW n \in Nat, NEW s \in [1..n -> Elem],
           NEW e \in Elem, e \notin ElemsOf(s, n), Represents(r, n, s)
    PROVE  /\ LinkFirst(r, e) \in RingType
           /\ LinkFirst(r, e).len = r.len
           /\ Prepend(s, n, e) \in [1..(n + 1) -> Elem]
           /\ Represents(LinkFirst(r, e), n + 1, Prepend(s, n, e))
           /\ ElemsOf(Prepend(s, n, e), n + 1) = ElemsOf(s, n) \cup {e}
<1> DEFINE t == Prepend(s, n, e)
           q == LinkFirst(r, e)
           first == At(s, n, 1)
<1>1. \A i, j \in 1..n : s[i] = s[j] => i = j
  BY DEF Represents
<1>2. /\ r.next[Root] = first
      /\ first \in Node
      /\ first # e
      /\ e # Root
  BY <1>1, Positions, RingAssumption DEF Represents, ElemsOf, At
<1>3. /\ q.next = [r.next EXCEPT ![e] = first, ![Root] = e]
      /\ q.prev = [r.prev EXCEPT ![e] = Root, ![first] = e]
      /\ q.len = r.len
      /\ q \in RingType
  BY <1>2 DEF LinkFirst, RingType, Node
<1>4. t \in [1..(n + 1) -> Elem]
  BY DEF Prepend
<1>5. ElemsOf(t, n + 1) = ElemsOf(s, n) \cup {e}
  <2>1. \A i \in 1..(n + 1) : t[i] = e \/ (i - 1 \in 1..n /\ t[i] = s[i - 1])
    BY DEF Prepend
  <2>2. 1 \in 1..(n + 1) /\ t[1] = e
    BY DEF Prepend
  <2>3. \A i \in 1..n : i + 1 \in 1..(n + 1) /\ t[i + 1] = s[i]
    BY DEF Prepend
  <2> HIDE DEF t
  <2> QED BY <2>1, <2>2, <2>3 DEF ElemsOf
<1>6. \A i, j \in 1..(n + 1) : t[i] = t[j] => i = j
  BY <1>1 DEF Prepend, ElemsOf
<1>7. ASSUME NEW i \in 0..(n + 1)
      PROVE  /\ q.next[At(t, n + 1, i)] = At(t, n + 1, i + 1)
             /\ q.prev[At(t, n + 1, i + 1)] = At(t, n + 1, i)
  <2>1. CASE i = 0
    <3>1. At(t, n + 1, 0) = Root /\ At(t, n + 1, 1) = e
      BY DEF At, Prepend
    <3>2. q.next[Root] = e /\ q.prev[e] = Root
      BY <1>2, <1>3 DEF RingType, Node
    <3> QED BY <2>1, <3>1, <3>2
  <2>2. CASE i = 1
    <3>1. At(t, n + 1, 1) = e /\ At(t, n + 1, 2) = first
      BY DEF At, Prepend
    <3>2. q.next[e] = first /\ q.prev[first] = e
      BY <1>2, <1>3 DEF RingType, Node
    <3> QED BY <2>2, <3>1, <3>2
  <2>3. CASE i > 1
    <3>1. /\ At(t, n + 1, i) = At(s, n, i - 1)
          /\ At(t, n + 1, i + 1) = At(s, n, i)
      BY <2>3 DEF At, Prepend
    <3>2. /\ r.next[At(s, n, i - 1)] = At(s, n, i)
          /\ r.prev[At(s, n, i)] = At(s, n, i - 1)
      BY <2>3 DEF Represents
    <3>3. /\ At(s, n, i - 1) \notin {Root, e}
          /\ At(s, n, i) \notin {first, e}
          /\ At(s, n, i - 1) \in Node
          /\ At(s, n, i) \in Node
      <4>1. i - 1 \in 1..n /\ i \in 2..(n + 1)
        BY <2>3
      <4>2. At(s, n, i - 1) = s[i - 1] /\ s[i - 1] # Root /\ s[i - 1] # e
        BY <4>1, <1>1, Positions DEF ElemsOf
      <4>3. At(s, n, i) # first
        BY <4>1, <1>1, Positions
      <4>4. At(s, n, i) # e
        BY <4>1, <1>2 DEF At, ElemsOf
      <4> QED BY <4>1, <4>2, <4>3, <4>4, <1>1, Positions
    <3> QED BY <3>1, <3>2, <3>3, <1>2, <1>3 DEF RingType, Node
  <2> QED BY <2>1, <2>2, <2>3
<1> QED BY <1>3, <1>4, <1>5, <1>6, <1>7 DEF Represents

\* Linking a new element in front of the root appends it (PushBack).
LEMMA LinkLastAppends ==
    ASSUME NEW r \in RingType, NEW n \in Nat, NEW s \in [1..n -> Elem],
           NEW e \in Elem, e \notin ElemsOf(s, n), Represents(r, n, s)
    PROVE  /\ LinkLast(r, e) \in RingType
           /\ LinkLast(r, e).len = r.len
           /\ AppendTo(s, n, e) \in [1..(n + 1) -> Elem]
           /\ Represents(LinkLast(r, e), n + 1, AppendTo(s, n, e))
           /\ ElemsOf(AppendTo(s, n, e), n + 1) = ElemsOf(s, n) \cup {e}
<1> DEFINE t == AppendTo(s, n, e)
           q == LinkLast(r, e)
           last == At(s, n, n)
<1>1. \A i, j \in 1..n : s[i] = s[j] => i = j
  BY DEF Represents
<1>2. /\ r.prev[Root] = last
      /\ last \in Node
      /\ last # e
      /\ e # Root
  BY <1>1, Positions, RingAssumption DEF Represents, ElemsOf, At
<1>3. /\ q.next = [r.next EXCEPT ![e] = Root, ![last] = e]
      /\ q.prev = [r.prev EXCEPT ![e] = last, ![Root] = e]
      /\ q.len = r.len
      /\ q \in RingType
  BY <1>2 DEF LinkLast, RingType, Node
<1>4. t \in [1..(n + 1) -> Elem]
  BY DEF AppendTo
<1>5. ElemsOf(t, n + 1) = ElemsOf(s, n) \cup {e}
  <2>1. \A i \in 1..(n + 1) : t[i] = e \/ (i \in 1..n /\ t[i] = s[i])
    BY DEF AppendTo
  <2>2. n + 1 \in 1..(n + 1) /\ t[n + 1] = e
    BY DEF AppendTo
  <2>3. \A i \in 1..n : i \in 1..(n + 1) /\ t[i] = s[i]
    BY DEF AppendTo
  <2> HIDE DEF t
  <2> QED BY <2>1, <2>2, <2>3 DEF ElemsOf
<1>6. \A i, j \in 1..(n + 1) : t[i] = t[j] => i = j
  BY <1>1 DEF AppendTo, ElemsOf
<1>7. ASSUME NEW i \in 0..(n + 1)
      PROVE  /\ q.next[At(t, n + 1, i)] = At(t, n + 1, i + 1)
             /\ q.prev[At(t, n + 1, i + 1)] = At(t, n + 1, i)
  <2>1. CASE i = n + 1
    <3>1. At(t, n + 1, n + 1) = e /\ At(t, n + 1, n + 2) = Root
      BY DEF At, AppendTo
    <3>2. q.next[e] = Root /\ q.prev[Root] = e
      BY <1>2, <1>3 DEF RingType, Node
    <3> QED BY <2>1, <3>1, <3>2
  <2>2. CASE i = n
    <3>1. At(t, n + 1, n) = last /\ At(t, n + 1, n + 1) = e
      BY DEF At, AppendTo
    <3>2. q.next[last] = e /\ q.prev[e] = last
      BY <1>2, <1>3 DEF RingType, Node
    <3> QED BY <2>2, <3>1, <3>2
  <2>3. CASE i < n
    <3>1. /\ At(t, n + 1, i) = At(s, n, i)
          /\ At(t, n + 1, i + 1) = At(s, n, i + 1)
      BY <2>3 DEF At, AppendTo
    <3>2. /\ r.next[At(s, n, i)] = At(s, n, i + 1)
          /\ r.prev[At(s, n, i + 1)] = At(s, n, i)
      BY <2>3 DEF Represents
    <3>3. /\ At(s, n, i) \notin {last, e}
          /\ At(s, n, i + 1) \notin {Root, e}
          /\ At(s, n, i) \in Node
          /\ At(s, n, i + 1) \in Node
      <4>1. i \in 0..n /\ n \in 0..n /\ i + 1 \in 1..n
        BY <2>3
      <4>2. /\ At(s, n, i + 1) = s[i + 1]
            /\ s[i + 1] # Root
            /\ s[i + 1] # e
        BY <4>1, <1>1, Positions DEF ElemsOf
      <4>3. At(s, n, i) # last
        BY <4>1, <2>3, <1>1, Positions
      <4>4. At(s, n, i) # e
        BY <4>1, <1>2 DEF At, ElemsOf
      <4> QED BY <4>1, <4>2, <4>3, <4>4, <1>1, Positions
    <3> QED BY <3>1, <3>2, <3>3, <1>2, <1>3 DEF RingType, Node
  <2> QED BY <2>1, <2>2, <2>3
<1> QED BY <1>3, <1>4, <1>5, <1>6, <1>7 DEF Represents

\* Unlinking a linked element drops it from the sequence (Remove, MoveToFront).
LEMMA UnlinkDrops ==
    ASSUME NEW r \in RingType, NEW n \in Nat, NEW s \in [1..n -> Elem],
           NEW k \in 1..n, Represents(r, n, s)
    PROVE  /\ Unlink(r, s[k]) \in RingType
           /\ Unlink(r, s[k]).len = r.len
           /\ DropAt(s, n, k) \in [1..(n - 1) -> Elem]
           /\ Represents(Unlink(r, s[k]), n - 1, DropAt(s, n, k))
           /\ ElemsOf(DropAt(s, n, k), n - 1) = ElemsOf(s, n) \ {s[k]}
<1> DEFINE t == DropAt(s, n, k)
           e == s[k]
           q == Unlink(r, e)
           before == At(s, n, k - 1)
           after == At(s, n, k + 1)
<1>1. \A i, j \in 1..n : s[i] = s[j] => i = j
  BY DEF Represents
<1>2. /\ r.prev[e] = before
      /\ r.next[e] = after
      /\ e = At(s, n, k)
      /\ e \in Elem
      /\ e # Root
  <2>1. k - 1 \in 0..n /\ k \in 0..n /\ (k - 1) + 1 = k
    OBVIOUS
  <2>2. e = At(s, n, k) /\ e \in Elem /\ e # Root
    BY <1>1, Positions
  <2> QED BY <2>1, <2>2 DEF Represents
<1>3. /\ before \in Node
      /\ after \in Node
      /\ before # e
      /\ after # e
  <2>1. k - 1 \in 0..n /\ k \in 0..n /\ k \in 1..(n + 1) /\ k + 1 \in 1..(n + 1)
    OBVIOUS
  <2>2. k - 1 # k /\ k + 1 # k
    OBVIOUS
  <2> QED BY <2>1, <2>2, <1>1, <1>2, Positions
<1>4. /\ q.next = [r.next EXCEPT ![before] = after]
      /\ q.prev = [r.prev EXCEPT ![after] = before]
      /\ q.len = r.len
      /\ q \in RingType
  <2>1. [r.next EXCEPT ![before] = after][e] = after
    BY <1>2, <1>3 DEF RingType, Node
  <2> QED BY <1>2, <1>3, <2>1 DEF Unlink, RingType, Node
<1>5. t \in [1..(n - 1) -> Elem]
  BY DEF DropAt
<1>6. ElemsOf(t, n - 1) = ElemsOf(s, n) \ {e}
  <2>1. \A i \in 1..(n - 1) : \E j \in 1..n : t[i] = s[j] /\ j # k
    BY DEF DropAt
  <2>2. \A j \in 1..n : j # k => \E i \in 1..(n - 1) : t[i] = s[j]
    <3>1. \A j \in 1..n : j < k => j \in 1..(n - 1) /\ t[j] = s[j]
      BY DEF DropAt
    <3>2. \A j \in 1..n : j > k => j - 1 \in 1..(n - 1) /\ t[j - 1] = s[j]
      BY DEF DropAt
    <3> QED BY <3>1, <3>2
  <2> HIDE DEF t
  <2>3. \A x \in ElemsOf(t, n - 1) : x \in ElemsOf(s, n) /\ x # s[k]
    BY <2>1, <1>1 DEF ElemsOf
  <2>4. \A x \in ElemsOf(s, n) : x # s[k] => x \in ElemsOf(t, n - 1)
    <3> SUFFICES ASSUME NEW j \in 1..n, s[j] # s[k]
                 PROVE  s[j] \in ElemsOf(t, n - 1)
      BY DEF ElemsOf
    <3> QED BY <2>2 DEF ElemsOf
  <2> QED BY <2>3, <2>4
<1>7. \A i, j \in 1..(n - 1) : t[i] = t[j] => i = j
  BY <1>1 DEF DropAt
<1>8. ASSUME NEW i \in 0..(n - 1)
      PROVE  /\ q.next[At(t, n - 1, i)] = At(t, n - 1, i + 1)
             /\ q.prev[At(t, n - 1, i + 1)] = At(t, n - 1, i)
  <2>1. CASE i = k - 1
    <3>1. At(t, n - 1, i) = before /\ At(t, n - 1, i + 1) = after
      BY <2>1 DEF At, DropAt
    <3> QED BY <3>1, <1>3, <1>4 DEF RingType, Node
  <2>2. CASE i < k - 1
    <3>1. At(t, n - 1, i) = At(s, n, i) /\ At(t, n - 1, i + 1) = At(s, n, i + 1)
      BY <2>2 DEF At, DropAt
    <3>2. /\ At(s, n, i) \in Node /\ At(s, n, i + 1) \in Node
          /\ At(s, n, i) # before
          /\ At(s, n, i + 1) # after
      <4>1. /\ i \in 0..n /\ k - 1 \in 0..n /\ i # k - 1
            /\ i + 1 \in 1..(n + 1) /\ k + 1 \in 1..(n + 1) /\ i + 1 # k + 1
        BY <2>2
      <4> QED BY <4>1, <1>1, Positions
    <3>3. r.next[At(s, n, i)] = At(s, n, i + 1) /\ r.prev[At(s, n, i + 1)] = At(s, n, i)
      BY <2>2 DEF Represents
    <3> QED BY <3>1, <3>2, <3>3, <1>3, <1>4 DEF RingType, Node
  <2>3. CASE i > k - 1
    <3>1. /\ At(t, n - 1, i) = At(s, n, i + 1)
          /\ At(t, n - 1, i + 1) = At(s, n, i + 2)
      BY <2>3 DEF At, DropAt
    <3>2. /\ At(s, n, i + 1) \in Node /\ At(s, n, i + 2) \in Node
          /\ At(s, n, i + 1) # before
          /\ At(s, n, i + 2) # after
      <4>1. /\ i + 1 \in 0..n /\ k - 1 \in 0..n /\ i + 1 # k - 1
            /\ i + 2 \in 1..(n + 1) /\ k + 1 \in 1..(n + 1) /\ i + 2 # k + 1
        BY <2>3
      <4> QED BY <4>1, <1>1, Positions
    <3>3. /\ r.next[At(s, n, i + 1)] = At(s, n, i + 2)
          /\ r.prev[At(s, n, i + 2)] = At(s, n, i + 1)
      <4>1. i + 1 \in 0..n /\ (i + 1) + 1 = i + 2
        OBVIOUS
      <4> QED BY <4>1 DEF Represents
    <3> QED BY <3>1, <3>2, <3>3, <1>3, <1>4 DEF RingType, Node
  <2> QED BY <2>1, <2>2, <2>3
<1>9. \A i \in 0..(n - 1) : /\ q.next[At(t, n - 1, i)] = At(t, n - 1, i + 1)
                            /\ q.prev[At(t, n - 1, i + 1)] = At(t, n - 1, i)
  BY <1>8
<1> HIDE DEF t, q
<1> QED BY <1>4, <1>5, <1>6, <1>7, <1>9 DEF Represents, t, q

-----------------------------------------------------------------------------
(* The methods on a ring that holds a known set of elements. *)

\* A ring whose links represent m elements and whose counter is set to m.
LEMMA Counted ==
    ASSUME NEW p \in RingType, NEW m \in Nat, NEW t \in [1..m -> Elem],
           Represents(p, m, t)
    PROVE  /\ [p EXCEPT !.len = m] \in RingType
           /\ RingOf([p EXCEPT !.len = m], ElemsOf(t, m))
<1> DEFINE q == [p EXCEPT !.len = m]
<1>1. q \in RingType /\ q.len = m /\ q.next = p.next /\ q.prev = p.prev
  BY DEF RingType
<1>2. Represents(q, m, t)
  BY <1>1 DEF Represents
<1> HIDE DEF q
<1>3. RingOf(q, ElemsOf(t, m))
  BY <1>1, <1>2 DEF RingOf, ElemsOf
<1> QED BY <1>1, <1>3 DEF q

\* PushFront and PushBack of an element that is not on the list add it.
LEMMA PushAdds ==
    ASSUME NEW r \in RingType, NEW S, RingOf(r, S), NEW e \in Elem, e \notin S
    PROVE  \A q \in {PushFront(r, e), PushBack(r, e)} :
              q \in RingType /\ RingOf(q, S \cup {e})
<1> DEFINE n == r.len
<1>1. n \in Nat
  BY DEF RingOf
<1>2. PICK s \in [1..n -> Elem] : Represents(r, n, s) /\ ElemsOf(s, n) = S
  BY DEF RingOf, ElemsOf
<1>3. e \notin ElemsOf(s, n)
  BY <1>2
<1>4. PushFront(r, e) \in RingType /\ RingOf(PushFront(r, e), S \cup {e})
  <2> DEFINE p == LinkFirst(r, e)
             t == Prepend(s, n, e)
  <2>1. /\ p \in RingType /\ p.len = n
        /\ t \in [1..(n + 1) -> Elem]
        /\ Represents(p, n + 1, t)
        /\ ElemsOf(t, n + 1) = S \cup {e}
    BY <1>1, <1>2, <1>3, LinkFirstPrepends
  <2>2. PushFront(r, e) = [p EXCEPT !.len = n + 1]
    BY <2>1 DEF PushFront
  <2> HIDE DEF p, t
  <2>3. n + 1 \in Nat
    BY <1>1
  <2>4. /\ [p EXCEPT !.len = n + 1] \in RingType
        /\ RingOf([p EXCEPT !.len = n + 1], ElemsOf(t, n + 1))
    BY <2>1, <2>3, Counted
  <2> QED BY <2>1, <2>2, <2>4
<1>5. PushBack(r, e) \in RingType /\ RingOf(PushBack(r, e), S \cup {e})
  <2> DEFINE p == LinkLast(r, e)
             t == AppendTo(s, n, e)
  <2>1. /\ p \in RingType /\ p.len = n
        /\ t \in [1..(n + 1) -> Elem]
        /\ Represents(p, n + 1, t)
        /\ ElemsOf(t, n + 1) = S \cup {e}
    BY <1>1, <1>2, <1>3, LinkLastAppends
  <2>2. PushBack(r, e) = [p EXCEPT !.len = n + 1]
    BY <2>1 DEF PushBack
  <2> HIDE DEF p, t
  <2>3. n + 1 \in Nat
    BY <1>1
  <2>4. /\ [p EXCEPT !.len = n + 1] \in RingType
        /\ RingOf([p EXCEPT !.len = n + 1], ElemsOf(t, n + 1))
    BY <2>1, <2>3, Counted
  <2> QED BY <2>1, <2>2, <2>4
<1> QED BY <1>4, <1>5

\* Remove of an element of the list takes away that element and no other.
LEMMA RemoveTakes ==
    ASSUME NEW r \in RingType, NEW S, RingOf(r, S), NEW e \in S
    PROVE  RemoveElem(r, e) \in RingType /\ RingOf(RemoveElem(r, e), S \ {e})
<1> DEFINE n == r.len
<1>1. n \in Nat
  BY DEF RingOf
<1>2. PICK s \in [1..n -> Elem] : Represents(r, n, s) /\ ElemsOf(s, n) = S
  BY DEF RingOf, ElemsOf
<1>3. PICK k \in 1..n : s[k] = e
  BY <1>2 DEF ElemsOf
<1> DEFINE p == Unlink(r, e)
           t == DropAt(s, n, k)
<1>4. /\ p \in RingType /\ p.len = n
      /\ t \in [1..(n - 1) -> Elem]
      /\ Represents(p, n - 1, t)
      /\ ElemsOf(t, n - 1) = S \ {e}
  BY <1>1, <1>2, <1>3, UnlinkDrops
<1>5. n - 1 \in Nat
  BY <1>1, <1>3
<1>6. RemoveElem(r, e) = [p EXCEPT !.len = n - 1]
  BY <1>4 DEF RemoveElem
<1> HIDE DEF p, t
<1>7. /\ [p EXCEPT !.len = n - 1] \in RingType
      /\ RingOf([p EXCEPT !.len = n - 1], ElemsOf(t, n - 1))
  BY <1>4, <1>5, Counted
<1> QED BY <1>4, <1>6, <1>7

\* MoveToFront of an element of the list keeps the set of elements.
LEMMA MoveKeeps ==
    ASSUME NEW r \in RingType, NEW S, RingOf(r, S), NEW e \in S
    PROVE  MoveToFront(r, e) \in RingType /\ RingOf(MoveToFront(r, e), S)
<1> DEFINE n == r.len
<1>1. n \in Nat
  BY DEF RingOf
<1>2. PICK s \in [1..n -> Elem] : Represents(r, n, s) /\ ElemsOf(s, n) = S
  BY DEF RingOf, ElemsOf
<1>3. PICK k \in 1..n : s[k] = e
  BY <1>2 DEF ElemsOf
<1> DEFINE p == Unlink(r, e)
           t == DropAt(s, n, k)
           q == LinkFirst(p, e)
           u == Prepend(t, n - 1, e)
<1>4. /\ p \in RingType /\ p.len = n
      /\ n - 1 \in Nat
      /\ t \in [1..(n - 1) -> Elem]
      /\ Represents(p, n - 1, t)
      /\ ElemsOf(t, n - 1) = S \ {e}
      /\ e \in Elem
  BY <1>1, <1>2, <1>3, UnlinkDrops
<1> HIDE DEF p, t
<1>5. /\ q \in RingType /\ q.len = n
      /\ u \in [1..((n - 1) + 1) -> Elem]
      /\ Represents(q, (n - 1) + 1, u)
      /\ ElemsOf(u, (n - 1) + 1) = (S \ {e}) \cup {e}
  BY <1>4, LinkFirstPrepends
<1>6. (n - 1) + 1 = n /\ (S \ {e}) \cup {e} = S
  BY <1>1
<1> HIDE DEF q, u
<1>7. q \in RingType /\ RingOf(q, S)
  BY <1>1, <1>5, <1>6 DEF RingOf, ElemsOf
<1> QED BY <1>7 DEF MoveToFront, p, q

\* New: the ring of no elements.
LEMMA EmptyRingHoldsNothing == EmptyRing \in RingType /\ RingOf(EmptyRing, {})
<1>1. EmptyRing \in RingType
  BY DEF EmptyRing, RingType, Node
<1> DEFINE s == [i \in 1..0 |-> Nil]
<1>2. s \in [1..0 -> Elem] /\ {s[i] : i \in 1..0} = {}
  OBVIOUS
<1>3. Represents(EmptyRing, 0, s)
  BY DEF EmptyRing, Represents, At, Node
<1>4. EmptyRing.len = 0
  BY DEF EmptyRing
<1> HIDE DEF s
<1>5. \E t \in [1..EmptyRing.len -> Elem] :
         /\ Represents(EmptyRing, EmptyRing.len, t)
         /\ {t[i] : i \in 1..EmptyRing.len} = {}
  BY <1>2, <1>3, <1>4
<1>6. EmptyRing.len \in Nat
  BY <1>4
<1>7. RingOf(EmptyRing, {})
  BY <1>5, <1>6, Zenon DEF RingOf
<1> QED BY <1>1, <1>7
-----------------------------------------------------------------------------
(* Next(offset), which follows the pointers one by one. *)

\* A set of naturals has a least element.
LEMMA LeastNat ==
    ASSUME NEW U \in SUBSET Nat, U # {}
    PROVE  \E k \in U : \A m \in U : k <= m
<1> DEFINE R == OpToRel(<, Nat)
<1>1. IsWellFoundedOn(R, Nat)
  BY NatLessThanWellFounded
<1>2. PICK k \in U : \A m \in U : ~(<<m, k>> \in R)
  <2> HIDE DEF R
  <2> QED BY <1>1, WFMin
<1>3. \A m, n \in Nat : m < n => <<m, n>> \in R
  BY DEF OpToRel
<1> HIDE DEF R
<1>4. ASSUME NEW m \in U PROVE k <= m
  <2>1. m \in Nat /\ k \in Nat
    OBVIOUS
  <2>2. ~(m < k)
    BY <1>2, <1>3, <2>1
  <2> QED BY <2>1, <2>2
<1> QED BY <1>4

\* Induction over the natural numbers, for a set instead of a predicate.
LEMMA NatSubset ==
    ASSUME NEW T \in SUBSET Nat, 0 \in T, \A n \in T : n + 1 \in T
    PROVE  T = Nat
<1> SUFFICES ASSUME Nat \ T # {} PROVE FALSE
  OBVIOUS
<1>1. PICK k \in Nat \ T : \A m \in Nat \ T : k <= m
  BY LeastNat
<1>2. k \in Nat /\ k # 0 /\ k \notin T
  OBVIOUS
<1>3. k - 1 \in Nat /\ k - 1 < k /\ (k - 1) + 1 = k
  BY <1>2
<1>4. k - 1 \in T
  BY <1>1, <1>3
<1> QED BY <1>2, <1>3, <1>4

\* t is the walk that Next makes over the first nodes.
IsWalk(r, n, t) ==
    t = [i \in 0..n |-> IF i = 0 THEN r.next[Root] ELSE r.next[t[i - 1]]]

\* The recursion of Next describes one walk.
LEMMA OneWalk ==
    ASSUME NEW r, NEW n \in Nat, NEW t, NEW u, IsWalk(r, n, t), IsWalk(r, n, u)
    PROVE  t = u
<1> DEFINE T == {i \in Nat : i \in 0..n => t[i] = u[i]}
<1>1. 0 \in T
  BY DEF IsWalk
<1>2. ASSUME NEW i \in T PROVE i + 1 \in T
  <2> SUFFICES ASSUME i + 1 \in 0..n PROVE t[i + 1] = u[i + 1]
    OBVIOUS
  <2>1. i \in 0..n /\ i + 1 # 0 /\ (i + 1) - 1 = i
    OBVIOUS
  <2>2. t[i + 1] = r.next[t[i]] /\ u[i + 1] = r.next[u[i]]
    BY <2>1 DEF IsWalk
  <2> QED BY <2>1, <2>2
<1>3. T = Nat
  <2> HIDE DEF T
  <2>1. T \in SUBSET Nat
    BY DEF T
  <2> QED BY <1>1, <1>2, <2>1, NatSubset
<1>4. \A i \in 0..n : t[i] = u[i]
  BY <1>3
<1>5. t = [i \in 0..n |-> t[i]] /\ u = [i \in 0..n |-> u[i]]
  BY DEF IsWalk
<1> QED BY <1>4, <1>5

\* Next(offset) is where a walk of that length ends, if there is one.
LEMMA NextAtEnds ==
    ASSUME NEW r, NEW offset \in Nat, NEW t, IsWalk(r, offset, t), r.len \in Int
    PROVE  NextAt(r, offset) = IF offset < r.len THEN t[offset] ELSE Nil
<1> DEFINE hop == CHOOSE h : IsWalk(r, offset, h)
<1>1. IsWalk(r, offset, hop)
  OBVIOUS
<1>2. hop = t
  <2> HIDE DEF hop
  <2> QED BY <1>1, OneWalk
<1>3. NextAt(r, offset) = IF offset < 0 \/ offset >= r.len THEN Nil ELSE hop[offset]
  BY DEF NextAt, IsWalk
<1> HIDE DEF hop
<1> QED BY <1>2, <1>3

\* Nodes that point at each other are never left: Next follows no nil.
LEMMA WalksStay ==
    ASSUME NEW r, NEW L, r.next[Root] \in L, \A x \in L : r.next[x] \in L, NEW n \in Nat
    PROVE  \E t \in [0..n -> L] : IsWalk(r, n, t)
<1> DEFINE T == {i \in Nat : \E t \in [0..i -> L] : IsWalk(r, i, t)}
<1>1. 0 \in T
  <2> DEFINE t == [i \in 0..0 |-> r.next[Root]]
  <2>1. t \in [0..0 -> L] /\ IsWalk(r, 0, t)
    BY DEF IsWalk
  <2> QED BY <2>1
<1>2. ASSUME NEW i \in T PROVE i + 1 \in T
  <2>1. PICK t \in [0..i -> L] : IsWalk(r, i, t)
    OBVIOUS
  <2> DEFINE u == [j \in 0..(i + 1) |-> IF j = i + 1 THEN r.next[t[i]] ELSE t[j]]
  <2>2. u \in [0..(i + 1) -> L]
    OBVIOUS
  <2>3. ASSUME NEW j \in 0..(i + 1)
        PROVE  u[j] = IF j = 0 THEN r.next[Root] ELSE r.next[u[j - 1]]
    <3>1. CASE j = i + 1
      BY <3>1
    <3>2. CASE j # i + 1
      BY <2>1, <3>2 DEF IsWalk
    <3> QED BY <3>1, <3>2
  <2>4. IsWalk(r, i + 1, u)
    <3> HIDE DEF u
    <3> QED BY <2>2, <2>3 DEF IsWalk
  <2> QED BY <2>2, <2>4
<1>3. T = Nat
  <2> HIDE DEF T
  <2>1. T \in SUBSET Nat
    BY DEF T
  <2> QED BY <1>1, <1>2, <2>1, NatSubset
<1> QED BY <1>3

LEMMA NextAtStays ==
    ASSUME NEW r, NEW L, r.next[Root] \in L, \A x \in L : r.next[x] \in L,
           NEW offset \in Nat, r.len \in Int
    PROVE  NextAt(r, offset) \in L \cup {Nil}
BY WalksStay, NextAtEnds

\* On a ring it is the element at that position.
LEMMA NextAtIsPosition ==
    ASSUME NEW r, NEW s \in [1..r.len -> Elem], Represents(r, r.len, s), r.len \in Nat,
           NEW i \in 0..(r.len - 1)
    PROVE  NextAt(r, i) = s[i + 1]
<1> DEFINE t == [j \in 0..i |-> s[j + 1]]
<1>1. ASSUME NEW j \in 0..i
      PROVE  t[j] = IF j = 0 THEN r.next[Root] ELSE r.next[t[j - 1]]
  <2>1. j \in 0..r.len /\ At(s, r.len, j + 1) = s[j + 1]
    BY DEF At
  <2>2. r.next[At(s, r.len, j)] = At(s, r.len, j + 1)
    BY <2>1 DEF Represents
  <2>3. CASE j = 0
    BY <2>1, <2>2, <2>3 DEF At
  <2>4. CASE j # 0
    <3>1. At(s, r.len, j) = s[j] /\ t[j - 1] = s[j]
      BY <2>4 DEF At
    <3> QED BY <2>1, <2>2, <2>4, <3>1
  <2> QED BY <2>3, <2>4
<1>2. IsWalk(r, i, t)
  <2>1. t = [j \in 0..i |-> t[j]]
    OBVIOUS
  <2> HIDE DEF t
  <2> QED BY <1>1, <2>1 DEF IsWalk
<1>3. t[i] = s[i + 1] /\ i < r.len
  OBVIOUS
<1> HIDE DEF t
<1> QED BY <1>2, <1>3, NextAtEnds

\* The elements that Next finds at the offsets below the length.
Walk(r) == {NextAt(r, i) : i \in 0..(r.len - 1)}

\* On a ring they are its elements, and Back is one of them.
LEMMA RingWalk ==
    ASSUME NEW r, NEW S, RingOf(r, S)
    PROVE  /\ Walk(r) = S /\ S \subseteq Elem
           /\ Back(r) \in Elem \cup {Nil}
           /\ \A i \in Nat : NextAt(r, i) \in S \cup {Nil}
<1>1. r.len \in Nat
  BY DEF RingOf
<1>2. PICK s \in [1..r.len -> Elem] : Represents(r, r.len, s) /\ {s[i] : i \in 1..r.len} = S
  BY DEF RingOf
<1>3. \A i \in 0..(r.len - 1) : NextAt(r, i) = s[i + 1]
  BY <1>1, <1>2, NextAtIsPosition
<1>4. S = Walk(r)
  <2>1. ASSUME NEW e \in S PROVE e \in Walk(r)
    <3>1. PICK i \in 1..r.len : s[i] = e
      BY <1>2
    <3>2. i - 1 \in 0..(r.len - 1) /\ NextAt(r, i - 1) = e
      BY <1>1, <1>3, <3>1
    <3> QED BY <3>2 DEF Walk
  <2>2. ASSUME NEW e \in Walk(r) PROVE e \in S
    <3>1. PICK i \in 0..(r.len - 1) : e = NextAt(r, i)
      BY DEF Walk
    <3>2. i + 1 \in 1..r.len /\ e = s[i + 1]
      BY <1>1, <1>3, <3>1
    <3> QED BY <1>2, <3>2
  <2> QED BY <2>1, <2>2
<1>5. Back(r) \in Elem \cup {Nil}
  <2>1. CASE r.len = 0
    BY <2>1 DEF Back
  <2>2. CASE r.len # 0
    <3>1. r.len \in 0..r.len /\ r.len \in 1..r.len /\ r.len + 1 # r.len
      BY <1>1, <2>2
    <3>2. r.prev[At(s, r.len, r.len + 1)] = At(s, r.len, r.len)
      BY <1>2, <3>1 DEF Represents
    <3>3. At(s, r.len, r.len + 1) = Root /\ At(s, r.len, r.len) = s[r.len]
      BY <3>1 DEF At
    <3> QED BY <1>2, <2>2, <3>1, <3>2, <3>3 DEF Back
  <2> QED BY <2>1, <2>2
<1>6. ASSUME NEW i \in Nat PROVE NextAt(r, i) \in S \cup {Nil}
  <2>1. CASE i < r.len
    BY <1>1, <1>4, <2>1 DEF Walk
  <2>2. CASE ~(i < r.len)
    BY <1>1, <2>2 DEF NextAt
  <2> QED BY <2>1, <2>2
<1> QED BY <1>2, <1>4, <1>5, <1>6

-----------------------------------------------------------------------------
(* What holds of a list whatever is done to it: the methods called in any  *)
(* order on any elements may lose elements or close a shorter circle, but  *)
(* the pointers of a node that was ever linked lead to such nodes.         *)

Linked(r) == {n \in Node : r.next[n] # Nil}

Closed(r) ==
    /\ r \in RingType
    /\ Root \in Linked(r)
    /\ \A n \in Node : r.prev[n] # Nil <=> n \in Linked(r)
    /\ \A n \in Linked(r) : r.next[n] \in Linked(r) /\ r.prev[n] \in Linked(r)

LEMMA EmptyCloses == Closed(EmptyRing) /\ Linked(EmptyRing) = {Root}
<1>1. /\ EmptyRing.next = [n \in Node |-> IF n = Root THEN Root ELSE Nil]
      /\ EmptyRing.prev = [n \in Node |-> IF n = Root THEN Root ELSE Nil]
  BY DEF EmptyRing
<1>2. Linked(EmptyRing) = {Root}
  BY <1>1, RingAssumption DEF Linked, Node
<1>3. /\ \A n \in Node : EmptyRing.prev[n] # Nil <=> n = Root
      /\ EmptyRing.next[Root] = Root /\ EmptyRing.prev[Root] = Root
  BY <1>1, RingAssumption DEF Node
<1> QED BY <1>2, <1>3, EmptyRingHoldsNothing DEF Closed

LEMMA LinkFirstCloses ==
    ASSUME NEW r, Closed(r), NEW e \in Elem
    PROVE  /\ Closed(LinkFirst(r, e))
           /\ Linked(LinkFirst(r, e)) = Linked(r) \cup {e}
<1> DEFINE q == LinkFirst(r, e)
           first == r.next[Root]
<1>1. /\ first \in Linked(r) /\ e \in Node /\ Root \in Linked(r)
      /\ r.next \in [Node -> Node \cup {Nil}] /\ r.prev \in [Node -> Node \cup {Nil}]
      /\ r.len \in Int
  BY DEF Closed, RingType, Node
<1>2. Linked(r) \subseteq Node /\ Nil \notin Node /\ Root \in Node
  BY RingAssumption DEF Linked, Node
<1>3. /\ q.next = [r.next EXCEPT ![e] = first, ![Root] = e]
      /\ q.prev = [r.prev EXCEPT ![e] = Root, ![first] = e]
      /\ q \in RingType
  <2>1. r \in RingType /\ first \in Node /\ e \in Node /\ Root \in Node
    BY <1>1, <1>2 DEF Closed
  <2> QED BY <2>1 DEF LinkFirst, RingType
<1> HIDE DEF q, first
<1>5. Linked(q) = Linked(r) \cup {e}
  BY <1>1, <1>2, <1>3 DEF Linked
<1>6. \A n \in Node : q.prev[n] # Nil <=> n \in Linked(r) \cup {e}
  BY <1>1, <1>2, <1>3 DEF Closed
<1>7. \A n \in Linked(r) \cup {e} :
          q.next[n] \in Linked(r) \cup {e} /\ q.prev[n] \in Linked(r) \cup {e}
  BY <1>1, <1>2, <1>3 DEF Closed
<1>8. Closed(q)
  BY <1>1, <1>3, <1>5, <1>6, <1>7 DEF Closed
<1> QED BY <1>5, <1>8 DEF q

LEMMA UnlinkCloses ==
    ASSUME NEW r, Closed(r), NEW e \in Elem \cap Linked(r)
    PROVE  Closed(Unlink(r, e)) /\ Linked(Unlink(r, e)) = Linked(r)
<1> DEFINE q == Unlink(r, e)
           b == r.prev[e]
           a == r.next[e]
<1>1. /\ a \in Linked(r) /\ b \in Linked(r)
      /\ r.next \in [Node -> Node \cup {Nil}] /\ r.prev \in [Node -> Node \cup {Nil}]
      /\ r.len \in Int
  BY DEF Closed, RingType
<1>2. Linked(r) \subseteq Node /\ Nil \notin Node
  BY RingAssumption DEF Linked, Node
<1>3. /\ q.next = [r.next EXCEPT ![b] = a]
      /\ q.prev = [r.prev EXCEPT ![q.next[e]] = b]
      /\ q \in RingType
  <2>1. r \in RingType /\ a \in Node /\ b \in Node /\ e \in Node
    BY <1>1, <1>2 DEF Closed
  <2> HIDE DEF q
  <2> DEFINE next == [r.next EXCEPT ![b] = a]
  <2>2. next \in [Node -> Node \cup {Nil}] /\ next[e] \in Node \cup {Nil}
    BY <1>1, <2>1
  <2>3. q = [r EXCEPT !.next = next, !.prev = [r.prev EXCEPT ![next[e]] = b]]
    BY DEF q, Unlink
  <2> HIDE DEF next, a, b
  <2>4. /\ q.next = next
        /\ q.prev = [r.prev EXCEPT ![next[e]] = b]
        /\ q \in RingType
    BY <2>1, <2>2, <2>3 DEF RingType
  <2> QED BY <2>4 DEF next
<1> HIDE DEF q, a, b
<1>4. q.next[e] \in Linked(r)
  BY <1>1, <1>2, <1>3 DEF Closed
<1>6. Linked(q) = Linked(r)
  BY <1>1, <1>2, <1>3 DEF Linked
<1>7. \A n \in Node : q.prev[n] # Nil <=> n \in Linked(r)
  BY <1>1, <1>2, <1>3, <1>4 DEF Closed
<1>8. \A n \in Linked(r) : q.next[n] \in Linked(r) /\ q.prev[n] \in Linked(r)
  BY <1>1, <1>2, <1>3, <1>4 DEF Closed
<1>9. Closed(q)
  BY <1>3, <1>6, <1>7, <1>8 DEF Closed
<1> QED BY <1>6, <1>9 DEF q

\* The length counter is no part of it.
LEMMA CountCloses ==
    ASSUME NEW r, Closed(r), NEW m \in Int
    PROVE  Closed([r EXCEPT !.len = m]) /\ Linked([r EXCEPT !.len = m]) = Linked(r)
BY DEF Closed, Linked, RingType

\* The three methods that Storage calls.
LEMMA MethodsClose ==
    ASSUME NEW r, Closed(r), NEW e \in Elem
    PROVE  /\ Closed(PushFront(r, e)) /\ Linked(PushFront(r, e)) = Linked(r) \cup {e}
           /\ e \in Linked(r) => /\ Closed(RemoveElem(r, e))
                                 /\ Linked(RemoveElem(r, e)) = Linked(r)
                                 /\ Closed(MoveToFront(r, e))
                                 /\ Linked(MoveToFront(r, e)) = Linked(r)
<1>1. Closed(PushFront(r, e)) /\ Linked(PushFront(r, e)) = Linked(r) \cup {e}
  <2> DEFINE q == LinkFirst(r, e)
  <2>1. Closed(q) /\ Linked(q) = Linked(r) \cup {e}
    BY LinkFirstCloses
  <2>2. PushFront(r, e) = [q EXCEPT !.len = q.len + 1]
    BY DEF PushFront
  <2> HIDE DEF q
  <2>3. q.len + 1 \in Int
    BY <2>1 DEF Closed, RingType
  <2> QED BY <2>1, <2>2, <2>3, CountCloses
<1>2. ASSUME e \in Linked(r)
      PROVE  /\ Closed(RemoveElem(r, e)) /\ Linked(RemoveElem(r, e)) = Linked(r)
             /\ Closed(MoveToFront(r, e)) /\ Linked(MoveToFront(r, e)) = Linked(r)
  <2> DEFINE q == Unlink(r, e)
  <2>1. Closed(q) /\ Linked(q) = Linked(r)
    BY <1>2, UnlinkCloses
  <2>2. RemoveElem(r, e) = [q EXCEPT !.len = q.len - 1] /\ MoveToFront(r, e) = LinkFirst(q, e)
    BY DEF RemoveElem, MoveToFront
  <2> HIDE DEF q
  <2>3. q.len - 1 \in Int
    BY <2>1 DEF Closed, RingType
  <2>4. Linked(q) \cup {e} = Linked(q)
    BY <1>2, <2>1
  <2>5. Closed([q EXCEPT !.len = q.len - 1]) /\ Linked([q EXCEPT !.len = q.len - 1]) = Linked(q)
    BY <2>1, <2>3, CountCloses
  <2>6. Closed(LinkFirst(q, e)) /\ Linked(LinkFirst(q, e)) = Linked(q) \cup {e}
    BY <2>1, LinkFirstCloses
  <2> QED BY <2>1, <2>2, <2>4, <2>5, <2>6
<1> QED BY <1>1, <1>2

\* Next(offset) is the root, a linked element or nil.
LEMMA NextAtLinked ==
    ASSUME NEW r, Closed(r), NEW offset \in Nat
    PROVE  NextAt(r, offset) \in Linked(r) \cup {Nil}
BY NextAtStays DEF Closed, RingType

\* The elements of a ring are linked.
LEMMA RingLinked ==
    ASSUME NEW r, NEW S, RingOf(r, S), Closed(r)
    PROVE  S \subseteq Linked(r)
<1>1. ASSUME NEW e \in S PROVE e \in Linked(r)
  <2>1. PICK i \in 0..(r.len - 1) : e = NextAt(r, i)
    BY <1>1, RingWalk DEF Walk
  <2>2. i \in Nat /\ e \in Elem
    BY RingWalk DEF RingOf
  <2> QED BY <2>1, <2>2, NextAtLinked, RingAssumption
<1> QED BY <1>1
=============================================================================
