------------------------------ MODULE ListOrder ------------------------------
(***************************************************************************)
(* What the list of pkg/list promises its callers: a sequence of distinct  *)
(* elements that grows at either end, from which an element can be taken   *)
(* and in which an element can be raised to the front, each in one step.   *)
(***************************************************************************)
EXTENDS Sequences, Naturals

CONSTANT Elem

VARIABLE order

Members == {order[i] : i \in DOMAIN order}

Without(i) == SubSeq(order, 1, i - 1) \o SubSeq(order, i + 1, Len(order))

Init == order = <<>>

PushFront(e) == e \notin Members /\ order' = <<e>> \o order
PushBack(e)  == e \notin Members /\ order' = Append(order, e)
Remove(i)    == order' = Without(i)
Raise(i)     == order' = <<order[i]>> \o Without(i)

Next == \/ \E e \in Elem : PushFront(e) \/ PushBack(e)
        \/ \E i \in DOMAIN order : Remove(i) \/ Raise(i)

Spec == Init /\ [][Next]_order
=============================================================================
