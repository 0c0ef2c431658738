---------------------------- MODULE DoublyLinked ----------------------------
(***************************************************************************)
(* The list of pkg/list/doubly_linked.go shared by goroutines that use it  *)
(* the way its own test does: a goroutine moves and removes only elements  *)
(* it pushed itself and forgets an element it removes.  The bodies of the  *)
(* methods run under List.mu and are one step each; the checks in front of *)
(* the lock (`e.list != l', `Len() < 2') are separate, earlier steps, so   *)
(* other goroutines run between a check and the body it guards.            *)
(***************************************************************************)
EXTENDS Ring

CONSTANT Goroutine

VARIABLES ring,  \* the list
          held,  \* held[g]: the elements g pushed and may still use
          pc,    \* pc[g]: where g is in a call
          arg    \* arg[g]: the element the call is about

vars == <<ring, held, pc, arg>>

TypeOK == /\ ring \in RingType
          /\ ring.len \in Nat
          /\ held \in [Goroutine -> SUBSET Elem]
          /\ pc \in [Goroutine -> {"idle", "move", "remove"}]
          /\ arg \in [Goroutine -> Elem \cup {Nil}]

Init == /\ ring = EmptyRing
        /\ held = [g \in Goroutine |-> {}]
        /\ pc = [g \in Goroutine |-> "idle"]
        /\ arg = [g \in Goroutine |-> Nil]

\* newElement: an element no one has used; its pointers are still nil.
Fresh(e) == ring.prev[e] = Nil

Call(g, label, e) == /\ pc' = [pc EXCEPT ![g] = label]
                     /\ arg' = [arg EXCEPT ![g] = e]

Return(g, label) == /\ pc[g] = label
                    /\ pc' = [pc EXCEPT ![g] = "idle"]
                    /\ arg' = [arg EXCEPT ![g] = Nil]

-----------------------------------------------------------------------------
Push(g, e) ==
    /\ pc[g] = "idle"
    /\ Fresh(e)
    /\ ring' \in {PushFront(ring, e), PushBack(ring, e)}
    /\ held' = [held EXCEPT ![g] = @ \cup {e}]
    /\ UNCHANGED <<pc, arg>>

\* MoveToFront up to the lock: a list of fewer than two elements is left alone.
MoveCheck(g, e) ==
    /\ pc[g] = "idle"
    /\ e \in held[g]
    /\ ring.len >= 2
    /\ Call(g, "move", e)
    /\ UNCHANGED <<ring, held>>

Move(g) ==
    /\ Return(g, "move")
    /\ ring' = MoveToFront(ring, arg[g])
    /\ UNCHANGED held

\* Remove up to the lock; the test drops the element from its own slice.
RemoveCheck(g, e) ==
    /\ pc[g] = "idle"
    /\ e \in held[g]
    /\ held' = [held EXCEPT ![g] = @ \ {e}]
    /\ Call(g, "remove", e)
    /\ UNCHANGED ring

Remove(g) ==
    /\ Return(g, "remove")
    /\ ring' = RemoveElem(ring, arg[g])
    /\ UNCHANGED held

Next == \E g \in Goroutine :
           \/ Move(g)
           \/ Remove(g)
           \/ \E e \in Elem : Push(g, e) \/ MoveCheck(g, e) \/ RemoveCheck(g, e)

Spec == Init /\ [][Next]_vars

-----------------------------------------------------------------------------
\* The elements that must be on the list: pushed, and no Remove body run yet.
Owned(g) == held[g] \cup (IF pc[g] = "remove" THEN {arg[g]} ELSE {})
Listed == UNION {Owned(g) : g \in Goroutine}

\* The list is one closed ring through the root, in both directions, whose
\* size is the Len() counter, and it holds exactly the elements that were
\* pushed and not removed: the concurrent use of the methods neither drops
\* an element of another goroutine nor keeps a removed one
\* (doubly_linked_test.go checks the count once, after all goroutines end).
RingIntegrity == RingOf(ring, Listed)

\* The list as the sequence that Next(0), Next(1), ... enumerates.
order == [i \in 1..ring.len |-> NextAt(ring, i - 1)]

Order == INSTANCE ListOrder

\* The pointer manipulation implements the sequence of ListOrder: each locked
\* body takes effect at once, in the order other goroutines observe.
OrderSpec == Order!Spec
=============================================================================
