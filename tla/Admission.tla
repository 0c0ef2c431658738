------------------------------- MODULE Admission -------------------------------
(***************************************************************************)
(* TinyLFU: two count-min sketches and a door keeper, as Set of the        *)
(* storage uses them, and the rotation once a minute.  A step is the load  *)
(* of one pointer with what is read or added through it; the adds to the   *)
(* rows of a sketch commute, and so do the bits of a door keeper.          *)
(***************************************************************************)
EXTENDS Integers, Sequences, FiniteSetsExt

CONSTANTS
    Setter,        \* goroutines that call Set
    Object,        \* keys
    Row,           \* 1..sketchDepth
    Bucket,        \* columns of a sketch
    Hash,          \* the hash functions that seeds may give
    MaxRotations,  \* bound
    MaxCount       \* bound: calls of Set between two rotations

ASSUME AdmissionAssumption ==
    /\ Hash \subseteq [Object -> Bucket] /\ Hash # {}
    /\ Row # {}
    /\ MaxRotations \in Nat /\ MaxCount \in Nat

VARIABLES
    sketch,   \* the sketches, the newest last; count is history
    curr,     \* TinyLFU.curr: which sketch
    prev,     \* TinyLFU.prev
    door,     \* TinyLFU.door: the door keepers, the newest last
    rotator,  \* what Rotate does next
    setter    \* setter[s]: what s does

admissionVars == <<sketch, curr, prev, door, rotator, setter>>

NewSketch(h) ==
    [hash |-> h, cell |-> [r \in Row |-> [b \in Bucket |-> 0]],
     count |-> [k \in Object |-> 0]]

\* Two seeds give a key its two bits.
NewDoor(h) == [hash |-> h, bits |-> {}]

AdmissionTypeOK ==
    /\ sketch \in Seq([hash : [Row -> Hash], cell : [Row -> [Bucket -> Nat]],
                       count : [Object -> Nat]])
    /\ door \in Seq([hash : Hash \X Hash, bits : SUBSET Bucket])
    /\ {curr, prev} \subseteq DOMAIN sketch /\ door # <<>>
    /\ rotator \in {"wait", "prev", "door"}
    /\ setter \in [Setter ->
         [pc : {"idle"}] \cup
         [pc : {"count", "load", "allow", "admit", "ask"},
          key : Object, door : Nat, rotated : BOOLEAN]]

Rest == [pc |-> "idle"]

AdmissionInit ==
    /\ \E h \in [Row -> Hash] : sketch = <<NewSketch(h), NewSketch(h)>>
    /\ \E h \in Hash \X Hash : door = <<NewDoor(h)>>
    /\ curr = 2 /\ prev = 1
    /\ rotator = "wait"
    /\ setter = [s \in Setter |-> Rest]

Does(s, r) == setter' = [setter EXCEPT ![s] = r]
Doing(s, pc) == setter[s].pc = pc

\* Mutation: the first row is enough.
AddedToOneRow(sk, k) ==
    [sk EXCEPT !.cell = [r \in Row |->
        IF r = Min(Row) THEN [sk.cell[r] EXCEPT ![sk.hash[r][k]] = @ + 1] ELSE sk.cell[r]],
     !.count[k] = @ + 1]

Added(sk, k) ==
    [sk EXCEPT !.cell = [r \in Row |-> [sk.cell[r] EXCEPT ![sk.hash[r][k]] = @ + 1]],
               !.count[k] = @ + 1]

estimate(sk, k) == Min({sk.cell[r][sk.hash[r][k]] : r \in Row})

BitsOf(d, k) == {d.hash[1][k], d.hash[2][k]}

-----------------------------------------------------------------------------
(* Set: Increment, then perhaps Admit.                                     *)

Starts(s, k) ==
    /\ Doing(s, "idle")
    /\ sketch[curr].count[k] < MaxCount
    /\ Does(s, [pc |-> "count", key |-> k, door |-> 0, rotated |-> FALSE])
    /\ UNCHANGED <<sketch, curr, prev, door, rotator>>

Increment(s) ==
    /\ Doing(s, "count")
    /\ sketch' = [sketch EXCEPT ![curr] = Added(@, setter[s].key)]
    /\ Does(s, [setter[s] EXCEPT !.pc = "load"])
    /\ UNCHANGED <<curr, prev, door, rotator>>

\* The door keeper is loaded, before Increment and before Admit asks it.
LoadDoor(s) ==
    /\ Doing(s, "load") \/ Doing(s, "admit")
    /\ Does(s, [setter[s] EXCEPT !.pc = IF @ = "load" THEN "allow" ELSE "ask", !.door = Len(door)])
    /\ UNCHANGED <<sketch, curr, prev, door, rotator>>

\* Mutation: one of the two bits.
OneBit(d, k) == {d.hash[1][k]}

SetBits(d, k) == BitsOf(d, k)

Let(s) == door' = [door EXCEPT ![setter[s].door].bits =
                     @ \cup SetBits(door[setter[s].door], setter[s].key)]

Known(s) == BitsOf(door[setter[s].door], setter[s].key) \subseteq door[setter[s].door].bits

\* Increment ignores what Allow returns.  Then Set needs no admission, or does.
Allow(s) ==
    /\ Doing(s, "allow")
    /\ Let(s)
    /\ Does(s, Rest) \/ Does(s, [setter[s] EXCEPT !.pc = "admit"])
    /\ UNCHANGED <<sketch, curr, prev, rotator>>

\* A key that the door keeper does not know is admitted without comparison.
AdmitUnknown(s) ==
    /\ Doing(s, "ask") /\ ~Known(s)
    /\ Let(s)
    /\ Does(s, Rest)
    /\ UNCHANGED <<sketch, curr, prev, rotator>>

\* The frequencies are compared.  They are only read, and Storage leaves the
\* verdict open.
Compare(s) ==
    /\ Doing(s, "ask") /\ Known(s)
    /\ Does(s, Rest)
    /\ UNCHANGED <<sketch, curr, prev, door, rotator>>

-----------------------------------------------------------------------------
(* Rotate.                                                                 *)

\* history: who of the setters has seen a rotation since it began?
Seen == [s \in Setter |-> IF Doing(s, "idle") THEN Rest ELSE [setter[s] EXCEPT !.rotated = TRUE]]

SwapCurr ==
    /\ rotator = "wait" /\ Len(sketch) < MaxRotations + 2
    /\ \E h \in [Row -> Hash] : sketch' = Append(sketch, NewSketch(h))
    /\ curr' = Len(sketch) + 1
    /\ rotator' = "prev" /\ setter' = Seen
    /\ UNCHANGED <<prev, door>>

StorePrev ==
    /\ rotator = "prev"
    /\ prev' = curr - 1
    /\ rotator' = "door" /\ setter' = Seen
    /\ UNCHANGED <<sketch, curr, door>>

StoreDoor ==
    /\ rotator = "door"
    /\ \E h \in Hash \X Hash : door' = Append(door, NewDoor(h))
    /\ rotator' = "wait" /\ setter' = Seen
    /\ UNCHANGED <<sketch, curr, prev>>

AdmissionNext ==
    \/ SwapCurr \/ StorePrev \/ StoreDoor
    \/ \E s \in Setter :
        \/ \E k \in Object : Starts(s, k)
        \/ Increment(s) \/ LoadDoor(s) \/ Allow(s)
        \/ AdmitUnknown(s) \/ Compare(s)

AdmissionSpec == AdmissionInit /\ [][AdmissionNext]_admissionVars

-----------------------------------------------------------------------------
\* Whatever keys collide, no key is estimated below the times it was counted.
NeverUnderestimates ==
    \A i \in DOMAIN sketch : \A k \in Object :
        estimate(sketch[i], k) >= sketch[i].count[k]

\* Set counts its key with the door keeper before it asks it: the branch that
\* admits an unknown key, the one the door keeper is there for, is only taken
\* when a rotation came in between.
UnknownOnlyAfterRotation ==
    \A s \in Setter : Doing(s, "ask") /\ ~setter[s].rotated => Known(s)
===============================================================================
