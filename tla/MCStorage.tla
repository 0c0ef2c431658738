------------------------------ MODULE MCStorage ------------------------------
(* Small instances of Storage.                                             *)
EXTENDS Storage

\* Answers of different size.
Weights == "b1" :> 1 @@ "b2" :> 2

\* The two requests collide on one key with different fingerprints.
SameKey   == "r1" :> 0 @@ "r2" :> 0
TwoPrints == "r1" :> 1 @@ "r2" :> 2

\* Requests of distinct keys, two of which share a shard when there are three.
OwnKeys   == [r \in Request |-> CASE r = "r1" -> 0 [] r = "r2" -> 3 [] OTHER -> 1]
OwnPrints == "r1" :> 1 @@ "r2" :> 2 @@ "r3" :> 3 @@ "r4" :> 4

\* No step tells one handler from another.
Handlers == Permutations(Client)
=============================================================================
