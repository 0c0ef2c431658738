------------------------------ MODULE MCUpstream ------------------------------
(* Small instances of Upstream.                                            *)
EXTENDS Upstream

OneRate == [b \in Backend |-> 3]
=============================================================================
