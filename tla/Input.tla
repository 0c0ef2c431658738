--------------------------------- MODULE Input ---------------------------------
(***************************************************************************)
(* The algorithms on data have no state of their own.  What such an        *)
(* algorithm computes is a property of its input, which stays what it is.  *)
(***************************************************************************)
EXTENDS Naturals, Sequences

VARIABLES
    part,   \* the part of the service that runs
    input   \* the input, if the part is an algorithm

\* A string of bytes, and a name with its value.
Text  == Seq(Nat)
Field == Text \X Text
===============================================================================
