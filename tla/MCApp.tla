--------------------------------- MODULE MCApp ---------------------------------
(* Small instances of App.                                                 *)
EXTENDS App, TLC

TwoShards == "k1" :> 0 @@ "k2" :> 1

\* Memory is at its threshold with k1, which is large, but not with k2 alone.
LargeFills == {{"k1"}, {"k1", "k2"}}
===============================================================================
