---------------------------- MODULE MCShardClerks ----------------------------
(* One key, so that the clerks meet; which clerk is which does not matter. *)
EXTENDS ShardClerks

OneKey == [k \in {"x"} |-> 1]
Symmetric == Permutations(Clerks)
=============================================================================
