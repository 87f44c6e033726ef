------------------------------- MODULE MCLog -------------------------------
(* Instances of the log for model checking. *)
EXTENDS Log, TLC

Sym == Permutations(Proc) \cup Permutations(Block)
=============================================================================
