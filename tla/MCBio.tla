------------------------------- MODULE MCBio -------------------------------
(* The buffer cache with more blocks than buffers: two processes, each with *)
(* a use within another, a log block, an indirect block and a data block.   *)
EXTENDS Bio, TLC

CONSTANTS u1, u2, v1, v2, log, indirect, bitmap

MCOuter == (u1 :> Nobody) @@ (u2 :> u1) @@ (v1 :> Nobody) @@ (v2 :> v1)

MCRank == (log :> 0) @@ (indirect :> 1) @@ (bitmap :> 2)

(* The processes are alike, and so are the data. *)
Swap == (u1 :> v1) @@ (v1 :> u1) @@ (u2 :> v2) @@ (v2 :> u2)
Sym == {f @@ g : f \in {Swap, [x \in Use |-> x]}, g \in Permutations(Data)}
====
