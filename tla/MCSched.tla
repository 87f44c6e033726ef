------------------------------ MODULE MCSched ------------------------------
(* Sched with interchangeable CPUs; the process table is scanned in order. *)
EXTENDS Sched, TLC

Sym == Permutations(CPU)
====
