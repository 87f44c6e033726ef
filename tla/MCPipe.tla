------------------------------- MODULE MCPipe -------------------------------
(* One pipe shared by a few readers and writers. *)
EXTENDS Pipe, TLC

Sym == Permutations(Reader) \cup Permutations(Writer)
====
