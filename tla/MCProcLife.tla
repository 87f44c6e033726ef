---------------------------- MODULE MCProcLife ----------------------------
(* The process table on small instances. *)
EXTENDS ProcLife
====
