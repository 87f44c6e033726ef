-------------------------------- MODULE Fifo --------------------------------
(***************************************************************************)
(* What a pipe promises: a bounded queue of bytes.  A byte is appended by  *)
(* a writer while the read end is open, and taken from the front by a      *)
(* reader; each end closes once.                                           *)
(***************************************************************************)
EXTENDS Integers, Sequences

CONSTANTS Byte, Capacity

VARIABLES queue, readable, writable

vars == <<queue, readable, writable>>

Init == queue = << >> /\ readable = 1 /\ writable = 1

Put(b) ==
  /\ readable = 1 /\ writable = 1
  /\ Len(queue) < Capacity
  /\ queue' = Append(queue, b)
  /\ UNCHANGED <<readable, writable>>

Get ==
  /\ readable = 1 /\ queue # << >>
  /\ queue' = Tail(queue)
  /\ UNCHANGED <<readable, writable>>

CloseRead == readable = 1 /\ readable' = 0 /\ UNCHANGED <<queue, writable>>

CloseWrite == writable = 1 /\ writable' = 0 /\ UNCHANGED <<queue, readable>>

Next == (\E b \in Byte : Put(b)) \/ Get \/ CloseRead \/ CloseWrite

Spec == Init /\ [][Next]_vars
====
