----------------------------- MODULE AtomicTxn -----------------------------
(***************************************************************************)
(* What the logging layer of kernel/log.c promises the file system calls   *)
(* above it.  Operations run between begin_op() and end_op() and update    *)
(* blocks of the disk; the disk image a crash falls back to moves forward  *)
(* only at moments at which no operation is in progress, and then takes    *)
(* over every update made so far.  So no crash ever exposes a part of an   *)
(* operation.  The comment at the head of log.c states this:  the logging  *)
(* system only commits when there are no FS system calls active.           *)
(***************************************************************************)

CONSTANTS
  Proc,     \* processes that make file system calls
  Block,    \* blocks of the file system outside the log area
  Data      \* contents of a block

VARIABLES
  stable,   \* what each block holds after a crash and recovery
  current,  \* what each block holds for the operations that run now
  active    \* processes between begin_op() and end_op()

vars == <<stable, current, active>>

Init ==
  /\ stable \in [Block -> Data]
  /\ current = stable
  /\ active = {}

Begin(p) ==
  /\ p \notin active
  /\ active' = active \cup {p}
  /\ UNCHANGED <<stable, current>>

Write(p, b, d) ==
  /\ p \in active
  /\ current' = [current EXCEPT ![b] = d]
  /\ UNCHANGED <<stable, active>>

End(p) ==
  /\ p \in active
  /\ active' = active \ {p}
  /\ UNCHANGED <<stable, current>>

(* Group commit: all the operations since the last commit, all or nothing. *)
Commit ==
  /\ active = {}
  /\ stable' = current
  /\ UNCHANGED <<current, active>>

Crash ==
  /\ current' = stable
  /\ active' = {}
  /\ UNCHANGED stable

Next ==
  \/ \E p \in Proc : Begin(p) \/ End(p)
  \/ \E p \in Proc, b \in Block, d \in Data : Write(p, b, d)
  \/ Commit
  \/ Crash

Spec == Init /\ [][Next]_vars
=============================================================================
