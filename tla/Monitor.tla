------------------------------ MODULE Monitor ------------------------------
(***************************************************************************)
(* What sleep(), wakeup(), the sleeplocks and the disk interrupt promise   *)
(* their callers (kernel/proc.c, sleeplock.c): a process that finds the    *)
(* buffer held starts to wait in one step, in which no release can slip    *)
(* in, and a release lets go of every waiter at once.  The same for the    *)
(* process that waits for the disk.  The other modules use sleep() and     *)
(* wakeup() in this form; Sched implements it.                             *)
(***************************************************************************)
CONSTANTS Proc, None

VARIABLES
  holder,    \* the process that holds the sleeplock
  waiting,   \* the processes that wait for the sleeplock
  busy,      \* 1 while the disk works on the holder's request
  iowaiting  \* the processes that wait for the disk

vars == <<holder, waiting, busy, iowaiting>>

Init == holder = None /\ waiting = {} /\ busy = 0 /\ iowaiting = {}

Get(p) ==
  /\ holder = None /\ p \notin waiting
  /\ holder' = p
  /\ UNCHANGED <<waiting, busy, iowaiting>>

Wait(p) ==
  /\ holder # None
  /\ waiting' = waiting \cup {p}
  /\ UNCHANGED <<holder, busy, iowaiting>>

Release(p) ==
  /\ holder = p /\ busy = 0
  /\ holder' = None
  /\ waiting' = {}
  /\ UNCHANGED <<busy, iowaiting>>

StartIO(p) ==
  /\ holder = p /\ busy = 0
  /\ busy' = 1
  /\ iowaiting' = {p}
  /\ UNCHANGED <<holder, waiting>>

FinishIO ==
  /\ busy = 1
  /\ busy' = 0
  /\ iowaiting' = {}
  /\ UNCHANGED <<holder, waiting>>

Next == (\E p \in Proc : Get(p) \/ Wait(p) \/ Release(p) \/ StartIO(p)) \/ FinishIO

Spec == Init /\ [][Next]_vars
====
