------------------------------ MODULE ProcLife ------------------------------
(***************************************************************************)
(* The life of processes: fork(), exit(), wait(), kill() and the process   *)
(* table of kernel/proc.c, with the trap path that makes a killed process  *)
(* exit (kernel/trap.c) and the main loop of user/init.c.                  *)
(*                                                                         *)
(* A code section under one spinlock is a step; wait_lock, which is held   *)
(* across several, is a variable, and so is the p->lock that a zombie      *)
(* keeps until its CPU has switched away.  sleep() and wakeup() are atomic *)
(* (see Monitor).  RUNNABLE stands for RUNNABLE and RUNNING: which of them *)
(* is Sched's subject.  The first entry of the table is initproc; the      *)
(* other processes make arbitrary system calls.                            *)
(***************************************************************************)
EXTENDS Integers, Sequences

CONSTANTS
  NPROC,      \* entries of the process table
  MaxPid,     \* bound: the last pid handed out
  KillArgs,   \* the pids that processes pass to kill()
  MemFails,   \* TRUE: memory may run out in fork()
  CopyFails   \* TRUE: the address passed to wait() may be invalid

ASSUME TableAssumption == NPROC \in Nat \ {0} /\ MaxPid \in Nat \ {0}
ASSUME ArgAssumption == KillArgs \subseteq Nat /\ MemFails \in BOOLEAN /\ CopyFails \in BOOLEAN

Proc == 1 .. NPROC
initproc == 1
None == 0
Status == {"zero", "minus1"}

VARIABLES
  state,      \* p->state
  pid,        \* p->pid
  parent,     \* p->parent
  killed,     \* p->killed
  xstate,     \* p->xstate
  chan,       \* p->chan: a process, or None
  nextpid,    \* nextpid
  waitlock,   \* the process that holds wait_lock
  swtching,   \* the zombies that still run on their kernel stack, p->lock held
  pc,         \* where each process is in the kernel, or "user"
  idx,        \* the loop variable of allocproc() or kill()
  arg,        \* the new process of fork(), or the pid given to kill()
  status,     \* the argument of exit()
  shell,      \* init's local pid
  panicked,
  exitcode,   \* history: the status each pid exited with
  delivered,  \* history: the statuses wait() returned for each pid
  victims     \* history: the pids that kill() was called with

slots == <<state, pid, parent, killed, xstate, chan>>
locals == <<pc, idx, arg, status, shell>>
history == <<exitcode, delivered, victims>>
vars == <<slots, nextpid, waitlock, swtching, locals, panicked, history>>

(* procinit() and userinit(): the first process has pid 1. *)
Init ==
  /\ state = [p \in Proc |-> IF p = initproc THEN "RUNNABLE" ELSE "UNUSED"]
  /\ pid = [p \in Proc |-> IF p = initproc THEN 1 ELSE 0]
  /\ parent = [p \in Proc |-> None]
  /\ killed = [p \in Proc |-> 0]
  /\ xstate = [p \in Proc |-> "zero"]
  /\ chan = [p \in Proc |-> None]
  /\ nextpid = 2
  /\ waitlock = None
  /\ swtching = {}
  /\ pc = [p \in Proc |-> IF p = initproc THEN "user" ELSE "none"]
  /\ idx = [p \in Proc |-> 1]
  /\ arg = [p \in Proc |-> None]
  /\ status = [p \in Proc |-> "zero"]
  /\ shell = 0
  /\ panicked = "none"
  /\ exitcode = [i \in 1 .. MaxPid |-> "none"]
  /\ delivered = [i \in 1 .. MaxPid |-> << >>]
  /\ victims = {}

At(p, l) == panicked = "none" /\ state[p] = "RUNNABLE" /\ pc[p] = l

Goto(p, l) == pc' = [pc EXCEPT ![p] = l]

(* wakeup(ch), on behalf of process me. *)
WakeupIn(st, me, ch) ==
  [q \in Proc |-> IF q # me /\ st[q] = "SLEEPING" /\ chan[q] = ch THEN "RUNNABLE" ELSE st[q]]

Children(p) == {q \in Proc : parent[q] = p}

-----------------------------------------------------------------------------
(* Entering the kernel *)

(* usertrap(): a killed process exits when it traps. *)
TrapKilled(p) ==
  /\ At(p, "user") /\ killed[p] = 1
  /\ status' = [status EXCEPT ![p] = "minus1"]
  /\ Goto(p, "exit")
  /\ UNCHANGED <<slots, nextpid, waitlock, swtching, idx, arg, shell, panicked, history>>

(* A program calls exit(). *)
CallExit(p, s) ==
  /\ At(p, "user") /\ killed[p] = 0 /\ p # initproc
  /\ status' = [status EXCEPT ![p] = s]
  /\ Goto(p, "exit")
  /\ UNCHANGED <<slots, nextpid, waitlock, swtching, idx, arg, shell, panicked, history>>

(* A program calls fork(); init does so when it has no shell. *)
CallFork(p) ==
  /\ At(p, "user") /\ killed[p] = 0 /\ (p = initproc => shell = 0)
  /\ idx' = [idx EXCEPT ![p] = 1]
  /\ Goto(p, "alloc")
  /\ UNCHANGED <<slots, nextpid, waitlock, swtching, arg, status, shell, panicked, history>>

(* A program calls wait(); init does so while it has a shell. *)
CallWait(p) ==
  /\ At(p, "user") /\ killed[p] = 0 /\ (p = initproc => shell # 0)
  /\ Goto(p, "wait")
  /\ UNCHANGED <<slots, nextpid, waitlock, swtching, idx, arg, status, shell, panicked, history>>

(* A program calls kill(i). *)
CallKill(p, i) ==
  /\ At(p, "user") /\ killed[p] = 0 /\ p # initproc
  /\ idx' = [idx EXCEPT ![p] = 1]
  /\ arg' = [arg EXCEPT ![p] = i]
  /\ victims' = victims \cup {i}
  /\ Goto(p, "kill")
  /\ UNCHANGED <<slots, nextpid, waitlock, swtching, status, shell, panicked, exitcode, delivered>>

-----------------------------------------------------------------------------
(* fork() *)

(* allocproc() looks at one entry, and goes on if it is in use. *)
AllocSkip(p) ==
  /\ At(p, "alloc") /\ idx[p] \in Proc \ swtching
  /\ state[idx[p]] # "UNUSED"
  /\ idx' = [idx EXCEPT ![p] = @ + 1]
  /\ UNCHANGED <<slots, nextpid, waitlock, swtching, pc, arg, status, shell, panicked, history>>

(* fork() returns -1; init gives up and exits. *)
ForkFailed(p) ==
  /\ Goto(p, IF p = initproc THEN "exit" ELSE "user")
  /\ idx' = [idx EXCEPT ![p] = 1]

(* allocproc() has seen the whole table. *)
AllocFull(p) ==
  /\ At(p, "alloc") /\ idx[p] > NPROC
  /\ ForkFailed(p)
  /\ UNCHANGED <<slots, nextpid, waitlock, swtching, arg, status, shell, panicked, history>>

Unused(p) == At(p, "alloc") /\ idx[p] \in Proc \ swtching /\ state[idx[p]] = "UNUSED"

(* An allocation of allocproc() or uvmcopy() fails: freeproc() gives the   *)
(* entry back; the pid is spent.                                           *)
ForkNoMemory(p) ==
  /\ MemFails
  /\ Unused(p) /\ nextpid <= MaxPid
  /\ nextpid' = nextpid + 1
  /\ killed' = [killed EXCEPT ![idx[p]] = 0]
  /\ ForkFailed(p)
  /\ UNCHANGED <<state, pid, parent, xstate, chan, waitlock, swtching, arg, status, shell, panicked, history>>

(* allocproc() takes the entry and fork() copies the parent into it, up to *)
(* release(&np->lock).                                                     *)
ForkAlloc(p) ==
  /\ Unused(p) /\ nextpid <= MaxPid
  /\ pid' = [pid EXCEPT ![idx[p]] = nextpid]
  /\ nextpid' = nextpid + 1
  /\ state' = [state EXCEPT ![idx[p]] = "USED"]
  /\ arg' = [arg EXCEPT ![p] = idx[p]]
  /\ idx' = [idx EXCEPT ![p] = 1]
  /\ Goto(p, "fork_parent")
  /\ UNCHANGED <<parent, killed, xstate, chan, waitlock, swtching, status, shell, panicked, history>>

(* np->parent = p under wait_lock. *)
ForkParent(p) ==
  /\ At(p, "fork_parent") /\ waitlock = None
  /\ parent' = [parent EXCEPT ![arg[p]] = p]
  /\ Goto(p, "fork_run")
  /\ UNCHANGED <<state, pid, killed, xstate, chan, nextpid, waitlock, swtching, idx, arg, status, shell, panicked, history>>

(* np->state = RUNNABLE; fork() returns the pid.  The child starts in user *)
(* mode with 0.                                                            *)
ForkRun(p) ==
  /\ At(p, "fork_run")
  /\ state' = [state EXCEPT ![arg[p]] = "RUNNABLE"]
  /\ pc' = [pc EXCEPT ![p] = "user", ![arg[p]] = "user"]
  /\ shell' = IF p = initproc THEN pid[arg[p]] ELSE shell
  /\ arg' = [arg EXCEPT ![p] = None]
  /\ UNCHANGED <<pid, parent, killed, xstate, chan, nextpid, waitlock, swtching, idx, status, panicked, history>>

-----------------------------------------------------------------------------
(* exit() *)

(* Mutant: reparent() does not wake init. *)
ExitReparentNoWakeup(p) ==
  /\ At(p, "exit") /\ p # initproc /\ waitlock = None
  /\ waitlock' = p
  /\ parent' = [q \in Proc |-> IF parent[q] = p THEN initproc ELSE parent[q]]
  /\ state' = WakeupIn(state, p, parent[p])
  /\ Goto(p, "exit_zombie")
  /\ UNCHANGED <<pid, killed, xstate, chan, nextpid, swtching, idx, arg, status, shell, panicked, history>>

(* init must not exit. *)
ExitInit(p) ==
  /\ At(p, "exit") /\ p = initproc
  /\ panicked' = "init_exiting"
  /\ UNCHANGED <<slots, nextpid, waitlock, swtching, locals, history>>

(* Mutant: exit() without reparent(). *)
ExitNoReparent(p) ==
  /\ At(p, "exit") /\ p # initproc /\ waitlock = None
  /\ waitlock' = p
  /\ LET st == IF Children(p) # {} THEN WakeupIn(state, p, initproc) ELSE state
     IN  state' = WakeupIn(st, p, parent[p])
  /\ Goto(p, "exit_zombie")
  /\ UNCHANGED <<parent, pid, killed, xstate, chan, nextpid, swtching, idx, arg, status, shell, panicked, history>>

(* With wait_lock: reparent() hands the children to init and wakes it, and *)
(* the parent is woken.                                                    *)
ExitReparent(p) ==
  /\ At(p, "exit") /\ p # initproc /\ waitlock = None
  /\ waitlock' = p
  /\ parent' = [q \in Proc |-> IF parent[q] = p THEN initproc ELSE parent[q]]
  /\ LET st == IF Children(p) # {} THEN WakeupIn(state, p, initproc) ELSE state
     IN  state' = WakeupIn(st, p, parent[p])
  /\ Goto(p, "exit_zombie")
  /\ UNCHANGED <<pid, killed, xstate, chan, nextpid, swtching, idx, arg, status, shell, panicked, history>>

(* Under p->lock: ZOMBIE, then release(&wait_lock) and sched(). *)
ExitZombie(p) ==
  /\ At(p, "exit_zombie")
  /\ xstate' = [xstate EXCEPT ![p] = status[p]]
  /\ state' = [state EXCEPT ![p] = "ZOMBIE"]
  /\ waitlock' = None
  /\ swtching' = swtching \cup {p}
  /\ status' = [status EXCEPT ![p] = "zero"]
  /\ Goto(p, "none")
  /\ exitcode' = [exitcode EXCEPT ![pid[p]] = status[p]]
  /\ UNCHANGED <<pid, parent, killed, chan, nextpid, idx, arg, shell, panicked, delivered, victims>>

(* scheduler() runs again on the zombie's CPU and releases its p->lock. *)
SwtchOut(p) ==
  /\ panicked = "none" /\ p \in swtching
  /\ swtching' = swtching \ {p}
  /\ UNCHANGED <<slots, nextpid, waitlock, locals, panicked, history>>

-----------------------------------------------------------------------------
(* wait() *)

Zombies(p) == {q \in Children(p) : state[q] = "ZOMBIE"}

FirstZombie(p) == CHOOSE q \in Zombies(p) : \A r \in Zombies(p) : q <= r

(* Mutant: init does not notice that its shell exited. *)
WaitReturnsNoBreak(p, rv) ==
  /\ Goto(p, IF p = initproc /\ rv < 0 THEN "exit" ELSE "user")
  /\ shell' = shell

(* wait() returns rv: init restarts its shell, waits again, or gives up. *)
WaitReturns(p, rv) ==
  /\ Goto(p, IF p = initproc /\ rv < 0 THEN "exit" ELSE "user")
  /\ shell' = IF p = initproc /\ rv = shell THEN 0 ELSE shell

(* Mutant: the child's p->lock is not taken. *)
CanReapUnlocked(p) == At(p, "wait") /\ waitlock = None /\ Zombies(p) # {}

(* wait() has wait_lock and the lock of the first zombie among its children. *)
CanReap(p) ==
  /\ At(p, "wait") /\ waitlock = None
  /\ Zombies(p) # {} /\ FirstZombie(p) \notin swtching

(* Mutant: freeproc() does not reset killed. *)
WaitReapKeepsKilled(p) ==
  /\ CanReap(p)
  /\ LET q == FirstZombie(p)
     IN  /\ delivered' = [delivered EXCEPT ![pid[q]] = Append(@, xstate[q])]
         /\ WaitReturns(p, pid[q])
         /\ state' = [state EXCEPT ![q] = "UNUSED"]
         /\ pid' = [pid EXCEPT ![q] = 0]
         /\ parent' = [parent EXCEPT ![q] = None]
         /\ chan' = [chan EXCEPT ![q] = None]
         /\ xstate' = [xstate EXCEPT ![q] = "zero"]
  /\ UNCHANGED <<killed, nextpid, waitlock, swtching, idx, arg, status, panicked, exitcode, victims>>

(* Copy out the status and freeproc() the child. *)
WaitReap(p) ==
  /\ CanReap(p)
  /\ LET q == FirstZombie(p)
     IN  /\ delivered' = [delivered EXCEPT ![pid[q]] = Append(@, xstate[q])]
         /\ WaitReturns(p, pid[q])
         /\ state' = [state EXCEPT ![q] = "UNUSED"]
         /\ pid' = [pid EXCEPT ![q] = 0]
         /\ parent' = [parent EXCEPT ![q] = None]
         /\ chan' = [chan EXCEPT ![q] = None]
         /\ killed' = [killed EXCEPT ![q] = 0]
         /\ xstate' = [xstate EXCEPT ![q] = "zero"]
  /\ UNCHANGED <<nextpid, waitlock, swtching, idx, arg, status, panicked, exitcode, victims>>

(* copyout() of the status fails; init passes a null address. *)
WaitFault(p) ==
  /\ CopyFails
  /\ CanReap(p) /\ p # initproc
  /\ WaitReturns(p, -1)
  /\ UNCHANGED <<slots, nextpid, waitlock, swtching, idx, arg, status, panicked, history>>

(* No children, or killed. *)
WaitNone(p) ==
  /\ At(p, "wait") /\ waitlock = None
  /\ Zombies(p) = {} /\ (Children(p) = {} \/ killed[p] = 1)
  /\ WaitReturns(p, -1)
  /\ UNCHANGED <<slots, nextpid, waitlock, swtching, idx, arg, status, panicked, history>>

(* Children, but none has exited: on to sleep(), wait_lock held. *)
WaitCheck(p) ==
  /\ At(p, "wait") /\ waitlock = None
  /\ Zombies(p) = {} /\ Children(p) # {} /\ killed[p] = 0
  /\ waitlock' = p
  /\ Goto(p, "wait_sleep")
  /\ UNCHANGED <<slots, nextpid, swtching, idx, arg, status, shell, panicked, history>>

(* sleep(p, &wait_lock); awake again, the scan starts over. *)
WaitSleep(p) ==
  /\ At(p, "wait_sleep")
  /\ state' = [state EXCEPT ![p] = "SLEEPING"]
  /\ chan' = [chan EXCEPT ![p] = p]
  /\ waitlock' = None
  /\ Goto(p, "wait")
  /\ UNCHANGED <<pid, parent, killed, xstate, nextpid, swtching, idx, arg, status, shell, panicked, history>>

-----------------------------------------------------------------------------
(* kill() *)

(* Not the entry with that pid. *)
KillSkip(p) ==
  /\ At(p, "kill") /\ idx[p] \in Proc \ swtching
  /\ pid[idx[p]] # arg[p]
  /\ idx' = [idx EXCEPT ![p] = @ + 1]
  /\ UNCHANGED <<slots, nextpid, waitlock, swtching, pc, arg, status, shell, panicked, history>>

KillReturns(p) ==
  /\ Goto(p, "user")
  /\ idx' = [idx EXCEPT ![p] = 1]
  /\ arg' = [arg EXCEPT ![p] = None]

(* p->killed = 1, and a sleeper becomes RUNNABLE. *)
KillHit(p) ==
  /\ At(p, "kill") /\ idx[p] \in Proc \ swtching
  /\ pid[idx[p]] = arg[p]
  /\ killed' = [killed EXCEPT ![idx[p]] = 1]
  /\ state' = IF state[idx[p]] = "SLEEPING" THEN [state EXCEPT ![idx[p]] = "RUNNABLE"] ELSE state
  /\ KillReturns(p)
  /\ UNCHANGED <<pid, parent, xstate, chan, nextpid, waitlock, swtching, status, shell, panicked, history>>

KillNone(p) ==
  /\ At(p, "kill") /\ idx[p] > NPROC
  /\ KillReturns(p)
  /\ UNCHANGED <<slots, nextpid, waitlock, swtching, status, shell, panicked, history>>

-----------------------------------------------------------------------------
UserStep(p) ==
  \/ TrapKilled(p) \/ CallFork(p) \/ CallWait(p)
  \/ \E s \in Status : CallExit(p, s)
  \/ \E i \in KillArgs : CallKill(p, i)

KernelStep(p) ==
  \/ AllocSkip(p) \/ AllocFull(p) \/ ForkNoMemory(p) \/ ForkAlloc(p) \/ ForkParent(p) \/ ForkRun(p)
  \/ ExitInit(p) \/ ExitReparent(p) \/ ExitZombie(p) \/ SwtchOut(p)
  \/ WaitReap(p) \/ WaitFault(p) \/ WaitNone(p) \/ WaitCheck(p) \/ WaitSleep(p)
  \/ KillSkip(p) \/ KillHit(p) \/ KillNone(p)

Next == \E p \in Proc : UserStep(p) \/ KernelStep(p)

Spec == Init /\ [][Next]_vars

-----------------------------------------------------------------------------
(* Properties *)

(* Every field of the process table holds a value of its kind. *)
TypeOK ==
  /\ state \in [Proc -> {"UNUSED", "USED", "SLEEPING", "RUNNABLE", "ZOMBIE"}]
  /\ pid \in [Proc -> 0 .. MaxPid]
  /\ parent \in [Proc -> Proc \cup {None}]
  /\ killed \in [Proc -> 0 .. 1]
  /\ xstate \in [Proc -> Status]
  /\ chan \in [Proc -> Proc \cup {None}]
  /\ nextpid \in 2 .. MaxPid + 1
  /\ waitlock \in Proc \cup {None}
  /\ swtching \subseteq Proc
  /\ idx \in [Proc -> 1 .. NPROC + 1]
  /\ shell \in 0 .. MaxPid

Live == {"SLEEPING", "RUNNABLE", "ZOMBIE"}

(* Every process that fork() has started, init aside, has a parent that    *)
(* can still wait() for it: the parent is neither free nor a zombie nor    *)
(* past reparent() in its exit().                                          *)
ParentCanWait ==
  \A q \in Proc \ {initproc} : state[q] \in Live =>
    /\ parent[q] \in Proc
    /\ state[parent[q]] \in {"SLEEPING", "RUNNABLE"}
    /\ pc[parent[q]] # "exit_zombie"

(* The entries in use have different pids, and a free entry has none. *)
UniquePids ==
  /\ \A q \in Proc : (state[q] = "UNUSED") = (pid[q] = 0)
  /\ \A q, r \in Proc : pid[q] = pid[r] /\ pid[q] # 0 => q = r

(* The process table is well formed: its types, pids that tell the         *)
(* processes apart, half made ones included, and no entry freed by wait()  *)
(* while its process still runs on its kernel stack in exit() or swtch().  *)
WellFormed == TypeOK /\ UniquePids /\ \A q \in swtching : state[q] = "ZOMBIE"

(* wait() reports every exit at most once, with the status the process     *)
(* gave to exit() (or -1 for a killed one), though its entry may have had  *)
(* other owners and its parent may have changed; and no exit is missed: a  *)
(* process asleep in wait() has no zombie child, also when exit() hands    *)
(* zombies over to init.                                                   *)
StatusDelivered ==
  /\ \A i \in 1 .. MaxPid : delivered[i] \in {<< >>, <<exitcode[i]>>}
  /\ \A p \in Proc : state[p] = "SLEEPING" => Zombies(p) = {}

(* Only a process whose pid was given to kill() is marked killed; the mark *)
(* does not outlive the process in its entry of the table.  The exception  *)
(* is kill(0): the free entries have pid 0, so it marks one of them, and   *)
(* allocproc() does not clear the mark for the entry's next owner.         *)
OnlyVictimsKilled ==
  \A q \in Proc : state[q] # "UNUSED" /\ killed[q] = 1 => pid[q] \in victims \/ 0 \in victims

(* As long as init waits, its shell is a child it has not reaped, so its   *)
(* wait() does not return for want of children.                            *)
InitHasShell ==
  shell # 0 => \E q \in Children(initproc) : pid[q] = shell /\ state[q] \in Live
====
