------------------------------- MODULE Sched -------------------------------
(***************************************************************************)
(* CPUs, the scheduler, interrupts, spinlocks, and sleep()/wakeup(), at    *)
(* the grain of one spinlock operation: kernel/proc.c, spinlock.c,         *)
(* sleeplock.c and the interrupt paths of trap.c and virtio_disk.c.        *)
(*                                                                         *)
(* The processors run a scheduler thread each and the threads of NPROC    *)
(* processes.  The processes do what bread() does: take the sleeplock of a *)
(* buffer with acquiresleep(), possibly start a disk request and sleep     *)
(* until virtio_disk_intr() reports it done, and releasesleep() it.  Timer *)
(* interrupts preempt them wherever interrupts are on.                     *)
(*                                                                         *)
(* A process p is also the name of its p->lock.  BUFLK is the spinlock     *)
(* inside the sleeplock, VDISK is disk.vdisk_lock; each also names the     *)
(* channel slept on under it (the sleeplock, the struct buf).              *)
(*                                                                         *)
(* The C locals ret, slk and sav are reset where they die, so that states  *)
(* that differ in a dead local are one state.                              *)
(***************************************************************************)
EXTENDS Integers, FiniteSets

CONSTANTS
  CPU,       \* the processors
  NoCPU,     \* lk->cpu = 0
  NPROC      \* the size of the process table

ASSUME CpuAssumption == NoCPU \notin CPU
ASSUME ProcAssumption == NPROC \in Nat \ {0}

Proc == 1 .. NPROC
None == 0
BUFLK == NPROC + 1
VDISK == NPROC + 2
Chan == {BUFLK, VDISK}
SpinLock == Proc \cup Chan

VARIABLES
  lock,      \* lk->cpu of every spinlock, NoCPU when lk->locked = 0
  want,      \* the spinlock a CPU is spinning for in acquire()
  noff,      \* mycpu()->noff
  intena,    \* mycpu()->intena
  intr,      \* SSTATUS_SIE: 1 when the CPU takes interrupts
  cproc,     \* mycpu()->proc
  on,        \* the thread on the CPU: a process, None for the scheduler
  spc,       \* where the CPU's scheduler() is
  sidx,      \* the p of scheduler()'s loop
  hpc,       \* where the CPU's device interrupt handler is
  widx,      \* the p of the wakeup() loop running on the CPU
  pc,        \* where each process is
  ret,       \* where a preempted process returns to
  slk,       \* the lk argument of the process's sleep()
  sav,       \* the intena local of the process's sched()
  state,     \* p->state
  chan,      \* p->chan
  owner,     \* the pid of the sleeplock, None when locked = 0
  disk,      \* b->disk
  dev,       \* the device: idle, busy, or raised (its interrupt is pending)
  panicked

cpuvars == <<cproc, on, spc, sidx, hpc, widx>>
spinvars == <<lock, want, noff, intena, intr>>
procvars == <<pc, ret, slk, sav, state, chan>>
devvars == <<owner, disk, dev>>
vars == <<cpuvars, spinvars, procvars, devvars, panicked>>

Init ==
  /\ lock = [l \in SpinLock |-> NoCPU]
  /\ want = [c \in CPU |-> None]
  /\ noff = [c \in CPU |-> 0]
  /\ intena = [c \in CPU |-> 0]
  /\ intr = [c \in CPU |-> 0]
  /\ cproc = [c \in CPU |-> None]
  /\ on = [c \in CPU |-> None]
  /\ spc = [c \in CPU |-> "loop"]
  /\ sidx = [c \in CPU |-> 1]
  /\ hpc = [c \in CPU |-> "none"]
  /\ widx = [c \in CPU |-> 1]
  /\ pc = [p \in Proc |-> "forkret"]
  /\ ret = [p \in Proc |-> "run"]
  /\ slk = [p \in Proc |-> BUFLK]
  /\ sav = [p \in Proc |-> 0]
  /\ state = [p \in Proc |-> "RUNNABLE"]
  /\ chan = [p \in Proc |-> None]
  /\ owner = None
  /\ disk = 0
  /\ dev = "idle"
  /\ panicked = "none"

Alive == panicked = "none"

-----------------------------------------------------------------------------
(* Spinlocks *)

(* The code that a CPU is executing is about to acquire() l. *)
ProcNeeds(c, p, l) ==
  \/ pc[p] \in {"as_acq", "rs_acq"} /\ l = BUFLK
  \/ pc[p] \in {"v_acq", "v_loop"} /\ l = VDISK
  \/ pc[p] \in {"sl_acq", "y_acq"} /\ l = p
  \/ pc[p] = "rs_wk" /\ l = widx[c]

Needs(c, l) ==
  \/ hpc[c] = "acq" /\ l = VDISK
  \/ hpc[c] = "wk" /\ l = widx[c]
  \/ hpc[c] = "none" /\ on[c] # None /\ ProcNeeds(c, on[c], l)
  \/ hpc[c] = "none" /\ on[c] = None /\ spc[c] = "scan" /\ l = sidx[c]

(* acquire() up to its loop: push_off() and the check of holding(). *)
SpinOn(c) ==
  /\ Alive
  /\ want[c] = None
  /\ \E l \in SpinLock : /\ Needs(c, l)
                         /\ want' = [want EXCEPT ![c] = l]
                         /\ panicked' = IF lock[l] = c THEN "acquire" ELSE "none"
  /\ noff' = [noff EXCEPT ![c] = @ + 1]
  /\ intena' = IF noff[c] = 0 THEN [intena EXCEPT ![c] = intr[c]] ELSE intena
  /\ intr' = [intr EXCEPT ![c] = 0]
  /\ UNCHANGED <<lock, cpuvars, procvars, devvars>>

(* The test-and-set of acquire() succeeds. *)
Take(c, l) ==
  /\ Alive
  /\ want[c] = l /\ lock[l] = NoCPU
  /\ lock' = [lock EXCEPT ![l] = c]
  /\ want' = [want EXCEPT ![c] = None]
  /\ UNCHANGED <<noff, intena, intr, panicked>>

(* release(): the check of holding(), the store, and pop_off() with its    *)
(* checks.                                                                 *)
MayRelease(c, l) == lock[l] = c /\ intr[c] = 0 /\ noff[c] >= 1

Drop(c, l) ==
  /\ Alive
  /\ lock' = [lock EXCEPT ![l] = NoCPU]
  /\ noff' = [noff EXCEPT ![c] = @ - 1]
  /\ intr' = IF noff[c] = 1 /\ intena[c] = 1 THEN [intr EXCEPT ![c] = 1] ELSE intr
  /\ panicked' = IF MayRelease(c, l) THEN "none" ELSE "release"
  /\ UNCHANGED <<want, intena>>

-----------------------------------------------------------------------------
(* scheduler() *)

InScheduler(c) == hpc[c] = "none" /\ on[c] = None

(* The head of for(;;): intr_on(). *)
SchedLoop(c) ==
  /\ Alive
  /\ InScheduler(c) /\ spc[c] = "loop"
  /\ intr' = [intr EXCEPT ![c] = 1]
  /\ sidx' = [sidx EXCEPT ![c] = 1]
  /\ spc' = [spc EXCEPT ![c] = "scan"]
  /\ UNCHANGED <<lock, want, noff, intena, cproc, on, hpc, widx, procvars, devvars, panicked>>

(* The process is not RUNNABLE: on to release(&p->lock). *)
SchedSkip(c) ==
  /\ InScheduler(c) /\ spc[c] = "scan"
  /\ Take(c, sidx[c])
  /\ state[sidx[c]] # "RUNNABLE"
  /\ spc' = [spc EXCEPT ![c] = "rel"]
  /\ UNCHANGED <<cproc, on, sidx, hpc, widx, procvars, devvars>>

(* Mutant: scheduler() leaves the process RUNNABLE. *)
SchedRunRunnable(c) ==
  /\ InScheduler(c) /\ spc[c] = "scan"
  /\ Take(c, sidx[c])
  /\ state[sidx[c]] = "RUNNABLE"
  /\ cproc' = [cproc EXCEPT ![c] = sidx[c]]
  /\ on' = [on EXCEPT ![c] = sidx[c]]
  /\ spc' = [spc EXCEPT ![c] = "back"]
  /\ UNCHANGED <<sidx, hpc, widx, pc, ret, slk, sav, state, chan, devvars>>

(* The process is RUNNABLE: mark it RUNNING and swtch() to its thread. *)
SchedRun(c) ==
  /\ InScheduler(c) /\ spc[c] = "scan"
  /\ Take(c, sidx[c])
  /\ state[sidx[c]] = "RUNNABLE"
  /\ state' = [state EXCEPT ![sidx[c]] = "RUNNING"]
  /\ cproc' = [cproc EXCEPT ![c] = sidx[c]]
  /\ on' = [on EXCEPT ![c] = sidx[c]]
  /\ spc' = [spc EXCEPT ![c] = "back"]
  /\ UNCHANGED <<sidx, hpc, widx, pc, ret, slk, sav, chan, devvars>>

(* swtch() has returned to the scheduler. *)
SchedBack(c) ==
  /\ Alive
  /\ InScheduler(c) /\ spc[c] = "back"
  /\ cproc' = [cproc EXCEPT ![c] = None]
  /\ spc' = [spc EXCEPT ![c] = "rel"]
  /\ UNCHANGED <<spinvars, on, sidx, hpc, widx, procvars, devvars, panicked>>

(* Mutant: scheduler() restarts its scan after a process that yielded. *)
SchedReleaseRestart(c) ==
  /\ InScheduler(c) /\ spc[c] = "rel"
  /\ Drop(c, sidx[c])
  /\ sidx' = [sidx EXCEPT ![c] = @ + 1]
  /\ spc' = [spc EXCEPT ![c] = IF sidx[c] = NPROC \/ state[sidx[c]] = "RUNNABLE" THEN "loop" ELSE "scan"]
  /\ UNCHANGED <<cproc, on, hpc, widx, procvars, devvars>>

SchedRelease(c) ==
  /\ InScheduler(c) /\ spc[c] = "rel"
  /\ Drop(c, sidx[c])
  /\ sidx' = [sidx EXCEPT ![c] = @ + 1]
  /\ spc' = [spc EXCEPT ![c] = IF sidx[c] = NPROC THEN "loop" ELSE "scan"]
  /\ UNCHANGED <<cproc, on, hpc, widx, procvars, devvars>>

-----------------------------------------------------------------------------
(* A process's kernel thread.  At(c, p, l): CPU c executes p at label l. *)

At(c, p, l) == hpc[c] = "none" /\ on[c] = p /\ pc[p] = l

Goto(p, l) == pc' = [pc EXCEPT ![p] = l]

(* forkret(): release the p->lock that scheduler() took. *)
Forkret(c, p) ==
  /\ At(c, p, "forkret")
  /\ Drop(c, p)
  /\ Goto(p, "usertrapret")
  /\ UNCHANGED <<cpuvars, ret, slk, sav, state, chan, devvars>>

(* usertrapret(): intr_off(), then sret to user mode with SPIE set. *)
Usertrapret(c, p) ==
  /\ Alive
  /\ At(c, p, "usertrapret")
  /\ intr' = [intr EXCEPT ![c] = 1]
  /\ Goto(p, "run")
  /\ UNCHANGED <<lock, want, noff, intena, cpuvars, ret, slk, sav, state, chan, devvars, panicked>>

(* A system call reads a block: acquiresleep(&b->lock). *)
Syscall(c, p) ==
  /\ Alive
  /\ At(c, p, "run")
  /\ Goto(p, "as_acq")
  /\ UNCHANGED <<spinvars, cpuvars, ret, slk, sav, state, chan, devvars, panicked>>

(* acquiresleep() finds the sleeplock free and takes it ... *)
AcquireSleepGet(c, p) ==
  /\ At(c, p, "as_acq")
  /\ Take(c, BUFLK)
  /\ owner = None
  /\ owner' = p
  /\ Goto(p, "as_rel")
  /\ UNCHANGED <<cpuvars, ret, slk, sav, state, chan, disk, dev>>

(* ... or held, and calls sleep(lk, &lk->lk). *)
AcquireSleepWait(c, p) ==
  /\ At(c, p, "as_acq")
  /\ Take(c, BUFLK)
  /\ owner # None
  /\ slk' = [slk EXCEPT ![p] = BUFLK]
  /\ Goto(p, "sl_acq")
  /\ UNCHANGED <<cpuvars, ret, sav, state, chan, devvars>>

(* release(&lk->lk) at the end of acquiresleep(). *)
AcquireSleepDone(c, p) ==
  /\ At(c, p, "as_rel")
  /\ Drop(c, BUFLK)
  /\ Goto(p, "crit")
  /\ UNCHANGED <<cpuvars, ret, slk, sav, state, chan, devvars>>

(* The holder of the buffer does disk I/O, or finds the block cached. *)
Critical(c, p) ==
  /\ Alive
  /\ At(c, p, "crit")
  /\ \E l \in {"v_acq", "rs_acq"} : Goto(p, l)
  /\ UNCHANGED <<spinvars, cpuvars, ret, slk, sav, state, chan, devvars, panicked>>

(* virtio_disk_rw() hands the buffer to the device and waits: *)
(* while (b->disk == 1) sleep(b, &disk.vdisk_lock).           *)
DiskStart(c, p) ==
  /\ At(c, p, "v_acq")
  /\ Take(c, VDISK)
  /\ disk' = 1
  /\ dev' = "busy"
  /\ slk' = [slk EXCEPT ![p] = VDISK]
  /\ Goto(p, "sl_acq")
  /\ UNCHANGED <<cpuvars, ret, sav, state, chan, owner>>

(* Awake again with vdisk_lock, test b->disk once more. *)
DiskAgain(c, p) ==
  /\ At(c, p, "v_loop")
  /\ Take(c, VDISK)
  /\ slk' = IF disk = 1 THEN [slk EXCEPT ![p] = VDISK] ELSE slk
  /\ Goto(p, IF disk = 1 THEN "sl_acq" ELSE "v_rel")
  /\ UNCHANGED <<cpuvars, ret, sav, state, chan, devvars>>

(* The wakeup(&disk.free[0]) of free_chain() finds nobody: here there are  *)
(* descriptors enough, and who waits for them is VirtioDisk's subject.     *)
DiskDone(c, p) ==
  /\ At(c, p, "v_rel")
  /\ Drop(c, VDISK)
  /\ Goto(p, "rs_acq")
  /\ UNCHANGED <<cpuvars, ret, slk, sav, state, chan, devvars>>

-----------------------------------------------------------------------------
(* wakeup(): the loop over the process table *)

(* Mutant: wakeup() starts at the second entry of the table. *)
NextWakeLate(c, i) == IF i <= NPROC THEN i + 1 ELSE i

(* The next process from i on that is not myproc(). *)
NextWake(c, i) == IF i = cproc[c] THEN i + 1 ELSE i

(* With p->lock held: wake the process if it sleeps on ch. *)
WakeUp(p, ch) ==
  state' = IF state[p] = "SLEEPING" /\ chan[p] = ch
             THEN [state EXCEPT ![p] = "RUNNABLE"] ELSE state

(* releasesleep(): free the sleeplock and start wakeup(lk) ... *)
ReleaseSleep(c, p) ==
  /\ At(c, p, "rs_acq")
  /\ Take(c, BUFLK)
  /\ owner' = None
  /\ widx' = [widx EXCEPT ![c] = NextWake(c, 1)]
  /\ Goto(p, IF NextWake(c, 1) > NPROC THEN "rs_rel" ELSE "rs_wk")
  /\ UNCHANGED <<cproc, on, spc, sidx, hpc, ret, slk, sav, state, chan, disk, dev>>

(* ... one process of the table at a time ... *)
ReleaseSleepWake(c, p) ==
  /\ At(c, p, "rs_wk")
  /\ Take(c, widx[c])
  /\ WakeUp(widx[c], BUFLK)
  /\ Goto(p, "rs_next")
  /\ UNCHANGED <<cpuvars, ret, slk, sav, chan, devvars>>

ReleaseSleepNext(c, p) ==
  /\ At(c, p, "rs_next")
  /\ Drop(c, widx[c])
  /\ widx' = [widx EXCEPT ![c] = NextWake(c, @ + 1)]
  /\ Goto(p, IF NextWake(c, widx[c] + 1) > NPROC THEN "rs_rel" ELSE "rs_wk")
  /\ UNCHANGED <<cproc, on, spc, sidx, hpc, ret, slk, sav, state, chan, devvars>>

(* ... and release(&lk->lk). *)
ReleaseSleepDone(c, p) ==
  /\ At(c, p, "rs_rel")
  /\ Drop(c, BUFLK)
  /\ Goto(p, "run")
  /\ UNCHANGED <<cpuvars, ret, slk, sav, state, chan, devvars>>

-----------------------------------------------------------------------------
(* sleep(), yield() and sched() *)

(* sleep(): acquire(&p->lock) ... *)
SleepLock(c, p) ==
  /\ At(c, p, "sl_acq")
  /\ Take(c, p)
  /\ Goto(p, "sl_rel")
  /\ UNCHANGED <<cpuvars, ret, slk, sav, state, chan, devvars>>

(* ... release(lk) ... *)
SleepRelease(c, p) ==
  /\ At(c, p, "sl_rel")
  /\ Drop(c, slk[p])
  /\ Goto(p, "sl_set")
  /\ UNCHANGED <<cpuvars, ret, slk, sav, state, chan, devvars>>

(* ... p->chan = chan; p->state = SLEEPING. *)
SleepSet(c, p) ==
  /\ Alive
  /\ At(c, p, "sl_set")
  /\ chan' = [chan EXCEPT ![p] = slk[p]]
  /\ state' = [state EXCEPT ![p] = "SLEEPING"]
  /\ Goto(p, "sl_sched")
  /\ UNCHANGED <<spinvars, cpuvars, ret, slk, sav, devvars, panicked>>

(* yield(): acquire(&p->lock); p->state = RUNNABLE. *)
YieldSet(c, p) ==
  /\ At(c, p, "y_acq")
  /\ Take(c, p)
  /\ state' = [state EXCEPT ![p] = "RUNNABLE"]
  /\ Goto(p, "y_sched")
  /\ UNCHANGED <<cpuvars, ret, slk, sav, chan, devvars>>

(* sched(): the four checks, intena = mycpu()->intena, and swtch() to the *)
(* scheduler of this CPU.                                                 *)
MaySched(c, p) == lock[p] = c /\ noff[c] = 1 /\ state[p] # "RUNNING" /\ intr[c] = 0

SchedOut(c, p) ==
  /\ Alive
  /\ At(c, p, "sl_sched") \/ At(c, p, "y_sched")
  /\ panicked' = IF MaySched(c, p) THEN "none" ELSE "sched"
  /\ sav' = [sav EXCEPT ![p] = intena[c]]
  /\ on' = [on EXCEPT ![c] = None]
  /\ Goto(p, IF pc[p] = "sl_sched" THEN "sl_back" ELSE "y_back")
  /\ UNCHANGED <<spinvars, cproc, spc, sidx, hpc, widx, ret, slk, state, chan, devvars>>

(* Mutant: sched() does not restore intena. *)
SchedInNoRestore(c, p) ==
  /\ Alive
  /\ At(c, p, "sl_back") \/ At(c, p, "y_back")
  /\ sav' = [sav EXCEPT ![p] = 0]
  /\ chan' = IF pc[p] = "sl_back" THEN [chan EXCEPT ![p] = None] ELSE chan
  /\ Goto(p, IF pc[p] = "sl_back" THEN "sl_done" ELSE "y_done")
  /\ UNCHANGED <<lock, want, noff, intena, intr, cpuvars, ret, slk, state, devvars, panicked>>

(* swtch() has returned in sched(), perhaps on another CPU:              *)
(* mycpu()->intena = intena; sleep() also sets p->chan = 0.              *)
SchedIn(c, p) ==
  /\ Alive
  /\ At(c, p, "sl_back") \/ At(c, p, "y_back")
  /\ intena' = [intena EXCEPT ![c] = sav[p]]
  /\ sav' = [sav EXCEPT ![p] = 0]
  /\ chan' = IF pc[p] = "sl_back" THEN [chan EXCEPT ![p] = None] ELSE chan
  /\ Goto(p, IF pc[p] = "sl_back" THEN "sl_done" ELSE "y_done")
  /\ UNCHANGED <<lock, want, noff, intr, cpuvars, ret, slk, state, devvars, panicked>>

(* sleep(): release(&p->lock), then acquire(lk) and the caller's loop. *)
SleepDone(c, p) ==
  /\ At(c, p, "sl_done")
  /\ Drop(c, p)
  /\ Goto(p, IF slk[p] = BUFLK THEN "as_acq" ELSE "v_loop")
  /\ slk' = [slk EXCEPT ![p] = BUFLK]
  /\ UNCHANGED <<cpuvars, ret, sav, state, chan, devvars>>

(* yield(): release(&p->lock). *)
YieldDone(c, p) ==
  /\ At(c, p, "y_done")
  /\ Drop(c, p)
  /\ Goto(p, "y_ret")
  /\ UNCHANGED <<cpuvars, ret, slk, sav, state, chan, devvars>>

(* kerneltrap() restores sstatus and sret resumes the preempted code. *)
TrapReturn(c, p) ==
  /\ Alive
  /\ At(c, p, "y_ret")
  /\ intr' = [intr EXCEPT ![c] = 1]
  /\ Goto(p, ret[p])
  /\ ret' = [ret EXCEPT ![p] = "run"]
  /\ UNCHANGED <<lock, want, noff, intena, cpuvars, slk, sav, state, chan, devvars, panicked>>

-----------------------------------------------------------------------------
(* Interrupts, taken between two instructions of any code with SIE set *)

(* The device finishes the request and raises its interrupt. *)
DeviceDone ==
  /\ Alive
  /\ dev = "busy"
  /\ dev' = "raised"
  /\ UNCHANGED <<cpuvars, spinvars, procvars, owner, disk, panicked>>

(* A CPU takes the disk interrupt: the hardware clears SIE, and devintr() *)
(* claims it from the PLIC and calls virtio_disk_intr().                  *)
DevIntr(c) ==
  /\ Alive
  /\ intr[c] = 1 /\ hpc[c] = "none" /\ dev = "raised"
  /\ dev' = "idle"
  /\ intr' = [intr EXCEPT ![c] = 0]
  /\ hpc' = [hpc EXCEPT ![c] = "acq"]
  /\ UNCHANGED <<lock, want, noff, intena, cproc, on, spc, sidx, widx, procvars, owner, disk, panicked>>

(* virtio_disk_intr(): b->disk = 0 under vdisk_lock, and wakeup(b) ... *)
IntrDisk(c) ==
  /\ hpc[c] = "acq"
  /\ Take(c, VDISK)
  /\ disk' = 0
  /\ widx' = [widx EXCEPT ![c] = NextWake(c, 1)]
  /\ hpc' = [hpc EXCEPT ![c] = IF NextWake(c, 1) > NPROC THEN "rel" ELSE "wk"]
  /\ UNCHANGED <<cproc, on, spc, sidx, procvars, owner, dev>>

(* ... one process of the table at a time ... *)
IntrWake(c) ==
  /\ hpc[c] = "wk"
  /\ Take(c, widx[c])
  /\ WakeUp(widx[c], VDISK)
  /\ hpc' = [hpc EXCEPT ![c] = "next"]
  /\ UNCHANGED <<cproc, on, spc, sidx, widx, pc, ret, slk, sav, chan, devvars>>

IntrNext(c) ==
  /\ hpc[c] = "next"
  /\ Drop(c, widx[c])
  /\ widx' = [widx EXCEPT ![c] = NextWake(c, @ + 1)]
  /\ hpc' = [hpc EXCEPT ![c] = IF NextWake(c, widx[c] + 1) > NPROC THEN "rel" ELSE "wk"]
  /\ UNCHANGED <<cproc, on, spc, sidx, procvars, devvars>>

(* ... release(&disk.vdisk_lock) ... *)
IntrRelease(c) ==
  /\ hpc[c] = "rel"
  /\ Drop(c, VDISK)
  /\ hpc' = [hpc EXCEPT ![c] = "ret"]
  /\ UNCHANGED <<cproc, on, spc, sidx, widx, procvars, devvars>>

(* ... and kerneltrap() returns to the interrupted code. *)
IntrReturn(c) ==
  /\ Alive
  /\ hpc[c] = "ret"
  /\ intr' = [intr EXCEPT ![c] = 1]
  /\ hpc' = [hpc EXCEPT ![c] = "none"]
  /\ UNCHANGED <<lock, want, noff, intena, cproc, on, spc, sidx, widx, procvars, devvars, panicked>>

(* A timer interrupt: kerneltrap() or usertrap() calls yield() when a     *)
(* process is RUNNING here.  In the scheduler it changes nothing.         *)
Timer(c) ==
  /\ Alive
  /\ intr[c] = 1 /\ hpc[c] = "none"
  /\ cproc[c] # None /\ state[cproc[c]] = "RUNNING"
  /\ intr' = [intr EXCEPT ![c] = 0]
  /\ ret' = [ret EXCEPT ![cproc[c]] = pc[cproc[c]]]
  /\ Goto(cproc[c], "y_acq")
  /\ UNCHANGED <<lock, want, noff, intena, cpuvars, slk, sav, state, chan, devvars, panicked>>

-----------------------------------------------------------------------------
SchedulerStep(c) ==
  \/ SchedLoop(c) \/ SchedSkip(c) \/ SchedRun(c) \/ SchedBack(c) \/ SchedRelease(c)

(* What p does between preemptions. *)
CodeStep(c, p) ==
  \/ Forkret(c, p) \/ Usertrapret(c, p) \/ Syscall(c, p)
  \/ AcquireSleepGet(c, p) \/ AcquireSleepWait(c, p) \/ AcquireSleepDone(c, p)
  \/ Critical(c, p) \/ DiskStart(c, p) \/ DiskAgain(c, p) \/ DiskDone(c, p)
  \/ ReleaseSleep(c, p) \/ ReleaseSleepWake(c, p) \/ ReleaseSleepNext(c, p) \/ ReleaseSleepDone(c, p)
  \/ SleepLock(c, p) \/ SleepRelease(c, p) \/ SleepSet(c, p) \/ SleepDone(c, p)

(* How p gives up the CPU and comes back. *)
SwitchStep(c, p) ==
  \/ YieldSet(c, p) \/ SchedOut(c, p) \/ SchedIn(c, p) \/ YieldDone(c, p) \/ TrapReturn(c, p)

HandlerStep(c) ==
  \/ IntrDisk(c) \/ IntrWake(c) \/ IntrNext(c) \/ IntrRelease(c) \/ IntrReturn(c)

CpuStep(c) ==
  \/ SpinOn(c)
  \/ SchedulerStep(c)
  \/ HandlerStep(c)
  \/ \E p \in Proc : CodeStep(c, p)
  \/ \E p \in Proc : SwitchStep(c, p)

Next ==
  \/ \E c \in CPU : CpuStep(c)
  \/ \E c \in CPU : DevIntr(c)
  \/ \E c \in CPU : Timer(c)
  \/ DeviceDone

Spec == Init /\ [][Next]_vars

Yielding == {"y_acq", "y_sched", "y_back", "y_done", "y_ret"}

(* p executes an instruction of its own, starting an acquire() included. *)
Progress(c, p) ==
  \/ CodeStep(c, p)
  \/ on[c] = p /\ hpc[c] = "none" /\ pc[p] \notin Yielding /\ SpinOn(c)

(* A CPU keeps executing and a spinning one eventually wins the swap; the  *)
(* timer ticks, far enough apart for a process to execute in between; a    *)
(* raised interrupt is taken once some CPU keeps having SIE set.           *)
Fairness ==
  /\ \A c \in CPU : SF_vars(CpuStep(c)) /\ SF_vars(Timer(c))
  /\ \A p \in Proc : SF_vars(\E c \in CPU : Progress(c, p))
  /\ SF_vars(\E c \in CPU : DevIntr(c))
  /\ WF_vars(DeviceDone)

FairSpec == Spec /\ Fairness

-----------------------------------------------------------------------------
(* Properties *)

Labels ==
  {"forkret", "usertrapret", "run", "as_acq", "as_rel", "crit", "v_acq", "v_loop", "v_rel",
   "rs_acq", "rs_wk", "rs_next", "rs_rel", "sl_acq", "sl_rel", "sl_set", "sl_sched", "sl_back",
   "sl_done", "y_acq", "y_sched", "y_back", "y_done", "y_ret"}

(* Every variable stays within the values its C declaration is used with. *)
TypeOK ==
  /\ lock \in [SpinLock -> CPU \cup {NoCPU}]
  /\ want \in [CPU -> SpinLock \cup {None}]
  /\ noff \in [CPU -> 0 .. 3]
  /\ intena \in [CPU -> 0 .. 1]
  /\ intr \in [CPU -> 0 .. 1]
  /\ cproc \in [CPU -> Proc \cup {None}]
  /\ on \in [CPU -> Proc \cup {None}]
  /\ spc \in [CPU -> {"loop", "scan", "back", "rel"}]
  /\ sidx \in [CPU -> 1 .. NPROC + 1]
  /\ hpc \in [CPU -> {"none", "acq", "wk", "next", "rel", "ret"}]
  /\ widx \in [CPU -> 1 .. NPROC + 1]
  /\ pc \in [Proc -> Labels]
  /\ ret \in [Proc -> Labels]
  /\ slk \in [Proc -> Chan]
  /\ sav \in [Proc -> 0 .. 1]
  /\ state \in [Proc -> {"RUNNABLE", "RUNNING", "SLEEPING"}]
  /\ chan \in [Proc -> Chan \cup {None}]
  /\ owner \in Proc \cup {None}
  /\ disk \in 0 .. 1
  /\ dev \in {"idle", "busy", "raised"}

(* A process runs on one CPU at most, also across swtch(): it is RUNNING   *)
(* exactly while a CPU executes its thread, except in the windows where    *)
(* that CPU holds p->lock; so no CPU resumes a context that another is     *)
(* still saving.                                                           *)
OneCPU ==
  /\ \A c, d \in CPU : on[c] = on[d] /\ on[c] # None => c = d
  /\ \A c \in CPU : on[c] # None =>
       cproc[c] = on[c] /\ (state[on[c]] = "RUNNING" \/ lock[on[c]] = c)
  /\ \A p \in Proc : state[p] = "RUNNING" => \E c \in CPU : on[c] = p

Held(c) == {l \in SpinLock : lock[l] = c}

Spinning(c) == IF want[c] = None THEN 0 ELSE 1

(* The label a process's own code is at, whether or not it is preempted. *)
Where(p) == IF pc[p] \in Yielding THEN ret[p] ELSE pc[p]

(* push_off() and pop_off() nest: noff counts the spinlocks of the CPU,    *)
(* interrupts stay off while it is positive, off in trap handlers, and on  *)
(* again whenever a process runs its own code without a spinlock, though   *)
(* it may have slept or yielded and come back on another CPU.              *)
IntrDiscipline ==
  \A c \in CPU :
    /\ noff[c] = Cardinality(Held(c)) + Spinning(c)
    /\ noff[c] > 0 => intr[c] = 0
    /\ hpc[c] # "none" => intr[c] = 0
    /\ on[c] # None /\ hpc[c] = "none" /\ noff[c] = 0 =>
         \/ pc[on[c]] = "usertrapret"
         \/ (intr[c] = 0) = (pc[on[c]] \in {"y_acq", "y_ret"})

(* The state is well formed: the types, the nesting of push_off() and      *)
(* pop_off() on every CPU, and no panic() of acquire(), release(),         *)
(* pop_off() or sched(): no interrupt handler tries to take a lock its CPU *)
(* holds, and sched() is entered with p->lock alone.                       *)
WellFormed == TypeOK /\ IntrDiscipline /\ panicked = "none"

(* p has decided to sleep under l and has not been woken yet. *)
Sleeps(p, l) ==
  /\ slk[p] = l
  /\ \/ Where(p) \in {"sl_acq", "sl_rel", "sl_set", "sl_sched"}
     \/ pc[p] = "sl_back" /\ state[p] = "SLEEPING"

Releasing == \E p \in Proc : pc[p] \in {"rs_wk", "rs_next", "rs_rel"}

Reporting == \E c \in CPU : hpc[c] \in {"wk", "next", "rel"}

(* sleep() and wakeup() are atomic towards their callers: no wakeup is     *)
(* lost between the test of the condition and p->state = SLEEPING, and the *)
(* sleeplock has one holder.  A release or a disk interrupt takes effect   *)
(* when its wakeup() loop starts; by the end of the loop nobody it found   *)
(* waiting may still be asleep.                                            *)
Mon == INSTANCE Monitor WITH
  holder <- owner,
  waiting <- IF Releasing THEN {} ELSE {p \in Proc : Sleeps(p, BUFLK)},
  busy <- disk,
  iowaiting <- IF Reporting THEN {} ELSE {p \in Proc : Sleeps(p, VDISK)}

SleepAtomic == Mon!Spec

(* Every sleeper is woken: the holder of the sleeplock runs again and      *)
(* releases it, and the disk interrupt is taken by some CPU.               *)
SleepersWake == \A p \in Proc : state[p] = "SLEEPING" ~> state[p] # "SLEEPING"

(* No RUNNABLE process starves: the scan of the table is round robin and   *)
(* the timer takes the CPU back from the others.                           *)
RunnableRuns == \A p \in Proc : state[p] = "RUNNABLE" ~> state[p] = "RUNNING"
====
