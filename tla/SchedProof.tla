----------------------------- MODULE SchedProof -----------------------------
(***************************************************************************)
(* Proofs about Sched, for any number of CPUs and processes: a process is  *)
(* on one CPU at most, also across swtch() (OneCPU), and the spinlock and  *)
(* interrupt discipline holds, with no panic() of acquire(), release(),    *)
(* pop_off() or sched() (WellFormed).  SchedInv has the invariant SInv and *)
(* the steps of a process and of scheduler(); here are the steps of the    *)
(* interrupt handler, acquire() and the interrupts.                        *)
(***************************************************************************)
EXTENDS SchedInv, FiniteSetTheorems

(* A leaf goes to Zenon, and to the SMT solver if Zenon fails.  Leaves     *)
(* that need arithmetic or the theory of functions name the SMT solver,    *)
(* which is tried twice.                                                   *)
USE ZenonT(30), SMTT(30), Z3T(30)

(* The part of CpuInv that is about a CPU in the disk interrupt handler. *)
IntrInv(c) ==
  /\ intr[c] = 0
  /\ want[c] # None => (hpc[c] = "acq" /\ want[c] = VDISK) \/ (hpc[c] = "wk" /\ want[c] = widx[c])
  /\ noff[c] = HandlerDepth(c) + Spinning(c)
  /\ noff[c] > 0 => intena[c] = 0
  /\ hpc[c] \in {"wk", "next"} => widx[c] \in Proc

(* What the handler holds; the code it interrupted holds nothing. *)
IntrHolds(c, l) ==
  \/ hpc[c] \in {"wk", "next", "rel"} /\ l = VDISK
  \/ hpc[c] = "next" /\ l = widx[c]

(* What SInv says of a CPU in the handler. *)
LEMMA IntrBefore ==
  ASSUME SInv, NEW c \in CPU, hpc[c] # "none"
  PROVE  IntrInv(c) /\ \A l : Holds(c, l) <=> IntrHolds(c, l)
<1>1. CpuInv(c)
  BY DEF SInv
<1>2. /\ on[c] = None => spc[c] \in {"loop", "scan"}
      /\ on[c] # None => pc[on[c]] \in Unlocked
  BY <1>1 DEF CpuInv, TrapInv
<1>3. ThreadDepth(c) = 0
  BY <1>2 DEF ThreadDepth, LabelDepth, Unlocked
<1>4. HandlerDepth(c) \in 0 .. 2 /\ Spinning(c) \in 0 .. 1
  BY SMTT(30), Z3T(30) DEF HandlerDepth, Spinning
<1>5. noff[c] = HandlerDepth(c) + Spinning(c)
  BY SMTT(30), Z3T(30), <1>1, <1>3, <1>4 DEF CpuInv, DepthInv
<1>6. IntrInv(c)
  <2>1. intr[c] = 0 /\ (noff[c] > 0 => intena[c] = 0)
    BY <1>1 DEF CpuInv, TrapInv, EnableInv
  <2>2. hpc[c] \in {"wk", "next"} => widx[c] \in Proc
    BY <1>1 DEF CpuInv, WhoInv
  <2>3. want[c] # None => (hpc[c] = "acq" /\ want[c] = VDISK) \/ (hpc[c] = "wk" /\ want[c] = widx[c])
    BY <1>1 DEF CpuInv, DepthInv, Needs
  <2>4. QED BY <1>5, <2>1, <2>2, <2>3 DEF IntrInv
<1>7. \A l : Holds(c, l) <=> IntrHolds(c, l)
  BY <1>2 DEF Holds, ProcHolds, IntrHolds, Unlocked, OwnLocked, BufLocked
<1>8. QED BY <1>6, <1>7

(* A step of the handler: the interrupted code stays where it is. *)
IntrFrame(c) ==
  /\ cproc' = cproc /\ on' = on /\ spc' = spc /\ sidx' = sidx
  /\ pc' = pc /\ ret' = ret /\ slk' = slk /\ sav' = sav
  /\ \A d \in CPU \ {c} : /\ hpc'[d] = hpc[d] /\ widx'[d] = widx[d] /\ want'[d] = want[d]
                          /\ noff'[d] = noff[d] /\ intena'[d] = intena[d] /\ intr'[d] = intr[d]
  /\ \A d \in CPU : on[d] # None => state'[on[d]] = state[on[d]]
  /\ \A q \in Proc : state'[q] = state[q] \/ state'[q] # "RUNNING"
  /\ SpinTypes' /\ CpuTypes' /\ ProcTypes' /\ DevTypes'

(* Such a step disturbs no other CPU. *)
LEMMA IntrFrames ==
  ASSUME NEW c \in CPU, IntrFrame(c)
  PROVE  Frame(c)
BY DEF Frame, IntrFrame

(* After such a step, too, only the handler holds spinlocks. *)
LEMMA IntrHoldsAfter ==
  ASSUME SInv, NEW c \in CPU, hpc[c] # "none", IntrFrame(c)
  PROVE  \A l : Holds(c, l)' <=> IntrHolds(c, l)'
<1>1. /\ on[c] = None => spc[c] \in {"loop", "scan"}
      /\ on[c] # None => pc[on[c]] \in Unlocked
  BY DEF SInv, CpuInv, TrapInv
<1>2. QED BY <1>1 DEF IntrFrame, Holds, ProcHolds, IntrHolds, Unlocked, OwnLocked, BufLocked

(* The invariant after such a step. *)
LEMMA IntrStep ==
  ASSUME SInv, NEW c \in CPU, hpc[c] # "none", hpc'[c] # "none", IntrFrame(c), IntrInv(c)',
         LockInv', panicked' = "none"
  PROVE  SInv'
<1>1. CpuInv(c)
  BY DEF SInv
<1>2. /\ on[c] = None => spc[c] \in {"loop", "scan"}
      /\ on[c] # None => pc[on[c]] \in Unlocked
  BY <1>1 DEF CpuInv, TrapInv
<1>3. ThreadDepth(c)' = 0
  BY <1>2 DEF IntrFrame, ThreadDepth, LabelDepth, Unlocked
<1>4. HandlerDepth(c)' \in 0 .. 2 /\ Spinning(c)' \in 0 .. 1
  BY SMTT(30), Z3T(30) DEF HandlerDepth, Spinning
<1>5. DepthInv(c)'
  BY SMTT(30), Z3T(30), <1>3, <1>4 DEF DepthInv, IntrInv, Needs
<1>6. WhoInv(c)' /\ TrapInv(c)'
  BY <1>1, <1>2 DEF IntrFrame, IntrInv, CpuInv, WhoInv, TrapInv, Unlocked
<1>7. EnableInv(c)' /\ StateInv(c)'
  BY <1>1 DEF IntrFrame, IntrInv, CpuInv, EnableInv, StateInv
<1>8. CpuInv(c)'
  BY <1>5, <1>6, <1>7 DEF CpuInv
<1>9. (\A q \in Proc : ProcInv(q)') /\ Exclusive'
  BY SMTT(30), Z3T(30) DEF SInv, ProcInv, Exclusive, IntrFrame
<1>10. QED BY <1>8, <1>9, IntrFrames, TypesAfter, Compose DEF IntrFrame

(* The steps of the handler that acquire a spinlock l ... *)
IntrTakeMove(c, l) ==
  \/ /\ hpc[c] = "acq" /\ l = VDISK
     /\ hpc'[c] = "rel" \/ (hpc'[c] = "wk" /\ widx'[c] \in Proc)
  \/ hpc[c] = "wk" /\ hpc'[c] = "next" /\ l = widx[c] /\ widx'[c] = widx[c]

(* ... keep SInv. *)
LEMMA IntrTake ==
  ASSUME SInv, NEW c \in CPU, IntrFrame(c), NEW l, Take(c, l), IntrTakeMove(c, l)
  PROVE  SInv'
<1>1. /\ hpc[c] # "none" /\ hpc'[c] # "none" /\ IntrInv(c) /\ LockInv /\ TypeOK /\ SpinTypes
      /\ \A x : (Holds(c, x) <=> IntrHolds(c, x)) /\ (Holds(c, x)' <=> IntrHolds(c, x)')
  BY IntrBefore, IntrHoldsAfter, Types DEF IntrTakeMove, SInv
<1>2. l \in SpinLock /\ l # None
  BY <1>1, Distinct DEF IntrTakeMove, IntrInv, SpinLock
<1>3. /\ want[c] = l /\ want'[c] = None
      /\ noff'[c] = noff[c] /\ intena'[c] = intena[c] /\ intr'[c] = intr[c]
  BY <1>1, <1>2, TakeEffect
<1>4. Spinning(c) = 1 /\ Spinning(c)' = 0 /\ HandlerDepth(c)' = HandlerDepth(c) + 1
  BY SMTT(30), Z3T(30), <1>2, <1>3 DEF IntrTakeMove, HandlerDepth, Spinning
<1>5. HandlerDepth(c) \in 0 .. 1 /\ (hpc'[c] \in {"wk", "next"} => widx'[c] \in Proc)
  BY SMTT(30), Z3T(30), <1>1 DEF IntrTakeMove, HandlerDepth, IntrInv
<1>6. IntrInv(c)'
  BY SMTT(30), Z3T(30), <1>1, <1>3, <1>4, <1>5 DEF IntrInv
<1>7. \A x \in SpinLock : Holds(c, x)' <=> Holds(c, x) \/ x = l
  BY <1>1 DEF IntrHolds, IntrTakeMove
<1>8. LockInv'
  BY <1>1, <1>2, <1>7, IntrFrames, TakeLock
<1>9. QED BY <1>1, <1>6, <1>8, IntrStep DEF Take, SInv

(* The steps of the handler that release a spinlock l ... *)
IntrDropMove(c, l) ==
  \/ /\ hpc[c] = "next" /\ l = widx[c]
     /\ hpc'[c] = "rel" \/ (hpc'[c] = "wk" /\ widx'[c] \in Proc)
  \/ hpc[c] = "rel" /\ hpc'[c] = "ret" /\ l = VDISK

(* ... keep SInv: interrupts stay off. *)
LEMMA IntrDrop ==
  ASSUME SInv, NEW c \in CPU, IntrFrame(c), NEW l, Drop(c, l), IntrDropMove(c, l)
  PROVE  SInv'
<1>1. /\ hpc[c] # "none" /\ hpc'[c] # "none" /\ IntrInv(c) /\ LockInv /\ TypeOK /\ SpinTypes
      /\ \A x : (Holds(c, x) <=> IntrHolds(c, x)) /\ (Holds(c, x)' <=> IntrHolds(c, x)')
      /\ CpuInv(c)
  BY IntrBefore, IntrHoldsAfter, Types DEF IntrDropMove, SInv
<1>2. l \in SpinLock /\ IntrHolds(c, l) /\ (hpc[c] = "next" => widx[c] # VDISK)
  BY <1>1, Distinct DEF IntrDropMove, IntrHolds, IntrInv, SpinLock
<1>3. MayRelease(c, l) /\ Holds(c, l)
  BY <1>1, <1>2, HoldsMayRelease
<1>4. /\ want'[c] = want[c] /\ noff'[c] = noff[c] - 1 /\ intena'[c] = intena[c]
      /\ intr'[c] = (IF noff[c] = 1 /\ intena[c] = 1 THEN 1 ELSE 0) /\ panicked' = "none"
  BY <1>1, <1>2, <1>3, DropEffect
<1>5. /\ want[c] = None /\ HandlerDepth(c)' = HandlerDepth(c) - 1 /\ HandlerDepth(c) \in 1 .. 2
      /\ hpc'[c] \in {"wk", "next"} => widx'[c] \in Proc
  BY SMTT(30), Z3T(30), <1>1 DEF IntrDropMove, HandlerDepth, IntrInv
<1>6. Spinning(c) = 0 /\ Spinning(c)' = 0
  BY <1>4, <1>5 DEF Spinning
<1>7. IntrInv(c)'
  BY SMTT(30), Z3T(30), <1>1, <1>4, <1>5, <1>6 DEF IntrInv
<1>8. \A x \in SpinLock : Holds(c, x)' <=> Holds(c, x) /\ x # l
  BY SMTT(30), Z3T(30), <1>1, <1>2 DEF IntrHolds, IntrDropMove
<1>9. LockInv'
  BY <1>1, <1>2, <1>3, <1>8, IntrFrames, DropLock
<1>10. QED BY <1>1, <1>4, <1>7, <1>9, IntrStep

(* virtio_disk_intr() up to the first process of wakeup() keeps SInv. *)
LEMMA IntrDiskInv ==
  ASSUME SInv, NEW c \in CPU, IntrDisk(c)
  PROVE  SInv'
<1>1. SpinTypes /\ CpuTypes /\ ProcTypes /\ DevTypes /\ VDISK \in SpinLock
  BY Types, Distinct DEF SInv
<1>2. /\ NextWake(c, 1) \in 1 .. NPROC + 1
      /\ ~ (NextWake(c, 1) > NPROC) => NextWake(c, 1) \in Proc
  <2>1. 1 \in 1 .. NPROC + 1 BY SMTT(30), Z3T(30), ProcAssumption
  <2>2. QED BY <1>1, <2>1, NextWakeRange
<1>3. IntrFrame(c)
  BY SMTT(30), Z3T(30), <1>1, <1>2
    DEF IntrFrame, IntrDisk, Take, procvars, SpinTypes, CpuTypes, ProcTypes, DevTypes
<1>4. QED BY <1>1, <1>2, <1>3, IntrTake DEF IntrDisk, IntrTakeMove, CpuTypes

(* wakeup() of one process, in the handler, keeps SInv. *)
LEMMA IntrWakeInv ==
  ASSUME SInv, NEW c \in CPU, IntrWake(c)
  PROVE  SInv'
<1>1. SpinTypes /\ CpuTypes /\ ProcTypes /\ DevTypes /\ widx[c] \in Proc /\ widx[c] \in SpinLock
  BY Types, IntrBefore DEF SInv, IntrWake, IntrInv, SpinLock
<1>2. /\ \A d \in CPU : on[d] # None => state'[on[d]] = state[on[d]]
      /\ \A r \in Proc : state'[r] = state[r] \/ state'[r] # "RUNNING"
      /\ state' \in [Proc -> {"RUNNABLE", "RUNNING", "SLEEPING"}]
  BY <1>1, WakeFrame DEF IntrWake, Take
<1>3. IntrFrame(c)
  BY <1>1, <1>2 DEF IntrFrame, IntrWake, Take, devvars, SpinTypes, CpuTypes, ProcTypes, DevTypes
<1>4. QED BY <1>1, <1>3, IntrTake DEF IntrWake, IntrTakeMove, CpuTypes

(* The loop of wakeup() goes on, in the handler, and keeps SInv. *)
LEMMA IntrNextInv ==
  ASSUME SInv, NEW c \in CPU, IntrNext(c)
  PROVE  SInv'
<1>1. SpinTypes /\ CpuTypes /\ ProcTypes /\ DevTypes /\ widx[c] \in Proc /\ noff[c] >= 1
  BY SMTT(30), Z3T(30), Types, IntrBefore DEF SInv, IntrNext, IntrInv, HandlerDepth, Spinning
<1>2. /\ NextWake(c, widx[c] + 1) \in 1 .. NPROC + 1
      /\ ~ (NextWake(c, widx[c] + 1) > NPROC) => NextWake(c, widx[c] + 1) \in Proc
  <2>1. widx[c] + 1 \in 1 .. NPROC + 1 BY SMTT(30), Z3T(30), <1>1, ProcAssumption DEF Proc
  <2>2. QED BY <1>1, <2>1, NextWakeRange
<1>3. CpuTypes' /\ SpinTypes'
  <2>1. PICK l \in SpinLock : l = widx[c] /\ Drop(c, l)
    BY <1>1 DEF IntrNext, SpinLock
  <2>2. SpinTypes' BY SMTT(30), Z3T(30), <1>1, <2>1 DEF Drop, SpinTypes
  <2>3. widx' \in [CPU -> 1 .. NPROC + 1]
    BY <1>1, <1>2 DEF IntrNext, CpuTypes
  <2>4. QED BY <1>1, <2>2, <2>3 DEF IntrNext, CpuTypes
<1>4. IntrFrame(c)
  BY SMTT(30), Z3T(30), <1>1, <1>3
    DEF IntrFrame, IntrNext, Drop, procvars, devvars, SpinTypes, CpuTypes, ProcTypes,
     DevTypes
<1>5. QED BY <1>1, <1>2, <1>4, IntrDrop DEF IntrNext, IntrDropMove, CpuTypes

(* The release() of vdisk_lock leaves interrupts off and keeps SInv. *)
LEMMA IntrReleaseInv ==
  ASSUME SInv, NEW c \in CPU, IntrRelease(c)
  PROVE  SInv'
<1>1. SpinTypes /\ CpuTypes /\ ProcTypes /\ DevTypes /\ noff[c] >= 1 /\ VDISK \in SpinLock
  BY SMTT(30), Z3T(30), Types, IntrBefore, Distinct
    DEF SInv, IntrRelease, IntrInv, HandlerDepth, Spinning
<1>2. IntrFrame(c)
  BY SMTT(30), Z3T(30), <1>1
    DEF IntrFrame, IntrRelease, Drop, procvars, devvars, SpinTypes, CpuTypes, ProcTypes,
     DevTypes
<1>3. QED BY <1>1, <1>2, IntrDrop DEF IntrRelease, IntrDropMove, CpuTypes

(* The interrupted code goes on with interrupts on, as it was. *)
LEMMA IntrReturnInv ==
  ASSUME SInv, NEW c \in CPU, IntrReturn(c)
  PROVE  SInv'
<1>1. /\ hpc[c] = "ret" /\ IntrInv(c) /\ (\A l : Holds(c, l) <=> IntrHolds(c, l))
      /\ LockInv /\ TypeOK /\ SpinTypes /\ CpuTypes /\ ProcTypes /\ DevTypes /\ CpuInv(c)
  BY IntrBefore, Types DEF IntrReturn, SInv
<1>2. IntrFrame(c)
  BY SMTT(30), Z3T(30), <1>1
    DEF IntrFrame, IntrReturn, procvars, devvars, SpinTypes, CpuTypes, ProcTypes, DevTypes
<1>3. hpc'[c] = "none" /\ want'[c] = None /\ noff'[c] = 0 /\ intr'[c] = 1
  BY SMTT(30), Z3T(30), <1>1 DEF IntrReturn, IntrInv, HandlerDepth, Spinning, SpinTypes, CpuTypes
<1>4. /\ on[c] = None => spc[c] \in {"loop", "scan"}
      /\ on[c] # None => pc[on[c]] \in Unlocked
  BY <1>1 DEF CpuInv, TrapInv
<1>5. CpuInv(c)'
  <2>1. ThreadDepth(c)' = 0
    BY <1>2, <1>4 DEF IntrFrame, ThreadDepth, LabelDepth, Unlocked
  <2>2. HandlerDepth(c)' = 0 /\ Spinning(c)' = 0
    BY <1>3 DEF HandlerDepth, Spinning
  <2>3. DepthInv(c)'
    BY SMTT(30), Z3T(30), <1>3, <2>1, <2>2 DEF DepthInv
  <2>4. WhoInv(c)' /\ TrapInv(c)' /\ StateInv(c)'
    BY <1>1, <1>2, <1>3, <1>4 DEF IntrFrame, CpuInv, WhoInv, TrapInv, StateInv, Unlocked
  <2>5. EnableInv(c)'
    BY SMTT(30), Z3T(30), <1>2, <1>3, <1>4 DEF IntrFrame, EnableInv, Unlocked
  <2>6. QED BY <2>3, <2>4, <2>5 DEF CpuInv
<1>6. LockInv'
  <2>1. \A x \in SpinLock : Holds(c, x)' <=> Holds(c, x)
    BY <1>1, <1>2, <1>3, IntrHoldsAfter DEF IntrHolds
  <2>2. QED BY <1>1, <1>2, <2>1, IntrFrames, KeepLocks DEF IntrReturn
<1>7. (\A q \in Proc : ProcInv(q)') /\ Exclusive'
  BY <1>2 DEF SInv, ProcInv, Exclusive, IntrFrame
<1>8. panicked' = "none"
  BY DEF IntrReturn, SInv
<1>9. QED BY <1>2, <1>5, <1>6, <1>7, <1>8, IntrFrames, TypesAfter, Compose DEF IntrFrame

-----------------------------------------------------------------------------
(* With interrupts on, a CPU holds no spinlock and spins for none. *)
LEMMA IntrOn ==
  ASSUME SInv, NEW c \in CPU, intr[c] = 1
  PROVE  /\ hpc[c] = "none" /\ want[c] = None /\ noff[c] = 0
         /\ on[c] = None => spc[c] \in {"loop", "scan"}
         /\ on[c] # None => pc[on[c]] \in Unlocked
         /\ \A l : ~ Holds(c, l)
<1>1. CpuInv(c) /\ SpinTypes /\ CpuTypes /\ ProcTypes
  BY Types DEF SInv
<1>2. hpc[c] = "none" /\ noff[c] = 0
  BY SMTT(30), Z3T(30), <1>1 DEF CpuInv, TrapInv, DepthInv, SpinTypes
<1>3. ThreadDepth(c) \in 0 .. 2 /\ HandlerDepth(c) = 0 /\ Spinning(c) \in 0 .. 1
  BY SMTT(30), Z3T(30), <1>2, DepthRange DEF ThreadDepth, HandlerDepth, Spinning
<1>4. ThreadDepth(c) = 0 /\ Spinning(c) = 0
  BY SMTT(30), Z3T(30), <1>1, <1>2, <1>3 DEF CpuInv, DepthInv
<1>5. want[c] = None
  BY SMTT(30), Z3T(30), <1>4 DEF Spinning
<1>6. on[c] = None => spc[c] \in {"loop", "scan"}
  BY SMTT(30), Z3T(30), <1>1, <1>4 DEF ThreadDepth, CpuTypes
<1>7. on[c] # None => pc[on[c]] \in Unlocked
  <2>1. SUFFICES ASSUME on[c] # None PROVE pc[on[c]] \in Unlocked
    OBVIOUS
  <2>2. pc[on[c]] \in Unlocked \cup {"y_acq", "y_ret"}
    BY SMTT(30), Z3T(30), <1>4, <2>1 DEF ThreadDepth, LabelDepth
  <2>3. pc[on[c]] \notin {"y_acq", "y_ret"}
    BY SMTT(30), Z3T(30), <1>1, <1>2, <2>1 DEF CpuInv, EnableInv
  <2>4. QED BY <2>2, <2>3
<1>8. \A l : ~ Holds(c, l)
  BY <1>2, <1>6, <1>7 DEF Holds, ProcHolds, Unlocked, OwnLocked, BufLocked
<1>9. QED BY <1>2, <1>5, <1>6, <1>7, <1>8

(* A disk interrupt is taken where no spinlock is held, and keeps SInv. *)
LEMMA DevIntrInv ==
  ASSUME SInv, NEW c \in CPU, DevIntr(c)
  PROVE  SInv'
<1>1. /\ hpc[c] = "none" /\ want[c] = None /\ noff[c] = 0
      /\ on[c] = None => spc[c] \in {"loop", "scan"}
      /\ on[c] # None => pc[on[c]] \in Unlocked
      /\ \A l : ~ Holds(c, l)
  BY IntrOn DEF DevIntr
<1>2. LockInv /\ TypeOK /\ SpinTypes /\ CpuTypes /\ ProcTypes /\ DevTypes /\ CpuInv(c)
  BY Types DEF SInv
<1>3. IntrFrame(c)
  BY SMTT(30), Z3T(30), <1>2
    DEF IntrFrame, DevIntr, procvars, SpinTypes, CpuTypes, ProcTypes, DevTypes
<1>4. hpc'[c] = "acq" /\ want'[c] = None /\ noff'[c] = 0 /\ intr'[c] = 0
  BY <1>1, <1>2 DEF DevIntr, SpinTypes, CpuTypes
<1>5. CpuInv(c)'
  <2>1. ThreadDepth(c)' = 0
    BY <1>1, <1>3 DEF IntrFrame, ThreadDepth, LabelDepth, Unlocked
  <2>2. HandlerDepth(c)' = 0 /\ Spinning(c)' = 0
    BY <1>4 DEF HandlerDepth, Spinning
  <2>3. DepthInv(c)'
    BY SMTT(30), Z3T(30), <1>4, <2>1, <2>2 DEF DepthInv
  <2>4. WhoInv(c)' /\ TrapInv(c)' /\ StateInv(c)'
    BY <1>1, <1>2, <1>3, <1>4 DEF IntrFrame, CpuInv, WhoInv, TrapInv, StateInv, Unlocked
  <2>5. EnableInv(c)'
    BY SMTT(30), Z3T(30), <1>4 DEF EnableInv
  <2>6. QED BY <2>3, <2>4, <2>5 DEF CpuInv
<1>6. LockInv'
  <2>1. \A x \in SpinLock : Holds(c, x)' <=> Holds(c, x)
    BY <1>1, <1>3, <1>4 DEF IntrFrame, Holds, ProcHolds, Unlocked, OwnLocked, BufLocked
  <2>2. QED BY <1>2, <1>3, <2>1, IntrFrames, KeepLocks DEF DevIntr
<1>7. (\A q \in Proc : ProcInv(q)') /\ Exclusive'
  BY <1>3 DEF SInv, ProcInv, Exclusive, IntrFrame
<1>8. panicked' = "none"
  BY DEF DevIntr, SInv
<1>9. QED BY <1>3, <1>5, <1>6, <1>7, <1>8, IntrFrames, TypesAfter, Compose DEF IntrFrame

(* A timer interrupt is taken where no spinlock is held; the process       *)
(* yields and SInv holds.                                                  *)
LEMMA TimerInv ==
  ASSUME SInv, NEW c \in CPU, Timer(c)
  PROVE  SInv'
<1>1. /\ hpc[c] = "none" /\ want[c] = None /\ noff[c] = 0
      /\ on[c] = None => spc[c] \in {"loop", "scan"}
      /\ on[c] # None => pc[on[c]] \in Unlocked
      /\ \A l : ~ Holds(c, l)
  BY IntrOn DEF Timer
<1>2. SpinTypes /\ CpuTypes /\ ProcTypes /\ DevTypes /\ CpuInv(c)
  BY Types DEF SInv
<1>3. on[c] # None /\ cproc[c] = on[c]
  BY <1>1, <1>2 DEF CpuInv, WhoInv, Timer
<1>4. PICK p \in Proc : p = on[c]
  BY <1>2, <1>3 DEF CpuTypes
<1>5. pc[p] \in Unlocked /\ state[p] = "RUNNING" /\ cproc[c] = p
  BY <1>1, <1>3, <1>4 DEF Timer
<1>6. ThreadFrame(c, p)
  BY <1>2, <1>3, <1>4, <1>5 DEF ThreadFrame, SInv, Exclusive, Timer, Goto, cpuvars, devvars,
     CpuTypes, ProcTypes, DevTypes, Labels
<1>7. /\ pc'[p] = "y_acq" /\ ret'[p] = pc[p] /\ state'[p] = "RUNNING"
      /\ intr'[c] = 0 /\ SpinTypes'
      /\ \A d \in CPU \ {c} : intena'[d] = intena[d] /\ intr'[d] = intr[d]
  BY SMTT(30), Z3T(30), <1>2, <1>5 DEF Timer, Goto, SpinTypes, ProcTypes
<1>8. Arrived(c, p, "y_acq")
  BY <1>5, <1>7 DEF Arrived, StateAt
<1>9. LabelStep(pc[p], "y_acq", 0)
  <2>1. LabelDepth(pc[p]) = 0
    BY <1>5 DEF LabelDepth, Unlocked
  <2>2. QED BY SMTT(30), Z3T(30), <2>1, LabelDepths DEF LabelStep, SwitchedOut, Yielding
<1>10. \A x \in SpinLock : Holds(c, x)' <=> Holds(c, x)
  BY <1>1, <1>3, <1>4, <1>7 DEF Timer, cpuvars, Holds, ProcHolds, OwnLocked, BufLocked
<1>11. /\ LabelDepth("y_acq") > 0 =>
            intr'[c] = 0 /\ intena'[c] = IF "y_acq" \in Yielding THEN 0 ELSE 1
       /\ LabelDepth("y_acq") = 0 => intr'[c] = IF "y_acq" \in {"y_acq", "y_ret"} THEN 0 ELSE 1
  BY SMTT(30), Z3T(30), <1>7, LabelDepths
<1>12. lock' = lock /\ want' = want /\ noff' = noff /\ panicked' = panicked
  BY DEF Timer
<1>13. QED BY <1>1, <1>4, <1>6, <1>7, <1>8, <1>9, <1>10, <1>11, <1>12, KeepStep

(* No code acquires a spinlock that its CPU holds. *)
LEMMA NeedsNotHeld ==
  ASSUME SInv, NEW c \in CPU, NEW l \in SpinLock, Needs(c, l)
  PROVE  lock[l] # c
<1>1. CpuTypes /\ ProcTypes
  BY Types DEF SInv
<1>2. CASE hpc[c] # "none"
  <2>1. IntrInv(c) /\ (Holds(c, l) <=> IntrHolds(c, l))
    BY <1>2, IntrBefore
  <2>2. ~ IntrHolds(c, l)
    BY <1>2, <2>1, Distinct DEF Needs, IntrHolds, IntrInv
  <2>3. QED BY <2>1, <2>2 DEF SInv, LockInv
<1>3. CASE hpc[c] = "none" /\ on[c] = None
  BY <1>3 DEF SInv, LockInv, Needs, Holds
<1>4. CASE hpc[c] = "none" /\ on[c] # None
  <2>1. PICK p \in Proc : p = on[c]
    BY <1>1, <1>4 DEF CpuTypes
  <2>2. ThreadInv(c, p) /\ ProcNeeds(c, p, l) /\ slk[p] \in Chan
    BY <1>1, <1>4, <2>1, ThreadBefore DEF Needs, ProcTypes
  <2>3. ~ ProcHolds(c, p, l)
    BY <2>2, Distinct DEF ThreadInv, ProcNeeds, ProcHolds, Chan, OwnLocked, BufLocked
  <2>4. QED BY <1>4, <2>1, <2>3 DEF SInv, LockInv, Holds
<1>5. QED BY <1>2, <1>3, <1>4

(* push_off() and the check of holding() in acquire() keep SInv: no        *)
(* panic().                                                                *)
LEMMA SpinOnInv ==
  ASSUME SInv, NEW c \in CPU, SpinOn(c)
  PROVE  SInv'
<1>1. LockInv /\ TypeOK /\ SpinTypes /\ CpuTypes /\ ProcTypes /\ DevTypes /\ CpuInv(c)
  BY Types DEF SInv
<1>2. PICK l \in SpinLock : /\ Needs(c, l) /\ want' = [want EXCEPT ![c] = l]
                            /\ panicked' = IF lock[l] = c THEN "acquire" ELSE "none"
  BY DEF SpinOn
<1>3. panicked' = "none"
  BY <1>2, NeedsNotHeld
<1>4. /\ want[c] = None /\ want'[c] = l /\ noff'[c] = noff[c] + 1 /\ intr'[c] = 0
      /\ intena'[c] = IF noff[c] = 0 THEN intr[c] ELSE intena[c]
  BY <1>1, <1>2 DEF SpinOn, SpinTypes
<1>5. noff[c] = ThreadDepth(c) + HandlerDepth(c) /\ noff[c] \in 0 .. 2
  <2>1. Spinning(c) = 0
    BY <1>4 DEF Spinning
  <2>2. /\ ThreadDepth(c) \in 0 .. 2 /\ HandlerDepth(c) \in 0 .. 2
        /\ hpc[c] # "none" => ThreadDepth(c) = 0
        /\ hpc[c] = "none" => HandlerDepth(c) = 0
    <3>1. ThreadDepth(c) \in 0 .. 2 /\ HandlerDepth(c) \in 0 .. 2
      BY SMTT(30), Z3T(30), DepthRange DEF ThreadDepth, HandlerDepth
    <3>2. hpc[c] = "none" => HandlerDepth(c) = 0
      BY DEF HandlerDepth
    <3>3. hpc[c] # "none" => ThreadDepth(c) = 0
      BY <1>1 DEF CpuInv, TrapInv, ThreadDepth, LabelDepth, Unlocked
    <3>4. QED BY <3>1, <3>2, <3>3
  <2>3. QED BY SMTT(30), Z3T(30), <1>1, <2>1, <2>2 DEF CpuInv, DepthInv
<1>6. SpinTypes'
  BY SMTT(30), Z3T(30), <1>1, <1>2, <1>5 DEF SpinOn, SpinTypes
<1>7. CpuTypes' /\ ProcTypes' /\ DevTypes'
  BY <1>1 DEF SpinOn, cpuvars, procvars, devvars, CpuTypes, ProcTypes, DevTypes
<1>8. Frame(c)
  BY <1>1, <1>2 DEF Frame, SpinOn, cpuvars, procvars, SpinTypes
<1>9. CpuInv(c)'
  <2>1. l # None
    BY Distinct
  <2>2. Needs(c, l)'
    BY <1>2 DEF Needs, ProcNeeds, SpinOn, cpuvars, procvars
  <2>3. DepthInv(c)'
    <3>1. ThreadDepth(c)' = ThreadDepth(c) /\ HandlerDepth(c)' = HandlerDepth(c)
      BY DEF ThreadDepth, HandlerDepth, SpinOn, cpuvars, procvars
    <3>2. Spinning(c)' = 1
      BY <1>4, <2>1 DEF Spinning
    <3>3. QED BY <1>4, <1>5, <2>2, <3>1, <3>2 DEF DepthInv
  <2>4. WhoInv(c)' /\ TrapInv(c)' /\ StateInv(c)'
    BY <1>1, <1>4 DEF CpuInv, WhoInv, TrapInv, StateInv, SpinOn, cpuvars, procvars
  <2>5. EnableInv(c)'
    <3>1. noff'[c] > 0
      BY SMTT(30), Z3T(30), <1>4, <1>5
    <3>2. hpc[c] # "none" => intena'[c] = 0
      BY SMTT(30), Z3T(30), <1>1, <1>4, <1>5 DEF CpuInv, TrapInv, EnableInv
    <3>3. ASSUME hpc[c] = "none", on[c] # None, pc[on[c]] \notin SwitchedOut
          PROVE  intena'[c] = IF pc[on[c]] \in Yielding THEN 0 ELSE 1
      <4>1. pc[on[c]] # "usertrapret" /\ (pc[on[c]] \in Yielding <=> pc[on[c]] \in {"y_acq", "y_ret"})
        BY <1>2, <3>3 DEF Needs, ProcNeeds, Yielding
      <4>2. noff[c] = 0 => intr[c] = IF pc[on[c]] \in {"y_acq", "y_ret"} THEN 0 ELSE 1
        BY <1>1, <3>3, <4>1 DEF CpuInv, EnableInv
      <4>3. noff[c] > 0 => intena[c] = IF pc[on[c]] \in Yielding THEN 0 ELSE 1
        BY <1>1, <3>3 DEF CpuInv, EnableInv
      <4>4. QED BY SMTT(30), Z3T(30), <1>4, <1>5, <4>1, <4>2, <4>3
    <3>4. hpc' = hpc /\ on' = on /\ pc' = pc
      BY DEF SpinOn, cpuvars, procvars
    <3>5. QED BY SMTT(30), Z3T(30), <3>1, <3>2, <3>3, <3>4 DEF EnableInv
  <2>6. QED BY <2>3, <2>4, <2>5 DEF CpuInv
<1>10. LockInv'
  <2>1. \A x \in SpinLock : Holds(c, x)' <=> Holds(c, x)
    BY SMTT(30), Z3T(30) DEF Holds, ProcHolds, SpinOn, cpuvars, procvars
  <2>2. QED BY <1>1, <1>8, <2>1, KeepLocks DEF SpinOn
<1>11. (\A q \in Proc : ProcInv(q)') /\ Exclusive'
  BY DEF SInv, ProcInv, Exclusive, SpinOn, cpuvars, procvars
<1>12. QED BY <1>3, <1>6, <1>7, <1>8, <1>9, <1>10, <1>11, TypesAfter, Compose

(* A step that changes nothing but the device. *)
LEMMA IdleInvariant ==
  ASSUME SInv, UNCHANGED <<cpuvars, spinvars, procvars, panicked>>, DevTypes'
  PROVE  SInv'
<1>1. TypeOK'
  BY Types, TypesAfter DEF SInv, cpuvars, spinvars, procvars, SpinTypes, CpuTypes, ProcTypes
<1>2. LockInv' /\ Exclusive' /\ panicked' = "none" /\ \A p \in Proc : ProcInv(p)'
  BY SMTT(30), Z3T(30)
    DEF SInv, LockInv, Holds, ProcHolds, Exclusive, ProcInv, cpuvars, spinvars, procvars
<1>3. ASSUME NEW c \in CPU PROVE CpuInv(c)'
  BY <1>3 DEF SInv, CpuInv, WhoInv, TrapInv, DepthInv, EnableInv, StateInv, ThreadDepth,
     HandlerDepth, Spinning, Needs, ProcNeeds, cpuvars, spinvars, procvars
<1>4. QED BY <1>1, <1>2, <1>3 DEF SInv

-----------------------------------------------------------------------------
(* The invariant holds when the CPUs enter scheduler(). *)
LEMMA InitSInv == Init => SInv
<1>1. SUFFICES ASSUME Init PROVE SInv
  OBVIOUS
<1>2. TypeOK
  BY SMTT(30), Z3T(30), <1>1, ProcAssumption DEF Init, TypeOK, Proc, SpinLock, Chan, Labels, None
<1>3. LockInv
  BY <1>1, CpuAssumption DEF Init, LockInv, Holds
<1>4. ASSUME NEW c \in CPU PROVE CpuInv(c)
  BY SMTT(30), Z3T(30), <1>1, <1>4, ProcAssumption
    DEF Init, CpuInv, WhoInv, TrapInv, DepthInv, EnableInv, StateInv,
     ThreadDepth,
     HandlerDepth, Spinning
<1>5. ASSUME NEW p \in Proc PROVE ProcInv(p)
  BY <1>1, <1>5 DEF Init, ProcInv, SwitchedOut, Yielding
<1>6. QED BY <1>1, <1>2, <1>3, <1>4, <1>5 DEF Init, SInv, Exclusive

(* Every step keeps it. *)
LEMMA NextSInv == SInv /\ [Next]_vars => SInv'
<1>1. SUFFICES ASSUME SInv, [Next]_vars PROVE SInv'
  OBVIOUS
<1>2. CASE \E c \in CPU : SchedulerStep(c)
  BY <1>1, <1>2, SchedLoopInv, SchedSkipInv, SchedRunInv, SchedBackInv, SchedReleaseInv DEF
     SchedulerStep
<1>3. CASE \E c \in CPU : HandlerStep(c)
  BY <1>1, <1>3, IntrDiskInv, IntrWakeInv, IntrNextInv, IntrReleaseInv, IntrReturnInv DEF
     HandlerStep
<1>4. CASE \E c \in CPU, p \in Proc : CodeStep(c, p)
  BY <1>1, <1>4, ForkretInv, UsertrapretInv, SyscallInv, AcquireSleepGetInv, AcquireSleepWaitInv,
     AcquireSleepDoneInv, CriticalInv, DiskStartInv, DiskAgainInv, DiskDoneInv, ReleaseSleepInv,
     ReleaseSleepWakeInv, ReleaseSleepNextInv, ReleaseSleepDoneInv, SleepLockInv, SleepReleaseInv,
     SleepSetInv, SleepDoneInv DEF CodeStep
<1>5. CASE \E c \in CPU, p \in Proc : SwitchStep(c, p)
  BY <1>1, <1>5, YieldSetInv, SchedOutInv, SchedInInv, YieldDoneInv, TrapReturnInv DEF SwitchStep
<1>6. CASE \E c \in CPU : SpinOn(c) \/ DevIntr(c) \/ Timer(c)
  BY <1>1, <1>6, SpinOnInv, DevIntrInv, TimerInv
<1>7. CASE DeviceDone
  BY <1>1, <1>7, IdleInvariant, Types DEF SInv, DeviceDone, DevTypes
<1>8. CASE UNCHANGED vars
  BY <1>1, <1>8, IdleInvariant, Types DEF SInv, vars, devvars, DevTypes
<1>9. QED BY <1>1, <1>2, <1>3, <1>4, <1>5, <1>6, <1>7, <1>8 DEF Next, CpuStep

(* So it always holds. *)
LEMMA SInvAlways == Spec => []SInv
BY InitSInv, NextSInv, PTL DEF Spec

(* However many CPUs and processes there are, scheduler(), swtch(),        *)
(* sched(), sleep(), wakeup() and yield() never let two CPUs run one       *)
(* process, and p->state and p->lock tell where it is.                     *)
THEOREM OneCPUAlways == Spec => []OneCPU
<1>1. SInv => OneCPU
  <2>1. SUFFICES ASSUME SInv PROVE OneCPU
    OBVIOUS
  <2>2. ASSUME NEW c \in CPU, on[c] # None
        PROVE  cproc[c] = on[c] /\ (state[on[c]] = "RUNNING" \/ lock[on[c]] = c)
    <3>1. cproc[c] = on[c] /\ state[on[c]] = StateAt(pc[on[c]]) /\ on[c] \in SpinLock
      BY <2>1, <2>2 DEF SInv, CpuInv, WhoInv, StateInv, TypeOK, SpinLock
    <3>2. pc[on[c]] \in {"sl_sched", "y_sched"} => Holds(c, on[c])
      BY <2>2 DEF Holds, ProcHolds, OwnLocked
    <3>3. QED BY <2>1, <3>1, <3>2 DEF StateAt, SInv, LockInv
  <2>3. ASSUME NEW p \in Proc, state[p] = "RUNNING" PROVE \E c \in CPU : on[c] = p
    BY <2>1, <2>3 DEF SInv, ProcInv
  <2>4. QED BY <2>1, <2>2, <2>3 DEF OneCPU, SInv, Exclusive
<1>2. QED BY <1>1, SInvAlways, PTL

(* A CPU that holds exactly a, or a and b, holds one spinlock, or two. *)
LEMMA HeldCount ==
  ASSUME LockInv, NEW c \in CPU
  PROVE  /\ (\A l \in SpinLock : ~ Holds(c, l)) => Cardinality(Held(c)) = 0
         /\ \A a \in SpinLock :
              (\A l \in SpinLock : Holds(c, l) <=> l = a) => Cardinality(Held(c)) = 1
         /\ \A a, b \in SpinLock :
              a # b /\ (\A l \in SpinLock : Holds(c, l) <=> l = a \/ l = b) =>
                Cardinality(Held(c)) = 2
<1>1. Held(c) = {l \in SpinLock : Holds(c, l)}
  BY DEF LockInv, Held
<1>2. ASSUME \A l \in SpinLock : ~ Holds(c, l) PROVE Cardinality(Held(c)) = 0
  BY <1>1, <1>2, FS_EmptySet
<1>3. ASSUME NEW a PROVE Cardinality({a}) = 1 /\ IsFiniteSet({a})
  BY FS_Singleton
<1>4. ASSUME NEW a \in SpinLock, \A l \in SpinLock : Holds(c, l) <=> l = a
      PROVE  Cardinality(Held(c)) = 1
  <2>1. Held(c) = {a} BY <1>1, <1>4
  <2>2. QED BY <1>3, <2>1
<1>5. ASSUME NEW a \in SpinLock, NEW b \in SpinLock, a # b,
             \A l \in SpinLock : Holds(c, l) <=> l = a \/ l = b
      PROVE  Cardinality(Held(c)) = 2
  <2>1. Held(c) = {a} \cup {b} /\ b \notin {a}
    BY <1>1, <1>5
  <2>2. Cardinality({a} \cup {b}) = Cardinality({a}) + 1
    BY <1>3, <2>1, FS_AddElement
  <2>3. QED BY SMTT(30), Z3T(30), <1>3, <2>1, <2>2
<1>6. QED BY <1>2, <1>4, <1>5

(* The spinlocks a CPU holds are as many as its code is deep in them. *)
LEMMA HeldDepth ==
  ASSUME SInv, NEW c \in CPU
  PROVE  Cardinality(Held(c)) = ThreadDepth(c) + HandlerDepth(c)
<1>1. LockInv /\ CpuTypes /\ ProcTypes /\ CpuInv(c) /\ BUFLK \in SpinLock /\ VDISK \in SpinLock
  BY Types, Distinct DEF SInv
<1>2. CASE hpc[c] # "none"
  <2>1. /\ \A l : Holds(c, l) <=> IntrHolds(c, l)
        /\ ThreadDepth(c) = 0
        /\ hpc[c] = "next" => widx[c] \in SpinLock /\ widx[c] # VDISK
    BY <1>1, <1>2, IntrBefore, Distinct
    DEF CpuInv, TrapInv, ThreadDepth, LabelDepth, Unlocked, IntrInv, SpinLock
  <2>2. CASE hpc[c] = "next"
    <3>1. \A l \in SpinLock : Holds(c, l) <=> l = VDISK \/ l = widx[c]
      BY <2>1, <2>2 DEF IntrHolds
    <3>2. QED BY SMTT(30), Z3T(30), <1>1, <2>1, <2>2, <3>1, HeldCount DEF HandlerDepth
  <2>3. CASE hpc[c] \in {"wk", "rel"}
    <3>1. \A l \in SpinLock : Holds(c, l) <=> l = VDISK
      BY <2>1, <2>3 DEF IntrHolds
    <3>2. QED BY SMTT(30), Z3T(30), <1>1, <2>1, <2>3, <3>1, HeldCount DEF HandlerDepth
  <2>4. CASE hpc[c] \in {"acq", "ret"}
    <3>1. \A l \in SpinLock : ~ Holds(c, l)
      BY <2>1, <2>4 DEF IntrHolds
    <3>2. QED BY SMTT(30), Z3T(30), <1>1, <2>1, <2>4, <3>1, HeldCount DEF HandlerDepth
  <2>5. QED BY <1>1, <1>2, <2>2, <2>3, <2>4 DEF CpuTypes
<1>3. CASE hpc[c] = "none" /\ on[c] = None
  <2>1. CASE spc[c] \in {"back", "rel"}
    <3>1. sidx[c] \in SpinLock /\ \A l \in SpinLock : Holds(c, l) <=> l = sidx[c]
      BY <1>1, <1>3, <2>1 DEF CpuInv, WhoInv, SpinLock, Holds
    <3>2. QED BY SMTT(30), Z3T(30), <1>1, <1>3, <2>1, <3>1, HeldCount DEF HandlerDepth, ThreadDepth
  <2>2. CASE spc[c] \notin {"back", "rel"}
    <3>1. \A l \in SpinLock : ~ Holds(c, l)
      BY <1>3, <2>2 DEF Holds
    <3>2. QED BY SMTT(30), Z3T(30), <1>1, <1>3, <2>2, <3>1, HeldCount DEF HandlerDepth, ThreadDepth
  <2>3. QED BY <2>1, <2>2
<1>4. CASE hpc[c] = "none" /\ on[c] # None
  <2>1. PICK p \in Proc : p = on[c]
    BY <1>1, <1>4 DEF CpuTypes
  <2>2. /\ ThreadDepth(c) + HandlerDepth(c) = LabelDepth(pc[p])
        /\ pc[p] \in Labels /\ p \in SpinLock /\ slk[p] \in SpinLock /\ slk[p] # p
        /\ pc[p] = "rs_next" => widx[c] \in SpinLock /\ widx[c] # BUFLK
        /\ \A l \in SpinLock : Holds(c, l) <=> ProcHolds(c, p, l)
    <3>1. HandlerDepth(c) = 0 /\ ThreadDepth(c) = LabelDepth(pc[p]) /\ LabelDepth(pc[p]) \in 0 .. 2
      BY <1>4, <2>1, DepthRange DEF HandlerDepth, ThreadDepth
    <3>2. pc[p] = "rs_next" => widx[c] \in Proc
      BY <1>1, <1>4, <2>1 DEF CpuInv, WhoInv
    <3>3. QED BY SMTT(30), Z3T(30), <1>1, <1>4, <2>1, <3>1, <3>2, Distinct
      DEF ProcTypes, SpinLock, Chan, Holds
  <2>3. CASE pc[p] = "rs_next"
    <3>1. \A l \in SpinLock : Holds(c, l) <=> l = BUFLK \/ l = widx[c]
      BY <2>2, <2>3 DEF ProcHolds, OwnLocked, BufLocked
    <3>2. QED BY <1>1, <2>2, <2>3, <3>1, HeldCount, LabelDepths
  <2>4. CASE pc[p] = "sl_rel"
    <3>1. \A l \in SpinLock : Holds(c, l) <=> l = p \/ l = slk[p]
      BY <2>2, <2>4 DEF ProcHolds, OwnLocked, BufLocked
    <3>2. QED BY <1>1, <2>2, <2>4, <3>1, HeldCount, LabelDepths
  <2>5. CASE pc[p] \in {"sl_acq", "v_rel"} \cup (OwnLocked \ {"sl_rel"}) \cup (BufLocked \ {"rs_next"})
    <3>1. PICK a \in SpinLock : a = IF pc[p] \in OwnLocked THEN p
                                    ELSE IF pc[p] \in BufLocked THEN BUFLK
                                    ELSE IF pc[p] = "v_rel" THEN VDISK ELSE slk[p]
      BY <1>1, <2>2
    <3>2. \A l \in SpinLock : Holds(c, l) <=> l = a
      BY <2>2, <2>5, <3>1 DEF ProcHolds, OwnLocked, BufLocked
    <3>3. LabelDepth(pc[p]) = 1
      BY <2>5, LabelDepths DEF OwnLocked, BufLocked
    <3>4. QED BY <1>1, <2>2, <3>2, <3>3, HeldCount
  <2>6. CASE pc[p] \in Unlocked \cup {"y_acq", "y_ret"}
    <3>1. (\A l \in SpinLock : ~ Holds(c, l)) /\ LabelDepth(pc[p]) = 0
      BY <2>2, <2>6 DEF ProcHolds, OwnLocked, BufLocked, Unlocked, LabelDepth
    <3>2. QED BY <1>1, <2>2, <3>1, HeldCount
  <2>7. QED
    BY <2>2, <2>3, <2>4, <2>5, <2>6 DEF Labels, OwnLocked, BufLocked, Unlocked
<1>5. QED BY <1>2, <1>3, <1>4

(* However many CPUs and processes there are, push_off() and pop_off()     *)
(* nest, interrupts are off while a spinlock is held and on again in a     *)
(* process's own code, and acquire(), release(), pop_off() and sched()     *)
(* never panic().                                                          *)
THEOREM WellFormedAlways == Spec => []WellFormed
<1>1. SInv => WellFormed
  <2>1. SUFFICES ASSUME SInv PROVE WellFormed
    OBVIOUS
  <2>2. ASSUME NEW c \in CPU
        PROVE  /\ noff[c] = Cardinality(Held(c)) + Spinning(c)
               /\ noff[c] > 0 => intr[c] = 0
               /\ hpc[c] # "none" => intr[c] = 0
    BY <2>1, <2>2, HeldDepth DEF SInv, CpuInv, DepthInv, TrapInv
  <2>3. ASSUME NEW c \in CPU, on[c] # None, hpc[c] = "none", noff[c] = 0, pc[on[c]] # "usertrapret"
        PROVE  (intr[c] = 0) = (pc[on[c]] \in {"y_acq", "y_ret"})
    BY SMTT(30), Z3T(30), <2>1, <2>3 DEF SInv, CpuInv, EnableInv
  <2>4. IntrDiscipline
    BY <2>2, <2>3 DEF IntrDiscipline
  <2>5. QED BY <2>1, <2>4 DEF WellFormed, SInv
<1>2. QED BY <1>1, SInvAlways, PTL
====
