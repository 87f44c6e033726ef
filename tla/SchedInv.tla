----------------------------- MODULE SchedInv -------------------------------
(***************************************************************************)
(* The invariant SInv of Sched, and that the steps of a process and of     *)
(* scheduler() keep it.                                                    *)
(*                                                                         *)
(* SInv says, from where the code of a CPU is, exactly which spinlocks it  *)
(* holds (LockInv), how deep push_off() is nested, what the outermost one  *)
(* saved, and that a trap handler interrupted code that holds nothing      *)
(* (CpuInv), and what a switched-out process left behind (ProcInv).        *)
(***************************************************************************)
EXTENDS Sched, TLAPS

(* A leaf goes to Zenon, and to the SMT solver if Zenon fails.  Leaves     *)
(* that need arithmetic or the theory of functions name the SMT solver,    *)
(* which is tried twice.                                                   *)
USE ZenonT(30), SMTT(30), Z3T(30)

(* The labels at which a process holds its own p->lock, ... *)
OwnLocked ==
  {"forkret", "sl_rel", "sl_set", "sl_sched", "sl_back", "sl_done", "y_sched", "y_back", "y_done"}

(* ... at which it holds BUFLK, ... *)
BufLocked == {"as_rel", "rs_wk", "rs_next", "rs_rel"}

(* ... no spinlock and runs with interrupts on, ... *)
Unlocked == {"usertrapret", "run", "as_acq", "crit", "v_acq", "v_loop", "rs_acq"}

(* ... and in the middle of swtch(). *)
SwitchedOut == {"forkret", "sl_back", "y_back"}

ProcHolds(c, p, l) ==
  \/ pc[p] \in OwnLocked /\ l = p
  \/ pc[p] \in BufLocked /\ l = BUFLK
  \/ pc[p] = "v_rel" /\ l = VDISK
  \/ pc[p] \in {"sl_acq", "sl_rel"} /\ l = slk[p]
  \/ pc[p] = "rs_next" /\ l = widx[c]

(* CPU c holds l, by where its thread and its interrupt handler are. *)
Holds(c, l) ==
  \/ on[c] # None /\ ProcHolds(c, on[c], l)
  \/ on[c] = None /\ spc[c] \in {"back", "rel"} /\ l = sidx[c]
  \/ hpc[c] \in {"wk", "next", "rel"} /\ l = VDISK
  \/ hpc[c] = "next" /\ l = widx[c]

(* lk->cpu is exactly that. *)
LockInv == \A c \in CPU, l \in SpinLock : lock[l] = c <=> Holds(c, l)

(* The number of spinlocks held by the thread of the CPU ... *)
LabelDepth(a) ==
  IF a \in {"sl_rel", "rs_next"} THEN 2
  ELSE IF a \in Unlocked \cup {"y_acq", "y_ret"} THEN 0 ELSE 1

ThreadDepth(c) ==
  IF on[c] # None THEN LabelDepth(pc[on[c]])
  ELSE IF spc[c] \in {"back", "rel"} THEN 1 ELSE 0

(* ... and by the interrupt handler on top of it. *)
HandlerDepth(c) ==
  IF hpc[c] = "next" THEN 2 ELSE IF hpc[c] \in {"wk", "rel"} THEN 1 ELSE 0

(* scheduler() and the process on the CPU agree on who runs. *)
WhoInv(c) ==
  /\ on[c] # None => cproc[c] = on[c] /\ sidx[c] = on[c] /\ spc[c] = "back"
  /\ on[c] = None /\ spc[c] # "back" => cproc[c] = None
  /\ spc[c] # "loop" => sidx[c] \in Proc
  /\ hpc[c] \in {"wk", "next"} => widx[c] \in Proc
  /\ on[c] # None /\ pc[on[c]] \in {"rs_wk", "rs_next"} => widx[c] \in Proc

(* A CPU's handler interrupted code that holds no spinlock. *)
TrapInv(c) ==
  hpc[c] # "none" =>
    /\ intr[c] = 0
    /\ on[c] = None => spc[c] \in {"loop", "scan"}
    /\ on[c] # None => pc[on[c]] \in Unlocked

(* push_off() and pop_off(). *)
DepthInv(c) ==
  /\ want[c] # None => Needs(c, want[c])
  /\ noff[c] = ThreadDepth(c) + HandlerDepth(c) + Spinning(c)
  /\ noff[c] > 0 => intr[c] = 0

(* What pop_off() will restore, and whether interrupts are on. *)
EnableInv(c) ==
  /\ hpc[c] # "none" /\ noff[c] > 0 => intena[c] = 0
  /\ hpc[c] = "none" /\ on[c] # None /\ noff[c] > 0 /\ pc[on[c]] \notin SwitchedOut =>
       intena[c] = IF pc[on[c]] \in Yielding THEN 0 ELSE 1
  /\ hpc[c] = "none" /\ on[c] # None /\ noff[c] = 0 /\ pc[on[c]] # "usertrapret" =>
       intr[c] = IF pc[on[c]] \in {"y_acq", "y_ret"} THEN 0 ELSE 1

(* p->state of the process on the CPU. *)
StateAt(a) ==
  IF a = "sl_sched" THEN "SLEEPING" ELSE IF a = "y_sched" THEN "RUNNABLE" ELSE "RUNNING"

StateInv(c) == on[c] # None => state[on[c]] = StateAt(pc[on[c]])

CpuInv(c) == WhoInv(c) /\ TrapInv(c) /\ DepthInv(c) /\ EnableInv(c) /\ StateInv(c)

(* A process on no CPU is switched out, and not RUNNING; sched() saved the *)
(* intena of its push_off(); a preempted process was at a label where      *)
(* interrupts are on.                                                      *)
ProcInv(p) ==
  /\ (\A c \in CPU : on[c] # p) => pc[p] \in SwitchedOut /\ state[p] # "RUNNING"
  /\ pc[p] = "sl_back" => sav[p] = 1
  /\ pc[p] = "y_back" => sav[p] = 0
  /\ pc[p] \in Yielding => ret[p] \in Unlocked

Exclusive == \A c, d \in CPU : on[c] = on[d] /\ on[c] # None => c = d

SInv ==
  /\ TypeOK
  /\ LockInv
  /\ \A c \in CPU : CpuInv(c)
  /\ \A p \in Proc : ProcInv(p)
  /\ Exclusive
  /\ panicked = "none"

-----------------------------------------------------------------------------
(* A step of CPU c leaves the other CPUs and their processes alone. *)
Frame(c) ==
  /\ \A d \in CPU \ {c} :
       /\ want'[d] = want[d] /\ noff'[d] = noff[d] /\ intena'[d] = intena[d] /\ intr'[d] = intr[d]
       /\ cproc'[d] = cproc[d] /\ on'[d] = on[d] /\ spc'[d] = spc[d] /\ sidx'[d] = sidx[d]
       /\ hpc'[d] = hpc[d] /\ widx'[d] = widx[d]
       /\ on[d] # None => /\ pc'[on[d]] = pc[on[d]] /\ slk'[on[d]] = slk[on[d]]
                          /\ state'[on[d]] = state[on[d]]

(* What the other CPUs hold and where they are is as before. *)
LEMMA OthersHold ==
  ASSUME NEW c \in CPU, Frame(c), NEW d \in CPU \ {c}, NEW l
  PROVE  Holds(d, l)' <=> Holds(d, l)
BY SMTT(30), Z3T(30) DEF Frame, Holds, ProcHolds, None

(* A step of CPU c preserves the invariant of every other CPU. *)
LEMMA OthersInv ==
  ASSUME NEW c \in CPU, Frame(c), NEW d \in CPU \ {c}, CpuInv(d)
  PROVE  CpuInv(d)'
<1>1. WhoInv(d)' /\ TrapInv(d)' /\ StateInv(d)'
  BY SMTT(30), Z3T(30) DEF Frame, CpuInv, WhoInv, TrapInv, StateInv, None
<1>2. \A l : Needs(d, l)' <=> Needs(d, l)
  BY SMTT(30), Z3T(30) DEF Frame, Needs, ProcNeeds, None
<1>3. DepthInv(d)' /\ EnableInv(d)'
  BY SMTT(30), Z3T(30), <1>2
    DEF Frame, CpuInv, DepthInv, EnableInv, ThreadDepth, HandlerDepth, Spinning, None
<1>4. QED BY <1>1, <1>3 DEF CpuInv

(* The spinlocks after a step that takes and drops none, ... *)
LEMMA KeepLocks ==
  ASSUME LockInv, NEW c \in CPU, Frame(c), lock' = lock,
         \A l \in SpinLock : Holds(c, l)' <=> Holds(c, l)
  PROVE  LockInv'
<1>1. ASSUME NEW d \in CPU, NEW l \in SpinLock PROVE Holds(d, l)' <=> Holds(d, l)
  BY <1>1, OthersHold
<1>2. QED BY <1>1 DEF LockInv

(* ... after acquire(), ... *)
LEMMA TakeLock ==
  ASSUME TypeOK, LockInv, NEW c \in CPU, Frame(c), NEW l \in SpinLock, Take(c, l),
         \A x \in SpinLock : Holds(c, x)' <=> Holds(c, x) \/ x = l
  PROVE  LockInv'
<1>1. ASSUME NEW d \in CPU \ {c}, NEW x \in SpinLock PROVE Holds(d, x)' <=> Holds(d, x)
  BY <1>1, OthersHold
<1>2. ~ \E d \in CPU : Holds(d, l)
  BY CpuAssumption DEF LockInv, Take
<1>3. ASSUME NEW d \in CPU, NEW x \in SpinLock PROVE lock'[x] = d <=> Holds(d, x)'
  BY SMTT(30), Z3T(30), <1>1, <1>2 DEF LockInv, Take, TypeOK
<1>4. QED BY <1>3 DEF LockInv

(* ... and after release(). *)
LEMMA DropLock ==
  ASSUME TypeOK, LockInv, NEW c \in CPU, Frame(c), NEW l \in SpinLock, Drop(c, l), Holds(c, l),
         \A x \in SpinLock : Holds(c, x)' <=> Holds(c, x) /\ x # l
  PROVE  LockInv'
<1>1. ASSUME NEW d \in CPU \ {c}, NEW x \in SpinLock PROVE Holds(d, x)' <=> Holds(d, x)
  BY <1>1, OthersHold
<1>2. \A d \in CPU : Holds(d, l) => d = c
  BY SMTT(30), Z3T(30) DEF LockInv
<1>3. ASSUME NEW d \in CPU, NEW x \in SpinLock PROVE lock'[x] = d <=> Holds(d, x)'
  BY SMTT(30), Z3T(30), <1>1, <1>2, CpuAssumption DEF LockInv, Drop, TypeOK
<1>4. QED BY <1>3 DEF LockInv

(* A CPU may release() what it holds. *)
LEMMA HoldsMayRelease ==
  ASSUME TypeOK, LockInv, NEW c \in CPU, CpuInv(c), NEW l \in SpinLock, Holds(c, l)
  PROVE  MayRelease(c, l)
<1>1. ThreadDepth(c) + HandlerDepth(c) >= 1
  BY SMTT(30), Z3T(30)
    DEF Holds, ProcHolds, ThreadDepth, LabelDepth, HandlerDepth, OwnLocked, BufLocked, Unlocked
<1>2. noff[c] >= 1
  BY SMTT(30), Z3T(30), <1>1 DEF CpuInv, DepthInv, ThreadDepth, LabelDepth, HandlerDepth, Spinning
<1>3. QED BY SMTT(30), Z3T(30), <1>2 DEF MayRelease, LockInv, CpuInv, DepthInv, TypeOK

(* The invariant after a step of CPU c, from what the step may disturb. *)
LEMMA Compose ==
  ASSUME SInv, NEW c \in CPU, Frame(c), TypeOK', LockInv', CpuInv(c)',
         \A q \in Proc : ProcInv(q)', Exclusive', panicked' = "none"
  PROVE  SInv'
<1>1. ASSUME NEW d \in CPU PROVE CpuInv(d)'
  BY OthersInv DEF SInv
<1>2. QED BY <1>1 DEF SInv

-----------------------------------------------------------------------------
(* TypeOK by groups of variables. *)
SpinTypes ==
  /\ lock \in [SpinLock -> CPU \cup {NoCPU}]
  /\ want \in [CPU -> SpinLock \cup {None}]
  /\ noff \in [CPU -> 0 .. 3]
  /\ intena \in [CPU -> 0 .. 1]
  /\ intr \in [CPU -> 0 .. 1]

CpuTypes ==
  /\ cproc \in [CPU -> Proc \cup {None}]
  /\ on \in [CPU -> Proc \cup {None}]
  /\ spc \in [CPU -> {"loop", "scan", "back", "rel"}]
  /\ sidx \in [CPU -> 1 .. NPROC + 1]
  /\ hpc \in [CPU -> {"none", "acq", "wk", "next", "rel", "ret"}]
  /\ widx \in [CPU -> 1 .. NPROC + 1]

ProcTypes ==
  /\ pc \in [Proc -> Labels]
  /\ ret \in [Proc -> Labels]
  /\ slk \in [Proc -> Chan]
  /\ sav \in [Proc -> 0 .. 1]
  /\ state \in [Proc -> {"RUNNABLE", "RUNNING", "SLEEPING"}]
  /\ chan \in [Proc -> Chan \cup {None}]

DevTypes ==
  /\ owner \in Proc \cup {None}
  /\ disk \in 0 .. 1
  /\ dev \in {"idle", "busy", "raised"}

(* TypeOK is the four groups together, ... *)
LEMMA Types == TypeOK <=> SpinTypes /\ CpuTypes /\ ProcTypes /\ DevTypes
BY DEF TypeOK, SpinTypes, CpuTypes, ProcTypes, DevTypes

(* ... also after a step. *)
LEMMA TypesAfter ==
  ASSUME SpinTypes', CpuTypes', ProcTypes', DevTypes'
  PROVE  TypeOK'
BY DEF TypeOK, SpinTypes, CpuTypes, ProcTypes, DevTypes

(* acquire() and release() on the CPU's own variables. *)
LEMMA TakeEffect ==
  ASSUME SpinTypes, NEW c \in CPU, NEW l \in SpinLock, Take(c, l)
  PROVE  /\ SpinTypes'
         /\ want[c] = l /\ want'[c] = None
         /\ noff'[c] = noff[c] /\ intena'[c] = intena[c] /\ intr'[c] = intr[c]
BY DEF SpinTypes, Take

(* release() of a spinlock that the CPU may release: no panic(), and       *)
(* intena is restored with the last one.                                   *)
LEMMA DropEffect ==
  ASSUME SpinTypes, NEW c \in CPU, NEW l \in SpinLock, Drop(c, l), MayRelease(c, l)
  PROVE  /\ SpinTypes'
         /\ intr[c] = 0
         /\ want'[c] = want[c] /\ noff'[c] = noff[c] - 1 /\ intena'[c] = intena[c]
         /\ intr'[c] = IF noff[c] = 1 /\ intena[c] = 1 THEN 1 ELSE 0
         /\ panicked' = "none"
BY SMTT(30), Z3T(30) DEF SpinTypes, Drop, MayRelease

(* CPU c runs process p: the part of CpuInv that is about them. *)
Running(c, p) ==
  on[c] = p /\ hpc[c] = "none" /\ cproc[c] = p /\ sidx[c] = p /\ spc[c] = "back"

ThreadInv(c, p) ==
  /\ want[c] # None => ProcNeeds(c, p, want[c])
  /\ noff[c] = LabelDepth(pc[p]) + Spinning(c)
  /\ noff[c] > 0 => intr[c] = 0
  /\ noff[c] > 0 /\ pc[p] \notin SwitchedOut =>
       intena[c] = IF pc[p] \in Yielding THEN 0 ELSE 1
  /\ noff[c] = 0 /\ pc[p] # "usertrapret" =>
       intr[c] = IF pc[p] \in {"y_acq", "y_ret"} THEN 0 ELSE 1
  /\ pc[p] \in {"rs_wk", "rs_next"} => widx[c] \in Proc
  /\ state[p] = StateAt(pc[p])

(* mycpu()->proc = 0 is no process. *)
LEMMA ProcNotNone == None \notin Proc
BY SMTT(30), Z3T(30), ProcAssumption DEF Proc, None

(* What SInv says of a process that is executing its own code, ... *)
LEMMA ThreadBefore ==
  ASSUME SInv, NEW c \in CPU, NEW p \in Proc, on[c] = p, hpc[c] = "none"
  PROVE  Running(c, p) /\ ThreadInv(c, p)
<1>1. p # None /\ CpuInv(c) /\ TypeOK
  BY ProcNotNone DEF SInv
<1>2. Running(c, p)
  BY <1>1 DEF Running, CpuInv, WhoInv
<1>3. noff[c] = LabelDepth(pc[p]) + Spinning(c)
  BY SMTT(30), Z3T(30), <1>1 DEF CpuInv, DepthInv, ThreadDepth, HandlerDepth, LabelDepth, Spinning
<1>4. want[c] # None => ProcNeeds(c, p, want[c])
  BY <1>1 DEF CpuInv, DepthInv, Needs
<1>5. QED BY <1>1, <1>2, <1>3, <1>4 DEF ThreadInv, CpuInv, WhoInv, DepthInv, EnableInv, StateInv

(* ... and what has to be shown of it after a step. *)
LEMMA ThreadAfter ==
  ASSUME NEW c \in CPU, NEW p \in Proc, Running(c, p)', ThreadInv(c, p)'
  PROVE  CpuInv(c)'
<1>1. p # None /\ on'[c] = p /\ hpc'[c] = "none"
  BY ProcNotNone DEF Running
<1>2. WhoInv(c)' /\ TrapInv(c)' /\ StateInv(c)' /\ EnableInv(c)'
  BY <1>1 DEF Running, ThreadInv, WhoInv, TrapInv, StateInv, EnableInv
<1>3. DepthInv(c)'
  BY SMTT(30), Z3T(30), <1>1
    DEF ThreadInv, DepthInv, ThreadDepth, HandlerDepth, LabelDepth, Spinning, Needs
<1>4. QED BY <1>2, <1>3 DEF CpuInv

(* The depth at every label. *)
LEMMA LabelDepths ==
  /\ LabelDepth("forkret") = 1 /\ LabelDepth("usertrapret") = 0 /\ LabelDepth("run") = 0
  /\ LabelDepth("as_acq") = 0 /\ LabelDepth("as_rel") = 1 /\ LabelDepth("crit") = 0
  /\ LabelDepth("v_acq") = 0 /\ LabelDepth("v_loop") = 0 /\ LabelDepth("v_rel") = 1
  /\ LabelDepth("rs_acq") = 0 /\ LabelDepth("rs_wk") = 1 /\ LabelDepth("rs_next") = 2
  /\ LabelDepth("rs_rel") = 1 /\ LabelDepth("sl_acq") = 1 /\ LabelDepth("sl_rel") = 2
  /\ LabelDepth("sl_set") = 1 /\ LabelDepth("sl_sched") = 1 /\ LabelDepth("sl_back") = 1
  /\ LabelDepth("sl_done") = 1 /\ LabelDepth("y_acq") = 0 /\ LabelDepth("y_sched") = 1
  /\ LabelDepth("y_back") = 1 /\ LabelDepth("y_done") = 1 /\ LabelDepth("y_ret") = 0
BY DEF LabelDepth, Unlocked

(* p goes from label a to label b, with k spinlocks more or less. *)
LabelStep(a, b, k) ==
  /\ LabelDepth(b) = LabelDepth(a) + k
  /\ k # 0 => (a \in Yielding <=> b \in Yielding) /\ (a \in SwitchedOut => b = "usertrapret")
  /\ LabelDepth(b) = 0 => (b \in Yielding <=> b \in {"y_acq", "y_ret"})
  /\ b \notin SwitchedOut

(* The steps between labels that the actions of a process take. *)
LEMMA LabelSteps ==
  /\ LabelStep("as_acq", "as_rel", 1) /\ LabelStep("as_acq", "sl_acq", 1)
  /\ LabelStep("v_acq", "sl_acq", 1) /\ LabelStep("v_loop", "sl_acq", 1)
  /\ LabelStep("v_loop", "v_rel", 1) /\ LabelStep("rs_acq", "rs_rel", 1)
  /\ LabelStep("rs_acq", "rs_wk", 1) /\ LabelStep("rs_wk", "rs_next", 1)
  /\ LabelStep("sl_acq", "sl_rel", 1) /\ LabelStep("y_acq", "y_sched", 1)
  /\ LabelStep("forkret", "usertrapret", -1) /\ LabelStep("as_rel", "crit", -1)
  /\ LabelStep("v_rel", "rs_acq", -1) /\ LabelStep("rs_next", "rs_rel", -1)
  /\ LabelStep("rs_next", "rs_wk", -1) /\ LabelStep("rs_rel", "run", -1)
  /\ LabelStep("sl_rel", "sl_set", -1) /\ LabelStep("sl_done", "as_acq", -1)
  /\ LabelStep("sl_done", "v_loop", -1) /\ LabelStep("y_done", "y_ret", -1)
  /\ LabelStep("usertrapret", "run", 0) /\ LabelStep("run", "as_acq", 0)
  /\ LabelStep("crit", "v_acq", 0) /\ LabelStep("crit", "rs_acq", 0)
  /\ LabelStep("sl_set", "sl_sched", 0) /\ LabelStep("sl_back", "sl_done", 0)
  /\ LabelStep("y_back", "y_done", 0)
  /\ \A b \in Unlocked : LabelStep("y_ret", b, 0)
BY SMTT(30), Z3T(30), LabelDepths DEF LabelStep, Yielding, SwitchedOut, Unlocked

(* A process holds two spinlocks at most. *)
LEMMA DepthRange == \A a : LabelDepth(a) \in 0 .. 2
BY SMTT(30), Z3T(30) DEF LabelDepth

(* A step of the process p that CPU c runs: the other processes. *)
LEMMA ProcsAfter ==
  ASSUME SInv, NEW c \in CPU, NEW p \in Proc, on[c] = p, on' = on,
         \A q \in Proc \ {p} : /\ pc'[q] = pc[q] /\ ret'[q] = ret[q] /\ sav'[q] = sav[q]
                               /\ state'[q] = state[q] \/ state'[q] # "RUNNING",
         pc'[p] \notin {"sl_back", "y_back"},
         pc'[p] \in Yielding => ret'[p] \in Unlocked
  PROVE  (\A q \in Proc : ProcInv(q)') /\ Exclusive'
<1>1. ASSUME NEW q \in Proc \ {p} PROVE ProcInv(q)'
  BY SMTT(30), Z3T(30), <1>1 DEF SInv, ProcInv
<1>2. ProcInv(p)'
  BY DEF ProcInv
<1>3. QED BY <1>1, <1>2 DEF SInv, Exclusive

(* wakeup() under p->lock leaves alone the processes that are on a CPU: one *)
(* that is SLEEPING there is still on its way to swtch(), with p->lock.    *)
LEMMA WakeFrame ==
  ASSUME SInv, NEW q \in Proc, lock[q] = NoCPU, NEW ch, WakeUp(q, ch)
  PROVE  /\ \A d \in CPU : on[d] # None => state'[on[d]] = state[on[d]]
         /\ \A r \in Proc : state'[r] = state[r] \/ state'[r] # "RUNNING"
         /\ state' \in [Proc -> {"RUNNABLE", "RUNNING", "SLEEPING"}]
<1>1. ProcTypes
  BY Types DEF SInv
<1>2. ASSUME NEW d \in CPU, on[d] # None, state[on[d]] = "SLEEPING" PROVE on[d] # q
  <2>1. pc[on[d]] = "sl_sched"
    BY <1>2 DEF SInv, CpuInv, StateInv, StateAt
  <2>2. Holds(d, on[d])
    BY <1>2, <2>1 DEF Holds, ProcHolds, OwnLocked
  <2>3. QED BY SMTT(30), Z3T(30), <2>2, CpuAssumption DEF SInv, LockInv, SpinLock
<1>3. QED BY SMTT(30), Z3T(30), <1>1, <1>2 DEF WakeUp, ProcTypes

(* The wakeup() loop stays in the table. *)
LEMMA NextWakeRange ==
  ASSUME CpuTypes, NEW c \in CPU, NEW i \in 1 .. NPROC + 1
  PROVE  /\ NextWake(c, i) \in 1 .. NPROC + 1
         /\ ~ (NextWake(c, i) > NPROC) => NextWake(c, i) \in Proc
BY SMTT(30), Z3T(30), ProcAssumption DEF NextWake, CpuTypes, Proc, None

(* The spinlocks are distinct. *)
LEMMA Distinct ==
  /\ BUFLK \notin Proc /\ VDISK \notin Proc /\ BUFLK # VDISK /\ None \notin SpinLock
  /\ BUFLK \in SpinLock /\ VDISK \in SpinLock
BY SMTT(30), Z3T(30), ProcAssumption DEF Proc, BUFLK, VDISK, None, SpinLock, Chan

(* What a step of process p on CPU c leaves alone, and the types. *)
ThreadFrame(c, p) ==
  /\ cproc' = cproc /\ on' = on /\ spc' = spc /\ sidx' = sidx /\ hpc' = hpc
  /\ \A d \in CPU \ {c} : widx'[d] = widx[d]
  /\ \A q \in Proc \ {p} :
       /\ pc'[q] = pc[q] /\ ret'[q] = ret[q] /\ slk'[q] = slk[q] /\ sav'[q] = sav[q]
       /\ state'[q] = state[q] \/ state'[q] # "RUNNING"
  /\ \A d \in CPU \ {c} : on[d] # None => state'[on[d]] = state[on[d]]
  /\ CpuTypes' /\ ProcTypes' /\ DevTypes'

(* What p and the CPU must be in for label b. *)
Arrived(c, p, b) ==
  /\ pc'[p] = b
  /\ state'[p] = StateAt(b)
  /\ b \in {"rs_wk", "rs_next"} => widx'[c] \in Proc
  /\ b \in Yielding => ret'[p] \in Unlocked

(* A step of p on CPU c disturbs no other CPU or process. *)
LEMMA ThreadOthers ==
  ASSUME SInv, NEW c \in CPU, NEW p \in Proc, on[c] = p, hpc[c] = "none", ThreadFrame(c, p),
         \A d \in CPU \ {c} : /\ want'[d] = want[d] /\ noff'[d] = noff[d]
                              /\ intena'[d] = intena[d] /\ intr'[d] = intr[d],
         NEW b, Arrived(c, p, b), b \notin SwitchedOut
  PROVE  /\ Frame(c)
         /\ Running(c, p)'
         /\ (\A q \in Proc : ProcInv(q)') /\ Exclusive'
<1>1. TypeOK /\ CpuTypes /\ Exclusive /\ Running(c, p)
  BY Types, ThreadBefore DEF SInv
<1>2. \A d \in CPU \ {c} : on[d] # None => on[d] \in Proc \ {p}
  BY <1>1 DEF Exclusive, CpuTypes
<1>3. Frame(c)
  BY <1>2 DEF Frame, ThreadFrame
<1>4. Running(c, p)'
  BY <1>1 DEF Running, ThreadFrame
<1>5. (\A q \in Proc : ProcInv(q)') /\ Exclusive'
  BY SMTT(30), Z3T(30), ProcsAfter DEF ThreadFrame, Arrived, SwitchedOut
<1>6. QED BY <1>3, <1>4, <1>5

(* The invariant after a step of p that acquires l, ... *)
LEMMA TakeStep ==
  ASSUME SInv, NEW c \in CPU, NEW p \in Proc, on[c] = p, hpc[c] = "none", ThreadFrame(c, p),
         NEW l \in SpinLock, Take(c, l), NEW a, NEW b, pc[p] = a, Arrived(c, p, b),
         LabelStep(a, b, 1), a \notin SwitchedOut,
         \A x \in SpinLock : Holds(c, x)' <=> Holds(c, x) \/ x = l
  PROVE  SInv'
<1>1. TypeOK /\ SpinTypes /\ LockInv /\ ThreadInv(c, p) /\ l # None
  BY Types, ThreadBefore, Distinct DEF SInv
<1>2. /\ SpinTypes' /\ want[c] = l /\ want'[c] = None
      /\ noff'[c] = noff[c] /\ intena'[c] = intena[c] /\ intr'[c] = intr[c]
  BY <1>1, TakeEffect
<1>3. Frame(c) /\ Running(c, p)' /\ (\A q \in Proc : ProcInv(q)') /\ Exclusive'
  BY <1>1, ThreadOthers DEF Take, SpinTypes, LabelStep
<1>4. LabelDepth(a) \in 0 .. 2 /\ noff[c] = LabelDepth(a) + 1
  BY SMTT(30), Z3T(30), <1>1, <1>2 DEF ThreadInv, Spinning, LabelDepth
<1>5. noff'[c] = LabelDepth(b) + Spinning(c)' /\ noff'[c] > 0
  BY SMTT(30), Z3T(30), <1>2, <1>4 DEF Spinning, LabelStep
<1>6. ThreadInv(c, p)'
  BY SMTT(30), Z3T(30), <1>1, <1>2, <1>4, <1>5 DEF ThreadInv, LabelStep, Arrived
<1>7. LockInv'
  BY <1>1, <1>3, TakeLock
<1>8. TypeOK' /\ CpuInv(c)' /\ panicked' = "none"
  BY <1>2, <1>3, <1>6, TypesAfter, ThreadAfter DEF ThreadFrame, Take, SInv
<1>9. QED BY <1>3, <1>7, <1>8, Compose

(* ... releases l, ... *)
LEMMA DropStep ==
  ASSUME SInv, NEW c \in CPU, NEW p \in Proc, on[c] = p, hpc[c] = "none", ThreadFrame(c, p),
         NEW l \in SpinLock, Drop(c, l), NEW a, NEW b, pc[p] = a, Arrived(c, p, b),
         LabelStep(a, b, -1), \A x : ~ ProcNeeds(c, p, x),
         Holds(c, l), \A x \in SpinLock : Holds(c, x)' <=> Holds(c, x) /\ x # l
  PROVE  SInv'
<1>1. TypeOK /\ SpinTypes /\ LockInv /\ ThreadInv(c, p) /\ MayRelease(c, l)
  BY Types, ThreadBefore, HoldsMayRelease DEF SInv
<1>2. /\ SpinTypes' /\ panicked' = "none"
      /\ want'[c] = want[c] /\ noff'[c] = noff[c] - 1 /\ intena'[c] = intena[c]
      /\ intr'[c] = IF noff[c] = 1 /\ intena[c] = 1 THEN 1 ELSE 0
  BY <1>1, DropEffect
<1>3. Frame(c) /\ Running(c, p)' /\ (\A q \in Proc : ProcInv(q)') /\ Exclusive'
  BY <1>1, ThreadOthers DEF Drop, SpinTypes, LabelStep
<1>4. /\ want[c] = None /\ LabelDepth(a) \in 0 .. 2 /\ LabelDepth(b) \in 0 .. 2
      /\ noff[c] = LabelDepth(a)
  BY SMTT(30), Z3T(30), <1>1, DepthRange DEF ThreadInv, Spinning
<1>5. LabelDepth(b) \in 0 .. 1 /\ noff[c] = LabelDepth(b) + 1 /\ noff'[c] = LabelDepth(b)
  BY SMTT(30), Z3T(30), <1>2, <1>4 DEF LabelStep
<1>6. want'[c] = None /\ noff'[c] = LabelDepth(b) + Spinning(c)'
  BY SMTT(30), Z3T(30), <1>2, <1>4, <1>5 DEF Spinning
<1>7. noff'[c] > 0 => intr'[c] = 0
  BY SMTT(30), Z3T(30), <1>2, <1>5
<1>8. b # "usertrapret" => intena'[c] = IF b \in Yielding THEN 0 ELSE 1
  BY SMTT(30), Z3T(30), <1>1, <1>2, <1>5 DEF ThreadInv, LabelStep
<1>9. ThreadInv(c, p)'
  <2>1. noff'[c] > 0 => b # "usertrapret"
    BY SMTT(30), Z3T(30), <1>5, LabelDepths
  <2>2. ASSUME noff'[c] = 0, b # "usertrapret"
        PROVE  intr'[c] = IF b \in {"y_acq", "y_ret"} THEN 0 ELSE 1
    <3>1. LabelDepth(b) = 0 /\ noff[c] = 1
      BY SMTT(30), Z3T(30), <1>5, <2>2
    <3>2. intena[c] = IF b \in Yielding THEN 0 ELSE 1
      BY <1>2, <1>8, <2>2
    <3>3. intr'[c] = IF intena[c] = 1 THEN 1 ELSE 0
      BY <1>2, <3>1
    <3>4. QED BY <3>1, <3>2, <3>3 DEF LabelStep
  <2>3. QED BY <1>6, <1>7, <1>8, <2>1, <2>2 DEF ThreadInv, Arrived
<1>10. LockInv'
  BY <1>1, <1>3, DropLock
<1>11. TypeOK' /\ CpuInv(c)'
  BY <1>2, <1>3, <1>9, TypesAfter, ThreadAfter DEF ThreadFrame
<1>12. QED BY <1>2, <1>3, <1>10, <1>11, Compose

(* ... or does neither. *)
LEMMA KeepStep ==
  ASSUME SInv, NEW c \in CPU, NEW p \in Proc, on[c] = p, hpc[c] = "none", ThreadFrame(c, p),
         lock' = lock, want' = want, noff' = noff, panicked' = panicked, SpinTypes',
         \A d \in CPU \ {c} : intena'[d] = intena[d] /\ intr'[d] = intr[d],
         NEW a, NEW b, pc[p] = a, Arrived(c, p, b), LabelStep(a, b, 0),
         want[c] = None,
         LabelDepth(b) > 0 => intr'[c] = 0 /\ intena'[c] = IF b \in Yielding THEN 0 ELSE 1,
         LabelDepth(b) = 0 => intr'[c] = IF b \in {"y_acq", "y_ret"} THEN 0 ELSE 1,
         \A x \in SpinLock : Holds(c, x)' <=> Holds(c, x)
  PROVE  SInv'
<1>1. TypeOK /\ LockInv /\ ThreadInv(c, p)
  BY ThreadBefore DEF SInv
<1>2. Frame(c) /\ Running(c, p)' /\ (\A q \in Proc : ProcInv(q)') /\ Exclusive'
  BY ThreadOthers DEF LabelStep
<1>3. noff[c] = LabelDepth(b) /\ LabelDepth(b) \in 0 .. 2
  BY <1>1, DepthRange DEF ThreadInv, Spinning, LabelStep
<1>4. want'[c] = None /\ noff'[c] = LabelDepth(b) + Spinning(c)' /\ noff'[c] = LabelDepth(b)
  BY SMTT(30), Z3T(30), <1>3 DEF Spinning
<1>5. ThreadInv(c, p)'
  BY <1>3, <1>4 DEF ThreadInv, Arrived
<1>6. LockInv'
  BY <1>1, <1>2, KeepLocks
<1>7. TypeOK' /\ CpuInv(c)' /\ panicked' = "none"
  BY <1>2, <1>5, TypesAfter, ThreadAfter DEF ThreadFrame, SInv
<1>8. QED BY <1>2, <1>6, <1>7, Compose

-----------------------------------------------------------------------------
(* The invariant, unpacked for a step of p on CPU c. *)
LEMMA Unpack ==
  ASSUME SInv, NEW c \in CPU, NEW p \in Proc, on[c] = p, hpc[c] = "none"
  PROVE  /\ p # None /\ p \in SpinLock /\ Exclusive /\ ThreadInv(c, p)
         /\ SpinTypes /\ CpuTypes /\ ProcTypes /\ DevTypes
         /\ pc[p] \in Yielding => ret[p] \in Unlocked
BY ProcNotNone, Types, ThreadBefore DEF SInv, ProcInv, SpinLock

(* The steps of a process that acquire a spinlock l: from where to where. *)
TakeMove(c, p, l) ==
  \/ pc[p] = "as_acq" /\ pc'[p] = "as_rel" /\ l = BUFLK
  \/ pc[p] = "as_acq" /\ pc'[p] = "sl_acq" /\ l = BUFLK /\ slk'[p] = l
  \/ pc[p] \in {"v_acq", "v_loop"} /\ pc'[p] = "sl_acq" /\ l = VDISK /\ slk'[p] = l
  \/ pc[p] = "v_loop" /\ pc'[p] = "v_rel" /\ l = VDISK
  \/ pc[p] = "rs_acq" /\ pc'[p] = "rs_rel" /\ l = BUFLK
  \/ pc[p] = "rs_acq" /\ pc'[p] = "rs_wk" /\ l = BUFLK /\ widx'[c] \in Proc
  \/ pc[p] = "rs_wk" /\ pc'[p] = "rs_next" /\ l = widx[c] /\ widx'[c] = widx[c]
  \/ pc[p] = "sl_acq" /\ pc'[p] = "sl_rel" /\ l = p /\ slk'[p] = slk[p]
  \/ pc[p] = "y_acq" /\ pc'[p] = "y_sched" /\ l = p

(* Each of them keeps SInv. *)
LEMMA TakeMoves ==
  ASSUME SInv, NEW c \in CPU, NEW p \in Proc, on[c] = p, hpc[c] = "none", ThreadFrame(c, p),
         NEW l, Take(c, l), TakeMove(c, p, l), ret'[p] = ret[p],
         state'[p] = IF pc'[p] = "y_sched" THEN "RUNNABLE" ELSE state[p]
  PROVE  SInv'
<1>1. /\ p # None /\ p \in SpinLock /\ on'[c] = p /\ hpc'[c] = "none"
      /\ pc[p] \in Yielding => ret[p] \in Unlocked
      /\ pc[p] \in {"rs_wk", "rs_next"} => widx[c] \in Proc
      /\ state[p] = StateAt(pc[p])
  BY Unpack DEF ThreadFrame, ThreadInv
<1>2. l \in SpinLock
  BY <1>1, Distinct DEF TakeMove, SpinLock
<1>3. Arrived(c, p, pc'[p])
  BY <1>1 DEF TakeMove, Arrived, StateAt, Yielding
<1>4. LabelStep(pc[p], pc'[p], 1) /\ pc[p] \notin SwitchedOut
  BY LabelSteps DEF TakeMove, SwitchedOut
<1>5. \A x \in SpinLock : Holds(c, x)' <=> Holds(c, x) \/ x = l
  BY SMTT(30), Z3T(30), <1>1 DEF TakeMove, Holds, ProcHolds, OwnLocked, BufLocked
<1>6. QED BY <1>2, <1>3, <1>4, <1>5, TakeStep

(* The steps of a process that release a spinlock l. *)
DropMove(c, p, l) ==
  \/ pc[p] = "forkret" /\ pc'[p] = "usertrapret" /\ l = p
  \/ pc[p] = "as_rel" /\ pc'[p] = "crit" /\ l = BUFLK
  \/ pc[p] = "v_rel" /\ pc'[p] = "rs_acq" /\ l = VDISK
  \/ pc[p] = "rs_next" /\ pc'[p] = "rs_rel" /\ l = widx[c]
  \/ pc[p] = "rs_next" /\ pc'[p] = "rs_wk" /\ l = widx[c] /\ widx'[c] \in Proc
  \/ pc[p] = "rs_rel" /\ pc'[p] = "run" /\ l = BUFLK
  \/ pc[p] = "sl_rel" /\ pc'[p] = "sl_set" /\ l = slk[p]
  \/ pc[p] = "sl_done" /\ pc'[p] \in {"as_acq", "v_loop"} /\ l = p
  \/ pc[p] = "y_done" /\ pc'[p] = "y_ret" /\ l = p

(* Each of them keeps SInv: release() and pop_off() do not panic(). *)
LEMMA DropMoves ==
  ASSUME SInv, NEW c \in CPU, NEW p \in Proc, on[c] = p, hpc[c] = "none", ThreadFrame(c, p),
         NEW l, Drop(c, l), DropMove(c, p, l), ret'[p] = ret[p], state'[p] = state[p]
  PROVE  SInv'
<1>1. /\ p # None /\ p \in SpinLock /\ on'[c] = p /\ hpc'[c] = "none" /\ slk[p] \in Chan
      /\ pc[p] \in Yielding => ret[p] \in Unlocked
      /\ pc[p] \in {"rs_wk", "rs_next"} => widx[c] \in Proc
      /\ state[p] = StateAt(pc[p])
  BY SMTT(30), Z3T(30), Unpack DEF ThreadFrame, ProcTypes, ThreadInv
<1>2. l \in SpinLock /\ Holds(c, l) /\ slk[p] # p
  BY <1>1, Distinct DEF DropMove, SpinLock, Chan, Holds, ProcHolds, OwnLocked, BufLocked
<1>3. Arrived(c, p, pc'[p])
  BY <1>1 DEF DropMove, Arrived, StateAt, Yielding
<1>4. LabelStep(pc[p], pc'[p], -1) /\ \A x : ~ ProcNeeds(c, p, x)
  BY LabelSteps DEF DropMove, ProcNeeds
<1>5. pc[p] = "rs_next" => widx[c] # BUFLK
  BY <1>1, Distinct
<1>6. \A x \in SpinLock : Holds(c, x)' <=> Holds(c, x) /\ x # l
  BY <1>1, <1>2, <1>5 DEF DropMove, Holds, ProcHolds, OwnLocked, BufLocked
<1>7. QED BY <1>2, <1>3, <1>4, <1>6, DropStep

(* The steps of a process that do neither, except in swtch(). *)
KeepMove(c, p) ==
  \/ pc[p] = "run" /\ pc'[p] = "as_acq" /\ intr'[c] = intr[c]
  \/ pc[p] = "crit" /\ pc'[p] \in {"v_acq", "rs_acq"} /\ intr'[c] = intr[c]
  \/ pc[p] = "sl_set" /\ pc'[p] = "sl_sched" /\ intr'[c] = intr[c]
  \/ pc[p] = "usertrapret" /\ pc'[p] = "run" /\ intr'[c] = 1
  \/ pc[p] = "y_ret" /\ pc'[p] \in Unlocked /\ intr'[c] = 1

(* Each of them keeps SInv. *)
LEMMA KeepMoves ==
  ASSUME SInv, NEW c \in CPU, NEW p \in Proc, on[c] = p, hpc[c] = "none", ThreadFrame(c, p),
         UNCHANGED <<lock, want, noff, intena, panicked>>,
         intr' \in [CPU -> 0 .. 1], \A d \in CPU \ {c} : intr'[d] = intr[d],
         KeepMove(c, p), state'[p] = IF pc'[p] = "sl_sched" THEN "SLEEPING" ELSE state[p]
  PROVE  SInv'
<1>1. p # None /\ ThreadInv(c, p) /\ on'[c] = p /\ hpc'[c] = "none" /\ SpinTypes'
  BY SMTT(30), Z3T(30), Unpack DEF ThreadFrame, SpinTypes
<1>2. Arrived(c, p, pc'[p])
  BY <1>1 DEF KeepMove, Arrived, ThreadInv, StateAt, Yielding, Unlocked
<1>3. LabelStep(pc[p], pc'[p], 0) /\ want[c] = None
  BY <1>1, LabelSteps DEF KeepMove, ThreadInv, ProcNeeds
<1>4. \A x \in SpinLock : Holds(c, x)' <=> Holds(c, x)
  BY <1>1 DEF KeepMove, Holds, ProcHolds, OwnLocked, BufLocked, Unlocked
<1>5. noff[c] = LabelDepth(pc[p])
  BY SMTT(30), Z3T(30), <1>1, <1>3, DepthRange DEF ThreadInv, Spinning
<1>6. CASE pc[p] = "sl_set"
  <2>1. intr'[c] = 0 /\ intena'[c] = 1 /\ LabelDepth(pc'[p]) = 1 /\ pc'[p] \notin Yielding
    BY SMTT(30), Z3T(30), <1>1, <1>5, <1>6, LabelDepths
      DEF KeepMove, ThreadInv, Yielding, SwitchedOut
  <2>2. QED BY <1>1, <1>2, <1>3, <1>4, <2>1, KeepStep
<1>7. CASE pc[p] # "sl_set"
  <2>1. LabelDepth(pc'[p]) = 0 /\ intr'[c] = 1 /\ pc'[p] \notin {"y_acq", "y_ret"}
    BY <1>1, <1>5, <1>7, LabelDepths DEF KeepMove, ThreadInv, Unlocked, LabelDepth
  <2>2. QED BY SMTT(30), Z3T(30), <1>1, <1>2, <1>3, <1>4, <2>1, KeepStep
<1>8. QED BY <1>6, <1>7

-----------------------------------------------------------------------------
(* The steps of a process, one lemma per action of Sched *)

(* forkret() releases the p->lock that scheduler() took and keeps SInv. *)
LEMMA ForkretInv ==
  ASSUME SInv, NEW c \in CPU, NEW p \in Proc, Forkret(c, p)
  PROVE  SInv'
<1>1. /\ on[c] = p /\ hpc[c] = "none" /\ Exclusive /\ ThreadInv(c, p)
      /\ SpinTypes /\ CpuTypes /\ ProcTypes /\ DevTypes
  BY Unpack DEF Forkret, At
<1>3. ThreadFrame(c, p)
  BY <1>1 DEF ThreadFrame, Exclusive, Forkret, Goto, cpuvars, procvars, devvars, CpuTypes,
     ProcTypes, DevTypes, Labels, Chan
<1>4. QED
  BY <1>1, <1>3, DropMoves DEF Forkret, At, Goto, DropMove, cpuvars, ProcTypes

(* The return to user mode turns interrupts on and keeps SInv. *)
LEMMA UsertrapretInv ==
  ASSUME SInv, NEW c \in CPU, NEW p \in Proc, Usertrapret(c, p)
  PROVE  SInv'
<1>1. /\ on[c] = p /\ hpc[c] = "none" /\ Exclusive /\ ThreadInv(c, p)
      /\ SpinTypes /\ CpuTypes /\ ProcTypes /\ DevTypes
  BY Unpack DEF Usertrapret, At
<1>3. ThreadFrame(c, p)
  BY <1>1 DEF ThreadFrame, Exclusive, Usertrapret, Goto, cpuvars, procvars, devvars, CpuTypes,
     ProcTypes, DevTypes, Labels, Chan
<1>4. QED
  BY SMTT(30), Z3T(30), <1>1, <1>3, KeepMoves
    DEF Usertrapret, At, Goto, KeepMove, cpuvars, spinvars, SpinTypes,
     ProcTypes

(* The system call that starts acquiresleep() keeps SInv. *)
LEMMA SyscallInv ==
  ASSUME SInv, NEW c \in CPU, NEW p \in Proc, Syscall(c, p)
  PROVE  SInv'
<1>1. /\ on[c] = p /\ hpc[c] = "none" /\ Exclusive /\ ThreadInv(c, p)
      /\ SpinTypes /\ CpuTypes /\ ProcTypes /\ DevTypes
  BY Unpack DEF Syscall, At
<1>3. ThreadFrame(c, p)
  BY <1>1 DEF ThreadFrame, Exclusive, Syscall, Goto, cpuvars, procvars, devvars, CpuTypes,
     ProcTypes, DevTypes, Labels, Chan
<1>4. QED
  BY <1>1, <1>3, KeepMoves DEF Syscall, At, Goto, KeepMove, cpuvars, spinvars, SpinTypes,
     ProcTypes

(* acquiresleep() that finds the sleeplock free keeps SInv. *)
LEMMA AcquireSleepGetInv ==
  ASSUME SInv, NEW c \in CPU, NEW p \in Proc, AcquireSleepGet(c, p)
  PROVE  SInv'
<1>1. /\ on[c] = p /\ hpc[c] = "none" /\ Exclusive /\ ThreadInv(c, p)
      /\ SpinTypes /\ CpuTypes /\ ProcTypes /\ DevTypes
  BY Unpack DEF AcquireSleepGet, At
<1>3. ThreadFrame(c, p)
  BY <1>1 DEF ThreadFrame, Exclusive, AcquireSleepGet, Goto, cpuvars, procvars, devvars,
     CpuTypes, ProcTypes, DevTypes, Labels, Chan
<1>4. QED
  BY <1>1, <1>3, TakeMoves DEF AcquireSleepGet, At, Goto, TakeMove, cpuvars, ProcTypes

(* acquiresleep() that finds the sleeplock held goes to sleep() with its   *)
(* spinlock and keeps SInv.                                                *)
LEMMA AcquireSleepWaitInv ==
  ASSUME SInv, NEW c \in CPU, NEW p \in Proc, AcquireSleepWait(c, p)
  PROVE  SInv'
<1>1. /\ on[c] = p /\ hpc[c] = "none" /\ Exclusive /\ ThreadInv(c, p)
      /\ SpinTypes /\ CpuTypes /\ ProcTypes /\ DevTypes
  BY Unpack DEF AcquireSleepWait, At
<1>3. ThreadFrame(c, p)
  BY <1>1 DEF ThreadFrame, Exclusive, AcquireSleepWait, Goto, cpuvars, procvars, devvars,
     CpuTypes, ProcTypes, DevTypes, Labels, Chan
<1>4. QED
  BY <1>1, <1>3, TakeMoves DEF AcquireSleepWait, At, Goto, TakeMove, cpuvars, ProcTypes

(* The release() at the end of acquiresleep() keeps SInv. *)
LEMMA AcquireSleepDoneInv ==
  ASSUME SInv, NEW c \in CPU, NEW p \in Proc, AcquireSleepDone(c, p)
  PROVE  SInv'
<1>1. /\ on[c] = p /\ hpc[c] = "none" /\ Exclusive /\ ThreadInv(c, p)
      /\ SpinTypes /\ CpuTypes /\ ProcTypes /\ DevTypes
  BY Unpack DEF AcquireSleepDone, At
<1>3. ThreadFrame(c, p)
  BY <1>1 DEF ThreadFrame, Exclusive, AcquireSleepDone, Goto, cpuvars, procvars, devvars,
     CpuTypes, ProcTypes, DevTypes, Labels, Chan
<1>4. QED
  BY <1>1, <1>3, DropMoves DEF AcquireSleepDone, At, Goto, DropMove, cpuvars, ProcTypes

(* The choice of the holder, disk or cache, keeps SInv. *)
LEMMA CriticalInv ==
  ASSUME SInv, NEW c \in CPU, NEW p \in Proc, Critical(c, p)
  PROVE  SInv'
<1>1. /\ on[c] = p /\ hpc[c] = "none" /\ Exclusive /\ ThreadInv(c, p)
      /\ SpinTypes /\ CpuTypes /\ ProcTypes /\ DevTypes
  BY Unpack DEF Critical, At
<1>3. ThreadFrame(c, p)
  BY SMTT(30), Z3T(30), <1>1
    DEF ThreadFrame, Exclusive, Critical, Goto, cpuvars, procvars, devvars, CpuTypes,
     ProcTypes, DevTypes, Labels, Chan
<1>4. QED
  BY <1>1, <1>3, KeepMoves DEF Critical, At, Goto, KeepMove, cpuvars, spinvars, SpinTypes,
     ProcTypes

(* virtio_disk_rw() goes to sleep() with vdisk_lock and keeps SInv. *)
LEMMA DiskStartInv ==
  ASSUME SInv, NEW c \in CPU, NEW p \in Proc, DiskStart(c, p)
  PROVE  SInv'
<1>1. /\ on[c] = p /\ hpc[c] = "none" /\ Exclusive /\ ThreadInv(c, p)
      /\ SpinTypes /\ CpuTypes /\ ProcTypes /\ DevTypes
  BY Unpack DEF DiskStart, At
<1>3. ThreadFrame(c, p)
  BY SMTT(30), Z3T(30), <1>1
    DEF ThreadFrame, Exclusive, DiskStart, Goto, cpuvars, procvars, devvars, CpuTypes,
     ProcTypes, DevTypes, Labels, Chan
<1>4. QED
  BY <1>1, <1>3, TakeMoves DEF DiskStart, At, Goto, TakeMove, cpuvars, ProcTypes

(* virtio_disk_rw() back from sleep() tests b->disk again and keeps SInv. *)
LEMMA DiskAgainInv ==
  ASSUME SInv, NEW c \in CPU, NEW p \in Proc, DiskAgain(c, p)
  PROVE  SInv'
<1>1. /\ on[c] = p /\ hpc[c] = "none" /\ Exclusive /\ ThreadInv(c, p)
      /\ SpinTypes /\ CpuTypes /\ ProcTypes /\ DevTypes
  BY Unpack DEF DiskAgain, At
<1>3. ThreadFrame(c, p)
  BY <1>1 DEF ThreadFrame, Exclusive, DiskAgain, Goto, cpuvars, procvars, devvars, CpuTypes,
     ProcTypes, DevTypes, Labels, Chan
<1>4. QED
  BY <1>1, <1>3, TakeMoves DEF DiskAgain, At, Goto, TakeMove, cpuvars, ProcTypes

(* The release() of vdisk_lock at the end of virtio_disk_rw() keeps SInv. *)
LEMMA DiskDoneInv ==
  ASSUME SInv, NEW c \in CPU, NEW p \in Proc, DiskDone(c, p)
  PROVE  SInv'
<1>1. /\ on[c] = p /\ hpc[c] = "none" /\ Exclusive /\ ThreadInv(c, p)
      /\ SpinTypes /\ CpuTypes /\ ProcTypes /\ DevTypes
  BY Unpack DEF DiskDone, At
<1>3. ThreadFrame(c, p)
  BY <1>1 DEF ThreadFrame, Exclusive, DiskDone, Goto, cpuvars, procvars, devvars, CpuTypes,
     ProcTypes, DevTypes, Labels, Chan
<1>4. QED
  BY <1>1, <1>3, DropMoves DEF DiskDone, At, Goto, DropMove, cpuvars, ProcTypes

(* releasesleep() up to the first process of wakeup() keeps SInv. *)
LEMMA ReleaseSleepInv ==
  ASSUME SInv, NEW c \in CPU, NEW p \in Proc, ReleaseSleep(c, p)
  PROVE  SInv'
<1>1. /\ on[c] = p /\ hpc[c] = "none" /\ Exclusive /\ ThreadInv(c, p)
      /\ SpinTypes /\ CpuTypes /\ ProcTypes /\ DevTypes
  BY Unpack DEF ReleaseSleep, At
<1>2. /\ NextWake(c, 1) \in 1 .. NPROC + 1
      /\ ~ (NextWake(c, 1) > NPROC) => NextWake(c, 1) \in Proc
  <2>1. 1 \in 1 .. NPROC + 1
    BY SMTT(30), Z3T(30), <1>1, ProcAssumption
  <2>2. QED BY <1>1, <2>1, NextWakeRange
<1>3. ThreadFrame(c, p)
  BY <1>1, <1>2 DEF ThreadFrame, Exclusive, ReleaseSleep, Goto, cpuvars, procvars, devvars,
     CpuTypes, ProcTypes, DevTypes, Labels, Chan
<1>4. QED
  BY <1>1, <1>2, <1>3, TakeMoves DEF ReleaseSleep, At, Goto, TakeMove, cpuvars, ProcTypes,
     CpuTypes

(* wakeup() of one process, in releasesleep(), keeps SInv. *)
LEMMA ReleaseSleepWakeInv ==
  ASSUME SInv, NEW c \in CPU, NEW p \in Proc, ReleaseSleepWake(c, p)
  PROVE  SInv'
<1>1. /\ on[c] = p /\ hpc[c] = "none" /\ Exclusive /\ ThreadInv(c, p)
      /\ SpinTypes /\ CpuTypes /\ ProcTypes /\ DevTypes
  BY Unpack DEF ReleaseSleepWake, At
<1>2. /\ \A d \in CPU : on[d] # None => state'[on[d]] = state[on[d]]
      /\ \A r \in Proc : state'[r] = state[r] \/ state'[r] # "RUNNING"
      /\ state' \in [Proc -> {"RUNNABLE", "RUNNING", "SLEEPING"}]
      /\ state'[p] = state[p]
  BY <1>1, WakeFrame, ProcNotNone DEF ReleaseSleepWake, At, Take, ThreadInv
<1>3. ThreadFrame(c, p)
  BY SMTT(30), Z3T(30), <1>1, <1>2
    DEF ThreadFrame, Exclusive, ReleaseSleepWake, Goto, cpuvars, procvars, devvars,
     CpuTypes, ProcTypes, DevTypes, Labels, Chan
<1>4. QED
  BY <1>1, <1>2, <1>3, TakeMoves DEF ReleaseSleepWake, At, Goto, TakeMove, cpuvars, ProcTypes

(* The loop of wakeup() goes on, in releasesleep(), and keeps SInv. *)
LEMMA ReleaseSleepNextInv ==
  ASSUME SInv, NEW c \in CPU, NEW p \in Proc, ReleaseSleepNext(c, p)
  PROVE  SInv'
<1>1. /\ on[c] = p /\ hpc[c] = "none" /\ Exclusive /\ ThreadInv(c, p)
      /\ SpinTypes /\ CpuTypes /\ ProcTypes /\ DevTypes
  BY Unpack DEF ReleaseSleepNext, At
<1>2. /\ NextWake(c, widx[c] + 1) \in 1 .. NPROC + 1
      /\ ~ (NextWake(c, widx[c] + 1) > NPROC) => NextWake(c, widx[c] + 1) \in Proc
  <2>1. widx[c] + 1 \in 1 .. NPROC + 1
    BY SMTT(30), Z3T(30), <1>1, ProcAssumption DEF ReleaseSleepNext, At, ThreadInv, Proc
  <2>2. QED BY <1>1, <2>1, NextWakeRange
<1>3. ThreadFrame(c, p)
  BY <1>1, <1>2 DEF ThreadFrame, Exclusive, ReleaseSleepNext, Goto, cpuvars, procvars, devvars,
     CpuTypes, ProcTypes, DevTypes, Labels, Chan
<1>4. QED
  BY <1>1, <1>2, <1>3, DropMoves DEF ReleaseSleepNext, At, Goto, DropMove, cpuvars, ProcTypes,
     CpuTypes

(* The release() at the end of releasesleep() keeps SInv. *)
LEMMA ReleaseSleepDoneInv ==
  ASSUME SInv, NEW c \in CPU, NEW p \in Proc, ReleaseSleepDone(c, p)
  PROVE  SInv'
<1>1. /\ on[c] = p /\ hpc[c] = "none" /\ Exclusive /\ ThreadInv(c, p)
      /\ SpinTypes /\ CpuTypes /\ ProcTypes /\ DevTypes
  BY Unpack DEF ReleaseSleepDone, At
<1>3. ThreadFrame(c, p)
  BY <1>1 DEF ThreadFrame, Exclusive, ReleaseSleepDone, Goto, cpuvars, procvars, devvars,
     CpuTypes, ProcTypes, DevTypes, Labels, Chan
<1>4. QED
  BY <1>1, <1>3, DropMoves DEF ReleaseSleepDone, At, Goto, DropMove, cpuvars, ProcTypes

(* sleep() takes p->lock while it holds lk and keeps SInv. *)
LEMMA SleepLockInv ==
  ASSUME SInv, NEW c \in CPU, NEW p \in Proc, SleepLock(c, p)
  PROVE  SInv'
<1>1. /\ on[c] = p /\ hpc[c] = "none" /\ Exclusive /\ ThreadInv(c, p)
      /\ SpinTypes /\ CpuTypes /\ ProcTypes /\ DevTypes
  BY Unpack DEF SleepLock, At
<1>3. ThreadFrame(c, p)
  BY <1>1 DEF ThreadFrame, Exclusive, SleepLock, Goto, cpuvars, procvars, devvars, CpuTypes,
     ProcTypes, DevTypes, Labels, Chan
<1>4. QED
  BY <1>1, <1>3, TakeMoves DEF SleepLock, At, Goto, TakeMove, cpuvars, ProcTypes

(* sleep() releases lk and keeps p->lock and SInv. *)
LEMMA SleepReleaseInv ==
  ASSUME SInv, NEW c \in CPU, NEW p \in Proc, SleepRelease(c, p)
  PROVE  SInv'
<1>1. /\ on[c] = p /\ hpc[c] = "none" /\ Exclusive /\ ThreadInv(c, p)
      /\ SpinTypes /\ CpuTypes /\ ProcTypes /\ DevTypes
  BY Unpack DEF SleepRelease, At
<1>3. ThreadFrame(c, p)
  BY <1>1 DEF ThreadFrame, Exclusive, SleepRelease, Goto, cpuvars, procvars, devvars, CpuTypes,
     ProcTypes, DevTypes, Labels, Chan
<1>4. QED
  BY <1>1, <1>3, DropMoves DEF SleepRelease, At, Goto, DropMove, cpuvars, ProcTypes

(* sleep() sets p->state under p->lock and keeps SInv. *)
LEMMA SleepSetInv ==
  ASSUME SInv, NEW c \in CPU, NEW p \in Proc, SleepSet(c, p)
  PROVE  SInv'
<1>1. /\ on[c] = p /\ hpc[c] = "none" /\ Exclusive /\ ThreadInv(c, p)
      /\ SpinTypes /\ CpuTypes /\ ProcTypes /\ DevTypes
  BY Unpack DEF SleepSet, At
<1>3. ThreadFrame(c, p)
  BY SMTT(30), Z3T(30), <1>1
    DEF ThreadFrame, Exclusive, SleepSet, Goto, cpuvars, procvars, devvars, CpuTypes,
     ProcTypes, DevTypes, Labels, Chan
<1>4. QED
  BY <1>1, <1>3, KeepMoves DEF SleepSet, At, Goto, KeepMove, cpuvars, spinvars, SpinTypes,
     ProcTypes

(* sleep() releases p->lock after sched() and keeps SInv. *)
LEMMA SleepDoneInv ==
  ASSUME SInv, NEW c \in CPU, NEW p \in Proc, SleepDone(c, p)
  PROVE  SInv'
<1>1. /\ on[c] = p /\ hpc[c] = "none" /\ Exclusive /\ ThreadInv(c, p)
      /\ SpinTypes /\ CpuTypes /\ ProcTypes /\ DevTypes
  BY Unpack DEF SleepDone, At
<1>3. ThreadFrame(c, p)
  BY <1>1 DEF ThreadFrame, Exclusive, SleepDone, Goto, cpuvars, procvars, devvars, CpuTypes,
     ProcTypes, DevTypes, Labels, Chan
<1>4. QED
  BY <1>1, <1>3, DropMoves DEF SleepDone, At, Goto, DropMove, cpuvars, ProcTypes

(* yield() makes the process RUNNABLE under p->lock and keeps SInv. *)
LEMMA YieldSetInv ==
  ASSUME SInv, NEW c \in CPU, NEW p \in Proc, YieldSet(c, p)
  PROVE  SInv'
<1>1. /\ on[c] = p /\ hpc[c] = "none" /\ Exclusive /\ ThreadInv(c, p)
      /\ SpinTypes /\ CpuTypes /\ ProcTypes /\ DevTypes
  BY Unpack DEF YieldSet, At
<1>3. ThreadFrame(c, p)
  BY SMTT(30), Z3T(30), <1>1
    DEF ThreadFrame, Exclusive, YieldSet, Goto, cpuvars, procvars, devvars, CpuTypes,
     ProcTypes, DevTypes, Labels, Chan
<1>4. QED
  BY <1>1, <1>3, TakeMoves DEF YieldSet, At, Goto, TakeMove, cpuvars, ProcTypes

(* yield() releases p->lock with interrupts still off and keeps SInv. *)
LEMMA YieldDoneInv ==
  ASSUME SInv, NEW c \in CPU, NEW p \in Proc, YieldDone(c, p)
  PROVE  SInv'
<1>1. /\ on[c] = p /\ hpc[c] = "none" /\ Exclusive /\ ThreadInv(c, p)
      /\ SpinTypes /\ CpuTypes /\ ProcTypes /\ DevTypes
  BY Unpack DEF YieldDone, At
<1>3. ThreadFrame(c, p)
  BY <1>1 DEF ThreadFrame, Exclusive, YieldDone, Goto, cpuvars, procvars, devvars, CpuTypes,
     ProcTypes, DevTypes, Labels, Chan
<1>4. QED
  BY <1>1, <1>3, DropMoves DEF YieldDone, At, Goto, DropMove, cpuvars, ProcTypes

(* The return from the timer interrupt turns interrupts on and keeps SInv. *)
LEMMA TrapReturnInv ==
  ASSUME SInv, NEW c \in CPU, NEW p \in Proc, TrapReturn(c, p)
  PROVE  SInv'
<1>1. /\ on[c] = p /\ hpc[c] = "none" /\ Exclusive /\ ThreadInv(c, p)
      /\ SpinTypes /\ CpuTypes /\ ProcTypes /\ DevTypes
  BY Unpack DEF TrapReturn, At
<1>2. ret[p] \in Unlocked
  BY <1>1, Unpack DEF TrapReturn, At, Yielding
<1>3. ThreadFrame(c, p)
  BY SMTT(30), Z3T(30), <1>1, <1>2
    DEF ThreadFrame, Exclusive, TrapReturn, Goto, cpuvars, procvars, devvars,
     CpuTypes, ProcTypes, DevTypes, Labels, Chan, Unlocked
<1>4. pc[p] = "y_ret" /\ pc'[p] = ret[p] /\ intr'[c] = 1 /\ state' = state
  BY <1>1 DEF TrapReturn, At, Goto, SpinTypes, ProcTypes
<1>5. KeepMove(c, p) /\ pc'[p] # "sl_sched"
  BY <1>2, <1>4 DEF KeepMove, Unlocked
<1>6. QED BY SMTT(30), Z3T(30), <1>1, <1>3, <1>4, <1>5, KeepMoves DEF TrapReturn, SpinTypes

(* The process is back in sched(), perhaps on another CPU, with the intena *)
(* it saved, and keeps SInv.                                               *)
LEMMA SchedInInv ==
  ASSUME SInv, NEW c \in CPU, NEW p \in Proc, SchedIn(c, p)
  PROVE  SInv'
<1>1. /\ on[c] = p /\ hpc[c] = "none" /\ pc[p] \in {"sl_back", "y_back"} /\ p # None
      /\ SpinTypes /\ CpuTypes /\ ProcTypes /\ DevTypes /\ ThreadInv(c, p)
  BY ProcNotNone, Types, ThreadBefore DEF SchedIn, At, SInv
<1>3. ThreadFrame(c, p)
  BY SMTT(30), Z3T(30), <1>1
    DEF ThreadFrame, SInv, Exclusive, SchedIn, Goto, cpuvars, procvars, devvars, CpuTypes,
     ProcTypes, DevTypes, Labels, Chan
<1>4. (pc'[p] = IF pc[p] = "sl_back" THEN "sl_done" ELSE "y_done") /\ state'[p] = state[p] /\ widx'[c] = widx[c]
  BY <1>1 DEF SchedIn, Goto, cpuvars, procvars, CpuTypes, ProcTypes
<1>5. Arrived(c, p, pc'[p])
  BY <1>1, <1>4 DEF SchedIn, Arrived, ThreadInv, StateAt, SInv, ProcInv, Yielding, Unlocked
<1>6. LabelStep(pc[p], pc'[p], 0) /\ want[c] = None
  BY <1>1, <1>4, LabelSteps DEF ThreadInv, ProcNeeds
<1>7. \A x \in SpinLock : Holds(c, x)' <=> Holds(c, x)
  BY <1>1, <1>4 DEF Holds, ProcHolds, SchedIn, cpuvars, OwnLocked, BufLocked
<1>8. /\ LabelDepth(pc'[p]) > 0 => intr'[c] = 0 /\ intena'[c] = IF pc'[p] \in Yielding THEN 0 ELSE 1
      /\ LabelDepth(pc'[p]) = 0 => intr'[c] = IF pc'[p] \in {"y_acq", "y_ret"} THEN 0 ELSE 1
  <2>1. noff[c] = 1 /\ intr[c] = 0 /\ sav[p] = IF pc[p] = "sl_back" THEN 1 ELSE 0
    <3>1. LabelDepth(pc[p]) = 1 /\ Spinning(c) = 0
      BY <1>1, <1>6, LabelDepths DEF Spinning
    <3>2. noff[c] = 1 /\ intr[c] = 0
      BY SMTT(30), Z3T(30), <1>1, <3>1 DEF ThreadInv
    <3>3. QED BY <1>1, <3>2 DEF SInv, ProcInv
  <2>2. intr'[c] = 0 /\ intena'[c] = sav[p]
    BY <1>1, <2>1 DEF SchedIn, SpinTypes
  <2>3. QED BY <1>1, <1>4, <2>1, <2>2, LabelDepths DEF Yielding
<1>9. QED
  <2>1. SpinTypes' /\ \A d \in CPU \ {c} : intena'[d] = intena[d] /\ intr'[d] = intr[d]
    BY <1>1 DEF SchedIn, spinvars, SpinTypes, ProcTypes
  <2>2. QED BY <1>1, <1>3, <1>5, <1>6, <1>7, <1>8, <2>1, KeepStep DEF SchedIn, spinvars

(* sched() hands the CPU and p->lock to scheduler(): its checks pass, and  *)
(* SInv holds.                                                             *)
LEMMA SchedOutInv ==
  ASSUME SInv, NEW c \in CPU, NEW p \in Proc, SchedOut(c, p)
  PROVE  SInv'
<1>1. /\ on[c] = p /\ hpc[c] = "none" /\ pc[p] \in {"sl_sched", "y_sched"} /\ p # None
      /\ SpinTypes /\ CpuTypes /\ ProcTypes /\ DevTypes /\ TypeOK /\ LockInv
      /\ ThreadInv(c, p) /\ Running(c, p)
  BY ProcNotNone, Types, ThreadBefore DEF SchedOut, At, SInv
<1>2. /\ on'[c] = None /\ hpc'[c] = "none" /\ spc'[c] = "back" /\ sidx'[c] = p
      /\ pc'[p] = IF pc[p] = "sl_sched" THEN "sl_back" ELSE "y_back"
      /\ sav'[p] = intena[c] /\ state'[p] = state[p]
      /\ CpuTypes' /\ ProcTypes' /\ DevTypes' /\ SpinTypes'
  BY <1>1 DEF SchedOut, Goto, Running, devvars, spinvars, SpinTypes, CpuTypes, ProcTypes, DevTypes,
     Labels
<1>3. want[c] = None /\ noff[c] = 1 /\ intr[c] = 0
  <2>1. want[c] = None
    BY <1>1 DEF ThreadInv, ProcNeeds
  <2>2. LabelDepth(pc[p]) = 1 /\ Spinning(c) = 0
    BY <1>1, <2>1, LabelDepths DEF Spinning
  <2>3. QED BY SMTT(30), Z3T(30), <1>1, <2>1, <2>2 DEF ThreadInv
<1>4. /\ intena[c] = IF pc[p] = "sl_sched" THEN 1 ELSE 0
      /\ state[p] # "RUNNING"
  BY SMTT(30), Z3T(30), <1>1, <1>3 DEF ThreadInv, StateAt, SwitchedOut, Yielding
<1>5. Frame(c)
  BY <1>1 DEF Frame, SInv, Exclusive, SchedOut, Goto, spinvars, CpuTypes, ProcTypes
<1>6. CpuInv(c)'
  <2>1. want'[c] = None /\ noff'[c] = 1 /\ intr'[c] = 0
    BY <1>3 DEF SchedOut, spinvars
  <2>2. DepthInv(c)'
    <3>1. ThreadDepth(c)' = 1 BY <1>2 DEF ThreadDepth
    <3>2. HandlerDepth(c)' = 0 BY <1>2 DEF HandlerDepth
    <3>3. Spinning(c)' = 0 BY <2>1 DEF Spinning
    <3>4. QED BY SMTT(30), Z3T(30), <2>1, <3>1, <3>2, <3>3 DEF DepthInv
  <2>3. WhoInv(c)' /\ TrapInv(c)' /\ EnableInv(c)' /\ StateInv(c)'
    BY <1>2 DEF WhoInv, TrapInv, EnableInv, StateInv
  <2>4. QED BY <2>2, <2>3 DEF CpuInv
<1>7. LockInv'
  <2>1. \A x \in SpinLock : Holds(c, x)' <=> Holds(c, x)
    BY <1>1, <1>2 DEF Holds, ProcHolds, OwnLocked, BufLocked
  <2>2. QED BY <1>1, <1>5, <2>1, KeepLocks DEF SchedOut, spinvars
<1>8. panicked' = "none"
  <2>1. Holds(c, p) /\ p \in SpinLock
    BY <1>1 DEF Holds, ProcHolds, OwnLocked, SpinLock
  <2>2. QED BY <1>1, <1>3, <1>4, <2>1 DEF SchedOut, MaySched, LockInv
<1>9. (\A q \in Proc : ProcInv(q)') /\ Exclusive'
  <2>1. ASSUME NEW q \in Proc \ {p} PROVE ProcInv(q)'
    <3>1. /\ pc'[q] = pc[q] /\ ret'[q] = ret[q] /\ sav'[q] = sav[q] /\ state'[q] = state[q]
          /\ \A d \in CPU : on[d] = q => on'[d] = q
      BY <1>1, <2>1 DEF SchedOut, Goto, CpuTypes, ProcTypes
    <3>2. QED BY <2>1, <3>1 DEF SInv, ProcInv
  <2>2. ret[p] \in Unlocked \/ pc[p] = "sl_sched"
    BY <1>1 DEF SInv, ProcInv, Yielding
  <2>3. ProcInv(p)'
    BY <1>1, <1>2, <1>4, <2>2 DEF ProcInv, SchedOut, SwitchedOut, Yielding
  <2>4. Exclusive'
    BY <1>1 DEF Exclusive, SInv, SchedOut, CpuTypes
  <2>5. QED BY <2>1, <2>3, <2>4
<1>10. QED BY <1>2, <1>5, <1>6, <1>7, <1>8, <1>9, TypesAfter, Compose

-----------------------------------------------------------------------------
(* The part of CpuInv that is about a CPU in scheduler(). *)
IdleInv(c) ==
  /\ spc[c] # "back" => cproc[c] = None
  /\ spc[c] # "loop" => sidx[c] \in Proc
  /\ want[c] # None => spc[c] = "scan" /\ want[c] = sidx[c]
  /\ noff[c] = (IF spc[c] \in {"back", "rel"} THEN 1 ELSE 0) + Spinning(c)
  /\ noff[c] > 0 => intr[c] = 0

(* What SInv says of a CPU in scheduler(), ... *)
LEMMA IdleBefore ==
  ASSUME SInv, NEW c \in CPU, on[c] = None, hpc[c] = "none"
  PROVE  IdleInv(c)
<1>1. CpuInv(c)
  BY DEF SInv
<1>2. ThreadDepth(c) = (IF spc[c] \in {"back", "rel"} THEN 1 ELSE 0) /\ HandlerDepth(c) = 0
  BY DEF ThreadDepth, HandlerDepth
<1>3. Spinning(c) \in 0 .. 1
  BY SMTT(30), Z3T(30) DEF Spinning
<1>4. noff[c] = (IF spc[c] \in {"back", "rel"} THEN 1 ELSE 0) + Spinning(c)
  BY SMTT(30), Z3T(30), <1>1, <1>2, <1>3 DEF CpuInv, DepthInv
<1>5. QED BY <1>1, <1>4 DEF IdleInv, CpuInv, WhoInv, DepthInv, Needs

(* ... and what has to be shown of it after a step. *)
LEMMA IdleAfter ==
  ASSUME NEW c \in CPU, on'[c] = None, hpc'[c] = "none", IdleInv(c)'
  PROVE  CpuInv(c)'
<1>1. ThreadDepth(c)' = (IF spc'[c] \in {"back", "rel"} THEN 1 ELSE 0) /\ HandlerDepth(c)' = 0
  BY DEF ThreadDepth, HandlerDepth
<1>2. Spinning(c)' \in 0 .. 1
  BY SMTT(30), Z3T(30) DEF Spinning
<1>3. DepthInv(c)'
  BY SMTT(30), Z3T(30), <1>1, <1>2 DEF IdleInv, DepthInv, Needs
<1>4. WhoInv(c)' /\ TrapInv(c)' /\ EnableInv(c)' /\ StateInv(c)'
  BY DEF IdleInv, WhoInv, TrapInv, EnableInv, StateInv
<1>5. QED BY <1>3, <1>4 DEF CpuInv

(* A step of scheduler() other than the one that runs a process. *)
IdleFrame(c) ==
  /\ on' = on /\ hpc' = hpc /\ widx' = widx /\ UNCHANGED procvars /\ UNCHANGED devvars
  /\ \A d \in CPU \ {c} : /\ want'[d] = want[d] /\ noff'[d] = noff[d] /\ intena'[d] = intena[d]
                          /\ intr'[d] = intr[d] /\ cproc'[d] = cproc[d] /\ spc'[d] = spc[d]
                          /\ sidx'[d] = sidx[d]
  /\ SpinTypes' /\ CpuTypes'

(* Such a step disturbs no other CPU. *)
LEMMA IdleFrames ==
  ASSUME NEW c \in CPU, IdleFrame(c)
  PROVE  Frame(c)
BY DEF Frame, IdleFrame, procvars

(* The invariant after such a step. *)
LEMMA IdleStep ==
  ASSUME SInv, NEW c \in CPU, on[c] = None, hpc[c] = "none", IdleFrame(c),
         IdleInv(c)', LockInv', panicked' = "none"
  PROVE  SInv'
<1>1. ProcTypes' /\ DevTypes'
  BY Types DEF SInv, IdleFrame, procvars, devvars, ProcTypes, DevTypes
<1>2. TypeOK'
  BY <1>1, TypesAfter DEF IdleFrame
<1>3. CpuInv(c)'
  BY IdleAfter DEF IdleFrame
<1>4. (\A q \in Proc : ProcInv(q)') /\ Exclusive'
  BY DEF SInv, ProcInv, Exclusive, IdleFrame, procvars
<1>5. QED BY <1>2, <1>3, <1>4, IdleFrames, Compose

(* The head of scheduler()'s loop keeps SInv. *)
LEMMA SchedLoopInv ==
  ASSUME SInv, NEW c \in CPU, SchedLoop(c)
  PROVE  SInv'
<1>1. /\ on[c] = None /\ hpc[c] = "none" /\ spc[c] = "loop" /\ IdleInv(c) /\ LockInv
      /\ SpinTypes /\ CpuTypes
  BY IdleBefore, Types DEF SchedLoop, InScheduler, SInv
<1>2. IdleFrame(c)
  BY SMTT(30), Z3T(30), <1>1, ProcAssumption DEF IdleFrame, SchedLoop, SpinTypes, CpuTypes
<1>3. /\ spc'[c] = "scan" /\ sidx'[c] = 1 /\ want'[c] = None /\ noff'[c] = 0 /\ cproc'[c] = None
      /\ 1 \in Proc
  BY SMTT(30), Z3T(30), <1>1, ProcAssumption
    DEF SchedLoop, IdleInv, Spinning, SpinTypes, CpuTypes, Proc
<1>4. IdleInv(c)'
  BY SMTT(30), Z3T(30), <1>3 DEF IdleInv, Spinning
<1>5. LockInv'
  <2>1. \A x \in SpinLock : Holds(c, x)' <=> Holds(c, x)
    BY <1>1, <1>3 DEF Holds, SchedLoop
  <2>2. QED BY <1>1, <1>2, <2>1, IdleFrames, KeepLocks DEF SchedLoop
<1>6. QED BY <1>1, <1>2, <1>4, <1>5, IdleStep DEF SchedLoop, SInv

(* scheduler() that passes over a process keeps SInv. *)
LEMMA SchedSkipInv ==
  ASSUME SInv, NEW c \in CPU, SchedSkip(c)
  PROVE  SInv'
<1>1. /\ on[c] = None /\ hpc[c] = "none" /\ spc[c] = "scan" /\ IdleInv(c) /\ LockInv /\ TypeOK
      /\ SpinTypes /\ CpuTypes /\ sidx[c] \in Proc /\ sidx[c] \in SpinLock /\ sidx[c] # None
  BY IdleBefore, Types, ProcNotNone DEF SchedSkip, InScheduler, SInv, IdleInv, SpinLock
<1>2. /\ SpinTypes' /\ want[c] = sidx[c] /\ want'[c] = None /\ noff'[c] = noff[c] /\ intr'[c] = intr[c]
  BY <1>1, TakeEffect DEF SchedSkip
<1>3. IdleFrame(c)
  BY <1>1, <1>2 DEF IdleFrame, SchedSkip, Take, SpinTypes, CpuTypes
<1>4. spc'[c] = "rel" /\ sidx'[c] = sidx[c] /\ cproc'[c] = None /\ noff[c] = 1
  BY SMTT(30), Z3T(30), <1>1, <1>2 DEF SchedSkip, IdleInv, Spinning, CpuTypes
<1>5. IdleInv(c)'
  BY SMTT(30), Z3T(30), <1>1, <1>2, <1>4 DEF IdleInv, Spinning
<1>6. LockInv'
  <2>1. \A x \in SpinLock : Holds(c, x)' <=> Holds(c, x) \/ x = sidx[c]
    BY <1>1, <1>4 DEF Holds, SchedSkip
  <2>2. QED BY <1>1, <1>3, <2>1, IdleFrames, TakeLock DEF SchedSkip
<1>7. QED BY <1>1, <1>3, <1>5, <1>6, IdleStep DEF SchedSkip, Take, SInv

(* scheduler() after swtch() still has the p->lock that the process took,  *)
(* and keeps SInv.                                                         *)
LEMMA SchedBackInv ==
  ASSUME SInv, NEW c \in CPU, SchedBack(c)
  PROVE  SInv'
<1>1. /\ on[c] = None /\ hpc[c] = "none" /\ spc[c] = "back" /\ IdleInv(c) /\ LockInv
      /\ SpinTypes /\ CpuTypes
  BY IdleBefore, Types DEF SchedBack, InScheduler, SInv
<1>2. IdleFrame(c)
  BY <1>1 DEF IdleFrame, SchedBack, spinvars, SpinTypes, CpuTypes
<1>3. /\ spc'[c] = "rel" /\ sidx'[c] = sidx[c] /\ cproc'[c] = None
      /\ want'[c] = want[c] /\ noff'[c] = noff[c] /\ intr'[c] = intr[c]
  BY <1>1 DEF SchedBack, spinvars, CpuTypes
<1>4. IdleInv(c)'
  BY <1>1, <1>3 DEF IdleInv, Spinning
<1>5. LockInv'
  <2>1. \A x \in SpinLock : Holds(c, x)' <=> Holds(c, x)
    BY <1>1, <1>3 DEF Holds, SchedBack
  <2>2. QED BY <1>1, <1>2, <2>1, IdleFrames, KeepLocks DEF SchedBack, spinvars
<1>6. QED BY <1>1, <1>2, <1>4, <1>5, IdleStep DEF SchedBack, SInv

(* scheduler() releases p->lock and keeps SInv. *)
LEMMA SchedReleaseInv ==
  ASSUME SInv, NEW c \in CPU, SchedRelease(c)
  PROVE  SInv'
<1>1. /\ on[c] = None /\ hpc[c] = "none" /\ spc[c] = "rel" /\ IdleInv(c) /\ LockInv /\ TypeOK
      /\ SpinTypes /\ CpuTypes /\ sidx[c] \in Proc /\ sidx[c] \in SpinLock /\ CpuInv(c)
  BY IdleBefore, Types DEF SchedRelease, InScheduler, SInv, IdleInv, SpinLock
<1>2. Holds(c, sidx[c]) /\ MayRelease(c, sidx[c])
  BY <1>1, HoldsMayRelease DEF Holds
<1>3. /\ SpinTypes' /\ panicked' = "none" /\ want'[c] = want[c] /\ noff'[c] = noff[c] - 1
  BY <1>1, <1>2, DropEffect DEF SchedRelease
<1>4. IdleFrame(c)
  BY SMTT(30), Z3T(30), <1>1, <1>3, ProcAssumption
    DEF IdleFrame, SchedRelease, Drop, SpinTypes, CpuTypes, Proc
<1>5. /\ spc'[c] = (IF sidx[c] = NPROC THEN "loop" ELSE "scan") /\ sidx'[c] = sidx[c] + 1
      /\ cproc'[c] = None /\ want[c] = None /\ noff[c] = 1
  BY SMTT(30), Z3T(30), <1>1 DEF SchedRelease, IdleInv, Spinning, CpuTypes
<1>6. IdleInv(c)'
  <2>1. sidx[c] # NPROC => sidx[c] + 1 \in Proc
    BY SMTT(30), Z3T(30), <1>1, ProcAssumption DEF Proc
  <2>2. QED BY SMTT(30), Z3T(30), <1>3, <1>5, <2>1 DEF IdleInv, Spinning
<1>7. LockInv'
  <2>1. \A x \in SpinLock : Holds(c, x)' <=> Holds(c, x) /\ x # sidx[c]
    BY SMTT(30), Z3T(30), <1>1, <1>5 DEF Holds, SchedRelease
  <2>2. QED BY <1>1, <1>2, <1>4, <2>1, IdleFrames, DropLock DEF SchedRelease
<1>8. QED BY <1>1, <1>3, <1>4, <1>6, <1>7, IdleStep

(* scheduler() switches to a process that no CPU runs: a RUNNABLE one that *)
(* is still on a CPU is on its way to swtch(), with p->lock.               *)
LEMMA SchedRunInv ==
  ASSUME SInv, NEW c \in CPU, SchedRun(c)
  PROVE  SInv'
<1>0. /\ on[c] = None /\ hpc[c] = "none" /\ spc[c] = "scan" /\ IdleInv(c) /\ LockInv /\ TypeOK
      /\ SpinTypes /\ CpuTypes /\ ProcTypes /\ DevTypes /\ sidx[c] \in Proc
  BY IdleBefore, Types DEF SchedRun, InScheduler, SInv, IdleInv
<1> PICK p \in Proc : p = sidx[c]
  BY <1>0
<1>1. /\ on[c] = None /\ hpc[c] = "none" /\ spc[c] = "scan" /\ IdleInv(c) /\ LockInv /\ TypeOK
      /\ SpinTypes /\ CpuTypes /\ ProcTypes /\ DevTypes
      /\ p \in SpinLock /\ p # None /\ p = sidx[c]
  BY <1>0, ProcNotNone DEF SpinLock
<1>2. /\ SpinTypes' /\ want[c] = p /\ want'[c] = None
      /\ noff'[c] = noff[c] /\ intr'[c] = intr[c] /\ lock[p] = NoCPU /\ panicked' = "none"
  BY <1>1, TakeEffect DEF SchedRun, Take, SInv
<1>3. \A d \in CPU : on[d] # p
  <2>1. SUFFICES ASSUME NEW d \in CPU, on[d] = p PROVE FALSE
    OBVIOUS
  <2>2. pc[p] = "y_sched"
    BY <1>1, <2>1 DEF SInv, CpuInv, StateInv, StateAt, SchedRun
  <2>3. Holds(d, p)
    BY <1>1, <2>1, <2>2 DEF Holds, ProcHolds, OwnLocked
  <2>4. QED BY <1>1, <1>2, <2>3, CpuAssumption DEF LockInv
<1>4. pc[p] \in SwitchedOut
  BY <1>1, <1>3 DEF SInv, ProcInv
<1>5. /\ on' = [on EXCEPT ![c] = p] /\ on'[c] = p /\ Running(c, p)'
      /\ pc'[p] = pc[p] /\ state'[p] = "RUNNING"
      /\ CpuTypes' /\ ProcTypes' /\ DevTypes'
  BY <1>1 DEF SchedRun, Running, CpuTypes, ProcTypes, DevTypes, devvars
<1>6. Frame(c)
  BY <1>1, <1>3 DEF Frame, SchedRun, Take, SpinTypes, CpuTypes, ProcTypes
<1>7. CpuInv(c)'
  <2>1. noff[c] = 1 /\ intr[c] = 0
    BY SMTT(30), Z3T(30), <1>1, <1>2 DEF IdleInv, Spinning
  <2>2. LabelDepth(pc[p]) = 1
    BY <1>4, LabelDepths DEF SwitchedOut
  <2>3. state'[p] = StateAt(pc'[p]) /\ pc'[p] \notin {"rs_wk", "rs_next"}
    BY <1>4, <1>5 DEF StateAt, SwitchedOut
  <2>4. Spinning(c)' = 0
    BY <1>2 DEF Spinning
  <2>5. ThreadInv(c, p)'
    BY SMTT(30), Z3T(30), <1>2, <1>4, <1>5, <2>1, <2>2, <2>3, <2>4 DEF ThreadInv
  <2>6. QED BY <1>1, <1>5, <2>5, ThreadAfter
<1>8. LockInv'
  <2>1. \A x \in SpinLock : Holds(c, x)' <=> Holds(c, x) \/ x = p
    BY <1>1, <1>4, <1>5 DEF Holds, ProcHolds, SchedRun, SwitchedOut, OwnLocked, BufLocked
  <2>2. QED BY <1>1, <1>6, <2>1, TakeLock DEF SchedRun
<1>9. (\A q \in Proc : ProcInv(q)') /\ Exclusive'
  <2>1. ASSUME NEW q \in Proc PROVE ProcInv(q)'
    <3>1. pc'[q] = pc[q] /\ ret'[q] = ret[q] /\ sav'[q] = sav[q]
      BY DEF SchedRun
    <3>2. CASE q = p
      BY <1>1, <1>4, <1>5, <3>1, <3>2 DEF SInv, ProcInv
    <3>3. CASE q # p
      <4>1. state'[q] = state[q] /\ \A d \in CPU : on[d] = q => on'[d] = q
        BY SMTT(30), Z3T(30), <1>1, <1>5, <3>3, ProcNotNone DEF SchedRun, CpuTypes, ProcTypes
      <4>2. QED BY <3>1, <4>1 DEF SInv, ProcInv
    <3>4. QED BY <3>2, <3>3
  <2>2. Exclusive'
    BY <1>1, <1>3, <1>5 DEF SInv, Exclusive, CpuTypes
  <2>3. QED BY <2>1, <2>2
<1>10. QED BY <1>2, <1>5, <1>6, <1>7, <1>8, <1>9, TypesAfter, Compose
=============================================================================
