--------------------------- MODULE ProcLifeProof ---------------------------
(***************************************************************************)
(* Proofs about ProcLife, for a process table of any size, any number of   *)
(* pids and any arguments of kill(): no process loses its parent, no exit  *)
(* status is lost, repeated or confused, no process is killed that nobody  *)
(* named, and init never loses its shell.                                  *)
(*                                                                         *)
(* The invariant LInv adds to these what ties a process's entry of the     *)
(* table to the place it has reached in fork(), exit() or wait(): who      *)
(* holds wait_lock, which half made entry fork() works on, and that a      *)
(* process about to become a zombie has a parent that is awake.            *)
(***************************************************************************)
EXTENDS ProcLife, WellFoundedInduction, TLAPS

(* A leaf goes to Zenon, and to the SMT solver if Zenon fails.  Leaves     *)
(* that need arithmetic or the theory of functions name the SMT solver,    *)
(* which is tried twice.                                                   *)
USE ZenonT(30), SMTT(30), Z3T(30)

(* The places in the code where a process holds no lock and no half made   *)
(* child, ...                                                              *)
Plain == {"user", "exit", "alloc", "wait", "kill"}

(* ... where it holds wait_lock, and where fork() has a half made child. *)
WaitLocked == {"exit_zombie", "wait_sleep"}
Forking == {"fork_parent", "fork_run"}

TableTypes ==
  /\ state \in [Proc -> {"UNUSED", "USED", "SLEEPING", "RUNNABLE", "ZOMBIE"}]
  /\ pid \in [Proc -> 0 .. MaxPid]
  /\ parent \in [Proc -> Proc \cup {None}]
  /\ killed \in [Proc -> 0 .. 1]
  /\ xstate \in [Proc -> Status]
  /\ chan \in [Proc -> Proc \cup {None}]

CodeTypes ==
  /\ nextpid \in 2 .. MaxPid + 1
  /\ waitlock \in Proc \cup {None}
  /\ pc \in [Proc -> Plain \cup WaitLocked \cup Forking \cup {"none"}]
  /\ idx \in [Proc -> 1 .. NPROC + 1]
  /\ arg \in [Proc -> Nat]
  /\ status \in [Proc -> Status]
  /\ shell \in 0 .. MaxPid
  /\ exitcode \in [1 .. MaxPid -> Status \cup {"none"}]
  /\ delivered \in [1 .. MaxPid -> Seq(Status)]

(* A process is somewhere in the kernel or in its program exactly if it    *)
(* can run or sleeps, and it sleeps in wait() only; wait_lock is held by   *)
(* the process whose code says so.                                         *)
CodeInv ==
  \A p \in Proc :
    /\ state[p] \in {"UNUSED", "USED", "ZOMBIE"} => pc[p] = "none"
    /\ state[p] = "SLEEPING" => pc[p] = "wait" /\ chan[p] = p
    /\ state[p] = "RUNNABLE" => pc[p] # "none"
    /\ pc[p] \in WaitLocked <=> waitlock = p

(* Init lives on, without a parent. *)
InitInv ==
  /\ state[initproc] \in {"SLEEPING", "RUNNABLE"}
  /\ pc[initproc] # "exit_zombie"
  /\ parent[initproc] = None

(* The half made child of a fork() is its own. *)
ForkInv ==
  /\ \A p \in Proc : pc[p] \in Forking =>
       /\ arg[p] \in Proc /\ state[arg[p]] = "USED"
       /\ pc[p] = "fork_run" => parent[arg[p]] = p
  /\ \A p, q \in Proc : pc[p] \in Forking /\ pc[q] \in Forking /\ arg[p] = arg[q] => p = q

(* The parent can wait(), and is somebody else. *)
ParentInv == ParentCanWait /\ \A q \in Proc : parent[q] # q

(* Whoever sleeps in wait(), or is about to, has no zombie child; the      *)
(* parent of a process about to become a zombie is awake.                  *)
ZombieInv ==
  /\ \A p, q \in Proc : (state[p] = "SLEEPING" \/ pc[p] = "wait_sleep") /\ parent[q] = p =>
       state[q] # "ZOMBIE"
  /\ \A p \in Proc : pc[p] = "exit_zombie" => state[parent[p]] = "RUNNABLE"
  /\ \A q \in swtching : q \in Proc /\ state[q] = "ZOMBIE"

PidInv == UniquePids /\ \A q \in Proc : pid[q] < nextpid

(* A pid in use, or not given out yet, was never reported; a zombie still  *)
(* has its status.                                                         *)
StatusInv ==
  /\ \A i \in 1 .. MaxPid : delivered[i] \in {<< >>, <<exitcode[i]>>}
  /\ \A i \in 1 .. MaxPid : i >= nextpid => delivered[i] = << >>
  /\ \A q \in Proc : state[q] # "UNUSED" => delivered[pid[q]] = << >>
  /\ \A q \in Proc : state[q] = "ZOMBIE" => xstate[q] = exitcode[pid[q]]

(* The mark that kill() leaves, also in a free entry, whose pid is 0. *)
KillInv ==
  /\ \A p \in Proc : pc[p] = "kill" => arg[p] \in victims
  /\ \A q \in Proc : killed[q] = 1 => pid[q] \in victims \/ 0 \in victims

LInv ==
  /\ TableTypes /\ CodeTypes
  /\ CodeInv /\ InitInv /\ ForkInv /\ ParentInv /\ ZombieInv
  /\ PidInv /\ StatusInv /\ KillInv /\ InitHasShell

-----------------------------------------------------------------------------
(* The first process and the empty table. *)
LEMMA InitLInv ==
  ASSUME Init
  PROVE  LInv
<1>1. initproc \in Proc /\ None \notin Proc
  BY SMTT(30), Z3T(30), TableAssumption DEF Proc, initproc, None
<1>2. TableTypes /\ CodeTypes
  BY SMTT(30), Z3T(30), <1>1, TableAssumption
    DEF Init, TableTypes, CodeTypes, Proc, Plain, WaitLocked, Forking, Status, None
<1>3. CodeInv /\ InitInv /\ ForkInv /\ ParentInv /\ ZombieInv
  BY <1>1 DEF Init, CodeInv, InitInv, ForkInv, ParentInv, ParentCanWait, ZombieInv, WaitLocked,
     Forking, Live
<1>4. PidInv /\ StatusInv /\ KillInv /\ InitHasShell
  BY SMTT(30), Z3T(30), <1>1, TableAssumption
    DEF Init, PidInv, UniquePids, StatusInv, KillInv, InitHasShell, initproc
<1>5. QED BY <1>2, <1>3, <1>4 DEF LInv

(* Facts every step uses. *)
LEMMA Basics ==
  /\ initproc \in Proc /\ None \notin Proc /\ Proc \subseteq Nat /\ NPROC \in Nat
  /\ \A l \in Plain \cup WaitLocked \cup Forking : l # "none"
  /\ \A l \in Plain : l \notin WaitLocked /\ l \notin Forking
  /\ \A l \in Forking : l \notin WaitLocked
BY SMTT(30), Z3T(30), TableAssumption DEF Proc, initproc, None, Plain, WaitLocked, Forking

(* A set of numbers that is not empty has a least one. *)
LEMMA Least ==
  ASSUME NEW S, S \subseteq Nat, S # {}
  PROVE  \E n \in S : \A m \in S : n <= m
<1>1. IsWellFoundedOn(OpToRel(<, Nat), Nat)
  BY NatLessThanWellFounded, ZenonT(30)
<1>2. PICK n \in S : \A m \in S : ~ (<<m, n>> \in OpToRel(<, Nat))
  BY <1>1, WFMin, ZenonT(30)
<1>3. \A m \in S : ~ (m < n)
  BY <1>2 DEF OpToRel
<1>4. QED BY SMTT(30), Z3T(30), <1>3

(* What CodeInv says of a process that takes a step. *)
LEMMA Running ==
  ASSUME LInv, NEW p \in Proc, NEW l, At(p, l)
  PROVE  /\ state[p] = "RUNNABLE" /\ pc[p] = l /\ panicked = "none"
         /\ l \in WaitLocked <=> waitlock = p
BY DEF LInv, CodeInv, At

(* A process about to become a zombie has a parent. *)
LEMMA DyingHasParent ==
  ASSUME LInv
  PROVE  \A q \in Proc : pc[q] = "exit_zombie" => parent[q] \in Proc
BY Basics DEF LInv, ParentInv, ParentCanWait, CodeInv, InitInv, Live, TableTypes

(***************************************************************************)
(* Steps of process p from one plain place to another that touch neither   *)
(* the table nor wait_lock.                                                *)
(***************************************************************************)
LocalStep(p) ==
  /\ state[p] = "RUNNABLE" /\ pc[p] \in Plain
  /\ \E l \in Plain : pc' = [pc EXCEPT ![p] = l]
  /\ pc'[p] = "kill" => arg'[p] \in victims'
  /\ \A q \in Proc \ {p} : arg'[q] = arg[q]
  /\ victims \subseteq victims' /\ swtching' = swtching
  /\ idx' \in [Proc -> 1 .. NPROC + 1] /\ arg' \in [Proc -> Nat] /\ status' \in [Proc -> Status]
  /\ UNCHANGED <<slots, nextpid, waitlock, shell, exitcode, delivered>>

(* They keep the invariant. *)
LEMMA LocalInv ==
  ASSUME LInv, NEW p \in Proc, LocalStep(p)
  PROVE  LInv'
<1>1. TableTypes /\ CodeTypes
  BY DEF LInv
<1>2. PICK l \in Plain : pc' = [pc EXCEPT ![p] = l]
  BY DEF LocalStep
<1>3. /\ pc[p] \in Plain /\ pc'[p] = l /\ pc' \in [Proc -> Plain \cup WaitLocked \cup Forking \cup {"none"}]
      /\ \A q \in Proc \ {p} : pc'[q] = pc[q] /\ arg'[q] = arg[q]
  BY <1>1, <1>2 DEF LocalStep, CodeTypes
<1>4. TableTypes' /\ CodeTypes'
  BY <1>1, <1>3 DEF TableTypes, CodeTypes, LocalStep, slots
<1>5. CodeInv'
  BY <1>3, Basics DEF LInv, CodeInv, LocalStep, slots
<1>6. InitInv'
  BY <1>3, Basics DEF LInv, InitInv, LocalStep, slots, Plain
<1>7. ForkInv'
  BY <1>3, Basics DEF LInv, ForkInv, LocalStep, slots
<1>8. ParentInv'
  BY <1>1, <1>3 DEF LInv, ParentInv, ParentCanWait, LocalStep, slots, Plain
<1>9. ZombieInv'
  BY SMTT(30), Z3T(30), <1>3 DEF LInv, ZombieInv, LocalStep, slots, Plain
<1>10. PidInv' /\ StatusInv' /\ InitHasShell'
  BY DEF LInv, PidInv, UniquePids, StatusInv, InitHasShell, Children, LocalStep, slots
<1>11. KillInv'
  BY <1>3 DEF LInv, KillInv, LocalStep, slots
<1>12. QED BY <1>4, <1>5, <1>6, <1>7, <1>8, <1>9, <1>10, <1>11 DEF LInv

(* System calls begin, loops over the table go on, and calls that change   *)
(* nothing return.                                                         *)
LEMMA LocalSteps ==
  ASSUME LInv, NEW p \in Proc,
         \/ UserStep(p)
         \/ AllocSkip(p) \/ AllocFull(p) \/ WaitFault(p) \/ WaitNone(p)
         \/ KillSkip(p) \/ KillNone(p)
  PROVE  LInv'
<1>1. TableTypes /\ CodeTypes /\ \A l : At(p, l) => state[p] = "RUNNABLE" /\ pc[p] = l
  BY Running DEF LInv
<1>r. [idx EXCEPT ![p] = 1] \in [Proc -> 1 .. NPROC + 1]
  BY SMTT(30), Z3T(30), <1>1, TableAssumption DEF CodeTypes
<1>2. CASE TrapKilled(p)
  BY <1>1, <1>2, LocalInv DEF TrapKilled, Goto, LocalStep, Plain, history, CodeTypes, Status
<1>3. CASE CallFork(p)
  BY <1>1, <1>3, <1>r, LocalInv
  DEF CallFork, Goto, LocalStep, Plain, history, CodeTypes
<1>4. CASE CallWait(p)
  BY <1>1, <1>4, LocalInv DEF CallWait, Goto, LocalStep, Plain, history, CodeTypes
<1>5. ASSUME NEW s \in Status, CallExit(p, s) PROVE LInv'
  BY <1>1, <1>5, LocalInv DEF CallExit, Goto, LocalStep, Plain, history, CodeTypes
<1>6. ASSUME NEW i \in KillArgs, CallKill(p, i) PROVE LInv'
  <2>1. i \in Nat BY ArgAssumption
  <2>2. QED
    BY <1>1, <1>6, <1>r, <2>1, LocalInv
    DEF CallKill, Goto, LocalStep, Plain, CodeTypes
<1>7. CASE AllocSkip(p)
  <2>1. idx' \in [Proc -> 1 .. NPROC + 1]
    BY SMTT(30), Z3T(30), <1>1, <1>7, TableAssumption DEF AllocSkip, CodeTypes, Proc
  <2>2. pc' = [pc EXCEPT ![p] = "alloc"]
    BY <1>1, <1>7 DEF AllocSkip, CodeTypes
  <2>3. QED
    BY <1>1, <1>7, <2>1, <2>2, LocalInv DEF AllocSkip, LocalStep, Plain, history, CodeTypes
<1>8. CASE AllocFull(p)
  BY <1>1, <1>8, <1>r, LocalInv
  DEF AllocFull, ForkFailed, Goto, LocalStep, Plain, history, CodeTypes
<1>9. CASE WaitFault(p) \/ WaitNone(p)
  <2>1. At(p, "wait") /\ WaitReturns(p, -1)
        /\ UNCHANGED <<slots, nextpid, waitlock, swtching, idx, arg, status, panicked, history>>
    BY <1>9 DEF WaitFault, WaitNone, CanReap
  <2>2. shell' = shell
    BY SMTT(30), Z3T(30), <1>1, <2>1 DEF WaitReturns, CodeTypes
  <2>3. QED
    BY <1>1, <2>1, <2>2, LocalInv DEF WaitReturns, Goto, LocalStep, Plain, history, CodeTypes
<1>10. CASE KillSkip(p)
  <2>1. idx' \in [Proc -> 1 .. NPROC + 1]
    BY SMTT(30), Z3T(30), <1>1, <1>10, TableAssumption DEF KillSkip, CodeTypes, Proc
  <2>2. pc' = [pc EXCEPT ![p] = "kill"] /\ arg[p] \in victims
    BY <1>1, <1>10 DEF KillSkip, CodeTypes, LInv, KillInv
  <2>3. QED
    BY <1>1, <1>10, <2>1, <2>2, LocalInv DEF KillSkip, LocalStep, Plain, history, CodeTypes
<1>11. CASE KillNone(p)
  BY <1>1, <1>11, <1>r, LocalInv
  DEF KillNone, KillReturns, Goto, LocalStep, Plain, history, CodeTypes, None
<1>12. QED
  BY <1>2, <1>3, <1>4, <1>5, <1>6, <1>7, <1>8, <1>9, <1>10, <1>11 DEF UserStep

(* panic("init exiting") stops the machine, and scheduler() switches away  *)
(* from a zombie.                                                          *)
LEMMA QuietSteps ==
  ASSUME LInv, NEW p \in Proc, ExitInit(p) \/ SwtchOut(p) \/ UNCHANGED vars
  PROVE  LInv'
<1>1. /\ UNCHANGED <<slots, nextpid, waitlock, locals, history>>
      /\ swtching' \subseteq swtching
  BY DEF ExitInit, SwtchOut, vars
<1>2. TableTypes' /\ CodeTypes' /\ CodeInv' /\ InitInv' /\ ForkInv'
  BY <1>1 DEF LInv, TableTypes, CodeTypes, CodeInv, InitInv, ForkInv, slots, locals, history
<1>3. ParentInv' /\ ZombieInv' /\ PidInv' /\ StatusInv' /\ KillInv' /\ InitHasShell'
  BY SMTT(30), Z3T(30), <1>1
    DEF LInv, ParentInv, ParentCanWait, ZombieInv, PidInv, UniquePids, StatusInv, KillInv,
     InitHasShell, Children, slots, locals, history
<1>4. QED BY <1>2, <1>3 DEF LInv

-----------------------------------------------------------------------------
(* fork() *)

(* fork() runs out of memory: the entry it had taken is free again. *)
LEMMA ForkNoMemoryInv ==
  ASSUME LInv, NEW p \in Proc, ForkNoMemory(p)
  PROVE  LInv'
<1>1. TableTypes /\ CodeTypes /\ state[p] = "RUNNABLE" /\ pc[p] = "alloc"
  BY Running DEF LInv, ForkNoMemory, Unused
<1>2. PICK l \in {"exit", "user"} : pc' = [pc EXCEPT ![p] = l]
  BY DEF ForkNoMemory, ForkFailed, Goto
<1>3. /\ pc'[p] \in {"exit", "user"} /\ \A q \in Proc \ {p} : pc'[q] = pc[q]
      /\ idx[p] \in Proc /\ nextpid' = nextpid + 1 /\ nextpid <= MaxPid
      /\ killed' = [killed EXCEPT ![idx[p]] = 0]
      /\ UNCHANGED <<state, pid, parent, xstate, chan, waitlock, swtching, arg, status, shell, history>>
  BY <1>1, <1>2 DEF ForkNoMemory, Unused, CodeTypes
<1>4. TableTypes' /\ CodeTypes'
  <2>1. TableTypes' BY SMTT(30), Z3T(30), <1>1, <1>3 DEF TableTypes
  <2>2. pc' \in [Proc -> Plain \cup WaitLocked \cup Forking \cup {"none"}] /\ idx' \in [Proc -> 1 .. NPROC + 1]
    BY SMTT(30), Z3T(30), <1>1, <1>2, TableAssumption DEF CodeTypes, Plain, ForkNoMemory, ForkFailed
  <2>3. QED BY SMTT(30), Z3T(30), <1>1, <1>3, <2>1, <2>2, TableAssumption DEF CodeTypes, history
<1>5. CodeInv'
  BY <1>1, <1>3 DEF LInv, CodeInv, WaitLocked
<1>6. InitInv' /\ ForkInv'
  BY SMTT(30), Z3T(30), <1>1, <1>3, Basics DEF LInv, InitInv, ForkInv, Forking
<1>7. ParentInv' /\ ZombieInv'
  BY SMTT(30), Z3T(30), <1>1, <1>3 DEF LInv, ParentInv, ParentCanWait, ZombieInv
<1>8. PidInv' /\ StatusInv' /\ InitHasShell'
  BY SMTT(30), Z3T(30), <1>1, <1>3
    DEF LInv, PidInv, UniquePids, StatusInv, InitHasShell, Children, history, CodeTypes,
     TableTypes
<1>9. KillInv'
  BY SMTT(30), Z3T(30), <1>1, <1>3 DEF LInv, KillInv, history, TableTypes
<1>10. QED BY <1>4, <1>5, <1>6, <1>7, <1>8, <1>9 DEF LInv

(* fork() takes a free entry and a fresh pid. *)
LEMMA ForkAllocInv ==
  ASSUME LInv, NEW p \in Proc, ForkAlloc(p)
  PROVE  LInv'
<1>1. TableTypes /\ CodeTypes /\ state[p] = "RUNNABLE" /\ pc[p] = "alloc"
  BY Running DEF LInv, ForkAlloc, Unused
<1>2. PICK e \in Proc : e = idx[p] /\ state[e] = "UNUSED" /\ e # p
  BY <1>1 DEF ForkAlloc, Unused
<1>3. /\ pc' = [pc EXCEPT ![p] = "fork_parent"] /\ arg' = [arg EXCEPT ![p] = e]
      /\ state' = [state EXCEPT ![e] = "USED"] /\ pid' = [pid EXCEPT ![e] = nextpid]
      /\ nextpid' = nextpid + 1 /\ nextpid <= MaxPid
      /\ UNCHANGED <<parent, killed, xstate, chan, waitlock, swtching, status, shell, history>>
  BY <1>2 DEF ForkAlloc, Goto
<1>4. /\ pc'[p] = "fork_parent" /\ arg'[p] = e /\ state'[e] = "USED" /\ pid'[e] = nextpid
      /\ \A q \in Proc \ {p} : pc'[q] = pc[q] /\ arg'[q] = arg[q]
      /\ \A q \in Proc \ {e} : state'[q] = state[q] /\ pid'[q] = pid[q]
      /\ state'[p] = "RUNNABLE"
  BY <1>1, <1>2, <1>3 DEF TableTypes, CodeTypes
<1>5. TableTypes' /\ CodeTypes'
  <2>1. TableTypes' BY SMTT(30), Z3T(30), <1>1, <1>3 DEF TableTypes, CodeTypes
  <2>2. /\ pc' \in [Proc -> Plain \cup WaitLocked \cup Forking \cup {"none"}]
        /\ idx' \in [Proc -> 1 .. NPROC + 1] /\ arg' \in [Proc -> Nat]
    BY SMTT(30), Z3T(30), <1>1, <1>2, <1>3, Basics, TableAssumption
      DEF CodeTypes, Forking, ForkAlloc
  <2>3. QED BY SMTT(30), Z3T(30), <1>1, <1>3, <2>1, <2>2, TableAssumption DEF CodeTypes, history
<1>6. CodeInv'
  BY SMTT(30), Z3T(30), <1>1, <1>2, <1>3, <1>4 DEF LInv, CodeInv, WaitLocked
<1>7. InitInv'
  BY <1>1, <1>2, <1>3, <1>4, Basics DEF LInv, InitInv
<1>8. ForkInv'
  BY SMTT(30), Z3T(30), <1>1, <1>2, <1>3, <1>4 DEF LInv, ForkInv, Forking
<1>9. ParentInv'
  BY SMTT(30), Z3T(30), <1>1, <1>2, <1>3, <1>4 DEF LInv, ParentInv, ParentCanWait, Live
<1>10. ZombieInv'
  BY SMTT(30), Z3T(30), <1>1, <1>2, <1>3, <1>4
    DEF LInv, ZombieInv, ParentInv, ParentCanWait, CodeInv
<1>11. PidInv'
  BY SMTT(30), Z3T(30), <1>1, <1>2, <1>3, <1>4 DEF LInv, PidInv, UniquePids, TableTypes, CodeTypes
<1>12. StatusInv'
  BY SMTT(30), Z3T(30), <1>1, <1>2, <1>3, <1>4
    DEF LInv, StatusInv, PidInv, TableTypes, CodeTypes, history
<1>13. KillInv'
  <2>1. pid[e] = 0 BY <1>2 DEF LInv, PidInv, UniquePids
  <2>2. QED BY SMTT(30), Z3T(30), <1>1, <1>3, <1>4, <2>1 DEF LInv, KillInv, history
<1>14. InitHasShell'
  BY SMTT(30), Z3T(30), <1>2, <1>3, <1>4 DEF LInv, InitHasShell, Children, Live
<1>15. QED
  BY <1>5, <1>6, <1>7, <1>8, <1>9, <1>10, <1>11, <1>12, <1>13, <1>14 DEF LInv

(* fork() becomes the parent of its half made child. *)
LEMMA ForkParentInv ==
  ASSUME LInv, NEW p \in Proc, ForkParent(p)
  PROVE  LInv'
<1>1. /\ TableTypes /\ CodeTypes /\ state[p] = "RUNNABLE" /\ pc[p] = "fork_parent"
      /\ arg[p] \in Proc /\ state[arg[p]] = "USED"
  BY Running DEF LInv, ForkParent, ForkInv, Forking
<1>2. PICK e \in Proc : e = arg[p] /\ e # p /\ e # initproc
  BY <1>1 DEF LInv, InitInv
<1>3. /\ pc' = [pc EXCEPT ![p] = "fork_run"] /\ parent' = [parent EXCEPT ![e] = p]
      /\ UNCHANGED <<state, pid, killed, xstate, chan, nextpid, waitlock, swtching, idx, arg, status,
                     shell, history>>
  BY <1>2 DEF ForkParent, Goto
<1>4. /\ pc'[p] = "fork_run" /\ parent'[e] = p
      /\ \A q \in Proc \ {p} : pc'[q] = pc[q]
      /\ \A q \in Proc \ {e} : parent'[q] = parent[q]
  BY <1>1, <1>3 DEF TableTypes, CodeTypes
<1>5. TableTypes' /\ CodeTypes'
  BY <1>1, <1>3 DEF TableTypes, CodeTypes, Forking, history
<1>6. CodeInv'
  BY SMTT(30), Z3T(30), <1>1, <1>3, <1>4 DEF LInv, CodeInv, WaitLocked
<1>7. InitInv'
  BY <1>1, <1>2, <1>3, <1>4, Basics DEF LInv, InitInv
<1>8. ForkInv'
  BY SMTT(30), Z3T(30), <1>1, <1>2, <1>3, <1>4 DEF LInv, ForkInv, Forking
<1>9. ParentInv'
  BY SMTT(30), Z3T(30), <1>1, <1>2, <1>3, <1>4 DEF LInv, ParentInv, ParentCanWait, Live
<1>10. ZombieInv'
  BY SMTT(30), Z3T(30), <1>1, <1>2, <1>3, <1>4 DEF LInv, ZombieInv, CodeInv
<1>11. PidInv' /\ StatusInv'
  BY <1>3 DEF LInv, PidInv, UniquePids, StatusInv, history
<1>12. KillInv'
  BY <1>3, <1>4 DEF LInv, KillInv, history
<1>13. InitHasShell'
  BY <1>1, <1>2, <1>3, <1>4 DEF LInv, InitHasShell, Children, Live
<1>14. QED
  BY <1>5, <1>6, <1>7, <1>8, <1>9, <1>10, <1>11, <1>12, <1>13 DEF LInv

(* The child is RUNNABLE, and fork() returns its pid. *)
LEMMA ForkRunInv ==
  ASSUME LInv, NEW p \in Proc, ForkRun(p)
  PROVE  LInv'
<1>1. /\ TableTypes /\ CodeTypes /\ state[p] = "RUNNABLE" /\ pc[p] = "fork_run"
      /\ arg[p] \in Proc /\ state[arg[p]] = "USED" /\ parent[arg[p]] = p
  BY Running DEF LInv, ForkRun, ForkInv, Forking
<1>2. PICK e \in Proc : e = arg[p] /\ e # p /\ e # initproc /\ pc[e] = "none" /\ pid[e] # 0
  BY <1>1 DEF LInv, InitInv, CodeInv, PidInv, UniquePids
<1>3. /\ pc' = [pc EXCEPT ![p] = "user", ![e] = "user"] /\ arg' = [arg EXCEPT ![p] = None]
      /\ state' = [state EXCEPT ![e] = "RUNNABLE"]
      /\ shell' = IF p = initproc THEN pid[e] ELSE shell
  BY <1>2 DEF ForkRun
<1>u. UNCHANGED <<pid, parent, killed, xstate, chan, nextpid, waitlock, swtching, idx, status, history>>
  BY DEF ForkRun
<1>4. /\ pc'[p] = "user" /\ pc'[e] = "user" /\ state'[e] = "RUNNABLE"
      /\ \A q \in Proc \ {p, e} : pc'[q] = pc[q] /\ arg'[q] = arg[q]
      /\ \A q \in Proc \ {e} : state'[q] = state[q]
  BY <1>1, <1>2, <1>3 DEF TableTypes, CodeTypes
<1>5. TableTypes' /\ CodeTypes'
  <2>1. TableTypes' BY <1>1, <1>3, <1>u DEF TableTypes
  <2>2. /\ pc' \in [Proc -> Plain \cup WaitLocked \cup Forking \cup {"none"}] /\ arg' \in [Proc -> Nat]
    BY <1>1, <1>3 DEF CodeTypes, Plain, None
  <2>3. shell' \in 0 .. MaxPid
    BY <1>1, <1>3 DEF CodeTypes, TableTypes
  <2>4. QED BY <1>1, <1>u, <2>1, <2>2, <2>3 DEF CodeTypes, history
<1>6. CodeInv'
  BY SMTT(30), Z3T(30), <1>1, <1>2, <1>u, <1>4 DEF LInv, CodeInv, WaitLocked
<1>7. InitInv'
  BY <1>1, <1>2, <1>u, <1>4, Basics DEF LInv, InitInv
<1>8. ForkInv'
  BY SMTT(30), Z3T(30), <1>1, <1>2, <1>u, <1>4 DEF LInv, ForkInv, Forking
<1>9. ParentInv'
  BY SMTT(30), Z3T(30), <1>1, <1>2, <1>u, <1>4 DEF LInv, ParentInv, ParentCanWait, Live
<1>10. ZombieInv'
  BY SMTT(30), Z3T(30), <1>1, <1>2, <1>u, <1>4, DyingHasParent DEF LInv, ZombieInv, CodeInv
<1>11. PidInv' /\ StatusInv'
  BY SMTT(30), Z3T(30), <1>1, <1>2, <1>u, <1>4 DEF LInv, PidInv, UniquePids, StatusInv, history
<1>12. KillInv'
  BY <1>u, <1>4 DEF LInv, KillInv, history
<1>13. InitHasShell'
  BY SMTT(30), Z3T(30), <1>1, <1>2, <1>3, <1>u, <1>4 DEF LInv, InitHasShell, Children, Live
<1>14. QED
  BY <1>5, <1>6, <1>7, <1>8, <1>9, <1>10, <1>11, <1>12, <1>13 DEF LInv

-----------------------------------------------------------------------------
(* exit() *)

(* The children go to init, and init and the parent are woken. *)
LEMMA ExitReparentInv ==
  ASSUME LInv, NEW p \in Proc, ExitReparent(p)
  PROVE  LInv'
<1>1. /\ TableTypes /\ CodeTypes /\ state[p] = "RUNNABLE" /\ pc[p] = "exit" /\ p # initproc
      /\ waitlock = None /\ initproc \in Proc /\ initproc # None
  BY Running, Basics DEF LInv, ExitReparent
<1>2. /\ pc' = [pc EXCEPT ![p] = "exit_zombie"] /\ waitlock' = p
      /\ parent' = [q \in Proc |-> IF parent[q] = p THEN initproc ELSE parent[q]]
      /\ UNCHANGED <<pid, killed, xstate, chan, nextpid, swtching, idx, arg, status, shell, history>>
  BY DEF ExitReparent, Goto
<1>3. /\ state' \in [Proc -> {"UNUSED", "USED", "SLEEPING", "RUNNABLE", "ZOMBIE"}]
      /\ \A q \in Proc : state'[q] = state[q] \/ (state[q] = "SLEEPING" /\ state'[q] = "RUNNABLE")
      /\ \A q \in Proc : q # p /\ state[q] = "SLEEPING" /\ chan[q] = parent[p] => state'[q] = "RUNNABLE"
      /\ Children(p) # {} =>
           \A q \in Proc : q # p /\ state[q] = "SLEEPING" /\ chan[q] = initproc => state'[q] = "RUNNABLE"
  BY <1>1 DEF ExitReparent, WakeupIn, TableTypes
<1>4. /\ pc'[p] = "exit_zombie" /\ state'[p] = "RUNNABLE"
      /\ \A q \in Proc \ {p} : pc'[q] = pc[q]
      /\ \A q \in Proc : parent'[q] = IF parent[q] = p THEN initproc ELSE parent[q]
  BY <1>1, <1>2, <1>3 DEF CodeTypes
<1>5. \A q \in Proc : pc[q] \notin WaitLocked
  BY <1>1, Basics DEF LInv, CodeInv
<1>6. /\ parent[p] \in Proc /\ parent[p] # p /\ state[parent[p]] \in {"SLEEPING", "RUNNABLE"}
  BY <1>1 DEF LInv, ParentInv, ParentCanWait, Live
<1>7. TableTypes' /\ CodeTypes'
  BY <1>1, <1>2, <1>3 DEF TableTypes, CodeTypes, WaitLocked, history
<1>8. CodeInv'
  BY SMTT(30), Z3T(30), <1>1, <1>2, <1>3, <1>4, <1>5 DEF LInv, CodeInv, WaitLocked, TableTypes
<1>9. InitInv'
  BY <1>1, <1>3, <1>4, Basics DEF LInv, InitInv
<1>10. ForkInv'
  BY SMTT(30), Z3T(30), <1>1, <1>2, <1>3, <1>4 DEF LInv, ForkInv, Forking
<1>11. ParentInv'
  <2>1. ASSUME NEW q \in Proc PROVE parent'[q] # q
    BY <1>1, <1>4, Basics DEF LInv, ParentInv, InitInv
  <2>2. ASSUME NEW q \in Proc \ {initproc}, state'[q] \in Live
        PROVE  /\ parent'[q] \in Proc /\ parent'[q] # p
               /\ state[parent'[q]] \in {"SLEEPING", "RUNNABLE"}
    BY SMTT(30), Z3T(30), <1>1, <1>3, <1>4, <2>2 DEF LInv, ParentInv, ParentCanWait, InitInv, Live
  <2>3. ParentCanWait'
    BY SMTT(30), Z3T(30), <1>3, <1>4, <1>5, <2>2 DEF ParentCanWait, WaitLocked
  <2>4. QED BY <2>1, <2>3 DEF ParentInv
<1>12. ZombieInv'
  <2>1. ASSUME NEW r \in Proc, NEW q \in Proc, state'[r] = "SLEEPING", parent'[q] = r
        PROVE  state'[q] # "ZOMBIE"
    <3>1. state[r] = "SLEEPING" /\ chan[r] = r
      BY <1>3, <2>1 DEF LInv, CodeInv
    <3>2. CASE parent[q] = p
      BY SMTT(30), Z3T(30), <1>1, <1>3, <1>4, <2>1, <3>1, <3>2 DEF Children
    <3>3. CASE parent[q] # p
      BY SMTT(30), Z3T(30), <1>3, <1>4, <2>1, <3>1, <3>3 DEF LInv, ZombieInv
    <3>4. QED BY <3>2, <3>3
  <2>2. \A r \in Proc : pc'[r] # "wait_sleep"
    BY <1>4, <1>5 DEF WaitLocked
  <2>3. parent'[p] = parent[p] /\ state'[parent[p]] = "RUNNABLE"
    <3>1. CASE state[parent[p]] = "SLEEPING"
      BY <1>3, <1>4, <1>6, <3>1 DEF LInv, CodeInv
    <3>2. QED BY <1>3, <1>4, <1>6, <3>1
  <2>4. \A r \in Proc : pc'[r] = "exit_zombie" => r = p
    BY <1>4, <1>5 DEF WaitLocked
  <2>5. QED BY SMTT(30), Z3T(30), <1>2, <1>3, <2>1, <2>2, <2>3, <2>4 DEF LInv, ZombieInv
<1>13. PidInv' /\ StatusInv'
  BY SMTT(30), Z3T(30), <1>2, <1>3 DEF LInv, PidInv, UniquePids, StatusInv, history
<1>14. KillInv'
  BY <1>2, <1>4 DEF LInv, KillInv, history
<1>15. InitHasShell'
  BY <1>1, <1>2, <1>3, <1>4 DEF LInv, InitHasShell, Children, Live
<1>16. QED
  BY <1>7, <1>8, <1>9, <1>10, <1>11, <1>12, <1>13, <1>14, <1>15 DEF LInv

(* The process is a zombie: its parent, awake, will find it. *)
LEMMA ExitZombieInv ==
  ASSUME LInv, NEW p \in Proc, ExitZombie(p)
  PROVE  LInv'
<1>1. /\ TableTypes /\ CodeTypes /\ state[p] = "RUNNABLE" /\ pc[p] = "exit_zombie"
      /\ waitlock = p /\ p # initproc /\ p # None
  BY Running, Basics DEF LInv, ExitZombie, InitInv, WaitLocked
<1>2. /\ pc' = [pc EXCEPT ![p] = "none"] /\ state' = [state EXCEPT ![p] = "ZOMBIE"]
      /\ xstate' = [xstate EXCEPT ![p] = status[p]] /\ waitlock' = None
      /\ status' = [status EXCEPT ![p] = "zero"] /\ swtching' = swtching \cup {p}
      /\ exitcode' = [exitcode EXCEPT ![pid[p]] = status[p]]
      /\ UNCHANGED <<pid, parent, killed, chan, nextpid, idx, arg, shell, delivered, victims>>
  BY DEF ExitZombie, Goto
<1>3. /\ pc'[p] = "none" /\ state'[p] = "ZOMBIE" /\ xstate'[p] = status[p]
      /\ \A q \in Proc \ {p} : pc'[q] = pc[q] /\ state'[q] = state[q] /\ xstate'[q] = xstate[q]
  BY <1>1, <1>2 DEF TableTypes, CodeTypes
<1>4. \A q \in Proc \ {p} : pc[q] \notin WaitLocked
  BY <1>1 DEF LInv, CodeInv
<1>5. /\ parent[p] \in Proc /\ parent[p] # p /\ state[parent[p]] = "RUNNABLE"
      /\ \A q \in Proc \ {initproc} : state[q] \in Live => parent[q] # p
  BY <1>1 DEF LInv, ParentInv, ParentCanWait, ZombieInv, Live
<1>6. pid[p] \in 1 .. MaxPid /\ pid[p] < nextpid /\ \A q \in Proc \ {p} : pid[q] # pid[p]
  BY SMTT(30), Z3T(30), <1>1 DEF LInv, PidInv, UniquePids, TableTypes
<1>7. TableTypes' /\ CodeTypes'
  <2>1. TableTypes' BY <1>1, <1>2 DEF TableTypes, CodeTypes
  <2>2. QED BY <1>1, <1>2, <2>1 DEF CodeTypes, Status
<1>8. CodeInv'
  BY SMTT(30), Z3T(30), <1>1, <1>2, <1>3, <1>4, Basics DEF LInv, CodeInv, WaitLocked
<1>9. InitInv'
  BY <1>1, <1>2, <1>3, Basics DEF LInv, InitInv
<1>10. ForkInv'
  BY SMTT(30), Z3T(30), <1>1, <1>2, <1>3 DEF LInv, ForkInv, Forking
<1>11. ParentInv'
  BY SMTT(30), Z3T(30), <1>1, <1>2, <1>3, <1>5 DEF LInv, ParentInv, ParentCanWait, Live
<1>12. ZombieInv'
  BY SMTT(30), Z3T(30), <1>1, <1>2, <1>3, <1>4, <1>5 DEF LInv, ZombieInv, WaitLocked
<1>13. PidInv'
  BY SMTT(30), Z3T(30), <1>1, <1>2, <1>3 DEF LInv, PidInv, UniquePids
<1>14. StatusInv'
  <2>1. /\ exitcode'[pid[p]] = status[p] /\ delivered[pid[p]] = << >>
        /\ \A i \in 1 .. MaxPid : i # pid[p] => exitcode'[i] = exitcode[i]
    BY <1>1, <1>2, <1>6 DEF CodeTypes, LInv, StatusInv
  <2>2. \A q \in Proc : state[q] # "UNUSED" => pid[q] \in 1 .. MaxPid
    BY SMTT(30), Z3T(30), <1>1 DEF LInv, PidInv, UniquePids, TableTypes
  <2>3. QED BY SMTT(30), Z3T(30), <1>1, <1>2, <1>3, <1>6, <2>1, <2>2 DEF LInv, StatusInv
<1>15. KillInv'
  BY <1>2, <1>3 DEF LInv, KillInv
<1>16. InitHasShell'
  BY <1>1, <1>2, <1>3 DEF LInv, InitHasShell, Children, Live
<1>17. QED
  BY <1>7, <1>8, <1>9, <1>10, <1>11, <1>12, <1>13, <1>14, <1>15, <1>16 DEF LInv

-----------------------------------------------------------------------------
(* wait() *)

(* wait() returns a zombie's status and frees its entry. *)
LEMMA WaitReapInv ==
  ASSUME LInv, NEW p \in Proc, WaitReap(p)
  PROVE  LInv'
<1>1. /\ TableTypes /\ CodeTypes /\ state[p] = "RUNNABLE" /\ pc[p] = "wait"
      /\ waitlock = None /\ Zombies(p) # {}
  BY Running DEF LInv, WaitReap, CanReap
<1>2. FirstZombie(p) \in Zombies(p)
  <2>1. Zombies(p) \subseteq Proc BY DEF Zombies, Children
  <2>2. \E q \in Zombies(p) : \A r \in Zombies(p) : q <= r
    BY <1>1, <2>1, Basics, Least
  <2>3. QED BY <2>2 DEF FirstZombie
<1>3. PICK z \in Proc : /\ z = FirstZombie(p) /\ state[z] = "ZOMBIE" /\ parent[z] = p
                        /\ z \notin swtching /\ z # p /\ z # initproc
  BY <1>1, <1>2 DEF WaitReap, CanReap, Zombies, Children, LInv, InitInv
<1>4. PICK l \in {"exit", "user"} : pc' = [pc EXCEPT ![p] = l]
  BY DEF WaitReap, WaitReturns, Goto
<1>5. /\ state' = [state EXCEPT ![z] = "UNUSED"] /\ pid' = [pid EXCEPT ![z] = 0]
      /\ parent' = [parent EXCEPT ![z] = None] /\ chan' = [chan EXCEPT ![z] = None]
      /\ killed' = [killed EXCEPT ![z] = 0] /\ xstate' = [xstate EXCEPT ![z] = "zero"]
      /\ delivered' = [delivered EXCEPT ![pid[z]] = Append(@, xstate[z])]
      /\ shell' = IF p = initproc /\ pid[z] = shell THEN 0 ELSE shell
      /\ UNCHANGED <<nextpid, waitlock, swtching, idx, arg, status, exitcode, victims>>
  BY <1>3 DEF WaitReap, WaitReturns
<1>6. /\ state'[z] = "UNUSED" /\ pid'[z] = 0 /\ parent'[z] = None /\ killed'[z] = 0
      /\ \A q \in Proc \ {z} : /\ state'[q] = state[q] /\ pid'[q] = pid[q] /\ parent'[q] = parent[q]
                               /\ chan'[q] = chan[q] /\ killed'[q] = killed[q] /\ xstate'[q] = xstate[q]
      /\ pc'[p] \in {"exit", "user"} /\ \A q \in Proc \ {p} : pc'[q] = pc[q]
  BY <1>1, <1>4, <1>5 DEF TableTypes, CodeTypes
<1>7. pid[z] \in 1 .. MaxPid /\ pid[z] < nextpid /\ \A q \in Proc \ {z} : pid[q] # pid[z]
  BY SMTT(30), Z3T(30), <1>1, <1>3 DEF LInv, PidInv, UniquePids, TableTypes
<1>8. /\ delivered'[pid[z]] = <<exitcode[pid[z]]>> /\ exitcode[pid[z]] \in Status
      /\ \A i \in 1 .. MaxPid : i # pid[z] => delivered'[i] = delivered[i]
  <2>1. delivered[pid[z]] = << >> /\ xstate[z] = exitcode[pid[z]] /\ xstate[z] \in Status
    BY <1>1, <1>3 DEF LInv, StatusInv, TableTypes
  <2>2. QED BY SMTT(30), Z3T(30), <1>1, <1>5, <1>7, <2>1 DEF CodeTypes
<1>9. TableTypes' /\ CodeTypes'
  <2>1. TableTypes' BY SMTT(30), Z3T(30), <1>1, <1>5, TableAssumption DEF TableTypes, Status
  <2>2. delivered' \in [1 .. MaxPid -> Seq(Status)]
    <3>1. Append(delivered[pid[z]], xstate[z]) \in Seq(Status)
      BY SMTT(30), Z3T(30), <1>1, <1>7 DEF CodeTypes, TableTypes
    <3>2. QED BY <1>1, <1>5, <3>1 DEF CodeTypes
  <2>3. pc' \in [Proc -> Plain \cup WaitLocked \cup Forking \cup {"none"}] /\ shell' \in 0 .. MaxPid
    BY SMTT(30), Z3T(30), <1>1, <1>4, <1>5, TableAssumption DEF CodeTypes, Plain
  <2>4. QED BY <1>1, <1>5, <2>1, <2>2, <2>3 DEF CodeTypes
<1>10. CodeInv'
  BY SMTT(30), Z3T(30), <1>1, <1>3, <1>5, <1>6 DEF LInv, CodeInv, WaitLocked
<1>11. InitInv'
  BY <1>1, <1>3, <1>5, <1>6, Basics DEF LInv, InitInv
<1>12. ForkInv'
  BY SMTT(30), Z3T(30), <1>1, <1>3, <1>5, <1>6 DEF LInv, ForkInv, Forking
<1>13. ParentInv'
  <2>1. ASSUME NEW q \in Proc PROVE parent'[q] # q
    BY SMTT(30), Z3T(30), <1>6, Basics DEF LInv, ParentInv
  <2>2. ASSUME NEW q \in Proc \ {initproc}, state'[q] \in Live
        PROVE  /\ parent'[q] \in Proc /\ parent'[q] # z
               /\ state[parent'[q]] \in {"SLEEPING", "RUNNABLE"} /\ pc[parent'[q]] # "exit_zombie"
    BY SMTT(30), Z3T(30), <1>3, <1>6, <2>2 DEF LInv, ParentInv, ParentCanWait, Live
  <2>3. QED BY <1>6, <2>1, <2>2 DEF ParentInv, ParentCanWait
<1>14. ZombieInv'
  <2>1. \A q \in Proc : pc'[q] \notin {"exit_zombie", "wait_sleep"}
    BY SMTT(30), Z3T(30), <1>1, <1>6, Basics DEF LInv, CodeInv, WaitLocked
  <2>2. QED BY SMTT(30), Z3T(30), <1>1, <1>3, <1>5, <1>6, <2>1, Basics DEF LInv, ZombieInv
<1>15. PidInv'
  BY SMTT(30), Z3T(30), <1>1, <1>3, <1>5, <1>6, <1>7
    DEF LInv, PidInv, UniquePids, TableTypes, CodeTypes
<1>16. StatusInv'
  <2>1. \A q \in Proc \ {z} : state[q] # "UNUSED" => pid[q] \in 1 .. MaxPid
    BY SMTT(30), Z3T(30), <1>1 DEF LInv, PidInv, UniquePids, TableTypes
  <2>2. \A i \in 1 .. MaxPid : i >= nextpid => i # pid[z]
    BY SMTT(30), Z3T(30), <1>1, <1>7 DEF CodeTypes
  <2>3. QED BY SMTT(30), Z3T(30), <1>5, <1>6, <1>7, <1>8, <2>1, <2>2 DEF LInv, StatusInv
<1>17. KillInv'
  BY SMTT(30), Z3T(30), <1>1, <1>3, <1>5, <1>6 DEF LInv, KillInv
<1>18. InitHasShell'
  <2>1. CASE p = initproc /\ pid[z] = shell
    BY <1>5, <2>1 DEF InitHasShell
  <2>2. CASE shell # 0 /\ ~ (p = initproc /\ pid[z] = shell)
    <3>1. PICK q \in Proc : parent[q] = initproc /\ pid[q] = shell /\ state[q] \in Live
      BY <2>2 DEF LInv, InitHasShell, Children
    <3>2. q # z BY <1>3, <2>2, <3>1
    <3>3. QED BY SMTT(30), Z3T(30), <1>5, <1>6, <2>2, <3>1, <3>2 DEF InitHasShell, Children
  <2>3. CASE shell = 0
    BY <1>5, <2>3 DEF InitHasShell
  <2>4. QED BY <2>1, <2>2, <2>3
<1>19. QED
  BY <1>9, <1>10, <1>11, <1>12, <1>13, <1>14, <1>15, <1>16, <1>17, <1>18 DEF LInv

(* wait() finds no zombie and keeps wait_lock up to its sleep(). *)
LEMMA WaitCheckInv ==
  ASSUME LInv, NEW p \in Proc, WaitCheck(p)
  PROVE  LInv'
<1>1. /\ TableTypes /\ CodeTypes /\ state[p] = "RUNNABLE" /\ pc[p] = "wait"
      /\ waitlock = None /\ \A q \in Proc : parent[q] = p => state[q] # "ZOMBIE"
  BY Running DEF LInv, WaitCheck, Zombies, Children
<1>2. /\ pc' = [pc EXCEPT ![p] = "wait_sleep"] /\ waitlock' = p
      /\ UNCHANGED <<slots, nextpid, swtching, idx, arg, status, shell, history>>
  BY DEF WaitCheck, Goto
<1>3. pc'[p] = "wait_sleep" /\ \A q \in Proc \ {p} : pc'[q] = pc[q]
  BY <1>1, <1>2 DEF CodeTypes
<1>4. TableTypes' /\ CodeTypes'
  BY <1>1, <1>2 DEF TableTypes, CodeTypes, WaitLocked, slots, history
<1>5. CodeInv'
  BY <1>1, <1>2, <1>3, Basics DEF LInv, CodeInv, WaitLocked, slots
<1>6. InitInv' /\ ForkInv'
  BY SMTT(30), Z3T(30), <1>1, <1>2, <1>3 DEF LInv, InitInv, ForkInv, Forking, slots
<1>7. ParentInv' /\ ZombieInv'
  BY SMTT(30), Z3T(30), <1>1, <1>2, <1>3 DEF LInv, ParentInv, ParentCanWait, ZombieInv, slots
<1>8. PidInv' /\ StatusInv' /\ InitHasShell'
  BY <1>2 DEF LInv, PidInv, UniquePids, StatusInv, InitHasShell, Children, slots, history
<1>9. KillInv'
  BY <1>2, <1>3 DEF LInv, KillInv, slots, history
<1>10. QED BY <1>4, <1>5, <1>6, <1>7, <1>8, <1>9 DEF LInv

(* wait() sleeps and gives wait_lock back. *)
LEMMA WaitSleepInv ==
  ASSUME LInv, NEW p \in Proc, WaitSleep(p)
  PROVE  LInv'
<1>1. /\ TableTypes /\ CodeTypes /\ state[p] = "RUNNABLE" /\ pc[p] = "wait_sleep"
      /\ waitlock = p /\ p # None
  BY Running, Basics DEF LInv, WaitSleep, WaitLocked
<1>2. /\ pc' = [pc EXCEPT ![p] = "wait"] /\ waitlock' = None
      /\ state' = [state EXCEPT ![p] = "SLEEPING"] /\ chan' = [chan EXCEPT ![p] = p]
      /\ UNCHANGED <<pid, parent, killed, xstate, nextpid, swtching, idx, arg, status, shell, history>>
  BY DEF WaitSleep, Goto
<1>3. /\ pc'[p] = "wait" /\ state'[p] = "SLEEPING" /\ chan'[p] = p
      /\ \A q \in Proc \ {p} : pc'[q] = pc[q] /\ state'[q] = state[q] /\ chan'[q] = chan[q]
  BY <1>1, <1>2 DEF TableTypes, CodeTypes
<1>4. \A q \in Proc : pc'[q] \notin WaitLocked
  BY <1>1, <1>3 DEF LInv, CodeInv, WaitLocked
<1>5. TableTypes' /\ CodeTypes'
  BY <1>1, <1>2 DEF TableTypes, CodeTypes, Plain, history
<1>6. CodeInv'
  BY SMTT(30), Z3T(30), <1>1, <1>2, <1>3, <1>4, Basics DEF LInv, CodeInv
<1>7. InitInv' /\ ForkInv'
  BY SMTT(30), Z3T(30), <1>1, <1>2, <1>3 DEF LInv, InitInv, ForkInv, Forking
<1>8. ParentInv'
  BY SMTT(30), Z3T(30), <1>1, <1>2, <1>3 DEF LInv, ParentInv, ParentCanWait, Live
<1>9. ZombieInv'
  BY SMTT(30), Z3T(30), <1>1, <1>2, <1>3, <1>4 DEF LInv, ZombieInv, WaitLocked
<1>10. PidInv' /\ StatusInv'
  BY SMTT(30), Z3T(30), <1>1, <1>2, <1>3 DEF LInv, PidInv, UniquePids, StatusInv, history
<1>11. KillInv' /\ InitHasShell'
  BY SMTT(30), Z3T(30), <1>1, <1>2, <1>3 DEF LInv, KillInv, InitHasShell, Children, Live, history
<1>12. QED BY <1>5, <1>6, <1>7, <1>8, <1>9, <1>10, <1>11 DEF LInv

-----------------------------------------------------------------------------
(* kill() marks the entry it found and lets a sleeper run. *)
LEMMA KillHitInv ==
  ASSUME LInv, NEW p \in Proc, KillHit(p)
  PROVE  LInv'
<1>1. /\ TableTypes /\ CodeTypes /\ state[p] = "RUNNABLE" /\ pc[p] = "kill" /\ arg[p] \in victims
  BY Running DEF LInv, KillHit, KillInv
<1>2. PICK e \in Proc : e = idx[p] /\ pid[e] = arg[p]
  BY DEF KillHit
<1>3. /\ pc' = [pc EXCEPT ![p] = "user"] /\ killed' = [killed EXCEPT ![e] = 1]
      /\ state' = IF state[e] = "SLEEPING" THEN [state EXCEPT ![e] = "RUNNABLE"] ELSE state
      /\ idx' = [idx EXCEPT ![p] = 1] /\ arg' = [arg EXCEPT ![p] = None]
      /\ UNCHANGED <<pid, parent, xstate, chan, nextpid, waitlock, swtching, status, shell, history>>
  BY <1>2 DEF KillHit, KillReturns, Goto
<1>4. /\ pc'[p] = "user" /\ \A q \in Proc \ {p} : pc'[q] = pc[q] /\ arg'[q] = arg[q]
      /\ \A q \in Proc : state'[q] = state[q] \/ (state[q] = "SLEEPING" /\ state'[q] = "RUNNABLE")
      /\ \A q \in Proc \ {e} : killed'[q] = killed[q]
  BY <1>1, <1>2, <1>3 DEF TableTypes, CodeTypes
<1>5. TableTypes' /\ CodeTypes'
  <2>1. TableTypes' BY SMTT(30), Z3T(30), <1>1, <1>2, <1>3 DEF TableTypes
  <2>2. QED BY SMTT(30), Z3T(30), <1>1, <1>3, <2>1, TableAssumption
    DEF CodeTypes, Plain, None, history
<1>6. CodeInv'
  BY SMTT(30), Z3T(30), <1>1, <1>3, <1>4 DEF LInv, CodeInv, WaitLocked
<1>7. InitInv'
  BY <1>1, <1>3, <1>4, Basics DEF LInv, InitInv
<1>8. ForkInv'
  BY SMTT(30), Z3T(30), <1>1, <1>3, <1>4 DEF LInv, ForkInv, Forking
<1>9. ParentInv'
  BY SMTT(30), Z3T(30), <1>1, <1>3, <1>4 DEF LInv, ParentInv, ParentCanWait, Live
<1>10. ZombieInv'
  BY SMTT(30), Z3T(30), <1>1, <1>3, <1>4, DyingHasParent DEF LInv, ZombieInv
<1>11. PidInv' /\ StatusInv'
  BY SMTT(30), Z3T(30), <1>1, <1>3, <1>4 DEF LInv, PidInv, UniquePids, StatusInv, history
<1>12. KillInv'
  BY SMTT(30), Z3T(30), <1>1, <1>2, <1>3, <1>4 DEF LInv, KillInv, history
<1>13. InitHasShell'
  BY SMTT(30), Z3T(30), <1>3, <1>4 DEF LInv, InitHasShell, Children, Live
<1>14. QED
  BY <1>5, <1>6, <1>7, <1>8, <1>9, <1>10, <1>11, <1>12, <1>13 DEF LInv

-----------------------------------------------------------------------------
(* Every step of the process table keeps the invariant. *)
LEMMA NextLInv ==
  ASSUME LInv, [Next]_vars
  PROVE  LInv'
<1>1. CASE UNCHANGED vars
  BY <1>1, Basics, QuietSteps
<1>2. ASSUME NEW p \in Proc, UserStep(p) \/ KernelStep(p) PROVE LInv'
  BY <1>2, LocalSteps, QuietSteps, ForkNoMemoryInv, ForkAllocInv, ForkParentInv, ForkRunInv,
     ExitReparentInv, ExitZombieInv, WaitReapInv, WaitCheckInv, WaitSleepInv, KillHitInv
  DEF KernelStep
<1>3. QED BY <1>1, <1>2 DEF Next

(* The inductive invariant of the process table holds in every state. *)
THEOREM LInvAlways == Spec => []LInv
<1>1. Init => LInv BY InitLInv
<1>2. LInv /\ [Next]_vars => LInv' BY NextLInv
<1>3. QED BY <1>1, <1>2, PTL DEF Spec

(* However large the process table is, entries have their types, processes *)
(* have pids of their own, and wait() frees no entry whose process still   *)
(* runs in exit() or swtch().                                              *)
THEOREM WellFormedAlways == Spec => []WellFormed
<1>1. LInv => WellFormed
  BY DEF LInv, WellFormed, TypeOK, TableTypes, CodeTypes, ZombieInv, PidInv
<1>2. QED BY <1>1, LInvAlways, PTL

(* No interleaving of fork(), exit() and wait() leaves a process without a *)
(* parent that can still wait() for it.                                    *)
THEOREM ParentCanWaitAlways == Spec => []ParentCanWait
<1>1. LInv => ParentCanWait BY DEF LInv, ParentInv
<1>2. QED BY <1>1, LInvAlways, PTL

(* wait() reports each exit once and with its status, and nobody sleeps in *)
(* wait() beside a zombie child: reparent() and exit() wake whoever must   *)
(* look again.                                                             *)
THEOREM StatusDeliveredAlways == Spec => []StatusDelivered
<1>1. LInv => StatusDelivered
  BY SMTT(30), Z3T(30) DEF LInv, StatusDelivered, StatusInv, ZombieInv, Zombies, Children
<1>2. QED BY <1>1, LInvAlways, PTL

(* Only a process whose pid was given to kill() is marked killed, but for  *)
(* the entries marked by kill(0).                                          *)
THEOREM OnlyVictimsKilledAlways == Spec => []OnlyVictimsKilled
<1>1. LInv => OnlyVictimsKilled BY DEF LInv, OnlyVictimsKilled, KillInv
<1>2. QED BY <1>1, LInvAlways, PTL

(* Init's shell is a child of init that it has not reaped, whatever other  *)
(* orphans exit() hands to init and wait() reports to it.                  *)
THEOREM InitHasShellAlways == Spec => []InitHasShell
<1>1. LInv => InitHasShell BY DEF LInv
<1>2. QED BY <1>1, LInvAlways, PTL
====
