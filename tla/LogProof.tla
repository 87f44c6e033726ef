------------------------------ MODULE LogProof ------------------------------
(***************************************************************************)
(* Proofs about the redo log: its control invariant (from which type       *)
(* correctness and the presence of a waker follow), that log space never   *)
(* runs out, and that the log implements AtomicTxn.                        *)
(***************************************************************************)
EXTENDS Log, TLAPS, FiniteSetTheorems

(* A leaf goes to the SMT solver, twice if need be, or else to Zenon. *)
USE SMTT(30), Z3T(30), ZenonT(30)

-----------------------------------------------------------------------------
(* Type correctness and control *)

CInv == TypeOK /\ ControlInv

(* Active is a subset of the finite set Proc. *)
LEMMA ActiveFinite ==
  /\ IsFiniteSet(Active)
  /\ Cardinality(Active) \in Nat
  /\ Cardinality(Active) = 0 <=> Active = {}
<1>1. IsFiniteSet(Active)
  BY ProcAssumption, FS_Subset DEF Active
<1> QED
  BY <1>1, FS_CardinalityType, FS_EmptySet

(* begin_op() adds one active process and end_op() removes one. *)
LEMMA ActiveAdd ==
  ASSUME NEW p \in Proc, p \notin Active, Active' = Active \cup {p}
  PROVE  Cardinality(Active') = Cardinality(Active) + 1
BY ActiveFinite, FS_AddElement

(* One process fewer is in an operation after end_op().                     *)
LEMMA ActiveRemove ==
  ASSUME NEW p \in Proc, p \in Active, Active' = Active \ {p}
  PROVE  /\ Cardinality(Active') = Cardinality(Active) - 1
         /\ Cardinality(Active) > 0
         /\ Cardinality(Active') \in Nat
         /\ Cardinality(Active') = 0 <=> Active' = {}
<1>1. IsFiniteSet(Active')
  BY ActiveFinite, FS_RemoveElement
<1>2. Cardinality(Active') = Cardinality(Active) - 1
  BY ActiveFinite, FS_RemoveElement
<1>3. Cardinality(Active) # 0
  BY ActiveFinite
<1> QED
  BY <1>1, <1>2, <1>3, ActiveFinite, FS_CardinalityType, FS_EmptySet

(* The initial state satisfies the control invariant. *)
LEMMA CInvInit == Init => CInv
<1> SUFFICES ASSUME Init PROVE CInv
  OBVIOUS
<1>1. Active = {}
  BY DEF Init, Active
<1>2. outstanding = Cardinality(Active)
  BY <1>1, FS_EmptySet DEF Init
<1>3. TypeOK
  <2>1. logblk \in [1 .. LOGSIZE -> Data \cup {NoBuf, Torn}]
    BY DEF Init
  <2>2. home \in [Block -> Data \cup {NoBuf, Torn}]
    BY DEF Init
  <2> QED
    BY <2>1, <2>2 DEF Init, TypeOK, CommitPhases, RecoverPhases
<1> QED
  BY <1>1, <1>2, <1>3, SizeAssumption
  DEF Init, CInv, ControlInv, CommitPhases, RecoverPhases, Running

(* Every step of a process that is not a buffer operation preserves it. *)
LEMMA CInvProcStep ==
  ASSUME CInv, NEW p \in Proc, ProcStep(p)
  PROVE  CInv'
<1> USE SizeAssumption, ProcAssumption, DataAssumption
<1>t. TypeOK /\ ControlInv
  BY DEF CInv
<1>1. CASE BeginOpSleep(p)
  <2>1. Active' = Active
    BY <1>1, <1>t DEF BeginOpSleep, Active, TypeOK
  <2>2. TypeOK'
    BY <1>1, <1>t DEF BeginOpSleep, TypeOK, bufVars, memVars, diskVars
  <2>3. ControlInv'
    BY <1>1, <1>t, <2>1 DEF BeginOpSleep, ControlInv, TypeOK, Running, bufVars,
       memVars, diskVars, CommitPhases, RecoverPhases
  <2> QED BY <2>2, <2>3 DEF CInv
<1>2. CASE BeginOp(p)
  <2>1. p \notin Active /\ Active' = Active \cup {p}
    BY <1>2, <1>t DEF BeginOp, Active, TypeOK
  <2>2. TypeOK'
    BY <1>2, <1>t DEF BeginOp, TypeOK, bufVars, memVars, diskVars
  <2>3. outstanding' = Cardinality(Active')
    BY <1>2, <1>t, <2>1, ActiveAdd, ZenonT(30) DEF BeginOp, ControlInv
  <2>4. ControlInv'
    BY <1>2, <1>t, <2>1, <2>3 DEF BeginOp, ControlInv, TypeOK, Running, bufVars,
       MustWait, diskVars, CommitPhases, RecoverPhases
  <2> QED BY <2>2, <2>4 DEF CInv
<1>3. CASE EndOp(p)
  <2>1. p \in Active /\ Active' = Active \ {p}
    BY <1>3, <1>t DEF EndOp, Active, TypeOK, Wakeup, ControlInv
  <2>2. outstanding' = Cardinality(Active') /\ outstanding' \in Nat
        /\ (outstanding' = 0 <=> Active' = {})
    BY <1>3, <1>t, <2>1, ActiveRemove, ZenonT(30) DEF EndOp, ControlInv
  <2>3. committing = 0
    BY <1>t, <2>1 DEF ControlInv, TypeOK
  <2>4. TypeOK'
    BY <1>3, <1>t, <2>2, <2>3, ZenonT(30)
    DEF EndOp, TypeOK, bufVars, diskVars, Wakeup, CommitPhases
  <2>5. ControlInv'
    <3>1. CASE outstanding' = 0
      <4>1. lh # << >> => 0 < Len(lh)
        BY <1>t DEF TypeOK
      <4> QED
      BY <1>3, <1>t, <2>1, <2>2, <2>3, <3>1, <4>1
      DEF EndOp, ControlInv, TypeOK, Running, diskVars, CommitPhases,
          RecoverPhases
    <3>2. CASE outstanding' # 0
      BY <1>3, <1>t, <2>1, <2>2, <2>3, <3>2, ZenonT(30)
      DEF EndOp, ControlInv, TypeOK, Running, diskVars, CommitPhases,
          RecoverPhases, Wakeup
    <3> QED BY <3>1, <3>2
  <2> QED BY <2>4, <2>5 DEF CInv
<1>4. CASE WriteLog(p)
  <2>1. Active' = Active
    BY <1>4 DEF WriteLog, Active, procVars
  <2>2. tail + 1 \in 1 .. LOGSIZE /\ lh[tail + 1] \in Block
    BY <1>4, <1>t DEF WriteLog, Committer, TypeOK, ControlInv
  <2>3. Bread(lh[tail + 1]) \in Data \cup {NoBuf, Torn}
    BY <1>t, <2>2 DEF Bread, TypeOK
  <2>4. TypeOK'
    BY <1>4, <1>t, <2>2, <2>3
    DEF WriteLog, Committer, TypeOK, procVars, CommitPhases
  <2>5. ControlInv'
    BY <1>4, <1>t, <2>1 DEF WriteLog, Committer, ControlInv, TypeOK, Running,
       procVars, CommitPhases, RecoverPhases
  <2> QED BY <2>4, <2>5 DEF CInv
<1>5. CASE WriteHead(p)
  <2>1. Active' = Active
    BY <1>5 DEF WriteHead, Active, procVars
  <2>2. TypeOK'
    BY <1>5, <1>t DEF WriteHead, TypeOK, procVars, bufVars, CommitPhases
  <2>3. ControlInv'
    BY <1>5, <1>t, <2>1 DEF WriteHead, Committer, ControlInv, TypeOK, Running,
       procVars, bufVars, CommitPhases, RecoverPhases
  <2> QED BY <2>2, <2>3 DEF CInv
<1>6. CASE Install(p)
  <2>1. Active' = Active
    BY <1>6 DEF Install, InstallBlock, Active, procVars
  <2>2. tail + 1 \in 1 .. LOGSIZE
    BY <1>6, <1>t DEF Install, Committer, TypeOK, ControlInv
  <2>3. logblk[tail + 1] \in Data \cup {NoBuf, Torn}
    BY <1>t, <2>2 DEF TypeOK
  <2>4. lh[tail + 1] \in Block /\ Running
    BY <1>6, <1>t DEF Install, Committer, TypeOK, ControlInv, Running,
       RecoverPhases
  <2>5. TypeOK'
    BY <1>6, <1>t, <2>3, <2>4
    DEF Install, InstallBlock, TypeOK, procVars, CommitPhases
  <2>6. ControlInv'
    BY <1>6, <1>t, <2>1 DEF Install, InstallBlock, Committer, ControlInv, TypeOK,
       Running, procVars, CommitPhases, RecoverPhases
  <2> QED BY <2>5, <2>6 DEF CInv
<1>7. CASE Clear(p)
  <2>1. Active' = Active
    BY <1>7 DEF Clear, ClearHead, Active, procVars
  <2>2. TypeOK'
    BY <1>7, <1>t
    DEF Clear, ClearHead, TypeOK, procVars, bufVars, CommitPhases
  <2>3. ControlInv'
    BY <1>7, <1>t, <2>1 DEF Clear, ClearHead, Committer, ControlInv, TypeOK,
       Running, procVars, CommitPhases, RecoverPhases
  <2> QED BY <2>2, <2>3 DEF CInv
<1>8. CASE EndCommit(p)
  <2>1. Active' = Active
    BY <1>8, <1>t DEF EndCommit, Committer, Wakeup, Active, TypeOK
  <2>2. TypeOK'
    BY <1>8, <1>t DEF EndCommit, TypeOK, Wakeup, bufVars, diskVars
  <2>3. ControlInv'
    BY <1>8, <1>t, <2>1 DEF EndCommit, Committer, ControlInv, TypeOK, Running,
       Wakeup, diskVars, CommitPhases, RecoverPhases
  <2> QED BY <2>2, <2>3 DEF CInv
<1> QED
  BY <1>1, <1>2, <1>3, <1>4, <1>5, <1>6, <1>7, <1>8 DEF ProcStep

(* Buffer operations leave the control alone; log_write() may append to    *)
(* the log, which its own test keeps within LOGSIZE.                       *)
LEMMA CInvBufStep ==
  ASSUME CInv, NEW p \in Proc, NEW b \in Block, BufStep(p, b)
  PROVE  CInv'
<1>t. TypeOK /\ ControlInv
  BY DEF CInv
<1>1. CASE LockBuf(p, b)
  <2>1. Bread(b) \in Data \cup {NoBuf, Torn}
    BY <1>t DEF Bread, TypeOK
  <2> QED
    BY <1>1, <1>t, <2>1 DEF LockBuf, CInv, TypeOK, ControlInv, Active, Running,
       procVars, memVars, diskVars
<1>2. CASE Brelse(p, b)
  BY <1>2, <1>t DEF Brelse, CInv, TypeOK, ControlInv, Active, Running,
     procVars, memVars, diskVars
<1>3. ASSUME NEW d \in Data, LogWrite(p, b, d) PROVE CInv'
  <2>1. Active' = Active /\ p \in Active
    BY <1>3 DEF LogWrite, Active
  <2>2. lh' \in Seq(Block) /\ pin' \in [Block -> Int]
    <3>1. \/ lh' = lh /\ pin' = pin
          \/ lh' = Append(lh, b) /\ pin' = [pin EXCEPT ![b] = @ + 1]
      BY <1>3 DEF LogWrite, AddToLog
    <3>2. lh' \in Seq(Block)
      <4>1. lh \in Seq(Block)
        BY <1>t DEF TypeOK
      <4>2. Append(lh, b) \in Seq(Block)
        BY <4>1
      <4> QED BY <4>1, <4>2, <3>1
    <3>3. pin' \in [Block -> Int]
      <4>1. [pin EXCEPT ![b] = @ + 1] \in [Block -> Int]
        BY <1>t DEF TypeOK
      <4> QED BY <4>1, <3>1, <1>t DEF TypeOK
    <3> QED BY <3>2, <3>3
  <2>3. Len(lh') <= LOGSIZE
    <3>1. lh' = lh \/ (~LogFull /\ lh' = Append(lh, b))
      BY <1>3 DEF LogWrite, AddToLog, LogWritePanic
    <3> QED
      BY <3>1, <1>t, SizeAssumption DEF LogFull, TypeOK, ControlInv
  <2>4. wrote' \in [Proc -> SUBSET Block]
    <3>1. wrote' = wrote \/ wrote' = [wrote EXCEPT ![p] = @ \cup {b}]
      BY <1>3 DEF LogWrite
    <3>2. [wrote EXCEPT ![p] = @ \cup {b}] \in [Proc -> SUBSET Block]
      BY <1>t DEF TypeOK
    <3> QED BY <3>1, <3>2, <1>t, ZenonT(30) DEF TypeOK
  <2>p. panicked' \in {"none", "too_big", "outside_trans"}
    BY <1>3 DEF LogWrite, LogWritePanic
  <2>5. TypeOK'
    BY <1>3, <1>t, <2>2, <2>4, <2>p DEF LogWrite, TypeOK, diskVars
  <2>6. phase = "none"
    BY <1>t, <2>1 DEF ControlInv, TypeOK, Active, Running
  <2>7. ControlInv'
    BY <1>3, <1>t, <2>1, <2>3, <2>6
    DEF LogWrite, ControlInv, Running, RecoverPhases, CommitPhases, diskVars
  <2> QED BY <2>5, <2>7 DEF CInv
<1> QED
  BY <1>1, <1>2, <1>3 DEF BufStep

(* So do recycling a buffer, the crash and the steps of recovery. *)
LEMMA CInvOtherStep ==
  ASSUME CInv,
         \/ \E b \in Block : Recycle(b)
         \/ Crash \/ ReadHead \/ RecoverInstall \/ RecoverClear
  PROVE  CInv'
<1> USE SizeAssumption
<1>t. TypeOK /\ ControlInv
  BY DEF CInv
<1>1. ASSUME NEW b \in Block, Recycle(b) PROVE CInv'
  BY <1>1, <1>t DEF Recycle, CInv, TypeOK, ControlInv, Active, Running,
     procVars, memVars, diskVars
<1>2. CASE Crash
  <2>1. Active' = {}
    BY <1>2 DEF Crash, Active
  <2>2. outstanding' = Cardinality(Active')
    BY <1>2, <2>1, FS_EmptySet DEF Crash
  <2>3. logblk' \in [1 .. LOGSIZE -> Data \cup {NoBuf, Torn}]
    BY <1>2, <1>t DEF Crash, TypeOK
  <2>h. home' \in [Block -> Data \cup {NoBuf, Torn}]
    BY <1>2, <1>t DEF Crash, TypeOK
  <2>t. TypeOK'
    BY <1>2, <1>t, <2>3, <2>h DEF Crash, TypeOK, RecoverPhases
  <2>4. ControlInv'
    BY <1>2, <1>t, <2>1, <2>2
    DEF Crash, ControlInv, Running, RecoverPhases, CommitPhases
  <2> QED BY <2>t, <2>4 DEF CInv
<1>3. CASE ReadHead
  BY <1>3, <1>t DEF ReadHead, CInv, TypeOK, ControlInv, Active, Running,
     procVars, bufVars, diskVars, CommitPhases, RecoverPhases
<1>4. CASE RecoverInstall
  <2>1. tail + 1 \in 1 .. LOGSIZE /\ lh[tail + 1] \in Block
    BY <1>4, <1>t DEF RecoverInstall, TypeOK, ControlInv
  <2>2. logblk[tail + 1] \in Data \cup {NoBuf, Torn}
    BY <1>t, <2>1 DEF TypeOK
  <2>3. TypeOK'
    BY <1>4, <1>t, <2>1, <2>2
    DEF RecoverInstall, InstallBlock, TypeOK, procVars, RecoverPhases
  <2>4. ControlInv'
    BY <1>4, <1>t DEF RecoverInstall, InstallBlock, ControlInv, TypeOK, Active,
       Running, procVars, CommitPhases, RecoverPhases
  <2> QED BY <2>3, <2>4 DEF CInv
<1>5. CASE RecoverClear
  <2>1. TypeOK'
    BY <1>5, <1>t DEF RecoverClear, ClearHead, TypeOK, procVars, bufVars
  <2>2. Active = {}
    BY <1>5, <1>t
    DEF RecoverClear, ControlInv, Active, Running, RecoverPhases
  <2>3. ControlInv'
    BY <1>5, <1>t, <2>2 DEF RecoverClear, ClearHead, ControlInv, TypeOK, Active,
       Running, procVars, CommitPhases, RecoverPhases
  <2> QED BY <2>1, <2>3 DEF CInv
<1> QED
  BY <1>1, <1>2, <1>3, <1>4, <1>5

(* The control invariant is inductive. *)
LEMMA CInvNext == CInv /\ [Next]_vars => CInv'
<1> SUFFICES ASSUME CInv, [Next]_vars PROVE CInv'
  OBVIOUS
<1>1. CASE Next
  BY <1>1, CInvProcStep, CInvBufStep, CInvOtherStep DEF Next
<1>2. CASE UNCHANGED vars
  BY <1>2 DEF vars, procVars, bufVars, memVars, diskVars, CInv, TypeOK,
     ControlInv, Active, Running
<1> QED BY <1>1, <1>2

(* The control part of the invariant holds in every reachable state.        *)
LEMMA CInvAlways == Spec => []CInv
BY CInvInit, CInvNext, PTL DEF Spec

(* Every reachable state of the log is well typed. *)
THEOREM TypeCorrect == Spec => []TypeOK
<1>1. CInv => TypeOK
  BY DEF CInv
<1> QED BY <1>1, CInvAlways, PTL

(* begin_op() never puts a process to sleep without another one that will  *)
(* wake it: the log is empty when nothing is outstanding and no commit is  *)
(* under way, and an empty log has room for one operation.                 *)
THEOREM SleeperHasWakerAlways == Spec => []SleeperHasWaker
<1>1. Init => SleeperHasWaker
  BY DEF Init, SleeperHasWaker
<1>2. CInv /\ SleeperHasWaker /\ [Next]_vars => SleeperHasWaker'
  <2> SUFFICES ASSUME CInv, SleeperHasWaker, [Next]_vars,
                      NEW q \in Proc, pc'[q] = "sleep"
               PROVE  committing' = 1 \/ outstanding' > 0
    BY DEF SleeperHasWaker
  <2>t. TypeOK /\ ControlInv
    BY DEF CInv
  <2>1. ASSUME NEW p \in Proc, BeginOpSleep(p)
        PROVE  committing' = 1 \/ outstanding' > 0
    <3>1. SUFFICES ASSUME committing = 0, outstanding = 0 PROVE FALSE
      BY <2>1, <2>t DEF BeginOpSleep, TypeOK, memVars
    <3>2. Active = {}
      BY <3>1, <2>t, ActiveFinite DEF ControlInv
    <3>3. phase = "none"
      BY <3>1, <2>1, <2>t DEF BeginOpSleep, ControlInv, TypeOK, Running
    <3>4. Len(lh) = 0
      BY <3>2, <3>3, <2>t DEF ControlInv
    <3> QED
      BY <3>1, <3>4, <2>1, SizeAssumption DEF BeginOpSleep, MustWait
  <2>2. ASSUME NEW p \in Proc, BeginOp(p)
        PROVE  committing' = 1 \/ outstanding' > 0
    BY <2>2, <2>t DEF BeginOp, TypeOK
  <2>3. ASSUME NEW p \in Proc, EndOp(p)
        PROVE  committing' = 1 \/ outstanding' > 0
    <3>1. Active # {}
      BY <2>3 DEF EndOp, Active
    <3>2. committing = 0
      BY <3>1, <2>t DEF ControlInv, TypeOK
    <3> QED
      BY <3>2, <2>3 DEF EndOp, Wakeup
  <2>4. ASSUME NEW p \in Proc, EndCommit(p) PROVE FALSE
    BY <2>4 DEF EndCommit, Wakeup
  <2>5. CASE Crash
    BY <2>5 DEF Crash
  <2>6. CASE UNCHANGED <<pc, committing, outstanding>>
    BY <2>6 DEF SleeperHasWaker
  <2>7. ASSUME NEW p \in Proc,
               WriteLog(p) \/ WriteHead(p) \/ Install(p) \/ Clear(p)
        PROVE  UNCHANGED <<pc, committing, outstanding>>
    BY <2>7 DEF WriteLog, WriteHead, Install, InstallBlock, Clear, ClearHead,
       procVars
  <2>8. ASSUME NEW p \in Proc, NEW b \in Block, BufStep(p, b)
        PROVE  UNCHANGED <<pc, committing, outstanding>>
    BY <2>8 DEF BufStep, LockBuf, Brelse, LogWrite, procVars, memVars
  <2>9. ASSUME \/ \E b \in Block : Recycle(b)
               \/ ReadHead \/ RecoverInstall \/ RecoverClear
               \/ UNCHANGED vars
        PROVE  UNCHANGED <<pc, committing, outstanding>>
    BY <2>9 DEF Recycle, ReadHead, RecoverInstall, InstallBlock, RecoverClear,
       ClearHead, vars, procVars, memVars
  <2> QED
    BY <2>1, <2>2, <2>3, <2>4, <2>5, <2>6, <2>7, <2>8, <2>9 DEF Next, ProcStep
<1> QED BY <1>1, <1>2, CInvAlways, PTL DEF Spec

-----------------------------------------------------------------------------
(* Log space *)

(* The reservation is finite, whatever the operations have written. *)
LEMMA ReservedFinite ==
  ASSUME NEW S \in SUBSET (Proc \X (1 .. MAXOPBLOCKS))
  PROVE  IsFiniteSet(S) /\ Cardinality(S) \in Nat
<1>1. IsFiniteSet(1 .. MAXOPBLOCKS)
  BY SizeAssumption, FS_Interval
<1>2. IsFiniteSet(Proc \X (1 .. MAXOPBLOCKS))
  BY <1>1, ProcAssumption, FS_Product, ZenonT(30)
<1> QED
  BY <1>2, FS_Subset, FS_CardinalityType

(* m processes that have written nothing hold m * MAXOPBLOCKS tokens. *)
LEMMA ReservedBound ==
  ASSUME NEW A \in SUBSET Proc, NEW S \in SUBSET (A \X (1 .. MAXOPBLOCKS))
  PROVE  Cardinality(S) <= Cardinality(A) * MAXOPBLOCKS
<1>1. IsFiniteSet(A)
  BY ProcAssumption, FS_Subset
<1>2. IsFiniteSet(1 .. MAXOPBLOCKS) /\ Cardinality(1 .. MAXOPBLOCKS) = MAXOPBLOCKS
  BY SizeAssumption, FS_Interval
<1>3. /\ IsFiniteSet(A \X (1 .. MAXOPBLOCKS))
      /\ Cardinality(A \X (1 .. MAXOPBLOCKS)) = Cardinality(A) * MAXOPBLOCKS
  BY <1>1, <1>2, FS_Product, ZenonT(30)
<1> QED
  BY <1>3, FS_Subset

(* Steps that log nothing and admit nobody do not endanger the space. *)
LEMMA SpaceFrame ==
  ASSUME CInv, SpaceInv, wrote' = wrote,
         Active' \subseteq Active,
         lh' = lh \/ Active' = {}
  PROVE  SpaceInv'
<1>1. Reserved' \subseteq Reserved
  BY DEF Reserved, Active
<1>2. Reserved \subseteq Proc \X (1 .. MAXOPBLOCKS)
  BY DEF Reserved
<1>3. IsFiniteSet(Reserved) /\ Cardinality(Reserved) \in Nat
  BY <1>2, ReservedFinite
<1>4. Cardinality(Reserved') <= Cardinality(Reserved) /\ Cardinality(Reserved') \in Nat
  BY <1>1, <1>3, FS_Subset, FS_CardinalityType
<1>5. lh \in Seq(Block)
  BY DEF CInv, TypeOK
<1>6. CASE Active' = {}
  BY <1>6 DEF SpaceInv, Active
<1>7. CASE lh' = lh
  <2>1. Active' # {} => Len(lh') + Cardinality(Reserved') <= LOGSIZE
    BY <1>3, <1>4, <1>5, <1>7, SizeAssumption DEF SpaceInv
  <2>2. \A p \in Proc : pc'[p] = "op" => pc[p] = "op"
    BY DEF Active
  <2> QED
    BY <1>7, <2>1, <2>2 DEF SpaceInv, Logged
<1> QED BY <1>6, <1>7

(* begin_op() admits an operation only if the log has room for everything  *)
(* that the running operations and the new one have reserved.              *)
LEMMA SpaceBeginOp ==
  ASSUME CInv, SpaceInv, NEW p \in Proc, BeginOp(p)
  PROVE  SpaceInv'
<1>t. TypeOK /\ ControlInv
  BY DEF CInv
<1>1. p \notin Active /\ Active' = Active \cup {p}
  BY <1>t DEF BeginOp, Active, TypeOK
<1>2. Cardinality(Active') = outstanding + 1
  BY <1>1, <1>t, ActiveAdd, ZenonT(30) DEF ControlInv
<1>3. Reserved' \subseteq Active' \X (1 .. MAXOPBLOCKS) /\ Active' \subseteq Proc
  BY DEF Reserved, Active
<1>4. Cardinality(Reserved') <= (outstanding + 1) * MAXOPBLOCKS
  BY <1>2, <1>3, ReservedBound
<1>5. Reserved' \subseteq Proc \X (1 .. MAXOPBLOCKS)
  BY <1>3
<1>6. Cardinality(Reserved') \in Nat
  BY <1>5, ReservedFinite
<1>7. Len(lh) + (outstanding + 1) * MAXOPBLOCKS <= LOGSIZE
  <2>1. ~(Len(lh) + (outstanding + 1) * MAXOPBLOCKS > LOGSIZE)
    BY DEF BeginOp, MustWait
  <2> QED
    BY <2>1, <1>t, SizeAssumption DEF TypeOK
<1>8. (outstanding + 1) * MAXOPBLOCKS \in Nat /\ Len(lh) \in Nat
  BY <1>t, SizeAssumption DEF TypeOK
<1>9. Len(lh') + Cardinality(Reserved') <= LOGSIZE
  BY <1>4, <1>6, <1>7, <1>8, SizeAssumption DEF BeginOp
<1>10. wrote' = [wrote EXCEPT ![p] = {}] /\ lh' = lh
  BY DEF BeginOp
<1>11. \A q \in Proc : /\ IsFiniteSet(wrote'[q])
                       /\ Cardinality(wrote'[q]) <= OpBlocks
  BY <1>10, <1>t, FS_EmptySet, SizeAssumption DEF SpaceInv, TypeOK
<1>12. \A q \in Proc : pc'[q] = "op" => \A b \in wrote'[q] : Logged(b)'
  BY <1>10, <1>t DEF SpaceInv, TypeOK, BeginOp, Logged
<1> QED
  BY <1>9, <1>11, <1>12 DEF SpaceInv

(* log_write() of a block that is new to the operation takes one token, so *)
(* it pays for the entry it may add; a block the operation has logged      *)
(* before is absorbed.                                                     *)
LEMMA SpaceLogWrite ==
  ASSUME CInv, SpaceInv, NEW p \in Proc, NEW b \in Block, NEW d \in Data,
         LogWrite(p, b, d)
  PROVE  SpaceInv'
<1>t. TypeOK /\ ControlInv /\ pc' = pc /\ pc[p] = "op" /\ p \in Active /\ Active' = Active
  BY DEF CInv, LogWrite, Active
<1>f. /\ IsFiniteSet(wrote[p]) /\ wrote \in [Proc -> SUBSET Block]
      /\ Cardinality(wrote[p]) \in Nat /\ Cardinality(wrote[p]) <= OpBlocks
  BY <1>t, FS_CardinalityType DEF SpaceInv, TypeOK
<1>1. CASE panicked' # "none"
  BY <1>1, <1>t, SpaceFrame DEF LogWrite, TypeOK
<1>2. CASE panicked' = "none" /\ b \in wrote[p]
  <2>1. Logged(b)
    BY <1>2, <1>t DEF SpaceInv
  <2>2. wrote' = wrote
    <3>1. wrote' = [wrote EXCEPT ![p] = @ \cup {b}]
      BY <1>2 DEF LogWrite
    <3>2. wrote[p] \cup {b} = wrote[p]
      BY <1>2
    <3> QED BY <3>1, <3>2, <1>f
  <2> QED
    BY <1>2, <1>t, <2>1, <2>2, SpaceFrame DEF LogWrite, AddToLog, TypeOK
<1>3. CASE panicked' = "none" /\ b \notin wrote[p]
  <2> DEFINE c == Cardinality(wrote[p])
             t == <<p, c + 1>>
  <2>1. wrote' = [wrote EXCEPT ![p] = @ \cup {b}]
    BY <1>3 DEF LogWrite
  <2>2. /\ wrote'[p] = wrote[p] \cup {b}
        /\ \A q \in Proc \ {p} : wrote'[q] = wrote[q]
    BY <2>1, <1>f
  <2>3. IsFiniteSet(wrote'[p]) /\ Cardinality(wrote'[p]) = c + 1
    BY <1>3, <1>f, <2>2, FS_AddElement
  <2>4. c + 1 <= OpBlocks
    BY <2>2, <2>3 DEF LogWrite
  <2>5. t \in Reserved
    BY <1>t, <1>f, <2>4, SizeAssumption DEF Reserved
  <2>6. Reserved' = Reserved \ {t}
    <3>1. \A q \in Proc, i \in 1 .. MAXOPBLOCKS :
             <<q, i>> \in Reserved' <=> <<q, i>> \in Reserved /\ <<q, i>> # t
      <4> SUFFICES ASSUME NEW q \in Proc, NEW i \in 1 .. MAXOPBLOCKS
                   PROVE  <<q, i>> \in Reserved' <=>
                            <<q, i>> \in Reserved /\ <<q, i>> # t
        BY ZenonT(30)
      <4>1. CASE q = p
        BY <4>1, <1>t, <1>f, <2>3 DEF Reserved
      <4>2. CASE q # p
        BY <4>2, <1>t, <2>2 DEF Reserved
      <4> QED BY <4>1, <4>2
    <3>2. /\ Reserved \subseteq Proc \X (1 .. MAXOPBLOCKS)
          /\ Reserved' \subseteq Proc \X (1 .. MAXOPBLOCKS)
      BY DEF Reserved
    <3> QED BY <3>1, <3>2
  <2>7. IsFiniteSet(Reserved) /\ Cardinality(Reserved) \in Nat
    <3>1. Reserved \subseteq Proc \X (1 .. MAXOPBLOCKS)
      BY DEF Reserved
    <3> QED BY <3>1, ReservedFinite
  <2>8. Cardinality(Reserved') = Cardinality(Reserved) - 1
    BY <2>5, <2>6, <2>7, FS_RemoveElement, ZenonT(30)
  <2>9. /\ Len(lh') <= Len(lh) + 1 /\ Len(lh') \in Nat
        /\ Logged(b)'
        /\ \A x \in Block : Logged(x) => Logged(x)'
    <3>1. lh \in Seq(Block)
      BY <1>t DEF TypeOK
    <3>2. CASE Logged(b)
      <4>1. lh' = lh
        BY <3>2, <1>3 DEF LogWrite, AddToLog
      <4> QED BY <4>1, <3>1, <3>2 DEF Logged
    <3>3. CASE ~Logged(b)
      <4>1. lh' = Append(lh, b)
        BY <3>3, <1>3 DEF LogWrite, AddToLog
      <4>2. /\ Len(lh') = Len(lh) + 1 /\ lh'[Len(lh) + 1] = b
            /\ \A i \in 1 .. Len(lh) : lh'[i] = lh[i]
        BY <4>1, <3>1
      <4> QED BY <4>2, <3>1 DEF Logged
    <3> QED BY <3>2, <3>3
  <2>10. Len(lh') + Cardinality(Reserved') <= LOGSIZE
    <3>1. Len(lh) + Cardinality(Reserved) <= LOGSIZE /\ Len(lh) \in Nat
      BY <1>t DEF SpaceInv, TypeOK
    <3> QED
      BY <3>1, <2>7, <2>8, <2>9, SizeAssumption
  <2>11. \A q \in Proc : /\ IsFiniteSet(wrote'[q])
                         /\ Cardinality(wrote'[q]) <= OpBlocks
    BY <2>2, <2>3, <2>4, ZenonT(30) DEF SpaceInv
  <2>12. \A q \in Proc : pc'[q] = "op" => \A x \in wrote'[q] : Logged(x)'
    BY <1>t, <1>f, <2>2, <2>9 DEF SpaceInv
  <2> QED
    BY <2>10, <2>11, <2>12 DEF SpaceInv
<1> QED BY <1>1, <1>2, <1>3

(* A crash ends every operation and forgets what it wrote. *)
LEMMA SpaceCrash == Crash => SpaceInv'
<1> SUFFICES ASSUME Crash PROVE SpaceInv'
  OBVIOUS
<1>1. Active' = {} /\ \A p \in Proc : pc'[p] = "idle" /\ wrote'[p] = {}
  BY DEF Crash, Active
<1>2. IsFiniteSet({}) /\ Cardinality({}) <= OpBlocks
  BY FS_EmptySet, SizeAssumption
<1> QED
  BY <1>1, <1>2 DEF SpaceInv

(* At boot nothing is reserved and the log is within its size.              *)
LEMMA SpaceInit == Init => SpaceInv
<1> SUFFICES ASSUME Init PROVE SpaceInv
  OBVIOUS
<1>1. Active = {} /\ \A p \in Proc : pc[p] = "idle" /\ wrote[p] = {}
  BY DEF Init, Active
<1>2. IsFiniteSet({}) /\ Cardinality({}) <= OpBlocks
  BY FS_EmptySet, SizeAssumption
<1> QED
  BY <1>1, <1>2 DEF SpaceInv

(* Space stays reserved along every step. *)
LEMMA SpaceNext == CInv /\ SpaceInv /\ [Next]_vars => SpaceInv'
<1> SUFFICES ASSUME CInv, SpaceInv, [Next]_vars PROVE SpaceInv'
  OBVIOUS
<1>t. TypeOK /\ ControlInv
  BY DEF CInv
<1> DEFINE Frame == /\ wrote' = wrote /\ Active' \subseteq Active
                    /\ lh' = lh \/ Active' = {}
<1>1. ASSUME NEW p \in Proc, BeginOpSleep(p) PROVE Frame
  BY <1>1, <1>t DEF BeginOpSleep, Active, TypeOK, memVars
<1>2. ASSUME NEW p \in Proc, EndOp(p) PROVE Frame
  BY <1>2, <1>t, ZenonT(30) DEF EndOp, Active, TypeOK, Wakeup
<1>3. ASSUME NEW p \in Proc, EndCommit(p) PROVE Frame
  BY <1>3, <1>t DEF EndCommit, Active, TypeOK, Wakeup
<1>4. ASSUME NEW p \in Proc, WriteLog(p) \/ WriteHead(p) \/ Install(p) PROVE Frame
  BY <1>4 DEF WriteLog, WriteHead, Install, InstallBlock, Active, procVars
<1>5. ASSUME NEW p \in Proc, Clear(p) PROVE Frame
  <2>1. Active = {}
    BY <1>5, <1>t DEF Clear, Committer, ControlInv
  <2> QED BY <2>1, <1>5 DEF Clear, ClearHead, Active, procVars
<1>6. ASSUME NEW p \in Proc, NEW b \in Block, LockBuf(p, b) \/ Brelse(p, b) PROVE Frame
  BY <1>6 DEF LockBuf, Brelse, Active, procVars, memVars
<1>7. ASSUME NEW b \in Block, Recycle(b) PROVE Frame
  BY <1>7 DEF Recycle, Active, procVars, memVars
<1>8. ASSUME ReadHead \/ RecoverInstall \/ RecoverClear PROVE Frame
  <2>1. Active = {}
    BY <1>8, <1>t DEF ReadHead, RecoverInstall, RecoverClear, ControlInv, Active,
       Running, RecoverPhases
  <2> QED
    BY <2>1, <1>8 DEF ReadHead, RecoverInstall, InstallBlock, RecoverClear,
       ClearHead, Active, procVars
<1>9. ASSUME UNCHANGED vars PROVE Frame
  BY <1>9 DEF vars, procVars, memVars, Active
<1>10. Frame => SpaceInv'
  BY SpaceFrame
<1> QED
  BY <1>1, <1>2, <1>3, <1>4, <1>5, <1>6, <1>7, <1>8, <1>9, <1>10,
     SpaceBeginOp, SpaceLogWrite, SpaceCrash DEF Next, ProcStep, BufStep

(* begin_op()'s reservations always fit in the log.                         *)
LEMMA SpaceAlways == Spec => []SpaceInv
BY SpaceInit, SpaceNext, CInvAlways, PTL DEF Spec

(* An operation that stays below its reservation leaves log_write() at     *)
(* least one free entry.                                                   *)
LEMMA LogNeverFull ==
  ASSUME OpFits, CInv, SpaceInv, NEW p \in Proc, pc[p] = "op"
  PROVE  ~LogFull
<1>t. TypeOK /\ ControlInv /\ Active # {}
  BY DEF CInv, Active
<1> DEFINE Spare == {p} \X ((OpBlocks + 1) .. MAXOPBLOCKS)
<1>1. Spare \subseteq Reserved
  <2>1. Cardinality(wrote[p]) \in Nat /\ Cardinality(wrote[p]) <= OpBlocks
    BY FS_CardinalityType DEF SpaceInv
  <2> QED
    BY <2>1, SizeAssumption DEF Reserved
<1>2. IsFiniteSet(Spare) /\ Cardinality(Spare) = MAXOPBLOCKS - OpBlocks
  <2>1. /\ IsFiniteSet((OpBlocks + 1) .. MAXOPBLOCKS)
        /\ Cardinality((OpBlocks + 1) .. MAXOPBLOCKS) = MAXOPBLOCKS - OpBlocks
    <3>1. OpBlocks + 1 \in Int /\ MAXOPBLOCKS \in Int /\ ~(OpBlocks + 1 > MAXOPBLOCKS)
      BY SizeAssumption DEF OpFits
    <3>2. MAXOPBLOCKS - (OpBlocks + 1) + 1 = MAXOPBLOCKS - OpBlocks
      BY SizeAssumption
    <3> QED BY <3>1, <3>2, FS_Interval
  <2>2. IsFiniteSet({p}) /\ Cardinality({p}) = 1
    BY FS_Singleton
  <2>3. /\ IsFiniteSet(Spare)
        /\ Cardinality(Spare) = Cardinality({p}) * Cardinality((OpBlocks + 1) .. MAXOPBLOCKS)
    <3>1. ASSUME NEW T, IsFiniteSet(T)
          PROVE  IsFiniteSet({p} \X T) /\ Cardinality({p} \X T) = Cardinality({p}) * Cardinality(T)
      BY <2>2, <3>1, FS_Product, Zenon
    <3> QED BY <2>1, <3>1, Zenon
  <2>4. Cardinality(Spare) = 1 * (MAXOPBLOCKS - OpBlocks)
    BY <2>1, <2>2, <2>3, Zenon
  <2> QED BY <2>3, <2>4, SizeAssumption
<1>3. IsFiniteSet(Reserved) /\ Cardinality(Reserved) \in Nat
  <2>1. Reserved \subseteq Proc \X (1 .. MAXOPBLOCKS)
    BY DEF Reserved
  <2> QED BY <2>1, ReservedFinite
<1>4. Cardinality(Reserved) >= MAXOPBLOCKS - OpBlocks
  BY <1>1, <1>2, <1>3, FS_Subset, SizeAssumption
<1>5. Len(lh) + Cardinality(Reserved) <= LOGSIZE /\ Len(lh) \in Nat
  BY <1>t DEF SpaceInv, TypeOK
<1> QED
  BY <1>3, <1>4, <1>5, SizeAssumption DEF OpFits, LogFull

(* One step from a state without a panic leads to none. *)
LEMMA NoPanicNext ==
  OpFits /\ CInv /\ SpaceInv /\ NoPanic /\ [Next]_vars => NoPanic'
<1> SUFFICES ASSUME OpFits, CInv, SpaceInv, NoPanic, [Next]_vars PROVE NoPanic'
  OBVIOUS
<1>t. TypeOK /\ ControlInv
  BY DEF CInv
<1>1. ASSUME NEW p \in Proc, NEW b \in Block, NEW d \in Data, LogWrite(p, b, d)
      PROVE  NoPanic'
  <2>1. p \in Active /\ pc[p] = "op"
    BY <1>1 DEF LogWrite, Active
  <2>2. outstanding > 0
    BY <2>1, <1>t, ActiveFinite DEF ControlInv, TypeOK
  <2>3. ~LogFull
    BY <2>1, LogNeverFull
  <2> QED
    BY <1>1, <2>2, <2>3, <1>t DEF LogWrite, LogWritePanic, NoPanic, TypeOK
<1>2. ASSUME NEW p \in Proc, EndOp(p) PROVE NoPanic'
  <2>1. p \in Active
    BY <1>2 DEF EndOp, Active
  <2> QED
    BY <2>1, <1>2, <1>t DEF EndOp, ControlInv, NoPanic
<1>3. CASE panicked' = panicked
  BY <1>3 DEF NoPanic
<1>4. ASSUME NEW p \in Proc,
             \/ BeginOpSleep(p) \/ BeginOp(p) \/ WriteLog(p) \/ WriteHead(p)
             \/ Install(p) \/ Clear(p) \/ EndCommit(p)
      PROVE  panicked' = panicked
  BY <1>4 DEF BeginOpSleep, BeginOp, WriteLog, WriteHead, Install, InstallBlock,
     Clear, ClearHead, EndCommit
<1>5. ASSUME NEW p \in Proc, NEW b \in Block, LockBuf(p, b) \/ Brelse(p, b)
      PROVE  panicked' = panicked
  BY <1>5 DEF LockBuf, Brelse
<1>6. ASSUME NEW b \in Block, Recycle(b) PROVE panicked' = panicked
  BY <1>6 DEF Recycle
<1>7. ASSUME Crash \/ ReadHead \/ RecoverInstall \/ RecoverClear \/ UNCHANGED vars
      PROVE  panicked' = panicked
  BY <1>7 DEF Crash, ReadHead, RecoverInstall, InstallBlock, RecoverClear,
     ClearHead, vars
<1> QED
  BY <1>1, <1>2, <1>3, <1>4, <1>5, <1>6, <1>7 DEF Next, ProcStep, BufStep

(* If no operation logs as many distinct blocks as MAXOPBLOCKS, and the    *)
(* slack also covers a log area shorter than LOGSIZE, then no panic() of   *)
(* log.c is ever reached, for any number of processes.                     *)
THEOREM NoPanicAlways == ASSUME OpFits PROVE Spec => []NoPanic
<1>1. Init => NoPanic
  BY DEF Init, NoPanic
<1>2. CInv /\ SpaceInv /\ NoPanic /\ [Next]_vars => NoPanic'
  BY NoPanicNext
<1> QED BY <1>1, <1>2, CInvAlways, SpaceAlways, PTL DEF Spec
=============================================================================
