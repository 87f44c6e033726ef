--------------------------- MODULE LogAtomicProof ---------------------------
(***************************************************************************)
(* Proof that the redo log implements AtomicTxn when operations fit their  *)
(* reservation.                                                            *)
(***************************************************************************)
EXTENDS LogProof

(* A leaf goes to the SMT solver, twice if need be, or else to Zenon. *)
USE SMTT(30), Z3T(30), ZenonT(30)

FullInv == CInv /\ SpaceInv /\ NoPanic /\ DataInv

(* Outside install_trans() every logged block is still to be installed. *)
LEMMA UninstalledIsLogged ==
  ASSUME NEW b, phase \notin {"install", "clear"}
  PROVE  Uninstalled(b) <=> Logged(b)
BY DEF Uninstalled, Logged

(* The initial disk holds whole blocks and an empty log. *)
LEMMA DataInit == Init => DataInv
BY SizeAssumption
   DEF Init, DataInv, HeadInv, PinnedUntilInstalled, CacheCoherent, WholeInv,
       CopyInv, RecoverInv, Running, RecoverPhases, Injective

(* Steps that leave the log, the pins, the cached contents and the disk    *)
(* alone, and do not change the phase, preserve the data invariant.        *)
LEMMA DataFrame ==
  ASSUME DataInv, UNCHANGED <<cache, pin, lh, phase, tail, head, logblk, home>>
  PROVE  DataInv'
BY DEF DataInv, HeadInv, PinnedUntilInstalled, Uninstalled, CacheCoherent,
       WholeInv, CopyInv, RecoverInv, Running, Injective

(* bread() caches what the disk holds. *)
LEMMA DataLockBuf ==
  ASSUME FullInv, NEW p \in Proc, NEW b \in Block, LockBuf(p, b)
  PROVE  DataInv'
<1>t. TypeOK /\ ControlInv /\ DataInv /\ Running
  BY DEF FullInv, CInv, LockBuf
<1>u. UNCHANGED <<pin, lh, phase, tail, head, logblk, home>>
  BY DEF LockBuf, memVars, diskVars
<1>1. cache' = [cache EXCEPT ![b] = Bread(b)]
  BY DEF LockBuf
<1>2. cache[b] # NoBuf => cache' = cache
  BY <1>1, <1>t DEF Bread, TypeOK
<1>3. CASE cache[b] # NoBuf
  BY <1>2, <1>3, <1>t, <1>u, DataFrame
<1>4. CASE cache[b] = NoBuf
  <2>1. pin[b] = 0 /\ home[b] \in Data
    BY <1>4, <1>t, DataAssumption DEF DataInv, WholeInv, TypeOK
  <2>2. cache'[b] = home[b] /\ \A x \in Block : x # b => cache'[x] = cache[x]
    BY <1>1, <1>4, <1>t DEF Bread, TypeOK
  <2>3. HeadInv' /\ PinnedUntilInstalled' /\ RecoverInv'
    BY <1>t, <1>u DEF DataInv, HeadInv, PinnedUntilInstalled, Uninstalled,
       RecoverInv, Running, Injective
  <2>4. CacheCoherent' /\ WholeInv'
    BY <2>1, <2>2, <1>t, <1>u DEF DataInv, CacheCoherent, WholeInv, Running
  <2>5. CopyInv'
    <3>1. phase \in {"write_log", "write_head", "install"} =>
            \A i \in 1 .. Len(lh) : (phase = "install" => i > tail) => lh[i] # b
      BY <2>1, <1>t DEF DataInv, PinnedUntilInstalled, Uninstalled
    <3>2. \A i \in 1 .. Len(lh) : lh[i] \in Block
      BY <1>t DEF TypeOK
    <3>3. phase \in {"write_log", "install"} => tail < Len(lh)
      BY <1>t DEF ControlInv
    <3>4. tail \in Nat /\ Len(lh) \in Nat
      BY <1>t DEF TypeOK
    <3>5. phase = "write_log" => \A i \in 1 .. tail : cache'[lh[i]] = cache[lh[i]]
      BY <3>1, <3>2, <3>3, <3>4, <2>2
    <3>6. phase \in {"write_head", "install"} =>
            \A i \in 1 .. Len(lh) : i > tail => cache'[lh[i]] = cache[lh[i]]
      BY <3>1, <3>2, <2>2
    <3> QED
      BY <3>5, <3>6, <1>t, <1>u DEF DataInv, CopyInv
  <2> QED
    BY <2>3, <2>4, <2>5 DEF DataInv
<1> QED BY <1>3, <1>4

(* bget() recycles only buffers without a pin. *)
LEMMA DataRecycle ==
  ASSUME FullInv, NEW b \in Block, Recycle(b)
  PROVE  DataInv'
<1>t. TypeOK /\ ControlInv /\ DataInv
  BY DEF FullInv, CInv
<1>u. UNCHANGED <<pin, lh, phase, tail, head, logblk, home>>
  BY DEF Recycle, memVars, diskVars
<1>1. pin[b] = 0 /\ cache'[b] = NoBuf /\ \A x \in Block : x # b => cache'[x] = cache[x]
  BY <1>t DEF Recycle, TypeOK
<1>2. HeadInv' /\ PinnedUntilInstalled'
  BY <1>t, <1>u DEF DataInv, HeadInv, PinnedUntilInstalled, Uninstalled, Running,
     Injective
<1>3. CacheCoherent' /\ WholeInv' /\ RecoverInv'
  BY <1>1, <1>t, <1>u DEF DataInv, CacheCoherent, WholeInv, RecoverInv, Running
<1>4. CopyInv'
  <2>1. phase \in {"write_log", "write_head", "install"} =>
          \A i \in 1 .. Len(lh) : (phase = "install" => i > tail) => lh[i] # b
    BY <1>1, <1>t DEF DataInv, PinnedUntilInstalled, Uninstalled, Running,
       RecoverPhases
  <2>2. \A i \in 1 .. Len(lh) : lh[i] \in Block
    BY <1>t DEF TypeOK
  <2>3. phase \in {"write_log", "install"} => tail < Len(lh)
    BY <1>t DEF ControlInv
  <2>4. tail \in Nat /\ Len(lh) \in Nat
    BY <1>t DEF TypeOK
  <2>5. phase = "write_log" => \A i \in 1 .. tail : cache'[lh[i]] = cache[lh[i]]
    BY <2>1, <2>2, <2>3, <2>4, <1>1
  <2>6. phase \in {"write_head", "install"} =>
          \A i \in 1 .. Len(lh) : i > tail => cache'[lh[i]] = cache[lh[i]]
    BY <2>1, <2>2, <1>1
  <2> QED
    BY <2>5, <2>6, <1>t, <1>u DEF DataInv, CopyInv
<1> QED
  BY <1>2, <1>3, <1>4 DEF DataInv

(* log_write() pins the block it adds to the log; the log is not being     *)
(* committed, since an operation is running.                               *)
LEMMA DataLogWrite ==
  ASSUME FullInv, NoPanic', NEW p \in Proc, NEW b \in Block, NEW d \in Data,
         LogWrite(p, b, d)
  PROVE  DataInv'
<1>t. TypeOK /\ ControlInv /\ DataInv
  BY DEF FullInv, CInv
<1>1. phase = "none" /\ tail = 0 /\ Running
  <2>1. Active # {} /\ ~(\A q \in Proc : pc[q] = "idle")
    BY DEF LogWrite, Active
  <2> QED
    BY <2>1, <1>t DEF ControlInv, TypeOK, Running, RecoverPhases
<1>2. UNCHANGED <<phase, tail, head, logblk, home>>
  BY DEF LogWrite, diskVars
<1>3. cache'[b] = d /\ \A x \in Block : x # b => cache'[x] = cache[x]
  BY <1>t DEF LogWrite, TypeOK
<1>4. lh \in Seq(Block) /\ pin \in [Block -> Int]
  BY <1>t DEF TypeOK
<1>5. \A x \in Block : pin[x] = IF Logged(x) THEN 1 ELSE 0
  BY <1>1, <1>t, UninstalledIsLogged DEF DataInv, PinnedUntilInstalled
<1>6. /\ \A x \in Block : pin'[x] = IF Logged(x)' THEN 1 ELSE 0
      /\ \A x \in Block : Logged(x)' <=> Logged(x) \/ x = b
      /\ Injective(lh')
  <2>1. AddToLog(b)
    BY DEF LogWrite, NoPanic
  <2>2. CASE Logged(b)
    BY <2>1, <2>2, <1>5, <1>t DEF AddToLog, Logged, DataInv, HeadInv, Injective
  <2>3. CASE ~Logged(b)
    <3>1. lh' = Append(lh, b) /\ pin' = [pin EXCEPT ![b] = pin[b] + 1]
      BY <2>1, <2>3 DEF AddToLog
    <3>2. /\ Len(lh') = Len(lh) + 1 /\ lh'[Len(lh) + 1] = b /\ Len(lh) \in Nat
          /\ \A i \in 1 .. Len(lh) : lh'[i] = lh[i]
      BY <3>1, <1>4
    <3>3. \A x \in Block : Logged(x)' <=> Logged(x) \/ x = b
      BY <3>2 DEF Logged
    <3>4. \A x \in Block : pin'[x] = IF Logged(x)' THEN 1 ELSE 0
      BY <3>1, <3>3, <2>3, <1>4, <1>5
    <3>5. Injective(lh')
      BY <3>2, <2>3, <1>t DEF Injective, Logged, DataInv, HeadInv
    <3> QED BY <3>3, <3>4, <3>5
  <2> QED BY <2>2, <2>3
<1>7. HeadInv'
  BY <1>1, <1>2, <1>6, <1>t DEF DataInv, HeadInv, Injective
<1>8. PinnedUntilInstalled'
  <2>1. \A x \in Block : Uninstalled(x)' <=> Logged(x)'
    BY <1>1, <1>2 DEF Uninstalled, Logged
  <2> QED
    BY <1>6, <2>1 DEF PinnedUntilInstalled
<1>9. CacheCoherent' /\ WholeInv'
  <2>1. pin'[b] = 1
    BY <1>6
  <2>2. \A x \in Block : x # b => pin'[x] = pin[x]
    BY <1>5, <1>6
  <2> QED
    BY <1>1, <1>2, <1>3, <2>1, <2>2, <1>t
    DEF DataInv, CacheCoherent, WholeInv, Running
<1>10. CopyInv' /\ RecoverInv'
  BY <1>1, <1>2 DEF CopyInv, RecoverInv, Running
<1> QED
  BY <1>7, <1>8, <1>9, <1>10 DEF DataInv

(* end_op() and the end of a commit change the phase between states in     *)
(* which nothing has been copied.                                          *)
LEMMA DataEndOp ==
  ASSUME FullInv, NEW p \in Proc, EndOp(p) \/ EndCommit(p)
  PROVE  DataInv'
<1>t. TypeOK /\ ControlInv /\ DataInv
  BY DEF FullInv, CInv
<1>1. UNCHANGED <<cache, pin, lh, tail, head, logblk, home>>
  BY DEF EndOp, EndCommit, bufVars, diskVars
<1>2. phase \in {"none", "done"} /\ phase' \in {"none", "write_log", "done"} /\ tail = 0
  <2>1. CASE EndOp(p)
    <3>1. Active # {} /\ ~(\A q \in Proc : pc[q] = "idle")
      BY <2>1 DEF EndOp, Active
    <3>2. phase = "none"
      BY <3>1, <1>t DEF ControlInv, TypeOK, Running, RecoverPhases
    <3> QED
      BY <2>1, <3>2, <1>t DEF EndOp, ControlInv
  <2>2. CASE EndCommit(p)
    BY <2>2, <1>t DEF EndCommit, Committer, ControlInv
  <2> QED BY <2>1, <2>2
<1>3. Running /\ Running'
  BY <1>2 DEF Running, RecoverPhases
<1>4. HeadInv' /\ RecoverInv' /\ CopyInv'
  BY <1>1, <1>2, <1>3, <1>t DEF DataInv, HeadInv, Injective, RecoverInv, CopyInv
<1>5. PinnedUntilInstalled'
  BY <1>1, <1>2, <1>3, <1>t DEF DataInv, PinnedUntilInstalled, Uninstalled
<1>6. CacheCoherent' /\ WholeInv'
  BY <1>1, <1>3, <1>t DEF DataInv, CacheCoherent, WholeInv
<1> QED
  BY <1>4, <1>5, <1>6 DEF DataInv

(* write_log() finds the block it copies in the cache, because it is       *)
(* pinned.                                                                 *)
LEMMA WriteLogReads ==
  ASSUME FullInv, phase = "write_log"
  PROVE  /\ lh[tail + 1] \in Block /\ tail + 1 \in 1 .. Len(lh)
         /\ cache[lh[tail + 1]] \in Data
         /\ Bread(lh[tail + 1]) = cache[lh[tail + 1]]
<1>t. TypeOK /\ ControlInv /\ DataInv /\ Running
  BY DEF FullInv, CInv, Running, RecoverPhases
<1>1. lh[tail + 1] \in Block /\ tail + 1 \in 1 .. Len(lh)
  BY <1>t DEF TypeOK, ControlInv
<1>2. pin[lh[tail + 1]] = 1
  BY <1>1, <1>t DEF DataInv, PinnedUntilInstalled, Uninstalled
<1>3. cache[lh[tail + 1]] \in Data
  BY <1>1, <1>2, <1>t DEF DataInv, WholeInv
<1> QED
  BY <1>1, <1>3, DataAssumption DEF Bread

(* write_log() extends the copied part of the log by one block. *)
LEMMA DataWriteLog ==
  ASSUME FullInv, NEW p \in Proc, WriteLog(p)
  PROVE  DataInv'
<1>t. TypeOK /\ ControlInv /\ DataInv /\ phase = "write_log" /\ Running
  BY DEF FullInv, CInv, WriteLog, Committer, Running, RecoverPhases
<1> DEFINE b == lh[tail + 1]
<1>1. b \in Block /\ tail + 1 \in 1 .. Len(lh) /\ Bread(b) = cache[b]
  BY <1>t, WriteLogReads
<1>2. cache' = cache
  BY <1>1, <1>t DEF WriteLog, TypeOK
<1>3. UNCHANGED <<pin, lh, head, home>>
  BY DEF WriteLog
<1>4. phase' \in {"write_log", "write_head"} /\ Running'
  BY <1>t DEF WriteLog, Running, RecoverPhases
<1>5. /\ logblk'[tail + 1] = cache[b]
      /\ \A i \in 1 .. tail : logblk'[i] = logblk[i]
  <2>1. tail + 1 \in 1 .. LOGSIZE /\ tail \in Nat
    BY <1>1, <1>t, SizeAssumption DEF TypeOK, ControlInv
  <2> QED
    BY <1>1, <2>1, <1>t DEF WriteLog, TypeOK
<1>6. \A i \in 1 .. tail + 1 : logblk'[i] = cache[lh[i]]
  <2>1. \A i \in 1 .. tail : logblk[i] = cache[lh[i]]
    BY <1>t DEF DataInv, CopyInv
  <2>2. tail \in Nat
    BY <1>t DEF TypeOK
  <2> QED BY <1>5, <2>1, <2>2
<1>7. \/ phase' = "write_log" /\ tail' = tail + 1
      \/ phase' = "write_head" /\ tail' = 0 /\ tail + 1 = Len(lh)
  <2>1. tail \in Nat
    BY <1>t DEF TypeOK
  <2> QED BY <2>1, <1>t DEF WriteLog
<1>8. CopyInv'
  BY <1>2, <1>3, <1>6, <1>7 DEF CopyInv
<1>9. HeadInv' /\ RecoverInv'
  BY <1>3, <1>4, <1>t DEF DataInv, HeadInv, Injective, RecoverInv
<1>10. PinnedUntilInstalled'
  BY <1>3, <1>4, <1>t DEF DataInv, PinnedUntilInstalled, Uninstalled
<1>11. CacheCoherent' /\ WholeInv'
  BY <1>2, <1>3, <1>t DEF DataInv, CacheCoherent, WholeInv
<1> QED
  BY <1>8, <1>9, <1>10, <1>11 DEF DataInv

(* write_head() finds every block of the transaction in the log. *)
LEMMA DataWriteHead ==
  ASSUME FullInv, NEW p \in Proc, WriteHead(p)
  PROVE  DataInv'
<1>t. TypeOK /\ ControlInv /\ DataInv /\ phase = "write_head" /\ tail = 0 /\ Running
  BY DEF FullInv, CInv, WriteHead, Committer, Running, RecoverPhases, ControlInv
<1>1. UNCHANGED <<cache, pin, lh, tail, logblk, home>> /\ head' = lh /\ phase' = "install"
  BY DEF WriteHead, bufVars
<1>2. Running' /\ Len(lh) \in Nat
  BY <1>1, <1>t DEF Running, RecoverPhases, TypeOK
<1>3. HeadInv' /\ RecoverInv' /\ CopyInv'
  BY <1>1, <1>2, <1>t DEF DataInv, HeadInv, Injective, RecoverInv, CopyInv
<1>4. PinnedUntilInstalled'
  BY <1>1, <1>2, <1>t DEF DataInv, PinnedUntilInstalled, Uninstalled
<1>5. CacheCoherent' /\ WholeInv'
  BY <1>1, <1>2, <1>t DEF DataInv, CacheCoherent, WholeInv
<1> QED
  BY <1>3, <1>4, <1>5 DEF DataInv

(* install_trans() brings one block home and drops its pin. *)
LEMMA DataInstall ==
  ASSUME FullInv, NEW p \in Proc, Install(p)
  PROVE  DataInv'
<1>t. TypeOK /\ ControlInv /\ DataInv /\ phase = "install" /\ Running /\ Injective(lh)
  BY DEF FullInv, CInv, Install, Committer, Running, RecoverPhases, DataInv, HeadInv
<1> DEFINE b == lh[tail + 1]
<1>1. b \in Block /\ tail + 1 \in 1 .. Len(lh) /\ tail \in Nat /\ Len(lh) \in Nat
  BY <1>t DEF TypeOK, ControlInv
<1>2. pin[b] = 1 /\ cache[b] \in Data /\ logblk[tail + 1] = cache[b]
  <2>1. pin[b] = 1
    BY <1>1, <1>t DEF DataInv, PinnedUntilInstalled, Uninstalled
  <2>2. cache[b] \in Data
    BY <1>1, <2>1, <1>t DEF DataInv, WholeInv
  <2>3. logblk[tail + 1] = cache[b]
    BY <1>1, <1>t DEF DataInv, CopyInv
  <2> QED BY <2>1, <2>2, <2>3
<1>3. cache' = cache
  BY <1>1, <1>2, <1>t DEF Install, InstallBlock, TypeOK
<1>4. /\ home'[b] = cache[b] /\ \A x \in Block : x # b => home'[x] = home[x]
      /\ pin'[b] = 0 /\ \A x \in Block : x # b => pin'[x] = pin[x]
  BY <1>1, <1>2, <1>t DEF Install, InstallBlock, TypeOK
<1>5. UNCHANGED <<lh, head, logblk>> /\ tail' = tail + 1
  BY DEF Install, InstallBlock
<1>6. phase' \in {"install", "clear"} /\ Running'
      /\ (phase' = "clear" => tail' = Len(lh))
  BY <1>t DEF Install, Running, RecoverPhases
<1>7. HeadInv' /\ RecoverInv'
  BY <1>5, <1>6, <1>t DEF DataInv, HeadInv, Injective, RecoverInv
<1>8. PinnedUntilInstalled'
  <2>1. ASSUME NEW x \in Block PROVE Uninstalled(x)' <=> Uninstalled(x) /\ x # b
    BY <2>1, <1>1, <1>5, <1>6, <1>t DEF Uninstalled, Injective
  <2> QED
    BY <2>1, <1>2, <1>4, <1>t DEF DataInv, PinnedUntilInstalled
<1>9. CacheCoherent' /\ WholeInv'
  BY <1>2, <1>3, <1>4, <1>t DEF DataInv, CacheCoherent, WholeInv
<1>10. CopyInv'
  <2>1. \A i \in 1 .. tail + 1 : home'[lh[i]] = logblk[i]
    <3>1. \A i \in 1 .. tail : lh[i] # b /\ lh[i] \in Block
      BY <1>1, <1>t DEF Injective, TypeOK
    <3>2. \A i \in 1 .. tail : home[lh[i]] = logblk[i]
      BY <1>t DEF DataInv, CopyInv
    <3> QED BY <3>1, <3>2, <1>1, <1>2, <1>4
  <2>2. \A i \in 1 .. Len(lh) : i > tail => logblk[i] = cache[lh[i]]
    BY <1>t DEF DataInv, CopyInv
  <2> QED
    BY <2>1, <2>2, <1>1, <1>3, <1>5, <1>6 DEF CopyInv
<1> QED
  BY <1>7, <1>8, <1>9, <1>10 DEF DataInv

(* After the last block is home the header may be erased. *)
LEMMA DataClear ==
  ASSUME FullInv, NEW p \in Proc, Clear(p)
  PROVE  DataInv'
<1>t. TypeOK /\ ControlInv /\ DataInv /\ phase = "clear" /\ Running /\ tail = Len(lh)
  BY DEF FullInv, CInv, Clear, Committer, Running, RecoverPhases, ControlInv
<1>1. /\ UNCHANGED <<cache, pin, logblk, home>>
      /\ head' = << >> /\ lh' = << >> /\ phase' = "done" /\ tail' = 0
  BY DEF Clear, ClearHead, bufVars
<1>2. Running'
  BY <1>1 DEF Running, RecoverPhases
<1>3. HeadInv' /\ RecoverInv' /\ CopyInv'
  BY <1>1, <1>2 DEF HeadInv, Injective, RecoverInv, CopyInv
<1>4. PinnedUntilInstalled'
  <2>1. \A x \in Block : pin[x] = 0
    BY <1>t DEF DataInv, PinnedUntilInstalled, Uninstalled, TypeOK
  <2> QED
    BY <2>1, <1>1 DEF PinnedUntilInstalled, Uninstalled
<1>5. CacheCoherent' /\ WholeInv'
  BY <1>1, <1>2, <1>t DEF DataInv, CacheCoherent, WholeInv
<1> QED
  BY <1>3, <1>4, <1>5 DEF DataInv

(* A crash leaves whole every block that recovery will not overwrite, and  *)
(* every log block that the header names.                                  *)
LEMMA DataCrash ==
  ASSUME FullInv, Crash
  PROVE  DataInv'
<1>t. TypeOK /\ ControlInv /\ DataInv
  BY DEF FullInv, CInv
<1>1. /\ \A x \in Block : pin'[x] = 0 /\ cache'[x] = NoBuf
      /\ lh' = << >> /\ head' = head /\ phase' = "read_head" /\ tail' = 0
  BY DEF Crash
<1>2. ~Running'
  BY <1>1 DEF Running, RecoverPhases
<1>3. HeadInv'
  BY <1>1, <1>t DEF DataInv, HeadInv, Injective
<1>4. PinnedUntilInstalled' /\ CacheCoherent' /\ WholeInv' /\ CopyInv'
  BY <1>1, <1>2 DEF PinnedUntilInstalled, CacheCoherent, WholeInv, CopyInv
<1>5. \A i \in 1 .. Len(head) : logblk'[i] \in Data
  <2>1. \A i \in 1 .. Len(head) : i \in 1 .. LOGSIZE
    BY <1>t, SizeAssumption DEF TypeOK, ControlInv
  <2>2. \A i \in 1 .. LOGSIZE : phase # "write_log" => logblk'[i] = logblk[i]
    BY DEF Crash, LogInFlight
  <2>3. CASE ~Running
    <3>1. phase # "write_log"
      BY <2>3 DEF Running, RecoverPhases
    <3> QED
      BY <2>1, <2>2, <2>3, <3>1, <1>t DEF DataInv, RecoverInv
  <2>4. CASE phase \in {"none", "write_log", "write_head", "done"}
    BY <2>4, <1>t DEF DataInv, HeadInv
  <2>5. CASE phase \in {"install", "clear"}
    <3>1. Running /\ head = lh /\ tail \in Nat /\ Len(lh) \in Nat
          /\ \A i \in 1 .. Len(lh) : lh[i] \in Block
      BY <2>5, <1>t DEF Running, RecoverPhases, DataInv, HeadInv, TypeOK
    <3>2. \A i \in 1 .. tail : logblk[i] = home[lh[i]]
      BY <2>5, <1>t DEF DataInv, CopyInv
    <3>3. \A i \in 1 .. Len(lh) : i > tail => logblk[i] = cache[lh[i]] /\ pin[lh[i]] = 1
      BY <2>5, <3>1, <1>t
      DEF DataInv, CopyInv, PinnedUntilInstalled, Uninstalled, ControlInv
    <3>4. \A i \in 1 .. Len(lh) : logblk[i] \in Data
      BY <3>1, <3>2, <3>3, <1>t DEF DataInv, WholeInv
    <3> QED
      BY <2>1, <2>2, <2>5, <3>1, <3>4
  <2> QED
    BY <2>3, <2>4, <2>5, <1>t
    DEF TypeOK, CommitPhases, RecoverPhases, Running
<1>6. ASSUME NEW x \in Block, \A i \in 1 .. Len(head) : head[i] # x
      PROVE  home'[x] \in Data
  <2>1. home[x] \in Data
    BY <1>6, <1>t DEF DataInv, WholeInv, RecoverInv
  <2>2. x \notin HomeInFlight
    <3> SUFFICES ASSUME phase \in {"install", "recover"}, tail < Len(lh), x = lh[tail + 1]
                 PROVE  FALSE
      BY DEF HomeInFlight
    <3>1. head = lh /\ tail + 1 \in 1 .. Len(lh)
      BY <1>t DEF DataInv, HeadInv, TypeOK
    <3> QED BY <3>1, <1>6
  <2> QED
    BY <2>1, <2>2 DEF Crash
<1>7. RecoverInv'
  BY <1>1, <1>5, <1>6 DEF RecoverInv
<1> QED
  BY <1>3, <1>4, <1>7 DEF DataInv

(* read_head() takes the header over into memory. *)
LEMMA DataReadHead ==
  ASSUME FullInv, ReadHead
  PROVE  DataInv'
<1>t. DataInv /\ phase = "read_head" /\ head \in Seq(Block)
  BY DEF FullInv, CInv, ReadHead, TypeOK
<1>1. /\ UNCHANGED <<cache, pin, head, logblk, home>>
      /\ lh' = head /\ tail' = 0 /\ phase' \in {"recover", "recover_clear"}
  BY DEF ReadHead, bufVars, diskVars
<1>2. ~Running /\ ~Running'
  BY <1>t, <1>1 DEF Running, RecoverPhases
<1>3. HeadInv' /\ CopyInv' /\ RecoverInv'
  BY <1>1, <1>2, <1>t DEF DataInv, HeadInv, Injective, CopyInv, RecoverInv
<1>4. PinnedUntilInstalled' /\ CacheCoherent' /\ WholeInv'
  BY <1>2 DEF PinnedUntilInstalled, CacheCoherent, WholeInv
<1> QED
  BY <1>3, <1>4 DEF DataInv

(* Recovery brings one block home. *)
LEMMA DataRecoverInstall ==
  ASSUME FullInv, RecoverInstall
  PROVE  DataInv'
<1>t. /\ TypeOK /\ ControlInv /\ DataInv /\ phase = "recover" /\ ~Running
      /\ Injective(lh) /\ head = lh
  BY DEF FullInv, CInv, RecoverInstall, Running, RecoverPhases, DataInv, HeadInv
<1> DEFINE b == lh[tail + 1]
<1>1. b \in Block /\ tail + 1 \in 1 .. Len(lh) /\ tail \in Nat /\ Len(lh) \in Nat
  BY <1>t DEF TypeOK, ControlInv
<1>2. /\ home'[b] = logblk[tail + 1] /\ \A x \in Block : x # b => home'[x] = home[x]
      /\ cache'[b] = logblk[tail + 1] /\ \A x \in Block : x # b => cache'[x] = cache[x]
  BY <1>1, <1>t DEF RecoverInstall, InstallBlock, TypeOK
<1>3. UNCHANGED <<pin, lh, head, logblk>> /\ tail' = tail + 1
  BY DEF RecoverInstall, InstallBlock
<1>4. phase' \in {"recover", "recover_clear"} /\ ~Running'
  BY <1>t DEF RecoverInstall, Running, RecoverPhases
<1>5. HeadInv'
  BY <1>3, <1>4, <1>t DEF DataInv, HeadInv, Injective
<1>6. CopyInv'
  <2>1. \A i \in 1 .. tail : lh[i] # b /\ lh[i] \in Block
    BY <1>1, <1>t DEF Injective, TypeOK
  <2>2. \A i \in 1 .. tail : home[lh[i]] = logblk[i]
    BY <1>t DEF DataInv, CopyInv
  <2>3. \A i \in 1 .. tail + 1 : home'[lh[i]] = logblk[i]
    BY <2>1, <2>2, <1>1, <1>2
  <2> QED
    BY <2>3, <1>3, <1>4 DEF CopyInv
<1>7. RecoverInv'
  <2>1. \A x \in Block : pin'[x] = 0 /\ cache'[x] \in {NoBuf, home'[x]}
    BY <1>2, <1>3, <1>t DEF DataInv, RecoverInv
  <2>2. \A x \in Block : (\A i \in 1 .. Len(head) : head[i] # x) => home'[x] \in Data
    BY <1>1, <1>2, <1>t DEF DataInv, RecoverInv
  <2> QED
    BY <2>1, <2>2, <1>3, <1>t DEF DataInv, RecoverInv
<1>8. PinnedUntilInstalled' /\ CacheCoherent' /\ WholeInv'
  BY <1>4 DEF PinnedUntilInstalled, CacheCoherent, WholeInv
<1> QED
  BY <1>5, <1>6, <1>7, <1>8 DEF DataInv

(* When recovery erases the header every block is whole again. *)
LEMMA DataRecoverClear ==
  ASSUME FullInv, RecoverClear
  PROVE  DataInv'
<1>t. /\ TypeOK /\ ControlInv /\ DataInv /\ phase = "recover_clear" /\ ~Running
      /\ head = lh /\ tail = Len(lh)
  BY DEF FullInv, CInv, RecoverClear, Running, RecoverPhases, DataInv, HeadInv,
     ControlInv
<1>1. /\ UNCHANGED <<cache, pin, logblk, home>>
      /\ head' = << >> /\ lh' = << >> /\ phase' = "none" /\ tail' = 0
  BY DEF RecoverClear, ClearHead, bufVars
<1>2. Running'
  BY <1>1 DEF Running, RecoverPhases
<1>3. HeadInv' /\ RecoverInv' /\ CopyInv'
  BY <1>1, <1>2 DEF HeadInv, Injective, RecoverInv, CopyInv
<1>4. \A x \in Block : pin[x] = 0 /\ cache[x] \in {NoBuf, home[x]}
  BY <1>t DEF DataInv, RecoverInv
<1>5. \A x \in Block : home[x] \in Data
  <2> SUFFICES ASSUME NEW x \in Block PROVE home[x] \in Data
    OBVIOUS
  <2>1. ASSUME NEW i \in 1 .. Len(lh), lh[i] = x PROVE home[x] \in Data
    <3>1. home[lh[i]] = logblk[i]
      BY <1>t DEF DataInv, CopyInv
    <3>2. logblk[i] \in Data
      BY <1>t DEF DataInv, RecoverInv
    <3> QED BY <3>1, <3>2, <2>1
  <2>2. CASE \A i \in 1 .. Len(lh) : lh[i] # x
    BY <2>2, <1>t DEF DataInv, RecoverInv
  <2> QED BY <2>1, <2>2
<1>6. PinnedUntilInstalled' /\ CacheCoherent' /\ WholeInv'
  BY <1>1, <1>4, <1>5
  DEF PinnedUntilInstalled, Uninstalled, CacheCoherent, WholeInv
<1> QED
  BY <1>3, <1>6 DEF DataInv

(* The data invariant is inductive. *)
LEMMA DataNext ==
  ASSUME FullInv, NoPanic', [Next]_vars
  PROVE  DataInv'
<1>f. DataInv
  BY DEF FullInv
<1>1. ASSUME NEW p \in Proc, ProcStep(p) PROVE DataInv'
  <2>1. CASE BeginOpSleep(p) \/ BeginOp(p)
    <3>1. UNCHANGED <<cache, pin, lh, phase, tail, head, logblk, home>>
      BY <2>1 DEF BeginOpSleep, BeginOp, bufVars, memVars, diskVars
    <3> QED BY <3>1, <1>f, DataFrame
  <2> QED
    BY <1>1, <2>1, DataEndOp, DataWriteLog, DataWriteHead, DataInstall, DataClear
    DEF ProcStep
<1>2. ASSUME NEW p \in Proc, NEW b \in Block, BufStep(p, b) PROVE DataInv'
  <2>1. CASE Brelse(p, b)
    <3>1. UNCHANGED <<cache, pin, lh, phase, tail, head, logblk, home>>
      BY <2>1 DEF Brelse, memVars, diskVars
    <3> QED BY <3>1, <1>f, DataFrame
  <2> QED
    BY <1>2, <2>1, DataLockBuf, DataLogWrite DEF BufStep
<1>3. ASSUME UNCHANGED vars PROVE DataInv'
  <2>1. UNCHANGED <<cache, pin, lh, phase, tail, head, logblk, home>>
    BY <1>3 DEF vars, bufVars, memVars, diskVars
  <2> QED BY <2>1, <1>f, DataFrame
<1> QED
  BY <1>1, <1>2, <1>3, DataRecycle, DataCrash, DataReadHead, DataRecoverInstall,
     DataRecoverClear DEF Next

(* The invariant checked as IInv holds for every instance of the constants *)
(* in which operations fit their reservation.                              *)
LEMMA FullInvAlways == ASSUME OpFits PROVE Spec => []FullInv
<1>1. Init => DataInv
  BY DataInit
<1>2. CInv /\ SpaceInv /\ NoPanic /\ NoPanic' /\ DataInv /\ [Next]_vars => DataInv'
  BY DataNext DEF FullInv
<1>3. Spec => []NoPanic
  BY NoPanicAlways
<1>4. CInv /\ SpaceInv /\ NoPanic /\ DataInv => FullInv
  BY DEF FullInv
<1> QED
  BY <1>1, <1>2, <1>3, <1>4, CInvAlways, SpaceAlways, PTL DEF Spec

(* The inductive invariant of the log, for all constants. *)
THEOREM IInvAlways == ASSUME OpFits PROVE Spec => []IInv
<1>1. FullInv => IInv
  BY DEF FullInv, CInv, IInv
<1> QED BY <1>1, FullInvAlways, PTL

(* A cached block without a pin is what the disk holds, so recycling its   *)
(* buffer loses nothing.                                                   *)
THEOREM CacheCoherentAlways == ASSUME OpFits PROVE Spec => []CacheCoherent
<1>1. FullInv => CacheCoherent
  BY DEF FullInv, DataInv
<1> QED BY <1>1, FullInvAlways, PTL

-----------------------------------------------------------------------------
(* Refinement *)

(* What replaying a header whose entries are distinct yields. *)
LEMMA ReplayFacts ==
  ASSUME NEW hd \in Seq(Block), Injective(hd), NEW lb, NEW hm
  PROVE  /\ \A i \in 1 .. Len(hd) : Replay(hd, lb, hm)[hd[i]] = lb[i]
         /\ \A b \in Block : (\A i \in 1 .. Len(hd) : hd[i] # b) =>
                              Replay(hd, lb, hm)[b] = hm[b]
<1>1. ASSUME NEW i \in 1 .. Len(hd) PROVE Replay(hd, lb, hm)[hd[i]] = lb[i]
  <2> DEFINE j == CHOOSE k \in 1 .. Len(hd) : hd[k] = hd[i]
  <2>1. j \in 1 .. Len(hd) /\ hd[j] = hd[i]
    OBVIOUS
  <2>2. j = i
    BY <2>1 DEF Injective
  <2>3. hd[i] \in Block
    OBVIOUS
  <2> QED BY <2>2, <2>3, ZenonT(30) DEF Replay
<1>2. ASSUME NEW b \in Block, \A i \in 1 .. Len(hd) : hd[i] # b
      PROVE  Replay(hd, lb, hm)[b] = hm[b]
  BY <1>2 DEF Replay
<1> QED BY <1>1, <1>2

(* Two replays agree if they agree block by block. *)
LEMMA ReplayEqual ==
  ASSUME NEW hd \in Seq(Block), Injective(hd), NEW lb, NEW hm, NEW f \in [Block -> Data \cup {NoBuf, Torn}],
         \A i \in 1 .. Len(hd) : f[hd[i]] = lb[i],
         \A b \in Block : (\A i \in 1 .. Len(hd) : hd[i] # b) => f[b] = hm[b]
  PROVE  Replay(hd, lb, hm) = f
<1>1. \A b \in Block : Replay(hd, lb, hm)[b] = f[b]
  BY ReplayFacts
<1>2. Replay(hd, lb, hm) = [b \in Block |-> Replay(hd, lb, hm)[b]]
  BY DEF Replay
<1>3. f = [b \in Block |-> f[b]]
  OBVIOUS
<1> QED BY <1>1, <1>2, <1>3

(* An empty header leaves the disk as it is. *)
LEMMA ReplayEmpty ==
  ASSUME NEW lb, NEW hm \in [Block -> Data \cup {NoBuf, Torn}]
  PROVE  Replay(<< >>, lb, hm) = hm
BY DEF Replay

(* From the commit point on, a crash would recover what readers see. *)
LEMMA CommittedVisible ==
  ASSUME FullInv, phase \in {"write_head", "install", "clear"}
  PROVE  Replay(lh, logblk, home) = [b \in Block |-> Bread(b)]
<1>t. TypeOK /\ ControlInv /\ DataInv /\ Running /\ Injective(lh)
  BY DEF FullInv, CInv, Running, RecoverPhases, DataInv, HeadInv
<1>1. tail \in Nat /\ Len(lh) \in Nat /\ \A i \in 1 .. Len(lh) : lh[i] \in Block
  BY <1>t DEF TypeOK
<1>2. \A b \in Block : Bread(b) \in Data \cup {NoBuf, Torn}
  BY <1>t DEF TypeOK, Bread
<1>3. \A b \in Block : ~Uninstalled(b) => Bread(b) = home[b]
  BY <1>t DEF DataInv, PinnedUntilInstalled, CacheCoherent, Bread
<1>4. \A b \in Block : Uninstalled(b) => Bread(b) = cache[b]
  BY <1>t, DataAssumption DEF DataInv, PinnedUntilInstalled, WholeInv, Bread
<1>5. ASSUME NEW i \in 1 .. Len(lh) PROVE Bread(lh[i]) = logblk[i]
  <2>1. CASE i > tail
    <3>1. phase # "clear"
      BY <2>1, <1>t, <1>1 DEF ControlInv
    <3>2. Uninstalled(lh[i])
      BY <2>1 DEF Uninstalled
    <3>3. logblk[i] = cache[lh[i]]
      BY <2>1, <3>1, <1>t DEF DataInv, CopyInv
    <3> QED BY <3>2, <3>3, <1>1, <1>4
  <2>2. CASE i \in 1 .. tail
    <3>1. phase # "write_head"
      BY <2>2, <1>t DEF ControlInv
    <3>2. ~Uninstalled(lh[i])
      BY <2>2, <3>1, <1>t, <1>1 DEF Uninstalled, Injective
    <3>3. home[lh[i]] = logblk[i]
      BY <2>2, <3>1, <1>t DEF DataInv, CopyInv
    <3> QED BY <3>2, <3>3, <1>1, <1>3
  <2> QED BY <2>1, <2>2, <1>1
<1>6. ASSUME NEW b \in Block, \A i \in 1 .. Len(lh) : lh[i] # b
      PROVE  Bread(b) = home[b]
  <2>1. ~Uninstalled(b)
    BY <1>6 DEF Uninstalled
  <2> QED BY <2>1, <1>3
<1> DEFINE f == [b \in Block |-> Bread(b)]
<1>7. /\ f \in [Block -> Data \cup {NoBuf, Torn}]
      /\ \A i \in 1 .. Len(lh) : f[lh[i]] = logblk[i]
      /\ \A b \in Block : (\A i \in 1 .. Len(lh) : lh[i] # b) => f[b] = home[b]
  BY <1>1, <1>2, <1>5, <1>6
<1>8. lh \in Seq(Block)
  BY <1>t DEF TypeOK
<1> HIDE DEF f
<1>9. Replay(lh, logblk, home) = f
  BY <1>7, <1>8, <1>t, ReplayEqual
<1> QED BY <1>9 DEF f

(* With nothing in the log, readers see the disk. *)
LEMMA QuietVisible ==
  ASSUME FullInv, phase \in {"none", "done"}, lh = << >>
  PROVE  Recovered = home /\ Visible = home
<1>t. TypeOK /\ DataInv /\ Running /\ head = << >>
  BY DEF FullInv, CInv, Running, RecoverPhases, DataInv, HeadInv
<1>1. Recovered = home
  BY <1>t, ReplayEmpty DEF Recovered, TypeOK
<1>2. \A b \in Block : pin[b] = 0
  BY <1>t DEF DataInv, PinnedUntilInstalled, Uninstalled
<1>3. \A b \in Block : Bread(b) = home[b]
  BY <1>2, <1>t DEF DataInv, CacheCoherent, Bread
<1>4. Visible = home
  BY <1>3, <1>t DEF Visible, TypeOK
<1> QED BY <1>1, <1>4

(* When the last end_op() has returned, every update survives a crash. *)
THEOREM QuiescentDurableAlways ==
  ASSUME OpFits PROVE Spec => []QuiescentDurable
<1>1. FullInv => QuiescentDurable
  <2> SUFFICES ASSUME FullInv, Running, outstanding = 0, committing = 0
               PROVE  Recovered = Visible
    BY DEF QuiescentDurable
  <2>1. phase = "none" /\ Active = {} /\ lh = << >>
    BY ActiveFinite DEF FullInv, CInv, ControlInv, TypeOK, Running
  <2> QED BY <2>1, QuietVisible
<1> QED BY <1>1, FullInvAlways, PTL

(* A step that leaves disk, cache and phase alone changes neither image. *)
LEMMA ImagesFrame ==
  ASSUME UNCHANGED <<head, logblk, home, cache>>, Running' <=> Running
  PROVE  Recovered' = Recovered /\ Visible' = Visible
BY DEF Recovered, Replay, Visible, Bread

(* Nor does one that changes what is cached but not what bread() returns. *)
LEMMA VisibleFrame ==
  ASSUME Running, Running', \A b \in Block : Bread(b)' = Bread(b)
  PROVE  Visible' = Visible
BY DEF Visible

(* begin_op() that admits is Begin, end_op() is End. *)
LEMMA RefineOps ==
  ASSUME FullInv, NEW p \in Proc, BeginOpSleep(p) \/ BeginOp(p) \/ EndOp(p)
  PROVE  [Txn!Next]_(Txn!vars)
<1>t. TypeOK /\ ControlInv /\ DataInv
  BY DEF FullInv, CInv
<1>1. Recovered' = Recovered /\ Visible' = Visible
  <2>1. UNCHANGED <<head, logblk, home, cache>>
    BY DEF BeginOpSleep, BeginOp, EndOp, bufVars, diskVars
  <2>2. Running' <=> Running
    <3>1. CASE EndOp(p)
      <4>1. ~(\A q \in Proc : pc[q] = "idle")
        BY <3>1 DEF EndOp
      <4> QED
        BY <3>1, <4>1, <1>t DEF EndOp, ControlInv, Running, RecoverPhases
    <3>2. CASE BeginOpSleep(p) \/ BeginOp(p)
      BY <3>2 DEF BeginOpSleep, BeginOp, Running, memVars
    <3> QED BY <3>1, <3>2
  <2> QED BY <2>1, <2>2, ImagesFrame
<1>2. CASE BeginOpSleep(p)
  <2>1. Active' = Active
    BY <1>2, <1>t DEF BeginOpSleep, Active, TypeOK
  <2> QED BY <1>1, <2>1 DEF Txn!vars
<1>3. CASE BeginOp(p)
  <2>1. p \notin Active /\ Active' = Active \cup {p}
    BY <1>3, <1>t DEF BeginOp, Active, TypeOK
  <2>2. Txn!Begin(p)
    BY <1>1, <2>1 DEF Txn!Begin
  <2> QED BY <2>2 DEF Txn!Next
<1>4. CASE EndOp(p)
  <2>1. p \in Active /\ Active' = Active \ {p}
    BY <1>4, <1>t DEF EndOp, Active, TypeOK, Wakeup, ControlInv
  <2>2. Txn!End(p)
    BY <1>1, <2>1 DEF Txn!End
  <2> QED BY <2>2 DEF Txn!Next
<1> QED BY <1>2, <1>3, <1>4

(* write_head() is Commit: it makes what readers see the image that        *)
(* recovery yields.  Every other step of commit() stutters.                *)
LEMMA RefineCommit ==
  ASSUME FullInv, NEW p \in Proc,
         WriteLog(p) \/ WriteHead(p) \/ Install(p) \/ Clear(p) \/ EndCommit(p)
  PROVE  [Txn!Next]_(Txn!vars)
<1>t. TypeOK /\ ControlInv /\ DataInv
  BY DEF FullInv, CInv
<1>a. Active' = Active /\ Active = {}
  <2>1. pc[p] = "commit"
    BY ZenonT(30) DEF WriteLog, WriteHead, Install, Clear, EndCommit, Committer
  <2>2. Active = {}
    BY <2>1, <1>t DEF ControlInv
  <2>3. CASE WriteLog(p) \/ WriteHead(p) \/ Install(p) \/ Clear(p)
    BY <2>3, <2>2, ZenonT(30) DEF WriteLog, WriteHead, Install, InstallBlock, Clear,
       ClearHead, Active, procVars
  <2>4. CASE EndCommit(p)
    BY <2>4, <2>2, <1>t DEF EndCommit, Active, TypeOK, Wakeup
  <2> QED BY <2>2, <2>3, <2>4
<1>1. CASE WriteLog(p)
  <2>1. phase = "write_log" /\ head = << >> /\ head' = << >> /\ home' = home
    BY <1>1, <1>t DEF WriteLog, Committer, DataInv, HeadInv
  <2>2. Recovered' = Recovered
    BY <2>1, <1>t, ReplayEmpty DEF Recovered, TypeOK
  <2>3. cache' = cache
    BY <1>1, <2>1, <1>t, WriteLogReads DEF WriteLog, TypeOK
  <2>4. Running /\ Running'
    BY <1>1, <2>1 DEF WriteLog, Running, RecoverPhases
  <2>5. Visible' = Visible
    BY <2>1, <2>3, <2>4 DEF Visible, Bread
  <2> QED BY <1>a, <2>2, <2>5 DEF Txn!vars
<1>2. CASE WriteHead(p)
  <2>1. /\ phase = "write_head" /\ phase' = "install" /\ head' = lh
        /\ UNCHANGED <<cache, logblk, home>>
    BY <1>2 DEF WriteHead, Committer, bufVars
  <2>2. Running /\ Running'
    BY <2>1 DEF Running, RecoverPhases
  <2>3. Visible' = Visible
    BY <2>1, <2>2 DEF Visible, Bread
  <2>4. Recovered' = Visible
    BY <2>1, <2>2, CommittedVisible DEF Recovered, Visible
  <2>5. Txn!Commit
    BY <1>a, <2>3, <2>4 DEF Txn!Commit
  <2> QED BY <2>5 DEF Txn!Next
<1>3. CASE Install(p)
  <2>1. /\ phase = "install" /\ phase' \in {"install", "clear"} /\ head = lh
        /\ UNCHANGED <<head, lh, logblk>>
    BY <1>3, <1>t DEF Install, InstallBlock, Committer, DataInv, HeadInv
  <2> DEFINE b == lh[tail + 1]
  <2>2. /\ b \in Block /\ tail + 1 \in 1 .. Len(lh)
        /\ pin[b] = 1 /\ cache[b] \in Data /\ logblk[tail + 1] = cache[b]
    <3>1. b \in Block /\ tail + 1 \in 1 .. Len(lh) /\ tail \in Nat /\ Running
      BY <2>1, <1>t DEF TypeOK, ControlInv, Running, RecoverPhases
    <3>2. pin[b] = 1
      BY <2>1, <3>1, <1>t DEF DataInv, PinnedUntilInstalled, Uninstalled
    <3>3. cache[b] \in Data
      BY <3>1, <3>2, <1>t DEF DataInv, WholeInv
    <3>4. logblk[tail + 1] = cache[b]
      BY <2>1, <3>1, <1>t DEF DataInv, CopyInv
    <3> QED BY <3>1, <3>2, <3>3, <3>4
  <2>3. /\ cache' = cache /\ home' \in [Block -> Data \cup {NoBuf, Torn}]
        /\ \A x \in Block : x # b => home'[x] = home[x]
    BY <1>3, <2>2, <1>t DEF Install, InstallBlock, TypeOK
  <2>4. Visible' = Visible
    <3>1. \A x \in Block : Bread(x)' = Bread(x)
      BY <2>2, <2>3, DataAssumption, ZenonT(30) DEF Bread
    <3>2. Running /\ Running'
      BY <2>1 DEF Running, RecoverPhases
    <3> QED BY <3>1, <3>2, VisibleFrame
  <2>5. Recovered' = Recovered
    <3>1. \A x \in Block : x # b => home'[x] = home[x]
      BY <2>3, ZenonT(30)
    <3>2. \E i \in 1 .. Len(head) : head[i] = b
      BY <2>1, <2>2
    <3> QED
      BY <3>1, <3>2, <2>1, ZenonT(30) DEF Recovered, Replay
  <2> QED BY <1>a, <2>4, <2>5 DEF Txn!vars
<1>4. CASE Clear(p)
  <2>1. /\ phase = "clear" /\ phase' = "done" /\ head = lh /\ head' = << >>
        /\ UNCHANGED <<cache, logblk, home>>
    BY <1>4, <1>t DEF Clear, ClearHead, Committer, DataInv, HeadInv, bufVars
  <2>2. Running /\ Running'
    BY <2>1 DEF Running, RecoverPhases
  <2>3. Visible' = Visible
    BY <2>1, <2>2 DEF Visible, Bread
  <2>4. Recovered = Visible
    BY <2>1, <2>2, CommittedVisible DEF Recovered, Visible
  <2>5. Recovered' = home
    BY <2>1, <1>t, ReplayEmpty DEF Recovered, TypeOK
  <2>6. Visible = home
    <3>1. \A x \in Block : pin[x] = 0
      BY <2>1, <2>2, <1>t
      DEF DataInv, PinnedUntilInstalled, Uninstalled, ControlInv, TypeOK
    <3>2. \A x \in Block : Bread(x) = home[x]
      BY <3>1, <2>2, <1>t DEF DataInv, CacheCoherent, Bread
    <3> QED BY <3>2, <2>2, <1>t DEF Visible, TypeOK
  <2> QED BY <1>a, <2>3, <2>4, <2>5, <2>6 DEF Txn!vars
<1>5. CASE EndCommit(p)
  <2>1. UNCHANGED <<head, logblk, home, cache>> /\ (Running' <=> Running)
    BY <1>5 DEF EndCommit, Committer, bufVars, diskVars, Running, RecoverPhases
  <2> QED BY <1>a, <2>1, ImagesFrame DEF Txn!vars
<1> QED BY <1>1, <1>2, <1>3, <1>4, <1>5

(* log_write() is Write; locking, releasing and recycling buffers stutter. *)
LEMMA RefineBuf ==
  ASSUME FullInv, NoPanic',
         \/ \E p \in Proc, b \in Block : BufStep(p, b)
         \/ \E b \in Block : Recycle(b)
  PROVE  [Txn!Next]_(Txn!vars)
<1>t. TypeOK /\ ControlInv /\ DataInv
  BY DEF FullInv, CInv
<1>1. ASSUME NEW p \in Proc, NEW b \in Block, LockBuf(p, b)
      PROVE  UNCHANGED Txn!vars
  <2>1. UNCHANGED <<pc, phase, head, logblk, home>> /\ Running
    BY <1>1 DEF LockBuf, procVars, memVars, diskVars
  <2>2. \A x \in Block : Bread(x)' = Bread(x)
    BY <1>1, <2>1, <1>t DEF LockBuf, Bread, TypeOK
  <2>3. Visible' = Visible /\ Recovered' = Recovered /\ Active' = Active
    BY <2>1, <2>2, VisibleFrame DEF Running, Recovered, Replay, Active
  <2> QED BY <2>3 DEF Txn!vars
<1>2. ASSUME NEW p \in Proc, NEW b \in Block, Brelse(p, b)
      PROVE  UNCHANGED Txn!vars
  <2>1. UNCHANGED <<pc, phase, head, logblk, home, cache>>
    BY <1>2 DEF Brelse, procVars, memVars, diskVars
  <2>2. Active' = Active /\ (Running' <=> Running)
    BY <2>1 DEF Active, Running
  <2> QED BY <2>1, <2>2, ImagesFrame DEF Txn!vars
<1>3. ASSUME NEW p \in Proc, NEW b \in Block, NEW d \in Data, LogWrite(p, b, d)
      PROVE  Txn!Write(p, b, d)
  <2>1. UNCHANGED <<pc, phase, head, logblk, home>> /\ p \in Active
    BY <1>3 DEF LogWrite, diskVars, Active
  <2>2. Running /\ Running'
    <3>1. ~(\A q \in Proc : pc[q] = "idle")
      BY <1>3 DEF LogWrite
    <3> QED BY <3>1, <2>1, <1>t DEF ControlInv, Running
  <2>3. Bread(b)' = d /\ \A x \in Block : x # b => Bread(x)' = Bread(x)
    BY <1>3, <2>1, <1>t, DataAssumption DEF LogWrite, Bread, TypeOK
  <2>4. Visible' = [Visible EXCEPT ![b] = d]
    BY <2>2, <2>3, ZenonT(30) DEF Visible
  <2>5. Recovered' = Recovered /\ Active' = Active
    BY <2>1 DEF Recovered, Replay, Active
  <2> QED BY <2>1, <2>4, <2>5 DEF Txn!Write
<1>4. ASSUME NEW b \in Block, Recycle(b) PROVE UNCHANGED Txn!vars
  <2>1. UNCHANGED <<pc, phase, head, logblk, home>>
    BY <1>4 DEF Recycle, procVars, memVars, diskVars
  <2>2. Recovered' = Recovered /\ Active' = Active /\ (Running' <=> Running)
    BY <2>1 DEF Recovered, Replay, Active, Running
  <2>3. CASE Running
    <3>1. cache[b] \in {NoBuf, home[b]}
      BY <2>3, <1>4, <1>t DEF DataInv, CacheCoherent, Recycle
    <3>2. \A x \in Block : Bread(x)' = Bread(x)
      BY <3>1, <2>1, <1>4, <1>t DEF Recycle, Bread, TypeOK
    <3> QED BY <2>2, <2>3, <3>2, VisibleFrame DEF Txn!vars
  <2>4. CASE ~Running
    BY <2>2, <2>4 DEF Visible, Txn!vars
  <2> QED BY <2>3, <2>4
<1> QED
  BY <1>1, <1>2, <1>3, <1>4 DEF BufStep, Txn!Next

(* A crash, in whatever phase, leaves the recoverable image as it was, and *)
(* recovery, however often it is interrupted, brings exactly that image    *)
(* back.                                                                   *)
LEMMA RefineCrash ==
  ASSUME FullInv, Crash \/ ReadHead \/ RecoverInstall \/ RecoverClear
  PROVE  [Txn!Next]_(Txn!vars)
<1>t. TypeOK /\ ControlInv /\ DataInv /\ head \in Seq(Block) /\ Injective(head)
  BY DEF FullInv, CInv, TypeOK, DataInv, HeadInv
<1>1. CASE Crash
  <2>1. head' = head /\ phase' = "read_head" /\ Active' = {}
    BY <1>1 DEF Crash, Active
  <2>2. \A x \in Block : home'[x] # home[x] => \E i \in 1 .. Len(head) : head[i] = x
    <3> SUFFICES ASSUME NEW x \in Block, home'[x] # home[x]
                 PROVE  \E i \in 1 .. Len(head) : head[i] = x
      OBVIOUS
    <3>1. x \in HomeInFlight
      BY <1>1 DEF Crash
    <3>2. head = lh /\ tail + 1 \in 1 .. Len(lh) /\ x = lh[tail + 1]
      BY <3>1, <1>t DEF HomeInFlight, DataInv, HeadInv, TypeOK
    <3> QED BY <3>2
  <2>3. \A i \in 1 .. Len(head) : logblk'[i] = logblk[i]
    <3>1. \A i \in 1 .. Len(head) : i \in 1 .. LOGSIZE
      BY <1>t, SizeAssumption DEF TypeOK, ControlInv
    <3>2. CASE phase = "write_log"
      BY <3>2, <1>t DEF DataInv, HeadInv
    <3>3. CASE phase # "write_log"
      BY <3>1, <3>3, <1>1 DEF Crash, LogInFlight
    <3> QED BY <3>2, <3>3
  <2>4. Recovered' = Recovered
    BY <2>1, <2>2, <2>3 DEF Recovered, Replay
  <2>5. Visible' = Recovered
    BY <2>1, <2>4 DEF Visible, Running, RecoverPhases
  <2>6. Txn!Crash
    BY <2>1, <2>4, <2>5 DEF Txn!Crash
  <2> QED BY <2>6 DEF Txn!Next
<1>2. CASE ReadHead
  <2>1. /\ UNCHANGED <<pc, head, logblk, home, cache>>
        /\ ~Running /\ ~Running'
    BY <1>2 DEF ReadHead, procVars, bufVars, diskVars, Running, RecoverPhases
  <2>2. Active' = Active
    BY <2>1 DEF Active
  <2> QED BY <2>1, <2>2, ImagesFrame DEF Txn!vars
<1>3. CASE RecoverInstall
  <2>1. /\ UNCHANGED <<pc, head, lh, logblk>> /\ head = lh
        /\ ~Running /\ ~Running'
    BY <1>3, <1>t DEF RecoverInstall, InstallBlock, procVars, Running,
       RecoverPhases, DataInv, HeadInv
  <2> DEFINE b == lh[tail + 1]
  <2>2. \A x \in Block : x # b => home'[x] = home[x]
    BY <1>3, <1>t DEF RecoverInstall, InstallBlock, TypeOK
  <2>3. \E i \in 1 .. Len(head) : head[i] = b
    BY <1>3, <2>1, <1>t DEF RecoverInstall, ControlInv, TypeOK
  <2>4. Recovered' = Recovered
    BY <2>1, <2>2, <2>3 DEF Recovered, Replay
  <2>5. Visible' = Visible /\ Active' = Active
    BY <2>1, <2>4 DEF Visible, Active
  <2> QED BY <2>4, <2>5 DEF Txn!vars
<1>4. CASE RecoverClear
  <2>1. /\ UNCHANGED <<pc, logblk, home, cache>> /\ head = lh /\ head' = << >>
        /\ ~Running /\ Running' /\ phase = "recover_clear" /\ tail = Len(lh)
    BY <1>4, <1>t DEF RecoverClear, ClearHead, procVars, bufVars, Running,
       RecoverPhases, DataInv, HeadInv, ControlInv
  <2>2. Recovered' = home
    BY <2>1, <1>t, ReplayEmpty DEF Recovered, TypeOK
  <2>3. Recovered = home
    <3>1. \A i \in 1 .. Len(head) : home[head[i]] = logblk[i]
      BY <2>1, <1>t DEF DataInv, CopyInv
    <3>2. home \in [Block -> Data \cup {NoBuf, Torn}]
      BY <1>t DEF TypeOK
    <3> QED BY <3>1, <3>2, <1>t, ReplayEqual DEF Recovered
  <2>4. \A x \in Block : Bread(x)' = home[x]
    BY <2>1, <1>t DEF DataInv, RecoverInv, Bread
  <2>5. Visible' = home /\ Visible = home
    BY <2>1, <2>3, <2>4, <1>t DEF Visible, TypeOK
  <2>6. Active' = Active
    BY <2>1 DEF Active
  <2> QED BY <2>2, <2>3, <2>5, <2>6 DEF Txn!vars
<1> QED BY <1>1, <1>2, <1>3, <1>4

(* The freshly made file system is an initial state of AtomicTxn. *)
LEMMA RefineInit == Init => Txn!Init
<1> SUFFICES ASSUME Init PROVE Txn!Init
  OBVIOUS
<1>1. home \in [Block -> Data] /\ head = << >> /\ ~Running /\ Active = {}
  BY DEF Init, Running, RecoverPhases, Active
<1>2. Recovered = home
  BY <1>1, ReplayEmpty DEF Recovered
<1> QED
  BY <1>1, <1>2 DEF Txn!Init, Visible

(* The redo log is crash atomic: whatever the number of processes, blocks  *)
(* and log entries, it implements AtomicTxn if operations fit their        *)
(* reservation.                                                            *)
THEOREM CrashAtomicProved == ASSUME OpFits PROVE Spec => CrashAtomic
<1>1. FullInv /\ NoPanic' /\ [Next]_vars => [Txn!Next]_(Txn!vars)
  <2> SUFFICES ASSUME FullInv, NoPanic', [Next]_vars PROVE [Txn!Next]_(Txn!vars)
    OBVIOUS
  <2>1. CASE UNCHANGED vars
    <3>1. /\ UNCHANGED <<head, logblk, home, cache>>
          /\ Active' = Active /\ (Running' <=> Running)
      BY <2>1 DEF vars, procVars, bufVars, memVars, diskVars, Active, Running
    <3> QED BY <3>1, ImagesFrame DEF Txn!vars
  <2>2. CASE Next
    BY <2>2, RefineOps, RefineCommit, RefineBuf, RefineCrash DEF Next, ProcStep
  <2> QED BY <2>1, <2>2
<1>2. Spec => []NoPanic
  BY NoPanicAlways
<1> QED
  BY <1>1, <1>2, RefineInit, FullInvAlways, PTL DEF Spec, CrashAtomic, Txn!Spec
=============================================================================
