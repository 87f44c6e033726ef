-------------------------------- MODULE Log --------------------------------
(***************************************************************************)
(* The redo log of kernel/log.c, with the part of the buffer cache         *)
(* (kernel/bio.c) it relies on: cached copies, buffer locks and pinning.   *)
(*                                                                         *)
(* A critical section under log.lock is one step.  commit() runs without   *)
(* the lock, so each block it writes is a step of its own; so is each      *)
(* block that recovery installs.  The machine may crash between any two    *)
(* steps, and in the middle of a block write, which leaves the block torn  *)
(* (a block is two disk sectors; the log header fits in one).              *)
(*                                                                         *)
(* A process that modifies a buffer holds its lock until after             *)
(* log_write(), so the modification and the log_write() are one step:      *)
(* nobody can look at the buffer in between.                               *)
(***************************************************************************)
EXTENDS Integers, Sequences, FiniteSets

CONSTANTS
  Proc,         \* processes that make file system calls
  Block,        \* block numbers outside the log area
  Data,         \* contents of a block
  MAXOPBLOCKS,  \* blocks begin_op() reserves for one operation
  LOGSIZE,      \* entries of the log header
  NLog,         \* log.size: blocks of the log area, the header included
  OpBlocks,     \* distinct blocks one operation really writes, at most
  NoBuf,        \* a block that is not in the cache
  Torn,         \* what is on disk where a write was cut off by a crash
  Nobody        \* the owner of an unlocked buffer

ASSUME ProcAssumption == IsFiniteSet(Proc) /\ Nobody \notin Proc
ASSUME DataAssumption == NoBuf \notin Data /\ Torn \notin Data /\ NoBuf # Torn
ASSUME SizeAssumption ==
  /\ MAXOPBLOCKS \in Nat \ {0}
  /\ LOGSIZE \in Nat /\ MAXOPBLOCKS <= LOGSIZE
  /\ NLog \in Nat \ {0}
  /\ OpBlocks \in 0 .. MAXOPBLOCKS

VARIABLES
  pc,           \* where each process is with respect to the log
  wrote,        \* distinct blocks logged by the operation of each process
  owner,        \* holder of each buffer's sleeplock
  cache,        \* buffer cache: contents, or NoBuf
  pin,          \* references bpin() took and bunpin() has not returned
  lh,           \* log.lh in memory: the block numbers, in order
  outstanding,  \* log.outstanding
  committing,   \* log.committing
  phase,        \* how far commit() or recovery has come
  tail,         \* the loop variable of write_log() and install_trans()
  panicked,     \* the panic() that stopped the machine, or "none"
  head,         \* on disk: the log header
  logblk,       \* on disk: the log blocks behind the header
  home          \* on disk: the blocks at their home locations

memVars  == <<lh, outstanding, committing, phase, tail>>
diskVars == <<head, logblk, home>>
bufVars  == <<owner, cache, pin>>
procVars == <<pc, wrote>>
vars == <<procVars, bufVars, memVars, panicked, diskVars>>

CommitPhases  == {"write_log", "write_head", "install", "clear", "done"}
RecoverPhases == {"read_head", "recover", "recover_clear"}
Running == phase \notin RecoverPhases

(* panic() stops the machine. *)
Alive == panicked = "none"

Holds(p) == {b \in Block : owner[b] = p}

(* Processes between begin_op() and end_op(). *)
Active == {p \in Proc : pc[p] = "op"}

(* Contents a bread() of block b returns. *)
Bread(b) == IF cache[b] = NoBuf THEN home[b] ELSE cache[b]

Logged(b) == \E i \in 1 .. Len(lh) : lh[i] = b

(***************************************************************************)
(* A freshly made file system, at the start of fsinit().                   *)
(***************************************************************************)
Init ==
  /\ pc = [p \in Proc |-> "idle"]
  /\ wrote = [p \in Proc |-> {}]
  /\ owner = [b \in Block |-> Nobody]
  /\ cache = [b \in Block |-> NoBuf]
  /\ pin = [b \in Block |-> 0]
  /\ lh = << >>
  /\ outstanding = 0
  /\ committing = 0
  /\ phase = "read_head"
  /\ tail = 0
  /\ panicked = "none"
  /\ head = << >>
  /\ \E d \in Data : logblk = [i \in 1 .. LOGSIZE |-> d]
  /\ home \in [Block -> Data]

-----------------------------------------------------------------------------
(* Operations of the processes *)

(* wakeup(&log): every process asleep in begin_op() runs its loop again. *)
Wakeup(f) == [q \in Proc |-> IF f[q] = "sleep" THEN "begin" ELSE f[q]]

(* Mutant: what the log already holds is forgotten. *)
MustWaitNoLog ==
  committing = 1 \/ (outstanding + 1) * MAXOPBLOCKS > LOGSIZE

(* The two tests of begin_op()'s loop. *)
MustWait ==
  \/ committing = 1
  \/ Len(lh) + (outstanding + 1) * MAXOPBLOCKS > LOGSIZE

BeginOpSleep(p) ==
  /\ Alive
  /\ Running
  /\ pc[p] \in {"idle", "begin"}
  /\ Holds(p) = {}
  /\ MustWait
  /\ pc' = [pc EXCEPT ![p] = "sleep"]
  /\ UNCHANGED <<wrote, bufVars, memVars, panicked, diskVars>>

BeginOp(p) ==
  /\ Alive
  /\ Running
  /\ pc[p] \in {"idle", "begin"}
  /\ Holds(p) = {}
  /\ ~MustWait
  /\ pc' = [pc EXCEPT ![p] = "op"]
  /\ wrote' = [wrote EXCEPT ![p] = {}]
  /\ outstanding' = outstanding + 1
  /\ UNCHANGED <<bufVars, lh, committing, phase, tail, panicked, diskVars>>

(* bread(): lock the buffer, and fill it from disk if it is not valid.  A  *)
(* process may also read blocks outside an operation, as sys_read() does.  *)
LockBuf(p, b) ==
  /\ Alive
  /\ Running
  /\ pc[p] \in {"idle", "op"}
  /\ owner[b] = Nobody
  /\ owner' = [owner EXCEPT ![b] = p]
  /\ cache' = [cache EXCEPT ![b] = Bread(b)]
  /\ UNCHANGED <<procVars, pin, memVars, panicked, diskVars>>

Brelse(p, b) ==
  /\ Alive
  /\ owner[b] = p
  /\ owner' = [owner EXCEPT ![b] = Nobody]
  /\ UNCHANGED <<procVars, cache, pin, memVars, panicked, diskVars>>

(* bget() recycles a buffer nobody refers to. *)
Recycle(b) ==
  /\ Alive
  /\ cache[b] # NoBuf
  /\ owner[b] = Nobody
  /\ pin[b] = 0
  /\ cache' = [cache EXCEPT ![b] = NoBuf]
  /\ UNCHANGED <<procVars, owner, pin, memVars, panicked, diskVars>>

LogFull == Len(lh) >= LOGSIZE \/ Len(lh) >= NLog - 1

LogWritePanic == IF LogFull THEN "too_big"
                 ELSE IF outstanding < 1 THEN "outside_trans"
                 ELSE "none"

(* Absorption, or a new entry and a pin. *)
AddToLog(b) ==
  IF Logged(b)
  THEN UNCHANGED <<lh, pin>>
  ELSE /\ lh' = Append(lh, b)
       /\ pin' = [pin EXCEPT ![b] = @ + 1]

LogWrite(p, b, d) ==
  /\ Alive
  /\ pc[p] = "op"
  /\ owner[b] = p
  /\ Cardinality(wrote[p] \cup {b}) <= OpBlocks
  /\ cache' = [cache EXCEPT ![b] = d]
  /\ panicked' = LogWritePanic
  /\ IF panicked' = "none"
     THEN /\ AddToLog(b)
          /\ wrote' = [wrote EXCEPT ![p] = @ \cup {b}]
     ELSE UNCHANGED <<lh, pin, wrote>>
  /\ UNCHANGED <<pc, owner, outstanding, committing, phase, tail, diskVars>>

(* Mutant: every end_op() commits, not only the last. *)
EndOpEager(p) ==
  /\ Alive
  /\ pc[p] = "op" /\ Holds(p) = {} /\ committing = 0
  /\ outstanding' = outstanding - 1
  /\ committing' = 1
  /\ pc' = [pc EXCEPT ![p] = "commit"]
  /\ phase' = IF lh = << >> THEN "done" ELSE "write_log"
  /\ UNCHANGED <<wrote, bufVars, lh, tail, panicked, diskVars>>
(* Mutant: a transaction of one block is taken for an empty one. *)
EndOpSkipsOne(p) ==
  /\ Alive
  /\ pc[p] = "op" /\ Holds(p) = {} /\ committing = 0
  /\ outstanding' = outstanding - 1
  /\ IF outstanding' = 0
     THEN /\ committing' = 1
          /\ pc' = [pc EXCEPT ![p] = "commit"]
          /\ phase' = IF Len(lh) <= 1 THEN "done" ELSE "write_log"
     ELSE /\ pc' = Wakeup([pc EXCEPT ![p] = "idle"])
          /\ UNCHANGED <<committing, phase>>
  /\ UNCHANGED <<wrote, bufVars, lh, tail, panicked, diskVars>>

(* end_op() up to its first release(): the last operation to end commits.  *)
EndOp(p) ==
  /\ Alive
  /\ pc[p] = "op"
  /\ Holds(p) = {}
  /\ outstanding' = outstanding - 1
  /\ panicked' = IF committing = 1 THEN "committing" ELSE "none"
  /\ \/ /\ committing = 1
        /\ UNCHANGED <<pc, committing, phase>>
     \/ /\ committing = 0 /\ outstanding' = 0
        /\ committing' = 1
        /\ pc' = [pc EXCEPT ![p] = "commit"]
        /\ phase' = IF lh = << >> THEN "done" ELSE "write_log"
     \/ /\ committing = 0 /\ outstanding' # 0
        /\ pc' = Wakeup([pc EXCEPT ![p] = "idle"])
        /\ UNCHANGED <<committing, phase>>
  /\ UNCHANGED <<wrote, bufVars, lh, tail, diskVars>>

-----------------------------------------------------------------------------
(* commit(), run by the process whose end_op() was the last *)

Committer(p, ph) == pc[p] = "commit" /\ phase = ph

(* One iteration of write_log(). *)
WriteLog(p) ==
  /\ Alive
  /\ Committer(p, "write_log")
  /\ LET b == lh[tail + 1] IN
       /\ owner[b] = Nobody
       /\ logblk' = [logblk EXCEPT ![tail + 1] = Bread(b)]
       /\ cache' = [cache EXCEPT ![b] = Bread(b)]
  /\ tail' = IF tail + 1 = Len(lh) THEN 0 ELSE tail + 1
  /\ phase' = IF tail' = 0 THEN "write_head" ELSE phase
  /\ UNCHANGED <<procVars, owner, pin, lh, outstanding, committing, panicked,
                 head, home>>

(* write_head(): the commit point. *)
WriteHead(p) ==
  /\ Alive
  /\ Committer(p, "write_head")
  /\ head' = lh
  /\ phase' = "install"
  /\ UNCHANGED <<procVars, bufVars, lh, outstanding, committing, tail,
                 panicked, logblk, home>>

(* One iteration of install_trans(), whose log header is in memory. *)
InstallBlock ==
  LET b == lh[tail + 1] IN
  /\ owner[b] = Nobody
  /\ cache' = [cache EXCEPT ![b] = logblk[tail + 1]]
  /\ home' = [home EXCEPT ![b] = logblk[tail + 1]]
  /\ UNCHANGED <<procVars, owner, lh, outstanding, committing, panicked,
                 head, logblk>>

Install(p) ==
  /\ Alive
  /\ Committer(p, "install")
  /\ InstallBlock
  /\ pin' = [pin EXCEPT ![lh[tail + 1]] = @ - 1]
  /\ tail' = tail + 1
  /\ phase' = IF tail' = Len(lh) THEN "clear" ELSE phase

(* log.lh.n = 0 and the write_head() that erases the transaction. *)
ClearHead ==
  /\ lh' = << >>
  /\ head' = << >>
  /\ UNCHANGED <<procVars, bufVars, outstanding, committing, panicked,
                 logblk, home>>

Clear(p) ==
  /\ Alive
  /\ Committer(p, "clear")
  /\ ClearHead
  /\ tail' = 0
  /\ phase' = "done"

(* Mutant: nobody is woken after the commit. *)
EndCommitNoWakeup(p) ==
  /\ Alive
  /\ Committer(p, "done")
  /\ committing' = 0
  /\ phase' = "none"
  /\ pc' = [pc EXCEPT ![p] = "idle"]
  /\ UNCHANGED <<wrote, bufVars, lh, outstanding, tail, panicked, diskVars>>

(* end_op() after commit() has returned. *)
EndCommit(p) ==
  /\ Alive
  /\ Committer(p, "done")
  /\ committing' = 0
  /\ phase' = "none"
  /\ pc' = Wakeup([pc EXCEPT ![p] = "idle"])
  /\ UNCHANGED <<wrote, bufVars, lh, outstanding, tail, panicked, diskVars>>

-----------------------------------------------------------------------------
(* Crashes and recovery *)

(* A block write that a crash may cut off. *)
LogInFlight  == {i \in 1 .. LOGSIZE : phase = "write_log" /\ i = tail + 1}
HomeInFlight == {b \in Block : /\ phase \in {"install", "recover"}
                               /\ tail < Len(lh)
                               /\ b = lh[tail + 1]}

Crash ==
  /\ Alive
  /\ \E L \in SUBSET LogInFlight :
        logblk' = [i \in 1 .. LOGSIZE |-> IF i \in L THEN Torn ELSE logblk[i]]
  /\ \E H \in SUBSET HomeInFlight :
        home' = [b \in Block |-> IF b \in H THEN Torn ELSE home[b]]
  /\ pc' = [p \in Proc |-> "idle"]
  /\ wrote' = [p \in Proc |-> {}]
  /\ owner' = [b \in Block |-> Nobody]
  /\ cache' = [b \in Block |-> NoBuf]
  /\ pin' = [b \in Block |-> 0]
  /\ lh' = << >>
  /\ outstanding' = 0
  /\ committing' = 0
  /\ phase' = "read_head"
  /\ tail' = 0
  /\ UNCHANGED <<panicked, head>>

ReadHead ==
  /\ Alive
  /\ phase = "read_head"
  /\ lh' = head
  /\ tail' = 0
  /\ phase' = IF head = << >> THEN "recover_clear" ELSE "recover"
  /\ UNCHANGED <<procVars, bufVars, outstanding, committing, panicked, diskVars>>

(* install_trans(1) does not unpin. *)
RecoverInstall ==
  /\ Alive
  /\ phase = "recover"
  /\ InstallBlock
  /\ UNCHANGED pin
  /\ tail' = tail + 1
  /\ phase' = IF tail' = Len(lh) THEN "recover_clear" ELSE phase

RecoverClear ==
  /\ Alive
  /\ phase = "recover_clear"
  /\ ClearHead
  /\ tail' = 0
  /\ phase' = "none"

-----------------------------------------------------------------------------
ProcStep(p) ==
  \/ BeginOpSleep(p) \/ BeginOp(p) \/ EndOp(p)
  \/ WriteLog(p) \/ WriteHead(p) \/ Install(p) \/ Clear(p) \/ EndCommit(p)

BufStep(p, b) ==
  \/ LockBuf(p, b) \/ Brelse(p, b)
  \/ \E d \in Data : LogWrite(p, b, d)

Next ==
  \/ \E p \in Proc : ProcStep(p)
  \/ \E p \in Proc, b \in Block : BufStep(p, b)
  \/ \E b \in Block : Recycle(b)
  \/ Crash \/ ReadHead \/ RecoverInstall \/ RecoverClear

Spec == Init /\ [][Next]_vars

-----------------------------------------------------------------------------
(* Properties *)

TypeOK ==
  /\ pc \in [Proc -> {"idle", "begin", "sleep", "op", "commit"}]
  /\ wrote \in [Proc -> SUBSET Block]
  /\ owner \in [Block -> Proc \cup {Nobody}]
  /\ cache \in [Block -> Data \cup {NoBuf, Torn}]
  /\ pin \in [Block -> Int]
  /\ lh \in Seq(Block)
  /\ outstanding \in Nat
  /\ committing \in {0, 1}
  /\ phase \in CommitPhases \cup RecoverPhases \cup {"none"}
  /\ tail \in Nat
  /\ panicked \in {"none", "too_big",
                    "outside_trans", "committing"}
  /\ head \in Seq(Block)
  /\ logblk \in [1 .. LOGSIZE -> Data \cup {NoBuf, Torn}]
  /\ home \in [Block -> Data \cup {NoBuf, Torn}]

(* No panic() of log.c is reached: log_write() never finds the log full,   *)
(* is never called outside an operation, and end_op() never finds a commit *)
(* under way.  begin_op()'s reservation has to pay for every log_write().  *)
NoPanic == panicked = "none"

(* A block is pinned in the cache, once, from the log_write() that adds it *)
(* to the log until install_trans() has written it to its home location.   *)
Uninstalled(b) ==
  \E i \in 1 .. Len(lh) :
     /\ lh[i] = b
     /\ phase \in {"install", "clear"} => i > tail
PinnedUntilInstalled ==
  Running => \A b \in Block : pin[b] = IF Uninstalled(b) THEN 1 ELSE 0

(* Whoever sleeps in begin_op() can count on a wakeup(&log): an end_op()   *)
(* or the end of a commit is still to come.                                *)
SleeperHasWaker ==
  (\E p \in Proc : pc[p] = "sleep") => committing = 1 \/ outstanding > 0

(* Outside the blocks a commit has still to install, a cached block is     *)
(* what the disk holds, so bget() may recycle its buffer at any time.      *)
CacheCoherent ==
  Running => \A b \in Block : pin[b] = 0 => cache[b] \in {NoBuf, home[b]}

(* The disk as recovery would leave it if the machine crashed now. *)
Replay(hd, lb, hm) ==
  [b \in Block |->
     IF \E i \in 1 .. Len(hd) : hd[i] = b
     THEN lb[CHOOSE i \in 1 .. Len(hd) : hd[i] = b]
     ELSE hm[b]]
Recovered == Replay(head, logblk, home)

(* The disk as bread() presents it; before recovery is over nobody reads. *)
Visible == IF Running THEN [b \in Block |-> Bread(b)] ELSE Recovered

(* When the last end_op() has returned and none is in progress, everything *)
(* the operations wrote survives a crash.                                  *)
QuiescentDurable ==
  Running /\ outstanding = 0 /\ committing = 0 => Recovered = Visible

(* Crash atomicity: the log implements AtomicTxn, in which the image that  *)
(* survives a crash only ever advances from one operation boundary to      *)
(* another.                                                                *)
Txn == INSTANCE AtomicTxn WITH
         stable <- Recovered,
         current <- Visible,
         active <- Active
CrashAtomic == Txn!Spec

-----------------------------------------------------------------------------
(***************************************************************************)
(* The inductive invariant, in three parts.  ControlInv: who runs, who     *)
(* commits, how far the loops are.  SpaceInv: the log space begin_op()     *)
(* reserved and log_write() has not used yet is still free.  DataInv: for  *)
(* every phase, where the latest and the committed contents of each block  *)
(* are.                                                                    *)
(***************************************************************************)
ControlInv ==
  /\ outstanding = Cardinality(Active)
  /\ committing = 1 <=> phase \in CommitPhases
  /\ committing = 1 => Active = {}
  /\ \A p \in Proc : pc[p] = "commit" => committing = 1
  /\ \A p, q \in Proc : pc[p] = "commit" /\ pc[q] = "commit" => p = q
  /\ ~Running => \A p \in Proc : pc[p] = "idle"
  /\ Len(lh) <= LOGSIZE
  /\ Len(head) <= LOGSIZE
  /\ phase \in {"write_log", "write_head", "install", "recover"} =>
       tail < Len(lh)
  /\ phase \in {"clear", "recover_clear"} => tail = Len(lh)
  /\ phase \in {"none", "write_head", "done", "read_head"} => tail = 0
  /\ phase = "none" /\ Active = {} => lh = << >>
  /\ phase \in {"done", "read_head"} => lh = << >>

(* One token for every block a running operation may still add to the log. *)
Reserved == {t \in Proc \X (1 .. MAXOPBLOCKS) :
               pc[t[1]] = "op" /\ t[2] > Cardinality(wrote[t[1]])}

SpaceInv ==
  /\ \A p \in Proc : /\ IsFiniteSet(wrote[p])
                      /\ Cardinality(wrote[p]) <= OpBlocks
  /\ \A p \in Proc : pc[p] = "op" => \A b \in wrote[p] : Logged(b)
  /\ Active # {} => Len(lh) + Cardinality(Reserved) <= LOGSIZE

(* The sizes are such that an operation never uses up its reservation. *)
OpFits ==
  /\ OpBlocks < MAXOPBLOCKS
  /\ LOGSIZE + OpBlocks < MAXOPBLOCKS + NLog - 1

Injective(s) == \A i, j \in 1 .. Len(s) : s[i] = s[j] => i = j

(* The header on disk is empty except from the commit point on. *)
HeadInv ==
  /\ Injective(lh) /\ Injective(head)
  /\ phase \in {"install", "clear", "recover", "recover_clear"} => head = lh
  /\ phase \in {"none", "write_log", "write_head", "done"} => head = << >>

(* Only a crash tears a block, and recovery repairs it. *)
WholeInv ==
  Running => \A b \in Block : /\ home[b] \in Data
                              /\ pin[b] # 0 => cache[b] \in Data

(* What write_log() and install_trans() have copied so far. *)
CopyInv ==
  /\ phase = "write_log" =>
       \A i \in 1 .. tail : logblk[i] = cache[lh[i]]
  /\ phase \in {"write_head", "install"} =>
       \A i \in 1 .. Len(lh) : i > tail => logblk[i] = cache[lh[i]]
  /\ phase \in {"install", "clear", "recover", "recover_clear"} =>
       \A i \in 1 .. tail : home[lh[i]] = logblk[i]

(* What recovery starts from. *)
RecoverInv ==
  ~Running =>
    /\ \A b \in Block : pin[b] = 0 /\ cache[b] \in {NoBuf, home[b]}
    /\ \A i \in 1 .. Len(head) : logblk[i] \in Data
    /\ \A b \in Block :
         (\A i \in 1 .. Len(head) : head[i] # b) => home[b] \in Data

DataInv ==
  /\ HeadInv
  /\ PinnedUntilInstalled
  /\ CacheCoherent
  /\ WholeInv
  /\ CopyInv
  /\ RecoverInv

(* The log's inductive invariant: together the three parts tie log.lh,     *)
(* log.outstanding and the commit phase to the cache and the disk.         *)
IInv == TypeOK /\ ControlInv /\ SpaceInv /\ DataInv
=============================================================================
