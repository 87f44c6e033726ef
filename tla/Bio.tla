-------------------------------- MODULE Bio --------------------------------
(***************************************************************************)
(* The buffer cache of kernel/bio.c: NBUF buffers in a list ordered by     *)
(* last use, reference counts, a sleeplock for each buffer.                *)
(*                                                                         *)
(* A section under bcache.lock is one step.  The sleeplock of a buffer is  *)
(* taken after bcache.lock has been released, and given back before it is  *)
(* taken again, so others act in between.  Callers keep the rule at the    *)
(* head of bio.c: a buffer that was changed goes to the disk (bwrite) or   *)
(* into the log (log_write, which pins it) before brelse().  The log pins  *)
(* at most MaxPin buffers, and unpins a buffer after it has written it in  *)
(* install_trans().                                                        *)
(*                                                                         *)
(* A use is what a process does from bread() to brelse().  A process has   *)
(* one use at a time, or a second one within the first: Outer[p] is the    *)
(* use within which p takes place, or Nobody.  The blocks have ranks, by   *)
(* what they are used for: the log area comes first, then indirect blocks, *)
(* then all others.                                                        *)
(***************************************************************************)
EXTENDS Integers, FiniteSets

CONSTANTS Use, Outer, Block, Rank, Data, NBUF, MaxPin, Nobody, NoBlock

Buf == 1 .. NBUF

ASSUME NameAssumption == Nobody \notin Use /\ NoBlock \notin Block
ASSUME SizeAssumption == NBUF \in Nat \ {0} /\ MaxPin \in Nat
(* Log area, indirect blocks, all others; nobody holds three buffers. *)
ASSUME NestAssumption ==
  /\ Rank \in [Block -> 0 .. 2]
  /\ Outer \in [Use -> Use \cup {Nobody}]
  /\ \A p \in Use : Outer[p] # Nobody => Outer[Outer[p]] = Nobody

VARIABLES
  list,     \* bcache.head.next .. bcache.head.prev, most recent first
  blockno,  \* b->dev and b->blockno
  valid,    \* b->valid
  refcnt,   \* b->refcnt
  data,     \* b->data
  owner,    \* the holder of b->lock
  pinned,   \* is the buffer in the log, pinned?
  disk,     \* the blocks on the disk
  pc, buf,  \* where each use is, and its struct buf (0: none)
  panicked

vars == <<list, blockno, valid, refcnt, data, owner, pinned, disk, pc, buf, panicked>>

(* binit(): the buffers are linked in front of each other. *)
Init ==
  /\ list = [i \in Buf |-> NBUF + 1 - i]
  /\ blockno = [s \in Buf |-> NoBlock]
  /\ valid = [s \in Buf |-> 0]
  /\ refcnt = [s \in Buf |-> 0]
  /\ \E d \in Data : data = [s \in Buf |-> d]
  /\ owner = [s \in Buf |-> Nobody]
  /\ pinned = [s \in Buf |-> 0]
  /\ disk \in [Block -> Data]
  /\ pc = [p \in Use |-> "out"]
  /\ buf = [p \in Use |-> 0]
  /\ panicked = "none"

(* A process is in one call to bio.c at a time. *)
Runs(p) ==
  /\ panicked = "none"
  /\ \A q \in Use : Outer[q] = p \/ Outer[p] = q => pc[q] \notin {"lock", "read", "drop"}

At(p, l) == Runs(p) /\ pc[p] = l

Goto(p, l) == pc' = [pc EXCEPT ![p] = l]

(* bread() has returned the buffer, locked. *)
Has(p) == pc[p] \in {"use", "changed", "written"}

(* Mutant: a process that holds a buffer reads any other block. *)
MayReadAny(p, b) ==
  /\ \A q \in Use : Outer[q] = p => pc[q] = "out"
  /\ Outer[p] # Nobody => Has(Outer[p]) /\ blockno[buf[Outer[p]]] # b

(* A process reads its first block when it has none, and a second one only *)
(* in the order of the ranks: install_trans() and write_log() have a log   *)
(* block and read its home block, bmap() and itrunc() have an indirect     *)
(* block and read the bitmap (in balloc(), bfree()) or a data block (in    *)
(* bzero()).                                                               *)
MayRead(p, b) ==
  /\ \A q \in Use : Outer[q] = p => pc[q] = "out"
  /\ Outer[p] # Nobody => Has(Outer[p]) /\ Rank[blockno[buf[Outer[p]]]] < Rank[b]

-----------------------------------------------------------------------------
(* bget(), called by bread() *)

Cached(b) == \E s \in Buf : blockno[s] = b

(* The block is cached: take a reference. *)
BgetHit(p, b) ==
  /\ At(p, "out") /\ MayRead(p, b)
  /\ \E s \in Buf : /\ blockno[s] = b
                    /\ refcnt' = [refcnt EXCEPT ![s] = @ + 1]
                    /\ buf' = [buf EXCEPT ![p] = s]
  /\ Goto(p, "lock")
  /\ UNCHANGED <<list, blockno, valid, data, owner, pinned, disk, panicked>>

(* The last buffer of the list that nobody refers to. *)
Victim(s) ==
  /\ refcnt[s] = 0
  /\ \E i \in Buf : list[i] = s /\ \A j \in i + 1 .. NBUF : refcnt[list[j]] # 0

SomeUnused == \E s \in Buf : refcnt[s] = 0

(* Mutant: b->valid is not cleared. *)
BgetRecycleValid(p, b) ==
  /\ At(p, "out") /\ MayRead(p, b)
  /\ ~Cached(b)
  /\ \E s \in Buf : /\ Victim(s)
                    /\ blockno' = [blockno EXCEPT ![s] = b]
                    /\ valid' = valid
                    /\ refcnt' = [refcnt EXCEPT ![s] = 1]
                    /\ buf' = [buf EXCEPT ![p] = s]
  /\ Goto(p, "lock")
  /\ UNCHANGED <<list, data, owner, pinned, disk, panicked>>

(* It is not: recycle the least recently used buffer. *)
BgetRecycle(p, b) ==
  /\ At(p, "out") /\ MayRead(p, b)
  /\ ~Cached(b)
  /\ \E s \in Buf : /\ Victim(s)
                    /\ blockno' = [blockno EXCEPT ![s] = b]
                    /\ valid' = [valid EXCEPT ![s] = 0]
                    /\ refcnt' = [refcnt EXCEPT ![s] = 1]
                    /\ buf' = [buf EXCEPT ![p] = s]
  /\ Goto(p, "lock")
  /\ UNCHANGED <<list, data, owner, pinned, disk, panicked>>

BgetPanic(p, b) ==
  /\ At(p, "out") /\ MayRead(p, b)
  /\ ~Cached(b) /\ ~SomeUnused
  /\ panicked' = "bget: no buffers"
  /\ UNCHANGED <<list, blockno, valid, refcnt, data, owner, pinned, disk, pc, buf>>

(* acquiresleep(&b->lock) finds the lock free.  Until then the process     *)
(* sleeps, and when it is woken somebody else may be first.                *)
AcquireBuf(p) ==
  /\ At(p, "lock")
  /\ owner[buf[p]] = Nobody
  /\ owner' = [owner EXCEPT ![buf[p]] = p]
  /\ Goto(p, IF valid[buf[p]] = 1 THEN "use" ELSE "read")
  /\ UNCHANGED <<list, blockno, valid, refcnt, data, pinned, disk, buf, panicked>>

(* bread(): virtio_disk_rw(b, 0); b->valid = 1 *)
BreadFill(p) ==
  /\ At(p, "read")
  /\ data' = [data EXCEPT ![buf[p]] = disk[blockno[buf[p]]]]
  /\ valid' = [valid EXCEPT ![buf[p]] = 1]
  /\ Goto(p, "use")
  /\ UNCHANGED <<list, blockno, refcnt, owner, pinned, disk, buf, panicked>>

-----------------------------------------------------------------------------
(* The user of a buffer *)

(* The caller changes b->data. *)
Change(p, d) ==
  /\ pc[p] \in {"use", "changed"} /\ Runs(p)
  /\ data' = [data EXCEPT ![buf[p]] = d]
  /\ Goto(p, "changed")
  /\ UNCHANGED <<list, blockno, valid, refcnt, owner, pinned, disk, buf, panicked>>

(* bwrite(); in install_trans() the buffer is unpinned after it. *)
Bwrite(p) ==
  /\ pc[p] \in {"use", "changed"} /\ Runs(p)
  /\ disk' = [disk EXCEPT ![blockno[buf[p]]] = data[buf[p]]]
  /\ Goto(p, "written")
  /\ UNCHANGED <<list, blockno, valid, refcnt, data, owner, pinned, buf, panicked>>

(* log_write(): bpin() unless the block is in the log already. *)
Bpin(p) ==
  /\ At(p, "changed")
  /\ pinned[buf[p]] = 0 => Cardinality({s \in Buf : pinned[s] = 1}) < MaxPin
  /\ refcnt' = [refcnt EXCEPT ![buf[p]] = @ + 1 - pinned[buf[p]]]
  /\ pinned' = [pinned EXCEPT ![buf[p]] = 1]
  /\ Goto(p, "use")
  /\ UNCHANGED <<list, blockno, valid, data, owner, disk, buf, panicked>>

(* install_trans(): bunpin(dbuf) *)
Bunpin(p) ==
  /\ At(p, "written")
  /\ pinned[buf[p]] = 1
  /\ refcnt' = [refcnt EXCEPT ![buf[p]] = @ - 1]
  /\ pinned' = [pinned EXCEPT ![buf[p]] = 0]
  /\ UNCHANGED <<list, blockno, valid, data, owner, disk, pc, buf, panicked>>

(* brelse(): releasesleep(&b->lock), outside bcache.lock. *)
BrelseUnlock(p) ==
  /\ pc[p] \in {"use", "written"} /\ Runs(p)
  /\ owner' = [owner EXCEPT ![buf[p]] = Nobody]
  /\ Goto(p, "drop")
  /\ UNCHANGED <<list, blockno, valid, refcnt, data, pinned, disk, buf, panicked>>

(* Unlink b and link it in again behind bcache.head. *)
MoveToFront(s) ==
  LET k == CHOOSE i \in Buf : list[i] = s
  IN  [i \in Buf |-> IF i = 1 THEN s ELSE IF i <= k THEN list[i - 1] ELSE list[i]]

(* Mutant: a reference that is not the last is not dropped. *)
BrelseDropLast(p) ==
  /\ At(p, "drop")
  /\ LET s == buf[p]
     IN  /\ refcnt' = [refcnt EXCEPT ![s] = IF @ = 1 THEN 0 ELSE @]
         /\ list' = IF refcnt[s] = 1 THEN MoveToFront(s) ELSE list
  /\ buf' = [buf EXCEPT ![p] = 0]
  /\ Goto(p, "out")
  /\ UNCHANGED <<blockno, valid, data, owner, pinned, disk, panicked>>

(* ... and under it: refcnt--, to the front of the list when it is 0. *)
BrelseDrop(p) ==
  /\ At(p, "drop")
  /\ LET s == buf[p]
     IN  /\ refcnt' = [refcnt EXCEPT ![s] = @ - 1]
         /\ list' = IF refcnt[s] = 1 THEN MoveToFront(s) ELSE list
  /\ buf' = [buf EXCEPT ![p] = 0]
  /\ Goto(p, "out")
  /\ UNCHANGED <<blockno, valid, data, owner, pinned, disk, panicked>>

-----------------------------------------------------------------------------
Step(p) == AcquireBuf(p) \/ BreadFill(p) \/ BrelseUnlock(p) \/ BrelseDrop(p) \/ Bpin(p) \/ Bwrite(p)

Next ==
  \E p \in Use :
    \/ \E b \in Block : BgetHit(p, b) \/ BgetRecycle(p, b) \/ BgetPanic(p, b)
    \/ \E d \in Data : Change(p, d)
    \/ Step(p)
    \/ Bunpin(p)

Spec == Init /\ [][Next]_vars

-----------------------------------------------------------------------------
(* Properties *)

(* Every field holds a value of its kind; the list holds every buffer. *)
TypeOK ==
  /\ list \in [Buf -> Buf] /\ \A s \in Buf : \E i \in Buf : list[i] = s
  /\ blockno \in [Buf -> Block \cup {NoBlock}]
  /\ valid \in [Buf -> 0 .. 1] /\ pinned \in [Buf -> 0 .. 1]
  /\ refcnt \in [Buf -> Nat]
  /\ data \in [Buf -> Data] /\ disk \in [Block -> Data]
  /\ owner \in [Buf -> Use \cup {Nobody}]
  /\ pc \in [Use -> {"out", "lock", "read", "use", "changed", "written", "drop"}]
  /\ buf \in [Use -> 0 .. NBUF]

(* bio.c keeps at most one copy of a block in the cache. *)
OneBufferPerBlock ==
  \A s, t \in Buf : blockno[s] = blockno[t] /\ blockno[s] # NoBlock => s = t

Users(s) == {p \in Use : buf[p] = s}

(* The cache is well formed: its types, a list of all buffers, no block in *)
(* two of them, and a refcnt that counts exactly the callers between       *)
(* bget() and the end of brelse(), and the log's pin.  So a buffer in use  *)
(* is never recycled, and bget() panics only when every buffer is in use.  *)
WellFormed ==
  /\ TypeOK
  /\ OneBufferPerBlock
  /\ \A s \in Buf : refcnt[s] = Cardinality(Users(s)) + pinned[s]

(* The cache implements BlockStore: a block's contents are in its valid    *)
(* buffer, or else on the disk; its user is the caller to whom bread() has *)
(* returned the locked buffer.                                             *)
AnyOf(S) == CHOOSE x \in S : TRUE

Copies(b) == {s \in Buf : blockno[s] = b /\ valid[s] = 1}

ContentsOf(b) == IF Copies(b) = {} THEN disk[b] ELSE data[AnyOf(Copies(b))]

Holders(b) == {p \in Use : Has(p) /\ blockno[buf[p]] = b}

UserOf(b) == IF Holders(b) = {} THEN Nobody ELSE AnyOf(Holders(b))

Store == INSTANCE BlockStore WITH Proc <- Use,
                                  contents <- [b \in Block |-> ContentsOf(b)],
                                  user <- [b \in Block |-> UserOf(b)]

IsStore == Store!Spec

(* p sleeps in acquiresleep() for a buffer that the process of r holds. *)
WaitsFor(p, r) ==
  /\ pc[p] = "lock" /\ owner[buf[p]] # Nobody
  /\ owner[buf[p]] = r \/ owner[buf[p]] = Outer[r] \/ Outer[owner[buf[p]]] = r

(* Processes that hold one buffer and sleep for another never wait for     *)
(* each other in a circle: not the committing process for a bmap() or      *)
(* itrunc(), and none for itself.  So in any set of waiting uses one waits *)
(* for a process that is not waiting for a buffer.                         *)
NoWaitCycle ==
  \A W \in SUBSET Use : W # {} => \E p \in W : \A r \in W : ~WaitsFor(p, r)
====
