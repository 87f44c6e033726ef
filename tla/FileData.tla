----------------------------- MODULE FileData -----------------------------
(***************************************************************************)
(* The contents of files: the block bitmap and block maps of kernel/fs.c   *)
(* (balloc, bzero, bfree, bmap, itrunc, readi, writei, iupdate) under      *)
(* fileread() and filewrite() of kernel/file.c and open(O_TRUNC).          *)
(*                                                                         *)
(* The log is taken at its word (AtomicTxn, which Log implements): blocks  *)
(* passed to log_write() become durable together when the last operation   *)
(* in progress ends, and a crash loses all that was not committed.  Each   *)
(* bread() .. brelse() is one step, an inode lock is held across steps, so *)
(* operations on two files interleave at every block they touch.           *)
(***************************************************************************)
EXTENDS Integers, Sequences, FiniteSets, FiniteSetsExt

CONSTANTS
    Proc,
    Inode, File,
    ino,            \* ip of an open file
    NB,             \* data blocks of the disk
    MAXOPBLOCKS,    \* blocks one operation may log
    Workloads,      \* the system calls of each process in a behaviour
    MaxFaults,      \* bound on copies from user memory that fail
    MaxCrashes      \* bound on crashes

BSIZE == 2          \* bytes, or block numbers, in a block
NDIRECT == 1
NINDIRECT == BSIZE
MAXFILE == NDIRECT + NINDIRECT
Block == 1..NB
InodeBlock == 0

\* BBLOCK: the bitmap block with the bit of block b.
BPB == 2
BBLOCK(b) == -1 - ((b - 1) \div BPB)
LastBitmap == (NB - 1) \div BPB

ASSUME FileDataAssumption ==
    /\ NB \in Nat /\ MAXOPBLOCKS \in Nat /\ MaxFaults \in Nat /\ MaxCrashes \in Nat
    /\ ino \in [File -> Inode]
    /\ Proc \subseteq Nat \ {0}

VARIABLES
    bitmap,     \* the blocks marked in use, as the buffer cache has it
    blk,        \* the data blocks in the buffer cache
    dino,       \* the inode block in the buffer cache
    disk,       \* what a crash falls back to: bitmap, blk and dino
    logged,     \* blocks of the transaction being collected
    mem,        \* the in-memory inodes: addrs and size
    lk,         \* holder of ip->lock
    off,        \* f->off
    k,          \* what each process is doing
    held,       \* history: the contents of a locked file when it was locked
    calls,      \* system calls each process is still going to make
    left        \* faults and crashes still allowed

vars == <<bitmap, blk, dino, disk, logged, mem, lk, off, k, held, calls, left>>

Zero == [x \in 0..(BSIZE - 1) |-> 0]
NoProc == 0
NoContents == [view |-> <<>>, next |-> <<>>]
EmptyInode == [addrs |-> [x \in 0..NDIRECT |-> 0], size |-> 0]

\* Locals: the open file or inode, filewrite's n and i, the length and the
\* progress of the piece, the bitmap block balloc() looks at, a block in hand,
\* itrunc's j, and the blocks this operation has logged.
Idle == [pc |-> "idle", f |-> CHOOSE f \in File : TRUE, i |-> CHOOSE i \in Inode : TRUE,
         n |-> 0, n1 |-> 0, tot |-> 0, bb |-> 0, b |-> 0, j |-> 0, wrote |-> {}]

Init ==
    /\ bitmap = {}
    /\ blk = [b \in Block |-> Zero]
    /\ dino = [i \in Inode |-> EmptyInode]
    /\ disk = [bitmap |-> bitmap, blk |-> blk, dino |-> dino]
    /\ logged = {}
    /\ mem = dino
    /\ lk = [i \in Inode |-> NoProc]
    /\ off = [f \in File |-> 0]
    /\ k = [p \in Proc |-> Idle]
    /\ held = [i \in Inode |-> NoContents]
    /\ calls \in Workloads
    /\ left = [faults |-> MaxFaults, crashes |-> MaxCrashes]

\* The block bmap(ip, bn) returns when nothing is missing.
BlockOf(inode, blocks, bn) ==
    IF bn < NDIRECT THEN inode.addrs[bn] ELSE blocks[inode.addrs[NDIRECT]][bn - NDIRECT]

\* What the disk holds once the transaction is committed.
Durable == [bitmap |-> {b \in Block : b \in IF BBLOCK(b) \in logged THEN bitmap ELSE disk.bitmap},
            blk |-> [b \in Block |-> IF b \in logged THEN blk[b] ELSE disk.blk[b]],
            dino |-> IF InodeBlock \in logged THEN dino ELSE disk.dino]

\* A file's bytes under an inode and blocks.
Contents(inode, blocks) ==
    [x \in 1..inode.size |-> blocks[BlockOf(inode, blocks, (x - 1) \div BSIZE)][(x - 1) % BSIZE]]

\* What reads of an unlocked file return, and what will be durable of it.
Contents2(i) == [view |-> Contents(mem[i], blk), next |-> Contents(Durable.dino[i], Durable.blk)]

Goto(p, pc) == k' = [k EXCEPT ![p].pc = pc]
At(p, pc) == k[p].pc = pc

\* An idle process makes the next of its calls.
Calls(p, call) ==
    /\ At(p, "idle") /\ calls[p] # <<>> /\ Head(calls[p]) = call
    /\ calls' = [calls EXCEPT ![p] = Tail(@)]

\* log_write()
LogWrite(bs) == logged' = logged \cup bs

\* Operations between begin_op() and end_op().
InOp(p) == k[p].pc \notin {"idle", "begin"}

\* ilock(), iunlock()
Lock(p, i) ==
    /\ lk[i] = NoProc
    /\ lk' = [lk EXCEPT ![i] = p]
    /\ held' = [held EXCEPT ![i] = Contents2(i)]

Unlock(i) ==
    /\ lk' = [lk EXCEPT ![i] = NoProc]
    /\ held' = [held EXCEPT ![i] = NoContents]

----------------------------------------------------------------------------
(* bmap() and balloc()                                                     *)

\* What bmap(ip, bn) finds missing first, if anything.
Missing(i, bn) ==
    CASE bn < NDIRECT -> IF mem[i].addrs[bn] = 0 THEN "direct" ELSE "none"
      [] bn >= NDIRECT /\ mem[i].addrs[NDIRECT] = 0 -> "indirect"
      [] OTHER -> IF blk[mem[i].addrs[NDIRECT]][bn - NDIRECT] = 0 THEN "entry" ELSE "none"

Position(p) == off[k[p].f] + k[p].tot
Bn(p) == Position(p) \div BSIZE

InLoop(p) == At(p, "loop") /\ k[p].tot < k[p].n1

\* balloc() goes through the bitmap blocks one bread() at a time.
NeedsBlock(p) == InLoop(p) /\ Missing(k[p].i, Bn(p)) # "none"

Clear(p) == {b \in Block \ bitmap : BBLOCK(b) = -1 - k[p].bb}

\* The first clear bit is set and its bitmap block logged ...
BallocMark(p) ==
    /\ NeedsBlock(p) /\ Clear(p) # {}
    /\ LET b == Min(Clear(p))
       IN /\ bitmap' = bitmap \cup {b}
          /\ k' = [k EXCEPT ![p].b = b, ![p].bb = 0, ![p].pc = "bzero",
                            ![p].wrote = @ \cup {BBLOCK(b)}]
          /\ LogWrite({BBLOCK(b)})
    /\ UNCHANGED <<blk, dino, disk, mem, lk, held, off, left, calls>>

\* ... or the next bitmap block is looked at ...
BallocNext(p) ==
    /\ NeedsBlock(p) /\ Clear(p) = {} /\ k[p].bb < LastBitmap
    /\ k' = [k EXCEPT ![p].bb = @ + 1]
    /\ UNCHANGED <<bitmap, blk, dino, disk, logged, mem, lk, held, off, left, calls>>

\* ... or there is none, bmap() returns 0 and the loop of writei() ends.
BallocFails(p) ==
    /\ NeedsBlock(p) /\ Clear(p) = {} /\ k[p].bb = LastBitmap
    /\ k' = [k EXCEPT ![p].bb = 0, ![p].pc = "wend"]
    /\ UNCHANGED <<bitmap, blk, dino, disk, logged, mem, lk, held, off, left, calls>>

\* bzero() clears the block; bmap() then stores its number where it was
\* missing, in the inode or in the indirect block, which is logged.
BzeroLink(p) ==
    /\ At(p, "bzero")
    /\ LET i == k[p].i
           b == k[p].b
           kind == Missing(i, Bn(p))
           ind == mem[i].addrs[NDIRECT]
           log == IF kind = "entry" THEN {b, ind} ELSE {b}
       IN /\ blk' = IF kind = "entry"
                    THEN [blk EXCEPT ![b] = Zero, ![ind][Bn(p) - NDIRECT] = b]
                    ELSE [blk EXCEPT ![b] = Zero]
          /\ mem' = CASE kind = "direct"   -> [mem EXCEPT ![i].addrs[Bn(p)] = b]
                      [] kind = "indirect" -> [mem EXCEPT ![i].addrs[NDIRECT] = b]
                      [] OTHER             -> mem
          /\ LogWrite(log)
          /\ k' = [k EXCEPT ![p].b = 0, ![p].pc = "loop", ![p].wrote = @ \cup log]
    /\ UNCHANGED <<bitmap, dino, disk, lk, held, off, left, calls>>

----------------------------------------------------------------------------
(* write: filewrite() and writei()                                         *)

\* int max = ((MAXOPBLOCKS - 1 - 1 - 2) / 2) * BSIZE
MaxPieceNoSlop == (MAXOPBLOCKS \div 2) * BSIZE

MaxPiece == ((MAXOPBLOCKS - 4) \div 2) * BSIZE

Write(p) ==
    /\ \E f \in File, n \in 1..(MAXFILE * BSIZE) :
         /\ Calls(p, <<"write", f, n>>)
         /\ k' = [k EXCEPT ![p].pc = "begin", ![p].f = f, ![p].i = ino[f], ![p].n = n]
    /\ UNCHANGED <<bitmap, blk, dino, disk, logged, mem, lk, held, off, left>>

\* begin_op(): the next piece.
WriteBegin(p) ==
    /\ At(p, "begin")
    /\ k' = [k EXCEPT ![p].pc = "lock", ![p].n1 = Min({k[p].n, MaxPiece})]
    /\ UNCHANGED <<bitmap, blk, dino, disk, logged, mem, lk, held, off, left, calls>>

\* ilock(), and the checks at the head of writei().
WriteLock(p) ==
    /\ At(p, "lock")
    /\ Lock(p, k[p].i)
    /\ IF off[k[p].f] > mem[k[p].i].size \/ off[k[p].f] + k[p].n1 > MAXFILE * BSIZE
       THEN k' = [k EXCEPT ![p].pc = "refused", ![p].tot = -1]
       ELSE Goto(p, "loop")
    /\ UNCHANGED <<bitmap, blk, dino, disk, logged, mem, off, left, calls>>

\* The bytes of the piece that fall into the block at Position(p).
PieceLen(p) == Min({k[p].n1 - k[p].tot, BSIZE - (Position(p) % BSIZE)})

Fill(c, o, m, v) == [x \in 0..(BSIZE - 1) |-> IF x \in o..(o + m - 1) THEN v ELSE c[x]]

WriteCopy(p) ==
    /\ InLoop(p) /\ Missing(k[p].i, Bn(p)) = "none"
    /\ LET b == BlockOf(mem[k[p].i], blk, Bn(p))
       IN /\ blk' = [blk EXCEPT ![b] = Fill(@, Position(p) % BSIZE, PieceLen(p), p)]
          /\ LogWrite({b})
          /\ k' = [k EXCEPT ![p].tot = @ + PieceLen(p), ![p].wrote = @ \cup {b}]
    /\ UNCHANGED <<bitmap, dino, disk, mem, lk, held, off, left, calls>>

\* either_copyin() fails after some of the bytes; the block is not logged.
WriteCopyFault(p) ==
    /\ InLoop(p) /\ Missing(k[p].i, Bn(p)) = "none" /\ left.faults > 0
    /\ LET b == BlockOf(mem[k[p].i], blk, Bn(p))
       IN \E m \in 0..(PieceLen(p) - 1) :
            blk' = [blk EXCEPT ![b] = Fill(@, Position(p) % BSIZE, m, p)]
    /\ left' = [left EXCEPT !.faults = @ - 1]
    /\ Goto(p, "wend")
    /\ UNCHANGED <<bitmap, dino, disk, logged, mem, lk, held, off, calls>>

\* A mutant: iupdate() only when the size has changed.
WriteEndKeepsInode(p) ==
    /\ At(p, "wend") \/ (At(p, "loop") /\ k[p].tot = k[p].n1)
    /\ LET i == k[p].i
           ip == [mem[i] EXCEPT !.size = Max({@, Position(p)})]
       IN /\ mem' = [mem EXCEPT ![i] = ip]
          /\ IF ip.size = mem[i].size THEN UNCHANGED <<dino, logged>>
             ELSE dino' = [dino EXCEPT ![i] = ip] /\ LogWrite({InodeBlock})
          /\ off' = [off EXCEPT ![k[p].f] = Position(p)]
          /\ Unlock(i)
    /\ Goto(p, "endop")
    /\ UNCHANGED <<bitmap, blk, disk, left, calls>>

\* A mutant: f->off moves by what was asked, not by what was written.
WriteEndAdvancesAll(p) ==
    /\ At(p, "wend") \/ (At(p, "loop") /\ k[p].tot = k[p].n1)
    /\ LET i == k[p].i
           ip == [mem[i] EXCEPT !.size = Max({@, Position(p)})]
       IN /\ mem' = [mem EXCEPT ![i] = ip]
          /\ dino' = [dino EXCEPT ![i] = ip]
          /\ off' = [off EXCEPT ![k[p].f] = @ + k[p].n1]
          /\ Unlock(i)
    /\ LogWrite({InodeBlock})
    /\ k' = [k EXCEPT ![p].pc = "endop", ![p].wrote = @ \cup {InodeBlock}]
    /\ UNCHANGED <<bitmap, blk, disk, left, calls>>

\* The loop is over: size, iupdate(), f->off and iunlock().
WriteEnd(p) ==
    /\ At(p, "wend") \/ (At(p, "loop") /\ k[p].tot = k[p].n1)
    /\ LET i == k[p].i
           ip == [mem[i] EXCEPT !.size = Max({@, Position(p)})]
       IN /\ mem' = [mem EXCEPT ![i] = ip]
          /\ dino' = [dino EXCEPT ![i] = ip]
          /\ off' = [off EXCEPT ![k[p].f] = Position(p)]
          /\ Unlock(i)
    /\ LogWrite({InodeBlock})
    /\ k' = [k EXCEPT ![p].pc = "endop", ![p].wrote = @ \cup {InodeBlock}]
    /\ UNCHANGED <<bitmap, blk, disk, left, calls>>

\* writei() returned -1 at once.
WriteRefused(p) ==
    /\ At(p, "refused")
    /\ Unlock(k[p].i)
    /\ Goto(p, "endop")
    /\ UNCHANGED <<bitmap, blk, dino, disk, logged, mem, off, left, calls>>

\* end_op(): the last operation commits.  filewrite() goes on to its next
\* piece unless this one came short.
EndOp(p) ==
    /\ At(p, "endop")
    /\ IF \E q \in Proc \ {p} : InOp(q)
       THEN UNCHANGED <<disk, logged>>
       ELSE disk' = Durable /\ logged' = {}
    /\ LET rest == k[p].n - k[p].tot
       IN k' = [k EXCEPT ![p] = IF k[p].tot = k[p].n1 /\ rest > 0
                                THEN [Idle EXCEPT !.pc = "begin", !.f = k[p].f, !.i = k[p].i, !.n = rest]
                                ELSE Idle]
    /\ UNCHANGED <<bitmap, blk, dino, mem, lk, held, off, left, calls>>

----------------------------------------------------------------------------
(* read: fileread() and readi(); a hole would make bmap() allocate outside *)
(* a transaction ("log_write outside of trans").                           *)

ReadBlocks(f, n) == {x \div BSIZE : x \in off[f]..(off[f] + n - 1)}

Read(p) ==
    /\ \E f \in File, n \in 1..(MAXFILE * BSIZE) :
         LET i == ino[f]
             m == IF off[f] > mem[i].size THEN 0 ELSE Min({n, mem[i].size - off[f]})
         IN /\ Calls(p, <<"read", f, n>>)
            /\ lk[i] = NoProc
            /\ off' = [off EXCEPT ![f] = @ + m]
            /\ IF \E bn \in ReadBlocks(f, m) : Missing(i, bn) # "none"
               THEN Goto(p, "panic") ELSE UNCHANGED k
    /\ UNCHANGED <<bitmap, blk, dino, disk, logged, mem, lk, held, left>>

----------------------------------------------------------------------------
(* open(O_TRUNC): sys_open() and itrunc()                                  *)

Trunc(p) ==
    /\ \E f \in File :
         /\ Calls(p, <<"trunc", f>>)
         /\ k' = [k EXCEPT ![p].pc = "tlock", ![p].i = ino[f]]
    /\ UNCHANGED <<bitmap, blk, dino, disk, logged, mem, lk, held, off, left>>

TruncLock(p) ==
    /\ At(p, "tlock")
    /\ Lock(p, k[p].i)
    /\ Goto(p, "tfree")
    /\ UNCHANGED <<bitmap, blk, dino, disk, logged, mem, off, left, calls>>

\* bfree(): "freeing free block" if the bit is clear.
Bfree(p, b, next) ==
    /\ bitmap' = bitmap \ {b}
    /\ LogWrite({BBLOCK(b)})
    /\ k' = [k EXCEPT ![p] = IF b \in bitmap THEN [next EXCEPT !.wrote = @ \cup {BBLOCK(b)}]
                                           ELSE [next EXCEPT !.pc = "panic"]]

\* The direct blocks, then the entries of the indirect block in order, which
\* are not cleared, then the indirect block.
TruncDirect(p) ==
    /\ At(p, "tfree")
    /\ \E x \in 0..(NDIRECT - 1) :
         /\ mem[k[p].i].addrs[x] # 0
         /\ Bfree(p, mem[k[p].i].addrs[x], k[p])
         /\ mem' = [mem EXCEPT ![k[p].i].addrs[x] = 0]
    /\ UNCHANGED <<blk, dino, disk, lk, held, off, left, calls>>

DirectGone(i) == \A x \in 0..(NDIRECT - 1) : mem[i].addrs[x] = 0

TruncEntry(p) ==
    LET ind == mem[k[p].i].addrs[NDIRECT]
    IN /\ At(p, "tfree") /\ DirectGone(k[p].i)
       /\ ind # 0 /\ k[p].j < NINDIRECT
       /\ IF blk[ind][k[p].j] # 0
          THEN Bfree(p, blk[ind][k[p].j], [k[p] EXCEPT !.j = @ + 1])
          ELSE k' = [k EXCEPT ![p].j = @ + 1] /\ UNCHANGED <<bitmap, logged>>
       /\ UNCHANGED <<blk, dino, disk, mem, lk, held, off, left, calls>>

\* A mutant: the indirect block itself is not freed.
TruncIndirectLeak(p) ==
    LET ind == mem[k[p].i].addrs[NDIRECT]
    IN /\ At(p, "tfree") /\ DirectGone(k[p].i)
       /\ ind # 0 /\ k[p].j = NINDIRECT
       /\ mem' = [mem EXCEPT ![k[p].i].addrs[NDIRECT] = 0]
       /\ UNCHANGED <<bitmap, blk, dino, disk, logged, lk, held, off, k, left, calls>>

TruncIndirect(p) ==
    LET ind == mem[k[p].i].addrs[NDIRECT]
    IN /\ At(p, "tfree") /\ DirectGone(k[p].i)
       /\ ind # 0 /\ k[p].j = NINDIRECT
       /\ Bfree(p, ind, k[p])
       /\ mem' = [mem EXCEPT ![k[p].i].addrs[NDIRECT] = 0]
       /\ UNCHANGED <<blk, dino, disk, lk, held, off, left, calls>>

\* size = 0, iupdate(), iunlock(); end_op() follows.
TruncEnd(p) ==
    /\ At(p, "tfree") /\ \A x \in 0..NDIRECT : mem[k[p].i].addrs[x] = 0
    /\ mem' = [mem EXCEPT ![k[p].i] = EmptyInode]
    /\ dino' = [dino EXCEPT ![k[p].i] = EmptyInode]
    /\ Unlock(k[p].i)
    /\ LogWrite({InodeBlock})
    /\ k' = [k EXCEPT ![p].pc = "endop", ![p].j = 0, ![p].wrote = @ \cup {InodeBlock}]
    /\ UNCHANGED <<bitmap, blk, disk, off, left, calls>>

----------------------------------------------------------------------------
(* The environment                                                         *)

\* The buffer cache recycles a buffer that is in no transaction and in nobody's
\* hands; what was put into it without log_write() is gone.
Recycle ==
    /\ \E b \in Block \ logged :
         /\ blk[b] # disk.blk[b]
         /\ blk' = [blk EXCEPT ![b] = disk.blk[b]]
    /\ UNCHANGED <<bitmap, dino, disk, logged, mem, lk, held, off, k, left, calls>>

\* Power fails; recovery leaves the last committed state, processes and open
\* files are gone.
Crash ==
    /\ left.crashes > 0
    /\ left' = [left EXCEPT !.crashes = @ - 1]
    /\ bitmap' = disk.bitmap /\ blk' = disk.blk /\ dino' = disk.dino
    /\ mem' = disk.dino
    /\ logged' = {}
    /\ lk' = [i \in Inode |-> NoProc]
    /\ held' = [i \in Inode |-> NoContents]
    /\ off' = [f \in File |-> 0]
    /\ k' = [p \in Proc |-> Idle]
    /\ UNCHANGED <<disk, calls>>

Next ==
    \/ \E p \in Proc :
         \/ Write(p) \/ WriteBegin(p) \/ WriteLock(p) \/ BallocMark(p) \/ BallocNext(p)
         \/ BallocFails(p) \/ BzeroLink(p) \/ WriteCopy(p) \/ WriteCopyFault(p) \/ WriteEnd(p)
         \/ WriteRefused(p) \/ EndOp(p) \/ Read(p)
         \/ Trunc(p) \/ TruncLock(p) \/ TruncDirect(p) \/ TruncEntry(p)
         \/ TruncIndirect(p) \/ TruncEnd(p)
    \/ Recycle
    \/ Crash

Spec == Init /\ [][Next]_vars

----------------------------------------------------------------------------
(* Properties                                                              *)

\* The block numbers an inode leads to, one per place, entries before j of the
\* indirect block left out.
Places(inode, blocks, j) ==
    {<<x>> : x \in {x \in 0..NDIRECT : inode.addrs[x] # 0}}
    \cup (IF inode.addrs[NDIRECT] = 0 THEN {}
          ELSE {<<NDIRECT, x>> : x \in {x \in j..(NINDIRECT - 1) :
                                         blocks[inode.addrs[NDIRECT]][x] # 0}})

At2(inode, blocks, place) ==
    IF Len(place) = 1 THEN inode.addrs[place[1]]
                      ELSE blocks[inode.addrs[NDIRECT]][place[2]]

Refs(inode, blocks, j) == {At2(inode, blocks, x) : x \in Places(inode, blocks, j)}

Count(inode, blocks, j) == Cardinality(Places(inode, blocks, j))

TruncatedTo(i) == IF lk[i] = NoProc THEN 0 ELSE k[lk[i]].j

InHand == {k[p].b : p \in Proc} \ {0}

\* An unlocked inode is the same in memory and in its block, no longer than
\* MAXFILE, and its blocks reach as far as its size.
WellFormed ==
    /\ \A i \in Inode : lk[i] = NoProc =>
         /\ mem[i] = dino[i]
         /\ mem[i].size \in 0..(MAXFILE * BSIZE)
         /\ \A x \in 0..(mem[i].size - 1) : Missing(i, x \div BSIZE) = "none"
    /\ \A p \in Proc : (\E i \in Inode : lk[i] = p) => InOp(p)

\* In the running system every block marked in the bitmap has exactly one
\* owner: one place in one inode or indirect block, or the process that has
\* just allocated it.  So balloc() never hands out a block in use, bfree()
\* never meets a free one, and no error path of writei() loses a block.  An
\* unlocked inode agrees with its disk block and has no holes.
BlocksOwnedOnce ==
    /\ WellFormed
    /\ bitmap = InHand \cup UNION {Refs(mem[i], blk, TruncatedTo(i)) : i \in Inode}
    /\ Cardinality(bitmap) = Cardinality(InHand)
         + MapThenSumSet(LAMBDA i : Count(mem[i], blk, TruncatedTo(i)), Inode)
    /\ \A p \in Proc : k[p].pc # "panic"

\* The same of what a crash at this moment would leave: bitmap, inodes and
\* indirect blocks on disk agree, and a file's blocks reach as far as its size.
CrashConsistent ==
    /\ disk.bitmap = UNION {Refs(disk.dino[i], disk.blk, 0) : i \in Inode}
    /\ Cardinality(disk.bitmap) =
         MapThenSumSet(LAMBDA i : Count(disk.dino[i], disk.blk, 0), Inode)
    /\ \A i \in Inode : \A x \in 0..(disk.dino[i].size - 1) :
         BlockOf(disk.dino[i], disk.blk, x \div BSIZE) # 0

\* Every operation of filewrite() or itrunc() logs fewer than the MAXOPBLOCKS
\* blocks that begin_op() sets aside for it, which is what the pieces of
\* filewrite() are for and what Log's OpFits assumes of operations.
OpFits == \A p \in Proc : Cardinality(k[p].wrote) < MAXOPBLOCKS

View(i) == IF lk[i] = NoProc THEN Contents2(i).view ELSE held[i].view
NextOf(i) == IF lk[i] = NoProc THEN Contents2(i).next ELSE held[i].next

Store == INSTANCE FileStore WITH
    Value <- Proc, Ino <- ino,
    view <- [i \in Inode |-> View(i)],
    next <- [i \in Inode |-> NextOf(i)],
    safe <- [i \in Inode |-> Contents(disk.dino[i], disk.blk)]

\* Block maps, bitmap and cache together behave like plain files (FileStore):
\* every piece of a write lands at the offset of its open file, in its own file
\* and all at once for other readers and writers, also with two descriptions of
\* one file, a full disk, truncation in between, failing copies and crashes.
IsFileStore == Store!Spec
====
