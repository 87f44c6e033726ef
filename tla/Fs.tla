--------------------------------- MODULE Fs ---------------------------------
(***************************************************************************)
(* Inodes and directories: the inode table and path lookup of kernel/fs.c  *)
(* (iget, idup, ilock, iunlock, iput, itrunc, ialloc, dirlookup, dirlink,  *)
(* namex) and the system calls of kernel/sysfile.c that change the tree    *)
(* (open, close, create, mkdir, link, unlink, chdir).                      *)
(*                                                                         *)
(* A section under itable.lock is one step, and so is what a process does  *)
(* to the inodes it has locked, up to the next lock, unlock or iput().     *)
(* A change of ip->nlink or ip->type and its iupdate() are one step.       *)
(* File contents are left out: a directory's are its entries. A path may   *)
(* have any length: its elements are chosen as namex() comes to them.      *)
(* The fields of a table entry without references are dead (iget() sets    *)
(* them): they are reset with the last reference.                          *)
(*                                                                         *)
(* 0 is the null pointer, and inode number 0.                              *)
(***************************************************************************)
EXTENDS Integers, Sequences, FiniteSets, FiniteSetsExt

CONSTANTS
  Proc,      \* processes
  Name,      \* file names, without "." and ".."
  NInodes,   \* sb.ninodes - 1: inode numbers are 1 .. NInodes
  NINODE,    \* entries of the inode table
  Workloads, \* bound: which system calls each process makes (close() aside)
  MaxLink,   \* bound: link() is not called for an inode with this link count
  DotDot,    \* TRUE: paths may have the element ".."
  DiskFull,  \* TRUE: balloc() may find no free block in dirlink()
  Nobody,    \* the owner of an unlocked inode
  NoName     \* no name

ASSUME SizeAssumption == NInodes \in Nat \ {0} /\ NINODE \in Nat \ {0}
ASSUME WorkloadAssumption ==
  Workloads \subseteq [Proc -> SUBSET {"open", "create", "chdir", "mkdir", "link", "unlink"}]
ASSUME LinkAssumption == MaxLink \in Nat
ASSUME FlagAssumption == DotDot \in BOOLEAN /\ DiskFull \in BOOLEAN
ASSUME NameAssumption == Nobody \notin Proc /\ {"..", NoName} \cap Name = {}

Inum == 1 .. NInodes
ROOTINO == 1
Slot == 1 .. NINODE
Free == [type |-> "free", nlink |-> 0]

VARIABLES
  dinode,            \* type and nlink of the inodes on the disk
  dents,             \* the entries of a directory: name -> inode number
  parent,            \* its entry ".."
  inum, ref, valid,  \* the entries of itable
  mem,               \* their copies of type and nlink
  owner,             \* the holder of ip->lock
  cwd, file,         \* p->cwd, and the inode of the process's open file
  pc,                \* where the process is
  op,                \* its system call
  name,              \* the local name, while an entry for it is to be written
  ip, dp, old,       \* the locals ip and dp; sys_link()'s ip during the lookup of new
  put, ret,          \* the argument of iput(), and where it returns to
  calls,             \* the workload of this behaviour
  panicked

diskvars == <<dinode, dents, parent>>
tablevars == <<inum, ref, valid, mem>>
procvars == <<cwd, file, op, name, ip, dp, old>>
vars == <<diskvars, tablevars, owner, procvars, pc, put, ret, calls, panicked>>

NoEnts == [n \in Name |-> 0]

Init ==
  /\ dinode = [i \in Inum |-> IF i = ROOTINO THEN [type |-> "dir", nlink |-> 1] ELSE Free]
  /\ dents = [i \in Inum |-> NoEnts]
  /\ parent = [i \in Inum |-> IF i = ROOTINO THEN ROOTINO ELSE 0]
  /\ inum = [s \in Slot |-> IF s = 1 THEN ROOTINO ELSE 0]
  /\ ref = [s \in Slot |-> IF s = 1 THEN Cardinality(Proc) ELSE 0]
  /\ valid = [s \in Slot |-> 0]
  /\ mem = [s \in Slot |-> Free]
  /\ owner = [s \in Slot |-> Nobody]
  /\ cwd = [p \in Proc |-> 1]
  /\ file = [p \in Proc |-> 0]
  /\ pc = [p \in Proc |-> "idle"]
  /\ op = [p \in Proc |-> "none"]
  /\ name = [p \in Proc |-> NoName]
  /\ ip = [p \in Proc |-> 0] /\ dp = [p \in Proc |-> 0] /\ old = [p \in Proc |-> 0]
  /\ put = [p \in Proc |-> 0]
  /\ ret = [p \in Proc |-> "idle"]
  /\ calls \in Workloads
  /\ panicked = "none"

At(p, l) == panicked = "none" /\ pc[p] = l

(* Every step ends here; the workload never changes. *)
Goto(p, l) == pc' = [pc EXCEPT ![p] = l] /\ UNCHANGED calls

-----------------------------------------------------------------------------
(* The inode table *)

(* The entry that iget(i) returns: the inode's, or else the first unused. *)
Hits(i) == {s \in Slot : ref[s] > 0 /\ inum[s] = i}

Empties == {s \in Slot : ref[s] = 0}

IgetSlot(i) == IF Hits(i) # {} THEN Min(Hits(i)) ELSE IF Empties # {} THEN Min(Empties) ELSE 0

(* iget(i): the entry s gets a reference; a recycled one becomes invalid. *)
Iget(i, s) ==
  /\ s = IgetSlot(i)
  /\ panicked' = IF s = 0 THEN "iget: no inodes" ELSE panicked
  /\ inum' = [t \in Slot |-> IF t = s THEN i ELSE inum[t]]
  /\ ref' = [t \in Slot |-> IF t = s THEN ref[t] + 1 ELSE ref[t]]
  /\ valid' = [t \in Slot |-> IF t = s /\ ref[t] = 0 THEN 0 ELSE valid[t]]
  /\ UNCHANGED mem

(* ilock(s), called at l1: take the sleeplock, and read the inode from the *)
(* disk unless it is valid; then go on at l2.                              *)
Ilock(p, l1, s, l2) ==
  /\ At(p, l1) /\ owner[s] = Nobody
  /\ owner' = [owner EXCEPT ![s] = p]
  /\ valid' = [valid EXCEPT ![s] = 1]
  /\ mem' = [mem EXCEPT ![s] = IF valid[s] = 0 THEN dinode[inum[s]] ELSE @]
  /\ panicked' = IF valid[s] = 0 /\ dinode[inum[s]].type = "free" THEN "ilock: no type" ELSE "none"
  /\ Goto(p, l2)
  /\ UNCHANGED <<diskvars, inum, ref, procvars, put, ret>>

(* ip->nlink += d; iupdate(ip). *)
Relink(s, d) ==
  /\ mem' = [mem EXCEPT ![s].nlink = @ + d]
  /\ dinode' = [dinode EXCEPT ![inum[s]] = [mem[s] EXCEPT !.nlink = @ + d]]

Iunlock(s) == owner' = [owner EXCEPT ![s] = Nobody]

(* Call iput(s), then go on at l. *)
CallIput(p, s, l) ==
  /\ put' = [put EXCEPT ![p] = s]
  /\ ret' = [ret EXCEPT ![p] = l]
  /\ Goto(p, "iput")

Unlinked(s) == ref[s] = 1 /\ valid[s] = 1 /\ mem[s].nlink = 0

Return(p) ==
  /\ put' = [put EXCEPT ![p] = 0]
  /\ ret' = [ret EXCEPT ![p] = "idle"]
  /\ op' = [op EXCEPT ![p] = IF ret[p] = "idle" THEN "none" ELSE @]
  /\ Goto(p, ret[p])

(* ip->ref-- *)
Deref(s) ==
  /\ ref' = [ref EXCEPT ![s] = @ - 1]
  /\ IF ref[s] > 1
     THEN UNCHANGED <<inum, valid, mem>>
     ELSE /\ inum' = [inum EXCEPT ![s] = 0]
          /\ valid' = [valid EXCEPT ![s] = 0]
          /\ mem' = [mem EXCEPT ![s] = Free]

(* iput(): drop a reference ... *)
IputDrop(p) ==
  /\ At(p, "iput") /\ ~Unlinked(put[p])
  /\ Deref(put[p])
  /\ Return(p)
  /\ UNCHANGED <<diskvars, owner, cwd, file, name, ip, dp, old, panicked>>

(* ... or, if it is the last and the inode has no links, lock the inode, *)
(* and release itable.lock ...                                           *)
IputLock(p) ==
  /\ At(p, "iput") /\ Unlinked(put[p])
  /\ owner[put[p]] = Nobody
  /\ owner' = [owner EXCEPT ![put[p]] = p]
  /\ Goto(p, "ifree")
  /\ UNCHANGED <<diskvars, tablevars, procvars, put, ret, panicked>>

(* Mutant: iput() leaves ip->valid set. *)
IputFreeValid(p) ==
  /\ At(p, "ifree")
  /\ dinode' = [dinode EXCEPT ![inum[put[p]]] = Free]
  /\ dents' = [dents EXCEPT ![inum[put[p]]] = NoEnts]
  /\ parent' = [parent EXCEPT ![inum[put[p]]] = 0]
  /\ mem' = [mem EXCEPT ![put[p]] = Free]
  /\ Iunlock(put[p])
  /\ Goto(p, "ideref")
  /\ UNCHANGED <<inum, ref, valid, procvars, put, ret, panicked>>

(* ... itrunc(ip); ip->type = 0; iupdate(ip); ip->valid = 0 ... *)
IputFree(p) ==
  /\ At(p, "ifree")
  /\ dinode' = [dinode EXCEPT ![inum[put[p]]] = Free]
  /\ dents' = [dents EXCEPT ![inum[put[p]]] = NoEnts]
  /\ parent' = [parent EXCEPT ![inum[put[p]]] = 0]
  /\ valid' = [valid EXCEPT ![put[p]] = 0]
  /\ mem' = [mem EXCEPT ![put[p]] = Free]
  /\ Iunlock(put[p])
  /\ Goto(p, "ideref")
  /\ UNCHANGED <<inum, ref, procvars, put, ret, panicked>>

(* ... and take itable.lock again to drop the reference. *)
IputDeref(p) ==
  /\ At(p, "ideref")
  /\ Deref(put[p])
  /\ Return(p)
  /\ UNCHANGED <<diskvars, owner, cwd, file, name, ip, dp, old, panicked>>

-----------------------------------------------------------------------------
(* namex() *)

Wants(p) == IF op[p] \in {"create", "mkdir", "unlink", "link2"} THEN "parent" ELSE "inode"

Elem == Name \cup (IF DotDot THEN {".."} ELSE {})

(* dirlookup() in inode i *)
Lookup(i, n) == IF n = ".." THEN parent[i] ELSE dents[i][n]

(* A call of namei() or nameiparent() for the system call o: from the root *)
(* or from the current directory, with an empty path or not.               *)
Namex(p, o) ==
  \E i \in {ROOTINO, inum[cwd[p]]}, s \in 0 .. NINODE, l \in {"namex", "namex_end"} :
    /\ Iget(i, s)
    /\ ip' = [ip EXCEPT ![p] = s]
    /\ op' = [op EXCEPT ![p] = o]
    /\ Goto(p, l)
    /\ UNCHANGED <<diskvars, owner, cwd, file, name, dp, old, put, ret>>

(* Where a failed lookup returns to. *)
Failed(p) == IF op[p] = "link2" THEN "link_bad" ELSE "idle"

(* The locals ip and name are dead. *)
Forget(p) ==
  /\ ip' = [ip EXCEPT ![p] = 0]
  /\ name' = [name EXCEPT ![p] = NoName]

(* An empty path has no parent directory: iput(ip), return 0. *)
NamexEmpty(p) ==
  /\ At(p, "namex_end") /\ Wants(p) = "parent"
  /\ CallIput(p, ip[p], Failed(p))
  /\ Forget(p)
  /\ UNCHANGED <<diskvars, tablevars, owner, cwd, file, op, dp, old, panicked>>

NamexLock(p) == Ilock(p, "namex", ip[p], "namex_locked")

IsDir(s) == mem[s].type = "dir"

(* Mutant: a failed lookup unlocks the inode and does not put it. *)
NamexFailLeak(p) ==
  /\ At(p, "namex_locked")
  /\ ~IsDir(ip[p]) \/ \E n \in Elem : Lookup(inum[ip[p]], n) = 0
  /\ Iunlock(ip[p])
  /\ Goto(p, Failed(p))
  /\ Forget(p)
  /\ UNCHANGED <<diskvars, tablevars, cwd, file, op, dp, old, put, ret, panicked>>

(* Not a directory, or no such entry: iunlockput(ip), return 0. *)
NamexFail(p) ==
  /\ At(p, "namex_locked")
  /\ ~IsDir(ip[p]) \/ \E n \in Elem : Lookup(inum[ip[p]], n) = 0
  /\ Iunlock(ip[p])
  /\ CallIput(p, ip[p], Failed(p))
  /\ Forget(p)
  /\ UNCHANGED <<diskvars, tablevars, cwd, file, op, dp, old, panicked>>

(* Stop one level early; the caller's ilock(dp) follows. *)
NamexParent(p) ==
  /\ At(p, "namex_locked") /\ IsDir(ip[p]) /\ Wants(p) = "parent"
  /\ Iunlock(ip[p])
  /\ dp' = [dp EXCEPT ![p] = ip[p]]
  /\ ip' = [ip EXCEPT ![p] = 0]
  /\ Goto(p, "parent")
  /\ UNCHANGED <<diskvars, tablevars, cwd, file, op, name, old, put, ret, panicked>>

(* next = dirlookup(ip, name); iunlockput(ip); ip = next *)
NamexStep(p) ==
  /\ At(p, "namex_locked") /\ IsDir(ip[p])
  /\ \E n \in Elem, s \in 0 .. NINODE :
       LET i == Lookup(inum[ip[p]], n)
       IN  i # 0 /\ Iget(i, s) /\ ip' = [ip EXCEPT ![p] = s]
  /\ Iunlock(ip[p])
  /\ \/ CallIput(p, ip[p], "namex")
     \/ Wants(p) = "inode" /\ CallIput(p, ip[p], "namex_end")
  /\ UNCHANGED <<diskvars, cwd, file, op, name, dp, old>>

-----------------------------------------------------------------------------
(* open() without O_CREATE, close() and chdir() *)

Start(p) ==
  /\ At(p, "idle")
  /\ \E o \in calls[p] : (o \in {"open", "create"} => file[p] = 0) /\ Namex(p, o)

Close(p) ==
  /\ At(p, "idle") /\ file[p] # 0
  /\ CallIput(p, file[p], "idle")
  /\ file' = [file EXCEPT ![p] = 0]
  /\ UNCHANGED <<diskvars, tablevars, owner, cwd, op, name, ip, dp, old, panicked>>

(* namei() has returned ip; the caller's ilock(ip). *)
FoundLock(p) == Wants(p) = "inode" /\ Ilock(p, "namex_end", ip[p], "found_locked")

(* sys_open() keeps the reference in the open file, ... *)
OpenOk(p) ==
  /\ At(p, "found_locked") /\ op[p] = "open"
  /\ Iunlock(ip[p])
  /\ file' = [file EXCEPT ![p] = ip[p]]
  /\ Forget(p)
  /\ op' = [op EXCEPT ![p] = "none"]
  /\ Goto(p, "idle")
  /\ UNCHANGED <<diskvars, tablevars, cwd, dp, old, put, ret, panicked>>

(* sys_chdir() in the process; the old directory is put. *)
ChdirOk(p) ==
  /\ At(p, "found_locked") /\ op[p] = "chdir" /\ IsDir(ip[p])
  /\ Iunlock(ip[p])
  /\ CallIput(p, cwd[p], "idle")
  /\ cwd' = [cwd EXCEPT ![p] = ip[p]]
  /\ Forget(p)
  /\ UNCHANGED <<diskvars, tablevars, file, op, dp, old, panicked>>

(* A directory opened for writing, or no struct file; not a directory; *)
(* link() of a directory: iunlockput(ip).                              *)
FoundFail(p) ==
  /\ At(p, "found_locked")
  /\ CASE op[p] = "open" -> TRUE
       [] op[p] = "chdir" -> ~IsDir(ip[p])
       [] op[p] = "link" -> IsDir(ip[p])
  /\ Iunlock(ip[p])
  /\ CallIput(p, ip[p], "idle")
  /\ Forget(p)
  /\ UNCHANGED <<diskvars, tablevars, cwd, file, op, dp, old, panicked>>

-----------------------------------------------------------------------------
(* The directory of the last element, for create(), unlink() and link() *)

ParentLock(p) == Ilock(p, "parent", dp[p], "parent_locked")

(* dirlookup(dp, n), and writing the entry. *)
Entry(p, n) == Lookup(inum[dp[p]], n)

SetEntry(p, n, i) == dents' = [dents EXCEPT ![inum[dp[p]]][n] = i]

(* iunlockput(dp), then go on at l. *)
PutParent(p, l) ==
  /\ Iunlock(dp[p])
  /\ CallIput(p, dp[p], l)
  /\ dp' = [dp EXCEPT ![p] = 0]

FreeInums == {i \in Inum : dinode[i].type = "free"}

Creating(p) == op[p] \in {"create", "mkdir"}

(* Nothing to unlink, ".." to unlink, or no free inode: iunlockput(dp).    *)
(* ialloc()'s scan is one step, so it misses no inode freed meanwhile.     *)
ParentFail(p) ==
  /\ At(p, "parent_locked")
  /\ \E n \in Elem :
       \/ op[p] = "unlink" /\ (n = ".." \/ Entry(p, n) = 0)
       \/ Creating(p) /\ Entry(p, n) = 0 /\ FreeInums = {}
  /\ PutParent(p, "idle")
  /\ UNCHANGED <<diskvars, tablevars, cwd, file, op, name, ip, old, panicked>>

(* The bad: of sys_unlink() and the end of create()'s fail: *)
BadParent(p) ==
  /\ At(p, "put_parent")
  /\ PutParent(p, "idle")
  /\ UNCHANGED <<diskvars, tablevars, cwd, file, op, name, ip, old, panicked>>

-----------------------------------------------------------------------------
(* create() *)

(* The name exists: iunlockput(dp), ilock(ip). *)
CreateExists(p) ==
  /\ At(p, "parent_locked") /\ Creating(p)
  /\ \E n \in Elem, s \in 0 .. NINODE :
       /\ Entry(p, n) # 0
       /\ Iget(Entry(p, n), s)
       /\ ip' = [ip EXCEPT ![p] = s]
  /\ PutParent(p, "exists")
  /\ UNCHANGED <<diskvars, cwd, file, op, name, old>>

ExistsLock(p) == Ilock(p, "exists", ip[p], "created")

(* ialloc(): a free inode gets its type, and an entry of the table. The scan *)
(* is not atomic: an inode freed behind it is missed, so it may find any.    *)
Ialloc(p) ==
  /\ At(p, "parent_locked") /\ Creating(p)
  /\ \E n \in Name : Entry(p, n) = 0 /\ name' = [name EXCEPT ![p] = n]
  /\ \E i \in FreeInums, s \in 0 .. NINODE :
       /\ dinode' = [dinode EXCEPT ![i] = [type |-> IF op[p] = "mkdir" THEN "dir" ELSE "file", nlink |-> 0]]
       /\ Iget(i, s)
       /\ ip' = [ip EXCEPT ![p] = s]
  /\ Goto(p, "new")
  /\ UNCHANGED <<dents, parent, owner, cwd, file, op, dp, old, put, ret>>

NewLock(p) == Ilock(p, "new", ip[p], "new_locked")

(* nlink = 1; dirlink() of "." and ".." in a new directory; dirlink() of *)
(* the new inode; dp->nlink++ for ".."; iunlockput(dp).                  *)
CreateLink(p) ==
  /\ At(p, "new_locked")
  /\ LET i == inum[ip[p]]
         d == inum[dp[p]]
         up == IF op[p] = "mkdir" THEN 1 ELSE 0
         new(m) == [m EXCEPT !.nlink = 1]
         above(m) == [m EXCEPT !.nlink = @ + up]
     IN  /\ mem' = [mem EXCEPT ![ip[p]] = new(@), ![dp[p]] = above(@)]
         /\ dinode' = [dinode EXCEPT ![i] = new(mem[ip[p]]), ![d] = above(mem[dp[p]])]
         /\ parent' = [parent EXCEPT ![i] = IF op[p] = "mkdir" THEN d ELSE 0]
         /\ SetEntry(p, name[p], i)
  /\ PutParent(p, "created")
  /\ name' = [name EXCEPT ![p] = NoName]
  /\ UNCHANGED <<inum, ref, valid, cwd, file, op, ip, old, panicked>>

(* No block for an entry: nlink = 0, iunlockput(ip), iunlockput(dp). *)
CreateFail(p) ==
  /\ At(p, "new_locked") /\ DiskFull
  /\ mem' = [mem EXCEPT ![ip[p]].nlink = 0]
  /\ dinode' = [dinode EXCEPT ![inum[ip[p]]] = [mem[ip[p]] EXCEPT !.nlink = 0]]
  /\ Iunlock(ip[p])
  /\ CallIput(p, ip[p], "put_parent")
  /\ Forget(p)
  /\ UNCHANGED <<dents, parent, inum, ref, valid, cwd, file, op, dp, old, panicked>>

(* create() returns ip locked: sys_open() keeps it ... *)
CreateOpen(p) ==
  /\ At(p, "created") /\ op[p] = "create" /\ ~IsDir(ip[p])
  /\ Iunlock(ip[p])
  /\ file' = [file EXCEPT ![p] = ip[p]]
  /\ Forget(p)
  /\ op' = [op EXCEPT ![p] = "none"]
  /\ Goto(p, "idle")
  /\ UNCHANGED <<diskvars, tablevars, cwd, dp, old, put, ret, panicked>>

(* ... unless it has no struct file for it; sys_mkdir() puts it, and so *)
(* does create() if what exists is of another type.                     *)
CreatePut(p) ==
  /\ At(p, "created")
  /\ Iunlock(ip[p])
  /\ CallIput(p, ip[p], "idle")
  /\ Forget(p)
  /\ UNCHANGED <<diskvars, tablevars, cwd, file, op, dp, old, panicked>>

-----------------------------------------------------------------------------
(* unlink() *)

(* ip = dirlookup(dp, name); dp stays locked. *)
UnlinkLookup(p) ==
  /\ At(p, "parent_locked") /\ op[p] = "unlink"
  /\ \E n \in Name, s \in 0 .. NINODE :
       /\ Entry(p, n) # 0
       /\ Iget(Entry(p, n), s)
       /\ ip' = [ip EXCEPT ![p] = s]
       /\ name' = [name EXCEPT ![p] = n]
  /\ Goto(p, "victim")
  /\ UNCHANGED <<diskvars, owner, cwd, file, op, dp, old, put, ret>>

UnlinkLock(p) == Ilock(p, "victim", ip[p], "victim_locked")

CheckLinks(s) == panicked' = IF mem[s].nlink < 1 THEN "unlink: nlink < 1" ELSE panicked

IsDirEmpty(s) == dents[inum[s]] = NoEnts

UnlinkBusy(p) ==
  /\ At(p, "victim_locked") /\ CheckLinks(ip[p])
  /\ IsDir(ip[p]) /\ ~IsDirEmpty(ip[p])
  /\ Iunlock(ip[p])
  /\ CallIput(p, ip[p], "put_parent")
  /\ Forget(p)
  /\ UNCHANGED <<diskvars, tablevars, cwd, file, op, dp, old>>

(* Clear the entry; dp->nlink-- if it was a directory's; iunlockput(dp). *)
UnlinkErase(p) ==
  /\ At(p, "victim_locked") /\ CheckLinks(ip[p])
  /\ IsDir(ip[p]) => IsDirEmpty(ip[p])
  /\ SetEntry(p, name[p], 0)
  /\ IF IsDir(ip[p]) THEN Relink(dp[p], -1) ELSE UNCHANGED <<mem, dinode>>
  /\ PutParent(p, "erased")
  /\ name' = [name EXCEPT ![p] = NoName]
  /\ UNCHANGED <<parent, inum, ref, valid, cwd, file, op, ip, old>>

(* ip->nlink--; iupdate(ip); iunlockput(ip) *)
UnlinkDrop(p) ==
  /\ At(p, "erased")
  /\ Relink(ip[p], -1)
  /\ Iunlock(ip[p])
  /\ CallIput(p, ip[p], "idle")
  /\ Forget(p)
  /\ UNCHANGED <<dents, parent, inum, ref, valid, cwd, file, op, dp, old, panicked>>

-----------------------------------------------------------------------------
(* link() *)

(* Mutant: link() does not count the link before it writes the entry. *)
LinkCountLate(p) ==
  /\ At(p, "found_locked") /\ op[p] = "link" /\ ~IsDir(ip[p])
  /\ mem[ip[p]].nlink < MaxLink
  /\ Relink(ip[p], 0)
  /\ Iunlock(ip[p])
  /\ old' = [old EXCEPT ![p] = ip[p]]
  /\ Forget(p)
  /\ Goto(p, "link_new")
  /\ UNCHANGED <<dents, parent, inum, ref, valid, cwd, file, op, dp, put, ret, panicked>>

(* Mutant: link() looks up new with ip still locked. *)
LinkCountLocked(p) ==
  /\ At(p, "found_locked") /\ op[p] = "link" /\ ~IsDir(ip[p])
  /\ mem[ip[p]].nlink < MaxLink
  /\ Relink(ip[p], 1)
  /\ UNCHANGED owner
  /\ old' = [old EXCEPT ![p] = ip[p]]
  /\ Forget(p)
  /\ Goto(p, "link_new")
  /\ UNCHANGED <<dents, parent, inum, ref, valid, cwd, file, op, dp, put, ret, panicked>>

(* ip->nlink++; iupdate(ip); iunlock(ip) *)
LinkCount(p) ==
  /\ At(p, "found_locked") /\ op[p] = "link" /\ ~IsDir(ip[p])
  /\ mem[ip[p]].nlink < MaxLink
  /\ Relink(ip[p], 1)
  /\ Iunlock(ip[p])
  /\ old' = [old EXCEPT ![p] = ip[p]]
  /\ Forget(p)
  /\ Goto(p, "link_new")
  /\ UNCHANGED <<dents, parent, inum, ref, valid, cwd, file, op, dp, put, ret, panicked>>

(* nameiparent(new) *)
LinkNew(p) == At(p, "link_new") /\ Namex(p, "link2")

(* Mutant: link() runs into bad: after the entry is written. *)
LinkOkBad(p) ==
  /\ At(p, "parent_locked") /\ op[p] = "link2"
  /\ \E n \in Name : Entry(p, n) = 0 /\ SetEntry(p, n, inum[old[p]])
  /\ PutParent(p, "link_bad")
  /\ UNCHANGED <<dinode, parent, tablevars, cwd, file, op, name, ip, old, panicked>>

(* dirlink(dp, name, ip->inum); iunlockput(dp) *)
LinkOk(p) ==
  /\ At(p, "parent_locked") /\ op[p] = "link2"
  /\ \E n \in Name : Entry(p, n) = 0 /\ SetEntry(p, n, inum[old[p]])
  /\ PutParent(p, "link_put")
  /\ UNCHANGED <<dinode, parent, tablevars, cwd, file, op, name, ip, old, panicked>>

(* dirlink() fails: the name exists, or no block for the entry. *)
LinkFail(p) ==
  /\ At(p, "parent_locked") /\ op[p] = "link2"
  /\ DiskFull \/ \E n \in Elem : Entry(p, n) # 0
  /\ PutParent(p, "link_bad")
  /\ UNCHANGED <<diskvars, tablevars, cwd, file, op, name, ip, old, panicked>>

LinkPut(p) ==
  /\ At(p, "link_put")
  /\ CallIput(p, old[p], "idle")
  /\ old' = [old EXCEPT ![p] = 0]
  /\ UNCHANGED <<diskvars, tablevars, owner, cwd, file, op, name, ip, dp, panicked>>

(* bad: ilock(ip); ip->nlink--; iupdate(ip); iunlockput(ip) *)
LinkBadLock(p) == Ilock(p, "link_bad", old[p], "link_bad_locked")

LinkBad(p) ==
  /\ At(p, "link_bad_locked")
  /\ Relink(old[p], -1)
  /\ Iunlock(old[p])
  /\ CallIput(p, old[p], "idle")
  /\ old' = [old EXCEPT ![p] = 0]
  /\ UNCHANGED <<dents, parent, inum, ref, valid, cwd, file, op, name, ip, dp, panicked>>

-----------------------------------------------------------------------------
Next ==
  \E p \in Proc :
    \/ Start(p) \/ Close(p)
    \/ NamexEmpty(p) \/ NamexLock(p) \/ NamexFail(p) \/ NamexParent(p) \/ NamexStep(p)
    \/ FoundLock(p) \/ OpenOk(p) \/ ChdirOk(p) \/ FoundFail(p)
    \/ ParentLock(p) \/ ParentFail(p) \/ BadParent(p)
    \/ CreateExists(p) \/ ExistsLock(p) \/ Ialloc(p) \/ NewLock(p)
    \/ CreateLink(p) \/ CreateFail(p) \/ CreateOpen(p) \/ CreatePut(p)
    \/ UnlinkLookup(p) \/ UnlinkLock(p)
    \/ UnlinkBusy(p) \/ UnlinkErase(p) \/ UnlinkDrop(p)
    \/ LinkCount(p) \/ LinkNew(p) \/ LinkOk(p) \/ LinkFail(p)
    \/ LinkPut(p) \/ LinkBadLock(p) \/ LinkBad(p)
    \/ IputDrop(p) \/ IputLock(p) \/ IputFree(p) \/ IputDeref(p)

Spec == Init /\ [][Next]_vars

-----------------------------------------------------------------------------
(* Properties *)

Dinode == [type : {"free", "dir", "file"}, nlink : Nat]
Ptr == 0 .. NINODE

(* The state has its types; in particular no link count on the disk and no *)
(* reference count falls below zero.                                       *)
TypeOK ==
  /\ dinode \in [Inum -> Dinode]
  /\ dents \in [Inum -> [Name -> 0 .. NInodes]]
  /\ parent \in [Inum -> 0 .. NInodes]
  /\ inum \in [Slot -> 0 .. NInodes]
  /\ ref \in [Slot -> Nat]
  /\ valid \in [Slot -> {0, 1}]
  /\ mem \in [Slot -> Dinode]
  /\ owner \in [Slot -> Proc \cup {Nobody}]
  /\ cwd \in [Proc -> Slot]
  /\ \A v \in {file, ip, dp, old, put} : v \in [Proc -> Ptr]
  /\ name \in [Proc -> Name \cup {NoName}]

(* An inode has at most one entry in the table: iget() finds the entry that *)
(* is in use, so that its sleeplock excludes every other user.              *)
OneEntryPerInode ==
  \A s, t \in Slot : ref[s] > 0 /\ ref[t] > 0 /\ inum[s] = inum[t] => s = t

(* ip->ref is the number of pointers to the entry: current directories, open *)
(* files and the locals of the system calls (fs.c: "ip->ref tracks the       *)
(* number of in-memory pointers to the entry"), on every path, the failing   *)
(* ones included; and no inode has two entries.                              *)
RefExact ==
  /\ TypeOK /\ OneEntryPerInode
  /\ panicked = "none" =>
       \A s \in Slot :
         ref[s] = Cardinality({<<p, k>> \in Proc \X (1 .. 6) :
                                <<cwd[p], file[p], ip[p], dp[p], old[p], put[p]>>[k] = s})

(* The kernel never locks an inode that has been freed ("ilock: no type") and *)
(* never unlinks one without links ("unlink: nlink < 1"). A full inode table  *)
(* does stop it.                                                              *)
NoPanic == panicked \in {"none", "iget: no inodes"}

(* A valid entry agrees with the disk, also when iput() frees the inode while *)
(* ialloc() hands out its number again.                                       *)
CacheFresh ==
  \A s \in Slot : ref[s] > 0 /\ valid[s] = 1 /\ panicked = "none" => mem[s] = dinode[inum[s]]

(* Every directory entry names an allocated inode, and no more entries name *)
(* an inode than its link count says, at every step of every system call:   *)
(* freeing it on the last unlink() leaves no entry behind.                  *)
NoDangling ==
  \A j \in Inum :
    LET named == {<<i, n>> \in Inum \X Name : dents[i][n] = j}
    IN  /\ named # {} => dinode[j].type # "free"
        /\ Cardinality(named) <= dinode[j].nlink

WaitsFor(p) ==
  CASE pc[p] \in {"namex", "exists", "new", "victim"} -> ip[p]
    [] pc[p] = "namex_end" /\ Wants(p) = "inode" -> ip[p]
    [] pc[p] = "parent" -> dp[p]
    [] pc[p] = "link_bad" -> old[p]
    [] OTHER -> 0

(* No processes wait for inode locks in a circle: unlink() and create() lock *)
(* a directory and then an inode below it, all others one at a time.  iput()  *)
(* never waits at all: "ip->ref == 1 means no other process can have ip       *)
(* locked, so this acquiresleep() won't block (or deadlock)".                 *)
NoLockCycle ==
  /\ \A p \in Proc : At(p, "iput") /\ Unlinked(put[p]) => owner[put[p]] = Nobody
  /\ panicked = "none" =>
       \A Q \in SUBSET Proc \ {{}} : \E p \in Q :
         \/ WaitsFor(p) = 0
         \/ owner[WaitsFor(p)] \notin Q
====
