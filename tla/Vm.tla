-------------------------------- MODULE Vm --------------------------------
(***************************************************************************)
(* User memory: the physical page allocator (kernel/kalloc.c), the Sv39    *)
(* page tables (kernel/vm.c) and the system calls that build, grow, copy,  *)
(* replace and free an address space: sbrk, fork, exec, exit and wait      *)
(* (kernel/proc.c, kernel/exec.c, sys_exec).                               *)
(*                                                                         *)
(* Every kalloc and kfree is a step of its own (kmem.lock is taken and     *)
(* released inside), so the calls of several processes interleave page by  *)
(* page and any of them can find the free list empty half way.  Page       *)
(* tables keep their three levels but have two entries per table and a     *)
(* page holds PGSIZE = 2 units, so an address space is eight pages.        *)
(***************************************************************************)
EXTENDS Integers, Sequences, FiniteSets, FiniteSetsExt

CONSTANTS
    Proc,           \* the slots of the process table
    initproc,       \* the slot userinit() fills
    Scenarios,      \* physical memory, in pages, and the calls processes make
    Programs,       \* what exec may load: sequences of [vaddr, memsz]
    Grow,           \* the arguments of sbrk
    MaxSz           \* bound on the size sbrk may reach

NoPage == <<>>                      \* the null pointer
TrampolinePA == <<"trampoline">>    \* kernel text, never on the free list

PGSIZE == 2
VPage == 0..7                   \* the virtual pages below MAXVA
MAXVA == 8 * PGSIZE
TRAMPOLINE == 7
TRAPFRAME == 6
UintMod == 64                   \* 2^64 scaled down; sizes are unsigned

ASSUME VmAssumption ==
    /\ initproc \in Proc
    /\ \A s \in Scenarios : s.npages \in Nat /\ s.npages >= 7
    /\ Grow \subseteq Int
    /\ MaxSz \in Nat /\ MaxSz <= TRAPFRAME * PGSIZE

VARIABLES
    env,        \* the scenario: env.npages pages of memory, env.calls allowed
    used,       \* the pages that are not on kmem.freelist
    pt,         \* page tables: p->pagetable ("cur"), exec's pagetable ("new")
    tf,         \* p->trapframe
    state,      \* p->state, as far as memory is concerned
    sz,         \* p->sz
    arg,        \* the page sys_exec() allocated for an argument
    k           \* what the process is doing in the kernel

vars == <<env, used, pt, tf, state, sz, arg, k>>

Unmapped == [pa |-> NoPage, user |-> FALSE]

NoTable == [root |-> NoPage,
            mid  |-> [i \in 0..1 |-> NoPage],
            low  |-> [i \in 0..3 |-> NoPage],
            leaf |-> [va \in VPage |-> Unmapped]]

Space == Proc \X {"cur", "new"}
Cur(p) == <<p, "cur">>
New(p) == <<p, "new">>

\* Locals of the call in progress: its program counter, what mappages() is
\* called for, the table worked on, the loop from lo over a to hi, the page
\* in hand, the new size, exec's sz and the segments left to load.
Idle == [pc |-> "user", kind |-> "none", tgt |-> Cur(initproc), a |-> 0, lo |-> 0,
         hi |-> 0, mem |-> NoPage, new |-> 0, nsz |-> 0, segs |-> <<>>,
         then |-> "none", after |-> "none"]

Range2(i) == {2 * i, 2 * i + 1}

\* PGROUNDUP(n) / PGSIZE
PgUp(n) == (n + PGSIZE - 1) \div PGSIZE

----------------------------------------------------------------------------
(* kalloc.c                                                                *)

\* No caller depends on which of the free pages it gets.  A page is named
\* after the use it is taken for: the process, the role, the position in the
\* page table, and a number that tells the image exec() builds from the one
\* it replaces.
Image(s) ==
    CASE pt[s].root # NoPage -> pt[s].root[4]
      [] pt[s].root = NoPage /\ s[2] = "new" -> 1 - pt[Cur(s[1])].root[4]
      [] OTHER -> 0

FreePage(s, role, i) ==
    LET pg == <<s[1], role, i, Image(s)>>
    IN IF pg \in used THEN <<s[1], role, i, 2>> ELSE pg

Kalloc(pg) == Cardinality(used) < env.npages /\ used' = used \cup {pg}

KallocFails == Cardinality(used) = env.npages /\ UNCHANGED used

Kfree(pg) == used' = used \ {pg}

----------------------------------------------------------------------------
(* vm.c: walk() and the entries of a table                                 *)

Root(va) == va \div 4
Mid(va) == va \div 2

Mapped(t, va) ==
    /\ t.mid[Root(va)] # NoPage
    /\ t.low[Mid(va)] # NoPage
    /\ t.leaf[va] # Unmapped

\* walkaddr(): the page behind a user address, or 0.
Walkaddr(t, va) ==
    IF va \in VPage /\ Mapped(t, va) /\ t.leaf[va].user THEN t.leaf[va].pa ELSE NoPage

TableMissing(t, va) == t.mid[Root(va)] = NoPage \/ t.low[Mid(va)] = NoPage

\* walk(alloc = 1) found an entry invalid and links a new table into it.
TablePage(s, va) ==
    IF pt[s].mid[Root(va)] = NoPage THEN FreePage(s, "mid", Root(va))
                                    ELSE FreePage(s, "low", Mid(va))

AddTable(t, va, pg) ==
    IF t.mid[Root(va)] = NoPage THEN [t EXCEPT !.mid[Root(va)] = pg]
                                ELSE [t EXCEPT !.low[Mid(va)] = pg]

\* The entry mappages() writes for va, by caller: proc_pagetable() maps the
\* two special pages, uvmalloc() and uvmcopy() the page in hand.
Entry(p) ==
    LET r == k[p]
    IN CASE r.kind = "pagetable" /\ r.a = TRAMPOLINE -> [pa |-> TrampolinePA, user |-> FALSE]
         [] r.kind = "pagetable" /\ r.a = TRAPFRAME  -> [pa |-> tf[r.tgt[1]], user |-> FALSE]
         [] r.kind = "copy" -> [pa |-> r.mem, user |-> pt[Cur(p)].leaf[r.a].user]
         [] OTHER -> [pa |-> r.mem, user |-> TRUE]

\* The process whose address space the call works on.
Owner(p) == k[p].tgt[1]

Goto(p, pc) == k' = [k EXCEPT ![p].pc = pc]

Return(p) == k' = [k EXCEPT ![p] = Idle]

\* uvmalloc(tgt, old, new) begins.
EnterAlloc(p, kind, tgt, old, new) ==
    k' = [k EXCEPT ![p].pc = "page", ![p].kind = kind, ![p].tgt = tgt,
                   ![p].lo = PgUp(old), ![p].a = PgUp(old),
                   ![p].new = IF new < old THEN old ELSE new,
                   ![p].hi = IF new < old THEN PgUp(old) ELSE PgUp(new)]

\* Mutant: uvmdealloc() called with its sizes swapped, which undoes nothing.
EnterUnmapSwapped(p, lo, hi, then) ==
    k' = [k EXCEPT ![p] = [Idle EXCEPT !.pc = "unmap", !.kind = k[p].kind, !.tgt = k[p].tgt,
                                       !.nsz = k[p].nsz, !.a = hi, !.hi = lo, !.then = then]]

\* uvmunmap(tgt, lo, hi - lo, 1) begins, then continues at then.
EnterUnmap(p, lo, hi, then) ==
    k' = [k EXCEPT ![p] = [Idle EXCEPT !.pc = "unmap", !.kind = k[p].kind, !.tgt = k[p].tgt,
                                       !.nsz = k[p].nsz, !.a = lo, !.hi = hi, !.then = then]]

\* proc_freepagetable(s, n) begins: it unmaps the trampoline and the trap
\* frame, which are not freed, then the n units of memory, then the tables.
DropSpecial(t) == [t EXCEPT !.leaf[TRAMPOLINE] = Unmapped, !.leaf[TRAPFRAME] = Unmapped]

FreePagetable(p, table, s, n, after) ==
    /\ pt' = [table EXCEPT ![s] = DropSpecial(@)]
    /\ k' = [k EXCEPT ![p] =
                [Idle EXCEPT !.pc = IF Mapped(table[s], TRAMPOLINE) /\ Mapped(table[s], TRAPFRAME)
                                    THEN "unmap" ELSE "panic",
                             !.tgt = s, !.hi = PgUp(n), !.then = "freewalk", !.after = after]]

\* exec's label bad, entered with the inode already given back or not.
Bad(p) ==
    IF pt[New(p)].root # NoPage
    THEN FreePagetable(p, pt, New(p), k[p].nsz, "argv")
    ELSE Goto(p, "argv") /\ UNCHANGED pt

----------------------------------------------------------------------------
(* Steps shared by the system calls                                        *)

\* One round of the loops of uvmalloc() and uvmcopy() takes a page ("pte
\* should exist", "page not present" if the parent has none to copy) ...
InLoop(p) == k[p].pc = "page" /\ k[p].a < k[p].hi
LoopDone(p, kind) == k[p].pc = "page" /\ k[p].a >= k[p].hi /\ k[p].kind = kind

TakePage(p) ==
    /\ InLoop(p)
    /\ IF k[p].kind = "copy" /\ ~Mapped(pt[Cur(p)], k[p].a)
       THEN Goto(p, "panic") /\ UNCHANGED used
       ELSE LET pg == FreePage(k[p].tgt, "mem", k[p].a)
            IN Kalloc(pg) /\ k' = [k EXCEPT ![p].mem = pg, ![p].pc = "map"]
    /\ UNCHANGED <<env, pt, tf, state, sz, arg>>

\* ... or finds none and undoes the rounds before.
TakePageFails(p) ==
    /\ InLoop(p)
    /\ KallocFails
    /\ EnterUnmap(p, k[p].lo, k[p].a, "failed")
    /\ UNCHANGED <<env, pt, tf, state, sz, arg>>

\* mappages() -> walk(): a table on the way is missing and is allocated.
WalkAlloc(p) ==
    /\ k[p].pc = "map" /\ TableMissing(pt[k[p].tgt], k[p].a)
    /\ LET pg == TablePage(k[p].tgt, k[p].a)
       IN Kalloc(pg) /\ pt' = [pt EXCEPT ![k[p].tgt] = AddTable(@, k[p].a, pg)]
    /\ UNCHANGED <<env, tf, state, sz, arg, k>>

\* Mutant: the page in hand is forgotten.
MapFailsLeak(p) ==
    /\ k[p].pc = "map" /\ TableMissing(pt[k[p].tgt], k[p].a)
    /\ KallocFails
    /\ IF k[p].kind = "pagetable"
       THEN /\ pt' = [pt EXCEPT ![k[p].tgt].leaf[TRAMPOLINE] = Unmapped]
            /\ k' = [k EXCEPT ![p].pc = "freewalk", ![p].a = 0, ![p].after = "nopagetable"]
       ELSE EnterUnmap(p, k[p].lo, k[p].a, "failed") /\ UNCHANGED pt
    /\ UNCHANGED <<env, tf, state, sz, arg>>

\* mappages() fails.  uvmalloc() and uvmcopy() free the page in hand and undo
\* the earlier rounds; proc_pagetable() unmaps the trampoline if it was mapped
\* and frees the tables.
MapFails(p) ==
    /\ k[p].pc = "map" /\ TableMissing(pt[k[p].tgt], k[p].a)
    /\ Cardinality(used) = env.npages
    /\ IF k[p].kind = "pagetable"
       THEN /\ pt' = [pt EXCEPT ![k[p].tgt].leaf[TRAMPOLINE] = Unmapped]
            /\ k' = [k EXCEPT ![p].pc = "freewalk", ![p].a = 0, ![p].after = "nopagetable"]
            /\ UNCHANGED used
       ELSE /\ Kfree(k[p].mem)
            /\ EnterUnmap(p, k[p].lo, k[p].a, "failed")
            /\ UNCHANGED pt
    /\ UNCHANGED <<env, tf, state, sz, arg>>

\* mappages() writes the entry ("remap" if it is valid already).
MapPage(p) ==
    /\ k[p].pc = "map" /\ ~TableMissing(pt[k[p].tgt], k[p].a)
    /\ IF Mapped(pt[k[p].tgt], k[p].a)
       THEN Goto(p, "panic") /\ UNCHANGED pt
       ELSE /\ pt' = [pt EXCEPT ![k[p].tgt].leaf[k[p].a] = Entry(p)]
            /\ k' = [k EXCEPT ![p].mem = NoPage,
                              ![p].a = IF k[p].kind = "pagetable" THEN @ - 1 ELSE @ + 1,
                              ![p].pc = IF k[p].kind # "pagetable" THEN "page"
                                        ELSE IF k[p].a = TRAMPOLINE THEN "map" ELSE "made"]
    /\ UNCHANGED <<env, used, tf, state, sz, arg>>

\* uvmunmap() frees one page ("walk", "not mapped").
UnmapPage(p) ==
    /\ k[p].pc = "unmap" /\ k[p].a < k[p].hi
    /\ LET t == pt[k[p].tgt]
       IN IF Mapped(t, k[p].a)
          THEN /\ Kfree(t.leaf[k[p].a].pa)
               /\ pt' = [pt EXCEPT ![k[p].tgt].leaf[k[p].a] = Unmapped]
               /\ k' = [k EXCEPT ![p].a = @ + 1]
          ELSE Goto(p, "panic") /\ UNCHANGED <<env, used, pt>>
    /\ UNCHANGED <<env, tf, state, sz, arg>>

UnmapEnds(p) == k[p].pc = "unmap" /\ k[p].a >= k[p].hi

\* uvmfree() goes on to the tables.
StartFreewalk(p) ==
    /\ UnmapEnds(p) /\ k[p].then = "freewalk"
    /\ k' = [k EXCEPT ![p].pc = "freewalk", ![p].a = 0, ![p].hi = 0]
    /\ UNCHANGED <<env, used, pt, tf, state, sz, arg>>

\* freewalk(): tables are freed depth first, one kfree() at a time; a table
\* with a valid leaf left is "freewalk: leaf".
LowTables(t) == {j \in 0..3 : t.low[j] # NoPage}
MidTables(t) == {i \in 0..1 : t.mid[i] # NoPage}

Freewalk(p) ==
    LET s == k[p].tgt
        t == pt[s]
        i == Min(MidTables(t))
        lows == LowTables(t) \cap Range2(i)
    IN /\ k[p].pc = "freewalk"
       /\ IF \E va \in VPage : t.leaf[va] # Unmapped
          THEN Goto(p, "panic") /\ UNCHANGED <<env, used, pt>>
          ELSE CASE MidTables(t) = {} ->
                      /\ Kfree(t.root)
                      /\ pt' = [pt EXCEPT ![s] = NoTable]
                      /\ Goto(p, k[p].after)
                 [] MidTables(t) # {} /\ lows # {} ->
                      /\ Kfree(t.low[Min(lows)])
                      /\ pt' = [pt EXCEPT ![s].low[Min(lows)] = NoPage]
                      /\ UNCHANGED k
                 [] OTHER ->
                      /\ Kfree(t.mid[i])
                      /\ pt' = [pt EXCEPT ![s].mid[i] = NoPage]
                      /\ UNCHANGED k
       /\ UNCHANGED <<env, tf, state, sz, arg>>

\* proc_pagetable() -> uvmcreate(): the root table.
CreateRoot(p) ==
    /\ k[p].pc = "root"
    /\ LET pg == FreePage(k[p].tgt, "root", 0)
       IN Kalloc(pg) /\ pt' = [pt EXCEPT ![k[p].tgt].root = pg]
    /\ k' = [k EXCEPT ![p].kind = "pagetable", ![p].a = TRAMPOLINE, ![p].pc = "map"]
    /\ UNCHANGED <<env, tf, state, sz, arg>>

CreateRootFails(p) ==
    /\ k[p].pc = "root"
    /\ KallocFails
    /\ Goto(p, "nopagetable")
    /\ UNCHANGED <<env, pt, tf, state, sz, arg>>

----------------------------------------------------------------------------
(* sbrk: sys_sbrk(), growproc(), uvmdealloc()                              *)

Runs(p) == state[p] = "live" /\ k[p].pc = "user"

Sbrk(p) ==
    /\ Runs(p) /\ "sbrk" \in env.calls
    /\ \E n \in Grow :
         LET new == (sz[p] + n) % UintMod
         IN IF n > 0
            THEN /\ new <= MaxSz
                 /\ EnterAlloc(p, "grow", Cur(p), sz[p], new)
                 /\ UNCHANGED sz
            ELSE IF new >= sz[p]
            THEN UNCHANGED <<k, sz>>
            ELSE /\ k' = [k EXCEPT ![p].pc = "unmap", ![p].tgt = Cur(p), ![p].a = PgUp(new),
                                   ![p].hi = PgUp(sz[p]), ![p].new = new, ![p].then = "shrunk"]
                 /\ UNCHANGED sz
    /\ UNCHANGED <<env, used, pt, tf, state, arg>>

Grown(p) ==
    /\ LoopDone(p, "grow")
    /\ sz' = [sz EXCEPT ![p] = k[p].new]
    /\ Return(p)
    /\ UNCHANGED <<env, used, pt, tf, state, arg>>

Shrunk(p) ==
    /\ UnmapEnds(p) /\ k[p].then = "shrunk"
    /\ sz' = [sz EXCEPT ![p] = k[p].new]
    /\ Return(p)
    /\ UNCHANGED <<env, used, pt, tf, state, arg>>

GrowFails(p) ==
    /\ UnmapEnds(p) /\ k[p].then = "failed" /\ k[p].kind = "grow"
    /\ Return(p)
    /\ UNCHANGED <<env, used, pt, tf, state, sz, arg>>

----------------------------------------------------------------------------
(* fork: allocproc(), uvmcopy(), freeproc()                                *)

Fork(p) ==
    /\ Runs(p) /\ "fork" \in env.calls
    /\ \E q \in Proc :
         /\ state[q] = "unused"
         /\ state' = [state EXCEPT ![q] = "used"]
         /\ k' = [k EXCEPT ![p].pc = "trapframe", ![p].tgt = Cur(q)]
    /\ UNCHANGED <<env, used, pt, tf, sz, arg>>

ForkTrapframe(p) ==
    /\ k[p].pc = "trapframe"
    /\ LET pg == FreePage(k[p].tgt, "trapframe", 0)
       IN Kalloc(pg) /\ tf' = [tf EXCEPT ![Owner(p)] = pg]
    /\ Goto(p, "root")
    /\ UNCHANGED <<env, pt, state, sz, arg>>

ForkTrapframeFails(p) ==
    /\ k[p].pc = "trapframe"
    /\ KallocFails
    /\ Goto(p, "slot")
    /\ UNCHANGED <<env, pt, tf, state, sz, arg>>

\* proc_pagetable() failed in allocproc(): freeproc() has no table to free.
ForkNoPagetable(p) ==
    /\ k[p].pc = "nopagetable" /\ Owner(p) # p
    /\ Kfree(tf[Owner(p)])
    /\ tf' = [tf EXCEPT ![Owner(p)] = NoPage]
    /\ Goto(p, "slot")
    /\ UNCHANGED <<env, pt, state, sz, arg>>

ForkCopy(p) ==
    /\ k[p].pc = "made" /\ Owner(p) # p
    /\ EnterAlloc(p, "copy", k[p].tgt, 0, sz[p])
    /\ UNCHANGED <<env, used, pt, tf, state, sz, arg>>

Forked(p) ==
    /\ LoopDone(p, "copy")
    /\ sz' = [sz EXCEPT ![Owner(p)] = sz[p]]
    /\ state' = [state EXCEPT ![Owner(p)] = "live"]
    /\ Return(p)
    /\ UNCHANGED <<env, used, pt, tf, arg>>

\* freeproc(q): the trap frame, then the page table with sz[q] units.
Freeproc(p, q) ==
    /\ Kfree(tf[q])
    /\ tf' = [tf EXCEPT ![q] = NoPage]
    /\ FreePagetable(p, pt, Cur(q), sz[q], "slot")

ForkFails(p) ==
    /\ UnmapEnds(p) /\ k[p].then = "failed" /\ k[p].kind = "copy"
    /\ Freeproc(p, Owner(p))
    /\ UNCHANGED <<env, state, sz, arg>>

\* The end of freeproc(): the slot is UNUSED again.
SlotFreed(p) ==
    /\ k[p].pc = "slot"
    /\ sz' = [sz EXCEPT ![Owner(p)] = 0]
    /\ state' = [state EXCEPT ![Owner(p)] = "unused"]
    /\ Return(p)
    /\ UNCHANGED <<env, used, pt, tf, arg>>

\* exit() keeps the memory; wait() in another process frees it.
Exit(p) ==
    /\ Runs(p) /\ p # initproc
    /\ state' = [state EXCEPT ![p] = "zombie"]
    /\ UNCHANGED <<env, used, pt, tf, sz, arg, k>>

Wait(p) ==
    /\ Runs(p)
    /\ \E q \in Proc :
         /\ state[q] = "zombie"
         /\ Freeproc(p, q)
         /\ state' = [state EXCEPT ![q] = "used"]
    /\ UNCHANGED <<env, sz, arg>>

----------------------------------------------------------------------------
(* exec: sys_exec() and exec()                                             *)

\* sys_exec() copies the argument into a page of its own.
Exec(p) ==
    /\ Runs(p) /\ "exec" \in env.calls
    /\ \E prog \in Programs :
         k' = [k EXCEPT ![p].pc = "open", ![p].segs = prog, ![p].tgt = New(p)]
    /\ LET pg == FreePage(Cur(p), "arg", 0)
       IN Kalloc(pg) /\ arg' = [arg EXCEPT ![p] = pg]
    /\ UNCHANGED <<env, pt, tf, state, sz>>

\* Without an argument no page is taken.
ExecNoArg(p) ==
    /\ Runs(p) /\ "exec" \in env.calls
    /\ \E prog \in Programs :
         k' = [k EXCEPT ![p].pc = "open", ![p].segs = prog, ![p].tgt = New(p)]
    /\ UNCHANGED <<env, used, pt, tf, state, sz, arg>>

\* namei(), the ELF header and its magic number may be wrong.
ExecOpen(p) ==
    /\ k[p].pc = "open"
    /\ Goto(p, "root") \/ Goto(p, "argv")
    /\ UNCHANGED <<env, used, pt, tf, state, sz, arg>>

ExecNoPagetable(p) ==
    /\ k[p].pc = "nopagetable" /\ Owner(p) = p
    /\ Goto(p, "argv")
    /\ UNCHANGED <<env, used, pt, tf, state, sz, arg>>

\* The loop over the program headers: the next segment is allocated.
ExecSegment(p) ==
    /\ k[p].pc = "made" /\ Owner(p) = p /\ k[p].segs # <<>>
    /\ LET ph == Head(k[p].segs)
       IN EnterAlloc(p, "segment", New(p), k[p].nsz, ph.vaddr + ph.memsz)
    /\ UNCHANGED <<env, used, pt, tf, state, sz, arg>>

\* A header that cannot be read or is malformed: goto bad.
ExecBadHeader(p) ==
    /\ k[p].pc = "made" /\ Owner(p) = p /\ k[p].segs # <<>>
    /\ Bad(p)
    /\ UNCHANGED <<env, used, tf, state, sz, arg>>

\* loadseg() fills the pages of the segment; its readi() may come short.
SegmentPages(ph) == (ph.vaddr \div PGSIZE)..(PgUp(ph.vaddr + ph.memsz) - 1)

ExecLoad(p) ==
    /\ LoopDone(p, "segment") /\ k[p].new # 0
    /\ IF \E va \in SegmentPages(Head(k[p].segs)) : Walkaddr(pt[New(p)], va) = NoPage
       THEN Goto(p, "panic")
       ELSE k' = [k EXCEPT ![p].nsz = k[p].new, ![p].segs = Tail(@), ![p].pc = "made"]
    /\ UNCHANGED <<env, used, pt, tf, state, sz, arg>>

\* uvmalloc() returned 0 for an empty first segment, or the read failed.
ExecLoadFails(p) ==
    /\ LoopDone(p, "segment")
    /\ FreePagetable(p, pt, New(p), k[p].new, "argv")
    /\ UNCHANGED <<env, used, tf, state, sz, arg>>

\* Two pages above the program, the first made inaccessible.
ExecStack(p) ==
    /\ k[p].pc = "made" /\ Owner(p) = p /\ k[p].segs = <<>>
    /\ LET base == PgUp(k[p].nsz) * PGSIZE
       IN k' = [k EXCEPT ![p].pc = "page", ![p].kind = "stack", ![p].nsz = base,
                         ![p].lo = PgUp(base), ![p].a = PgUp(base),
                         ![p].new = base + 2 * PGSIZE, ![p].hi = PgUp(base) + 2]
    /\ UNCHANGED <<env, used, pt, tf, state, sz, arg>>

\* uvmclear()
ExecGuard(p) ==
    /\ LoopDone(p, "stack")
    /\ pt' = [pt EXCEPT ![New(p)].leaf[k[p].hi - 2].user = FALSE]
    /\ k' = [k EXCEPT ![p].nsz = k[p].new, ![p].pc = "args"]
    /\ UNCHANGED <<env, used, tf, state, sz, arg>>

ExecAllocFails(p) ==
    /\ UnmapEnds(p) /\ k[p].then = "failed" /\ k[p].kind \in {"segment", "stack"}
    /\ Bad(p)
    /\ UNCHANGED <<env, used, tf, state, sz, arg>>

\* The argument does not fit on the stack page.
ExecArgsFail(p) ==
    /\ k[p].pc = "args" /\ arg[p] # NoPage
    /\ Bad(p)
    /\ UNCHANGED <<env, used, tf, state, sz, arg>>

\* The arguments are copied out to the top page (copyout() fails unless it is
\* a user page) and the new image replaces the old, which is then freed.
ExecCommit(p) ==
    /\ k[p].pc = "args"
    /\ IF Walkaddr(pt[New(p)], k[p].hi - 1) = NoPage
       THEN Bad(p) /\ UNCHANGED sz
       ELSE /\ sz' = [sz EXCEPT ![p] = k[p].nsz]
            /\ FreePagetable(p, [pt EXCEPT ![Cur(p)] = pt[New(p)], ![New(p)] = pt[Cur(p)]],
                             New(p), sz[p], "argv")
    /\ UNCHANGED <<env, used, tf, state, arg>>

\* sys_exec() frees the argument page, whether exec() succeeded or not.
ExecReturn(p) ==
    /\ k[p].pc = "argv"
    /\ Kfree(arg[p])
    /\ arg' = [arg EXCEPT ![p] = NoPage]
    /\ Return(p)
    /\ UNCHANGED <<env, pt, tf, state, sz>>

----------------------------------------------------------------------------
(* copyout(), copyin() and copyinstr(): page by page through walkaddr().   *)
(* The result is whether the copy succeeded and the physical places of the *)
(* bytes copied, in order.                                                 *)

Bytes(t, from, to) == [i \in 1..(to - from) |->
                         <<Walkaddr(t, (from + i - 1) \div PGSIZE), (from + i - 1) % PGSIZE>>]

Fault == [ok |-> FALSE, at |-> <<>>]

\* Mutant: the offset in the first page is not taken into account.
ChunkFromStart(va, len) == Min({PGSIZE, len})

\* How much one round of the loop moves: the rest of the page, at most len.
Chunk(va, len) == Min({PGSIZE - (va % PGSIZE), len})

\* The chunk of a round lies in one page, whose address walkaddr() gave.
ChunkBytes(t, va, n) == [i \in 1..n |-> <<Walkaddr(t, va \div PGSIZE), (va % PGSIZE) + i - 1>>]

NextPage(va) == (va - (va % PGSIZE)) + PGSIZE

Copy(t, dstva, length) ==
    LET f[va \in 0..MAXVA, len \in 0..length] ==
          IF len = 0 THEN [ok |-> TRUE, at |-> <<>>]
          ELSE IF Walkaddr(t, va \div PGSIZE) = NoPage THEN Fault
          ELSE LET n == Chunk(va, len)
                   r == f[NextPage(va), len - n]
               IN [ok |-> r.ok, at |-> ChunkBytes(t, va, n) \o r.at]
    IN f[dstva, length]

\* A string whose first NUL is at address nul.
Copyinstr(t, srcva, length, nul) ==
    LET f[va \in 0..MAXVA, max \in 0..length] ==
          IF max = 0 \/ Walkaddr(t, va \div PGSIZE) = NoPage THEN Fault
          ELSE LET n == Chunk(va, max)
                   r == f[NextPage(va), max - n]
               IN IF nul < va + n THEN [ok |-> TRUE, at |-> ChunkBytes(t, va, nul - va + 1)]
                  ELSE [ok |-> r.ok, at |-> ChunkBytes(t, va, n) \o r.at]
    IN f[srcva, length]

----------------------------------------------------------------------------
(* userinit() has run: initproc has one page, its tables and a trap frame. *)

First(role, i) == <<initproc, role, i, 0>>

FirstTable ==
    [root |-> First("root", 0),
     mid  |-> [i \in 0..1 |-> First("mid", i)],
     low  |-> [i \in 0..3 |-> IF i \in {0, 3} THEN First("low", i) ELSE NoPage],
     leaf |-> [va \in VPage |->
                 CASE va = TRAMPOLINE -> [pa |-> TrampolinePA, user |-> FALSE]
                   [] va = TRAPFRAME  -> [pa |-> First("trapframe", 0), user |-> FALSE]
                   [] va = 0          -> [pa |-> First("mem", 0), user |-> TRUE]
                   [] OTHER           -> Unmapped]]

Init ==
    /\ env \in Scenarios
    /\ used = {First(r, 0) : r \in {"root", "mid", "low", "trapframe", "mem"}}
              \cup {First("mid", 1), First("low", 3)}
    /\ pt = [s \in Space |-> IF s = Cur(initproc) THEN FirstTable ELSE NoTable]
    /\ tf = [p \in Proc |-> IF p = initproc THEN First("trapframe", 0) ELSE NoPage]
    /\ state = [p \in Proc |-> IF p = initproc THEN "live" ELSE "unused"]
    /\ sz = [p \in Proc |-> IF p = initproc THEN PGSIZE ELSE 0]
    /\ arg = [p \in Proc |-> NoPage]
    /\ k = [p \in Proc |-> Idle]

Next == \E p \in Proc :
    \/ Sbrk(p) \/ Grown(p) \/ Shrunk(p) \/ GrowFails(p)
    \/ Fork(p) \/ ForkTrapframe(p) \/ ForkTrapframeFails(p) \/ ForkNoPagetable(p)
    \/ ForkCopy(p) \/ Forked(p) \/ ForkFails(p) \/ SlotFreed(p)
    \/ Exit(p) \/ Wait(p)
    \/ Exec(p) \/ ExecNoArg(p) \/ ExecOpen(p) \/ ExecNoPagetable(p) \/ ExecSegment(p)
    \/ ExecBadHeader(p) \/ ExecLoad(p) \/ ExecLoadFails(p) \/ ExecStack(p)
    \/ ExecGuard(p) \/ ExecAllocFails(p) \/ ExecArgsFail(p) \/ ExecCommit(p)
    \/ ExecReturn(p)
    \/ CreateRoot(p) \/ CreateRootFails(p)
    \/ TakePage(p) \/ TakePageFails(p) \/ WalkAlloc(p)
    \/ MapFails(p) \/ MapPage(p) \/ UnmapPage(p) \/ StartFreewalk(p) \/ Freewalk(p)

Spec == Init /\ [][Next]_vars

----------------------------------------------------------------------------
(* Properties                                                              *)

\* p's image is not being changed: it runs, it is a zombie nobody has begun to
\* free, or it is in a call that works on another table.
Settled(p) ==
    \/ state[p] = "live" /\ (k[p].pc = "user" \/ k[p].tgt # Cur(p))
    \/ state[p] = "zombie"

ImageComplete(p) ==
    LET t == pt[Cur(p)]
    IN /\ \A va \in VPage : t.leaf[va] # Unmapped =>
             t.mid[Root(va)] # NoPage /\ t.low[Mid(va)] # NoPage
       /\ {va \in VPage : Mapped(t, va)} = 0..(PgUp(sz[p]) - 1) \cup {TRAPFRAME, TRAMPOLINE}
       /\ t.leaf[TRAPFRAME] = [pa |-> tf[p], user |-> FALSE]
       /\ t.leaf[TRAMPOLINE] = [pa |-> TrampolinePA, user |-> FALSE]

\* No call panics (remap, not mapped, freewalk: leaf, page not present,
\* loadseg), a slot that is not in use holds no memory, and outside the call
\* that changes it every image maps exactly the pages below p->sz, the
\* process's own trap frame and the trampoline, whatever calls failed for want
\* of memory before (kernel/vm.c, kernel/exec.c, growproc, fork, freeproc).
WellFormed ==
    /\ \A p \in Proc : k[p].pc # "panic"
    /\ \A p \in Proc : Settled(p) => ImageComplete(p)
    /\ \A p \in Proc : state[p] = "unused" =>
         pt[Cur(p)] = NoTable /\ tf[p] = NoPage /\ sz[p] = 0
    /\ \A p \in Proc : k[p].pc = "user" =>
         pt[New(p)] = NoTable /\ arg[p] = NoPage /\ k[p] = Idle

\* The pages held somewhere that will free them, and the number of places.
Tables(s) == {<<"root", 0>>} \cup {<<"mid", i>> : i \in 0..1} \cup {<<"low", i>> : i \in 0..3}
TableAt(s, x) == CASE x[1] = "root" -> pt[s].root
                   [] x[1] = "mid"  -> pt[s].mid[x[2]]
                   [] x[1] = "low"  -> pt[s].low[x[2]]

HeldBy(p) == {tf[p], arg[p], k[p].mem} \ {NoPage}
HeldIn(s) == ({TableAt(s, x) : x \in Tables(s)}
              \cup {pt[s].leaf[va].pa : va \in VPage \ {TRAPFRAME}}) \ {NoPage, TrampolinePA}

Places(p) == Cardinality({x \in 1..3 : <<tf[p], arg[p], k[p].mem>>[x] # NoPage})
PlacesIn(s) ==
    Cardinality({x \in Tables(s) : TableAt(s, x) # NoPage})
    + Cardinality({va \in VPage \ {TRAPFRAME} : pt[s].leaf[va].pa \notin {NoPage, TrampolinePA}})

\* Every page that kalloc() handed out and kfree() did not take back is held
\* in exactly one place, and nothing on the free list is held at all: no page
\* is lost, freed twice or mapped into two images, also when sbrk, fork or
\* exec runs out of memory half way and undoes its work while the other
\* process allocates and frees.
PagesOwnedOnce ==
    /\ used = UNION ({HeldBy(p) : p \in Proc} \cup {HeldIn(s) : s \in Space})
    /\ Cardinality(used) = MapThenSumSet(Places, Proc) + MapThenSumSet(PlacesIn, Space)

UserByte(t, va) == Walkaddr(t, va \div PGSIZE) # NoPage

\* copyout(), copyin() and copyinstr() split a range at page boundaries.  They
\* succeed exactly when every byte asked for (up to the NUL, for a string) lies
\* in the user's own pages, they move each byte once and in order, and when
\* they fail what they moved is the part before the first page that is missing
\* or not the user's (the stack guard, the trap frame, the trampoline).
CopyExact ==
    (\A q \in Proc : k[q].pc = "user") =>
    \A p \in Proc, va \in 0..MAXVA, len \in 0..5 : state[p] = "live" =>
      LET t == pt[Cur(p)]
          bad == {x \in va..(va + len - 1) : ~UserByte(t, x)}
          end == IF bad = {} THEN va + len ELSE Min(bad)
      IN /\ Copy(t, va, len) = [ok |-> bad = {}, at |-> Bytes(t, va, end)]
         /\ \A nul \in va..(va + len) :
              LET r == Copyinstr(t, va, len, nul)
              IN /\ r.ok <=> nul < end
                 /\ r.at = Bytes(t, va, IF r.ok THEN nul + 1 ELSE end)
====
