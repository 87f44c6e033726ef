# A TLA+ model of the xv6 kernel

A verification development for the xv6-riscv kernel in `src/` (the commented variant) and for the
user programs that are up when it is idle: TLA+ modules for the concurrent and crash-sensitive parts,
TLC runs on small instances, and TLAPS proofs for the redo log, the buffer cache, the disk driver,
the pipe, the scheduler with its spinlocks, and the process table. `PROJECT.json` lists components,
runs, the source lines behind each definition, mutants, hazards, findings and theorems.

## 1. Inventory

| Part of the system | Source (`src/`) | State | Operations | What is hard about it | Modules |
|---|---|---|---|---|---|
| redo log | `kernel/log.c` | `log.lh`, `outstanding`, `committing`, log area | `begin_op`, `log_write`, `end_op`, `commit`, recovery | crashes, group commit, log space | `Log`, `AtomicTxn`; proofs `LogProof`, `LogAtomicProof` |
| buffer cache | `kernel/bio.c` | buffers, LRU list, `refcnt`, sleeplocks | `bread`, `bwrite`, `brelse`, `bpin`, `bunpin` | recycling races, no free buffer | `Bio`, `BlockStore`; proof `BioProof` |
| virtio disk driver | `kernel/virtio_disk.c` | descriptors, two rings | `virtio_disk_rw`, `virtio_disk_intr` | the device runs concurrently, wrapping indices | `VirtioDisk`; proof `VirtioDiskProof` |
| scheduler, sleep/wakeup | `kernel/proc.c`, `swtch.S` | `p->state`, `p->chan`, `c->proc` | `scheduler`, `sched`, `yield`, `sleep`, `wakeup` | lost wakeups, two CPUs on one stack | `Sched`, `Monitor`; proofs `SchedInv`, `SchedProof` |
| spinlocks, interrupt nesting | `kernel/spinlock.c` | `locked`, `noff`, `intena` | `acquire`, `release`, `push_off`, `pop_off` | handlers that spin for the CPU's own lock | `Sched`; proofs as above |
| sleeplocks | `kernel/sleeplock.c` | `locked` | `acquiresleep`, `releasesleep` | as sleep/wakeup | `Sched`, `Monitor` |
| traps and interrupts | `kernel/trap.c`, `*.S` | `SIE`, pending interrupts | `devintr`, timer preemption, exit of the killed | nesting with locks and `swtch` | `Sched`, `ProcLife` (partly) |
| process life cycle | `kernel/proc.c`, `sysproc.c`, `user/init.c` | process table, `wait_lock` | `fork`, `exit`, `wait`, `kill` | parents and children exit together | `ProcLife`; proof `ProcLifeProof` |
| pipes | `kernel/pipe.c` | ring, open flags | `pipewrite`, `piperead`, `pipeclose` | two channels, wrap, close while others sleep | `Pipe`, `Fifo`; proof `PipeProof` |
| inodes and directories | `kernel/fs.c` | dinodes, `itable`, entries | `iget`, `ilock`, `iput`, `ialloc`, `namex`, `dirlink` | free versus reuse, lock order | `Fs` (partly) |
| directory system calls | `kernel/sysfile.c` | `cwd` | `open`, `create`, `link`, `unlink`, `mkdir`, `chdir` | failure paths that undo | `Fs` (partly) |
| file contents | `kernel/fs.c`, `file.c` | bitmap, block maps, offsets | `balloc`, `bmap`, `itrunc`, `readi`, `writei`, `filewrite` | full disk, copy faults and crashes half way | `FileData`, `FileStore` |
| open files | `kernel/file.c`, `sysfile.c`, `pipe.c` | `ofile`, `ftable` | `dup`, `close`, `pipe`, sharing across `fork` | ends that stay open, limits | `Files`, in `Shell` |
| memory, `exec` | `kernel/kalloc.c`, `vm.c`, `exec.c` | free list, page tables | `uvmalloc`, `uvmcopy`, `copyout`, `exec` | failure after every page | `Vm` |
| console, UART | `kernel/console.c`, `uart.c` | input ring, transmit ring | `consoleread`, `consoleintr`, `uartputc`, `uartstart` | editing against reading, full rings | `Console`, `LineInput`, in `Shell` |
| shell, echo, cat | `user/sh.c`, `echo.c`, `cat.c` | command trees, descriptors | parser, `runcmd` | redirections and pipelines over processes | `ShParse`, `ShSem`, `Shell` |
| clock | `kernel/trap.c`, `sysproc.c` | `ticks` | `clockintr`, `sys_sleep` | a counter and one sleep loop | not modelled |
| the rest | boot, dispatch, strings, other user programs, `assembly.s` | | | sequential or generated | not modelled |

How the parts use each other: a file system call runs between `begin_op()` and `end_op()` (`Log`),
works on inodes and directories (`Fs`) and on file contents (`FileData`) whose blocks are buffers
(`Bio`), and the buffers move to and from the disk through the driver (`VirtioDisk`). All of them
sleep and wake through `Sched`, which implements `Monitor`, the atomic form of sleep and wakeup that
the other modules assume. `FileData` takes the log at its word, that is, at `AtomicTxn`, which `Log`
implements. `Log` models the part of the buffer cache that it needs; `Bio` is the full version.
`Shell` composes `Console`, `Files` and the parser of the shell into a session at the terminal.

## 2. Modules and code

Every module treats a section under one spinlock as one step, except `Sched`, where each spinlock
operation is a step. A panic sets `panicked`, after which nothing happens.

**`Log`** (`log.c`). `pc` says whether a process is outside, waiting in `begin_op()`, in an operation
or committing; `lh` is the in-memory header, `pin`/`cache`/`owner` the buffers, `home`, the log area
and the head on disk survive `Crash`. `commit()` runs without `log.lock`, so each block of
`write_log`, `write_head`, `install_trans` and the clearing of the header is a step. `Crash` may come
between any two steps or in the middle of a block write (`Torn`), and again during recovery. Two
assumptions about the disk: the header fits in one sector, so its write is atomic, and a write that
was reported complete is durable. `AtomicTxn` is the promise: what a crash falls back to moves only
between operation boundaries.

**`Sched`** (`proc.c`, `spinlock.c`, `sleeplock.c`, `trap.c`). CPUs each run a scheduler thread or a
process; the processes do what `bread()` does. `noff`, `intena`, `SIE`, the timer and the disk
interrupt are explicit; `want` is the lock an `acquire()` spins for after its `push_off()`. Memory is
sequentially consistent. `Monitor` is the promise.

**`ProcLife`** (`proc.c`, `init.c`). Entry 1 of the table is init, with its main loop; the others make
any system calls. `wait_lock` and the `p->lock` a zombie keeps until its CPU has switched away are
explicit. Running out of memory in `fork()` and a bad address in `wait()` are choices.

**`Pipe`** (`pipe.c`). Byte by byte; `nread` and `nwrite` wrap at `UINT`. `Fifo` is the promise.

**`VirtioDisk`** (`virtio_disk.c`). The device takes chains at its own pace and completes them in any
order. A ring entry that has been consumed is `Dead`: reading it is an error.

**`Bio`** (`bio.c`). A buffer's sleeplock is taken after `bcache.lock` is released and given back before
it is taken again. The callers keep the rules at the head of `bio.c`. `BlockStore` is the promise. The
actors are *uses*, from `bread()` to `brelse()`: a process has one, or a second within the first
(`Outer`), as `write_log()` and `install_trans()` with a log block and its home block, and `bmap()` and
`itrunc()` with an indirect block and the bitmap or a zeroed block. `Rank` says which of the three kinds
a block is of, and is fixed. On disk a freed block may come back as one of another kind. That such a
change meets no holder or waiter is read off the code and not checked: a file's blocks are reached only
under its inode's lock, `itrunc()` releases the indirect block's buffer before it frees the block
(`fs.c:437`), and no operation runs during a commit. Nobody in the code holds three buffers.

**`Fs`** (`fs.c`, `sysfile.c`). Inodes on disk (`dinode`, `dents`, `parent`), the table (`inum`, `ref`,
`valid`, `mem`, `owner`) and per process the locals of its system call. Locks and `iput()` split the
calls into steps: `iput()` is the last-reference test, the freeing with `itable.lock` released, and the
final decrement. Paths have any length, their elements are chosen as `namex()` reaches them. File
contents, devices, "." and the transaction around a call are left out; a process has one open file.
`dirlink()`'s lookup of an existing name, which takes and drops a reference under the directory's
lock, is one step, and so is the scan of `ialloc()`, which in C may miss an inode freed behind it. The
fields of a table entry without references are dead and are reset.

**`FileData`** (`fs.c`, `file.c`). The bitmap, the block maps with their indirect block, sizes and
contents; each `bread()` .. `brelse()` is a step and an inode's lock is held across steps, so two
files interleave at every block. A file has four block numbers, one of them indirect, and a block two
bytes. `MaxFaults` bounds failing copies and `MaxCrashes` crashes. The history variable `held` says
what a failed copy left in a buffer. `FileStore` is the promise: a `write(2)` is a series of pieces,
each of which happens at once at the file's offset.

**`Vm`** (`kalloc.c`, `vm.c`, `exec.c`, `proc.c`). Every `kalloc()` and `kfree()` is a step, so two
processes compete page by page and each call may find the free list empty at any point. Page tables
keep three levels with two entries each and a page has two units. The pages of an address space are
named by their use, physical pages by their owner.

**`Console`**, **`Files`**, **`ShParse`**, **`Shell`** (`console.c`, `uart.c`, `file.c`, `sysfile.c`,
`sh.c`, `echo.c`, `cat.c`). A process of `Shell` is the list of the things it still does: system
calls of its program, and inside the kernel the rest of a call of several steps. Keys arrive at any
time; the transmit buffer drains at any time. `ShParse` is the recursive descent parser on sequences
of characters, `ShSem` says what a command line means without processes or descriptors, and
`LineInput` what the console promises a reader.

## 3. Runs

| Run | Instance | Distinct states | Shows |
|---|---|---|---|
| `log` | 2 processes, 2 blocks, 2 reservations, crashes | 108,730 | inductive invariant `IInv` (no panic, no reservation exceeded), `QuiescentDurable`, a sleeper in `begin_op()` has a waker; implements `AtomicTxn` |
| `sched_safe` | 2 CPUs, 2 processes | 128,199 | no panic, no process on two CPUs, interrupt nesting; implements `Monitor` |
| `sched_live` | 1 CPU, 3 processes | 26,699 | sleepers wake, runnable processes run |
| `proc_life` | 4 entries, 4 pids, `kill` of 0 and 3 | 1,095,260 | table, orphans, statuses, zombies, init |
| `pipe` | 1 reader, 2 writers, 2 bytes, counters modulo 4 | 232,928 | implements `Fifo`, freed once, no unjustified sleep |
| `virtio` | 3 processes, 7 descriptors, indices modulo 14 | 83,692 | descriptors, device ownership, completions, sleeps |
| `bio` | 2 processes with 2 uses each, 3 blocks, 2 buffers, 1 pin | 107,612 | implements `BlockStore`, exact counts, no circle of waits for buffers |
| `fs` | 2 processes, root and 2 inodes, 2 names | 817,298 | exact references, fresh cache, no dangling entry, no lock circle, no panic |
| `fs_dotdot` | 1 process, root and 2 inodes, paths with ".." | violation | lookup of ".." in a removed directory below a removed one |
| `file` | 2 processes, 2 inodes, 3 open files, 4 blocks, a fault, a crash | 84,722 | blocks have one owner, crashes leave whole transactions, operations fit their reservation; implements `FileStore` |
| `vm` | 2 processes, memories of 14, 16 and 28 pages | 578,681 | every page has one owner, images map exactly their size, copies are exact, no panic |
| `shell` | 27 sessions, 7 processes, transmit buffer and pipes of 2 | 104,821 | commands do to files and print what they mean, input lines, the prompt returns |

**Why the bounds suffice for the cases of interest.** `log` has operations that share a group and that
do not, absorption, a wait for space as well as for a commit, and crashes in every phase. `sched_safe`
has one process more than can be in the sleeplock, and wakeups from the other CPU. `proc_life` has a
grandchild whose parent exits before it. The pipe is smaller than the longest write and its counters
wrap. With 7 descriptors two requests are in flight and the third process gets one descriptor and has
to give it back. `bio` has more blocks than buffers, a pin that leaves one, and a block of each rank. In `fs` the workloads
of the two processes are bounded (`Workloads`), each time one builds while the other unlinks;
`MaxLink` bounds `link()`, whose count can grow without limit (section 6). In `file` the disk fills
up, two writers share an offset, a file is truncated below an offset, and blocks move from one file
to the other. In `vm` memory is short enough for `sbrk` alone to use it up, and large enough for two
programs to be replaced at once. The sessions of `shell` have every kind of command, combined, lines
with errors, erasures and more keys than the console holds; they start with the console's indices just
below the end of their range (`Before`), so that they wrap.

**Larger instances run by hand**, without error: `Sched` with 2 CPUs and 3 processes, safety, 1,988,135
states; `Sched` with 2 CPUs and 2 processes, all liveness properties, 255,693 states in 20 minutes; `Fs`
with one process making every call but `unlink` against one that unlinks, 2,261,155 states, and with
`create`, `chdir`, `mkdir`, `link` against `open` and `unlink`, 5,076,056 states. The inductive invariants
of section 4 were checked on the instances of their runs before they were proved.

**Symmetry** is used only in runs whose properties are invariants or safety refinements.

**Deadlock** is checked where a step must always be possible. It is off in `proc_life` (bounded pids),
`pipe` (all ends closed), `bio` and `fs` (a panic stops the machine; circles of lock waits in `fs` are
the invariant `NoLockCycle`, and in `bio` the invariant `NoWaitCycle`), `file` (finished
workloads) and `shell` (the end of the input).

**Fairness.** `Sched`: a CPU keeps executing and a spinning one eventually wins the atomic swap (strong
fairness, as `amoswap` gives no queue but the holder always releases); the timer ticks, far enough
apart for a process to execute between two ticks; a raised interrupt is taken once a CPU keeps having
`SIE` set; the device finishes. `Shell`: only that something happens as long as something can
(`WF_vars(Next)`), less than the scheduler gives. None is assumed of sleeplocks: `releasesleep()` wakes
all waiters, who contend again, so one of them may be overtaken for ever. For the buffers of `Bio` the
claim is therefore that waits form no circle, not that each `bread()` returns.

**Mutants.** Each property of a passing run has a mutant: an operator marked `Mutant`, defined before
the definition it stands for, with a plausible bug that TLC finds with that property.

## 4. Proofs

TLAPS proves the following for every value of the constants within the named assumptions of each
module. `PROJECT.json` lists the theorems with the properties of the runs that they generalise. A
run checks the property on a small instance; the inductive invariants were checked by TLC on those
instances as well before they were proved.

**`Log`** (`LogProof`, `LogAtomicProof`). `TypeCorrect` and `SleeperHasWakerAlways` hold without further
assumptions. `NoPanicAlways`, `IInvAlways`, `CacheCoherentAlways`, `QuiescentDurableAlways` and
`CrashAtomicProved` assume `OpFits`: an operation stays below its reservation, and the log area is large
enough (`file` checks the first, `< MAXOPBLOCKS`, for `writei()` and `itrunc()`). Crash atomicity is not inductive: one has
to know where the committed and the latest contents of every block are in each phase. `IInv` has
`TypeOK`, `ControlInv` (who is active, who commits, how far its loop is), `SpaceInv` (what was reserved
and not used is still free, by a cardinality argument over the reserved entries) and `DataInv` (header
and log agree, pinned blocks are those not installed, what has been copied to the log area so far,
what recovery has done). The refinement maps `stable` to what recovery would make of the disk
(`Replay`), `current` to what readers see, and shows that `WriteHead` alone moves `stable`, while every
other step, `Crash` included, leaves it or stutters.

**`Pipe`** (`PipeProof`; any readers and writers, `PIPESIZE` divides `UINT` and is less). `PInv`: the ends
still open are those whose last process has not closed, and `kfree` follows the last of both. The
counters wrap, so `nwrite == nread + PIPESIZE` is a comparison modulo `UINT`; the lemmas on `%` turn it into
the length of the contents, which gives `IsFifoProved`, the refinement of `Fifo`. For
`SleepIsJustifiedAlways` the invariant adds that whoever may have changed what a sleeper waits for is
still on its way to `wakeup()`.

**`Bio`** (`BioProof`; any processes, blocks, buffers). `BInv`: a block is in one buffer at most,
`refcnt` is exactly the number of pins and of processes between `bget()` and `brelse()`, a buffer is locked
by one of those, and a buffer that nobody holds or has pinned equals the disk. The last one
is what lets `bget()` recycle: `IsStoreProved` is the refinement of `BlockStore`. For `NoWaitCycleAlways`
the invariant adds (`NestInv`) that only who is between `acquiresleep()` and `releasesleep()` owns a buffer,
and that who waits for a second buffer has one of lower rank: along a circle the ranks would grow.

**`Sched`** (`SchedInv` for the steps of processes and of `scheduler()`, `SchedProof` for the interrupt
handler, `acquire()` and the theorems; any CPUs, any table size). `SInv` says of every lock which code
position owns it (`LockInv`: a `p->lock` may belong to a process about to switch, to the scheduler that
resumed, or to the one that picked it), of every CPU that `noff` counts its locks, that interrupted
code holds none, and what the saved `intena` is (`CpuInv`), and of a process that is on no CPU that it
is switched out and not `RUNNING` (`ProcInv`). From it follow `OneCPUAlways` and
`WellFormedAlways`, with the absence of every panic of `acquire()`, `release()`, `pop_off()`
and `sched()`.

**`ProcLife`** (`ProcLifeProof`; any table size, any number of pids). `LInv` describes the
table by the code positions of its processes: who holds `wait_lock` and each `p->lock`, half made
children of `fork()`, zombies that still have to switch away, and for each entry a parent that is live or
init. It gives `WellFormedAlways`, `ParentCanWaitAlways`, `StatusDeliveredAlways`,
`OnlyVictimsKilledAlways` and `InitHasShellAlways`.

**`VirtioDisk`** (`VirtioDiskProof`; any processes, `NUM` at least 3 and dividing the range of the
indices). `DInv`: the descriptors of the requests under way form disjoint chains of three
(`ChainInv`); the entries of a ring between its two indices are distinct heads of such chains
(`RingInv`); every used entry not yet handled has an interrupt or a handler to come. Nothing in
`virtio_disk.c` tests whether a ring has room: it has because distinct heads are outnumbered by the
descriptors, a pigeonhole argument on the window between the indices. The theorems are
`WellFormedAlways`, `DeviceOwnsBufferAlways`, `CompletionNoticedAlways` and `SleepIsJustifiedAlways`.

**Only model-checked**: `Fs`, `FileData`, `Vm` and the modules of `Shell`; that `Sched` implements `Monitor`
(`SleepAtomic`); liveness (`SleepersWake`, `RunnableRuns`, `PromptReturns`), for which
the prover has no rules; and what the recursive definitions of `ShParse` and `ShSem` compute, which
would take induction over the text.

## 5. Plan

Proofs to come: the reference counts of `Fs`, page ownership in `Vm`,
block ownership in `FileData`. Models to come: the clock (`ticks` and `sys_sleep()` with its
wrap-around) and the allocator of the user library (`umalloc.c`). Liveness of `Log` (`begin_op()` returns), `Pipe`,
`VirtioDisk` and `ProcLife` (init reaps) waits until the fairness conditions can be checked in reasonable
time.

## 6. Observations about the code

One run shows a disagreement between the code and what its assertions say:

* `fs_dotdot`: a removed directory that is still a current directory keeps its entry "..", but `sys_unlink()`
  has taken back the link it stood for (`sysfile.c:206`). If the directory above is removed as well, its inode is
  freed, and looking up ".." ends in `panic("ilock: no type")`.

Others the models take into account:

* When `either_copyin()` fails within a block, `writei()` (`fs.c:509`) releases a buffer it has partly
  overwritten without `log_write()`, unlike the rule at the head of `bio.c`. Readers see the bytes until the
  buffer is recycled. `FileData` has both steps, and `FileStore` allows either contents.
* A file created in, or linked into, a directory that was removed after its lookup loses the entry when the
  directory is freed and keeps its link count: it is never freed. `NoDangling` therefore bounds the number of
  entries by the link count and does not equate them.
* `kill(0)` matches a free table entry (`proc.c:571`), whose next owner starts out killed. `OnlyVictimsKilled`
  excepts runs of `kill(0)`.
* A writer killed in the middle of a write returns without `wakeup(&pi->nread)` (`pipe.c:95`); the reader may
  sleep with bytes in the pipe until the next call or close. `SleepIsJustified` excepts it.
* `log_write()` tests for a full log before it looks for the block in it (`log.c:233`), so an operation that has
  used its whole reservation could panic on an absorbed write. The callers stay below the reservation.
* `NBUF` equals `LOGSIZE`: with the log nearly full hardly a buffer is left. The exact reference counts of
  `Bio`'s `WellFormed` show that `bget()` panics only when every buffer is in use.
* The shell's `>>` opens its file without truncating it but writes at offset 0 (`sh.c:360`); after `&` only
  the end of the line is accepted, not a second command; of several output redirections the first is the
  one that is written, and the later files are created.
* The comment in `proc.h:123` calls the pid the index in the process table; pids only grow.

## 7. Not modelled

The clock and `sys_sleep()`; `fstat`, `mknod`; the dispatch of system calls and the fetching of their
arguments; the kernel's own page table and permissions other than the user bit; control-P and killed
readers of the console, and the race of an echo with `uartstart()` for the transmit register; exit statuses
and successful `cd` in the shell; the user library and the other user programs; weak memory ordering, the
PLIC, boot, device negotiation of the disk, the RAM disk; formatting and strings; the assembly listing.
The link count is unbounded here (a `short` in C).
