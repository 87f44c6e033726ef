-------------------------------- MODULE Pipe --------------------------------
(***************************************************************************)
(* kernel/pipe.c: one pipe between the processes that hold its ends, byte  *)
(* by byte, with the closing of the ends through fileclose() (kernel/      *)
(* file.c) and kill().  sleep() and wakeup() are atomic (see Monitor).     *)
(*                                                                         *)
(* nread and nwrite are uints: they wrap around at UINT (2^32 in C).       *)
(***************************************************************************)
EXTENDS Integers, Sequences

CONSTANTS
  Reader, Writer,  \* the processes that hold the read and the write end
  Byte,            \* the bytes written
  PIPESIZE,        \* 512
  UINT,            \* 2^32
  MaxN,            \* the largest n passed to read() or write()
  Killable,        \* the processes that kill() may be aimed at
  Nobody           \* no process

Proc == Reader \cup Writer

ASSUME EndsAssumption ==
  /\ Reader \cap Writer = {} /\ Nobody \notin Proc
  /\ Killable \subseteq Proc
ASSUME SizeAssumption ==
  /\ PIPESIZE \in Nat \ {0} /\ UINT \in Nat \ {0} /\ MaxN \in Nat
  /\ UINT % PIPESIZE = 0 /\ PIPESIZE < UINT

VARIABLES
  data, nread, nwrite, readopen, writeopen,  \* struct pipe
  freed,    \* 1 after kfree(pi)
  lock,     \* the process that holds pi->lock
  ends,     \* the processes whose descriptor counts in the ref of an end's struct file
  pc,       \* where each process is
  left,     \* n - i
  chan,     \* what a process sleeps on: "nread", "nwrite", or "none" when awake
  killed    \* p->killed

pipevars == <<data, nread, nwrite, readopen, writeopen, freed>>
vars == <<pipevars, lock, ends, pc, left, chan, killed>>

(* pipealloc(), and fork()s that hand out the ends. *)
Init ==
  /\ \E b \in Byte : data = [k \in 0 .. PIPESIZE - 1 |-> b]
  /\ nread = 0 /\ nwrite = 0
  /\ readopen = 1 /\ writeopen = 1
  /\ freed = 0
  /\ lock = Nobody
  /\ ends = Proc
  /\ pc = [p \in Proc |-> "user"]
  /\ left = [p \in Proc |-> 0]
  /\ chan = [p \in Proc |-> "none"]
  /\ killed = [p \in Proc |-> 0]

Goto(p, l) == pc' = [pc EXCEPT ![p] = l]

At(p, l) == chan[p] = "none" /\ pc[p] = l

Woken(c) == [p \in Proc |-> IF chan[p] = c THEN "none" ELSE chan[p]]

Wakeup(c) == chan' = Woken(c)

(* Mutant: the full pipe is not noticed when nread is about to wrap. *)
FullNoWrap == nwrite = nread + PIPESIZE

Full == nwrite = (nread + PIPESIZE) % UINT

Empty == nread = nwrite

-----------------------------------------------------------------------------
(* A process calls write() or read() with n bytes; a killed one exits. *)
Call(p, n) ==
  /\ At(p, "user") /\ killed[p] = 0 /\ p \in ends
  /\ left' = [left EXCEPT ![p] = n]
  /\ Goto(p, IF p \in Writer THEN "w_acquire" ELSE "r_acquire")
  /\ UNCHANGED <<pipevars, lock, ends, chan, killed>>

(* acquire(&pi->lock), on entry and when sleep() returns. *)
Acquire(p) ==
  /\ At(p, "w_acquire") \/ At(p, "r_acquire")
  /\ lock = Nobody
  /\ lock' = p
  /\ Goto(p, IF pc[p] = "w_acquire" THEN "w_loop" ELSE "r_wait")
  /\ UNCHANGED <<pipevars, ends, left, chan, killed>>

Return(p) ==
  /\ lock' = Nobody
  /\ left' = [left EXCEPT ![p] = 0]
  /\ Goto(p, "user")

(* pipewrite(): the read end is closed, or the writer was killed. *)
WriteError(p) ==
  /\ At(p, "w_loop") /\ left[p] > 0
  /\ readopen = 0 \/ killed[p] = 1
  /\ Return(p)
  /\ UNCHANGED <<pipevars, ends, chan, killed>>

CanWrite(p) == At(p, "w_loop") /\ left[p] > 0 /\ readopen = 1 /\ killed[p] = 0

(* Mutant: a writer that finds the pipe full does not wake the readers. *)
WriteFullSilent(p) ==
  /\ CanWrite(p) /\ Full
  /\ chan' = [chan EXCEPT ![p] = "nwrite"]
  /\ lock' = Nobody
  /\ Goto(p, "w_acquire")
  /\ UNCHANGED <<pipevars, ends, left, killed>>

(* The pipe is full: wakeup(&pi->nread) and sleep(&pi->nwrite, &pi->lock). *)
WriteFull(p) ==
  /\ CanWrite(p) /\ Full
  /\ chan' = [Woken("nread") EXCEPT ![p] = "nwrite"]
  /\ lock' = Nobody
  /\ Goto(p, "w_acquire")
  /\ UNCHANGED <<pipevars, ends, left, killed>>

(* One byte is copied in. *)
WriteByte(p, b) ==
  /\ CanWrite(p) /\ ~Full
  /\ data' = [data EXCEPT ![nwrite % PIPESIZE] = b]
  /\ nwrite' = (nwrite + 1) % UINT
  /\ left' = [left EXCEPT ![p] = @ - 1]
  /\ UNCHANGED <<nread, readopen, writeopen, freed, lock, ends, pc, chan, killed>>

(* copyin() fails: the loop ends early. *)
WriteFault(p) ==
  /\ CanWrite(p) /\ ~Full
  /\ left' = [left EXCEPT ![p] = 0]
  /\ UNCHANGED <<pipevars, lock, ends, pc, chan, killed>>

(* The loop is over: wakeup(&pi->nread) and release. *)
WriteDone(p) ==
  /\ At(p, "w_loop") /\ left[p] = 0
  /\ Wakeup("nread")
  /\ Return(p)
  /\ UNCHANGED <<pipevars, ends, killed>>

-----------------------------------------------------------------------------
(* piperead(): killed while the pipe is empty. *)
ReadKilled(p) ==
  /\ At(p, "r_wait")
  /\ Empty /\ writeopen = 1 /\ killed[p] = 1
  /\ Return(p)
  /\ UNCHANGED <<pipevars, ends, chan, killed>>

(* The pipe is empty: sleep(&pi->nread, &pi->lock). *)
ReadSleep(p) ==
  /\ At(p, "r_wait")
  /\ Empty /\ writeopen = 1 /\ killed[p] = 0
  /\ chan' = [chan EXCEPT ![p] = "nread"]
  /\ lock' = Nobody
  /\ Goto(p, "r_acquire")
  /\ UNCHANGED <<pipevars, ends, left, killed>>

ReadReady(p) ==
  /\ At(p, "r_wait")
  /\ ~Empty \/ writeopen = 0
  /\ Goto(p, "r_loop")
  /\ UNCHANGED <<pipevars, lock, ends, left, chan, killed>>

(* One byte is copied out; when copyout() fails the byte is gone and the  *)
(* loop ends.                                                             *)
ReadByte(p, ok) ==
  /\ At(p, "r_loop") /\ left[p] > 0 /\ ~Empty
  /\ nread' = (nread + 1) % UINT
  /\ left' = [left EXCEPT ![p] = IF ok THEN @ - 1 ELSE 0]
  /\ UNCHANGED <<data, nwrite, readopen, writeopen, freed, lock, ends, pc, chan, killed>>

(* The loop is over: wakeup(&pi->nwrite) and release. *)
ReadDone(p) ==
  /\ At(p, "r_loop") /\ (left[p] = 0 \/ Empty)
  /\ Wakeup("nwrite")
  /\ Return(p)
  /\ UNCHANGED <<pipevars, ends, killed>>

-----------------------------------------------------------------------------
(* close() of the process's end, or exit(): fileclose() drops its          *)
(* reference, and the last one goes on to pipeclose().                     *)
Fileclose(p) ==
  /\ At(p, "user") /\ p \in ends
  /\ ends' = ends \ {p}
  /\ LET same == IF p \in Writer THEN Writer ELSE Reader
     IN  Goto(p, IF ends' \cap same = {} THEN "pipeclose" ELSE "closed")
  /\ UNCHANGED <<pipevars, lock, left, chan, killed>>

(* Mutant: pipeclose() frees the pipe when one end is closed. *)
PipecloseEager(p) ==
  /\ At(p, "pipeclose") /\ lock = Nobody
  /\ IF p \in Writer
       THEN writeopen' = 0 /\ readopen' = readopen /\ Wakeup("nread")
       ELSE readopen' = 0 /\ writeopen' = writeopen /\ Wakeup("nwrite")
  /\ freed' = 1
  /\ Goto(p, "closed")
  /\ UNCHANGED <<data, nread, nwrite, lock, ends, left, killed>>

(* pipeclose(): close the end, wake the other side, and free the pipe when *)
(* both ends are closed.                                                   *)
Pipeclose(p) ==
  /\ At(p, "pipeclose") /\ lock = Nobody
  /\ IF p \in Writer
       THEN writeopen' = 0 /\ readopen' = readopen /\ Wakeup("nread")
       ELSE readopen' = 0 /\ writeopen' = writeopen /\ Wakeup("nwrite")
  /\ freed' = IF readopen' = 0 /\ writeopen' = 0 THEN 1 ELSE freed
  /\ Goto(p, "closed")
  /\ UNCHANGED <<data, nread, nwrite, lock, ends, left, killed>>

(* kill(): mark the process, and make it runnable if it sleeps. *)
Kill(p) ==
  /\ p \in Killable /\ p \in ends
  /\ killed[p] = 0
  /\ killed' = [killed EXCEPT ![p] = 1]
  /\ chan' = [chan EXCEPT ![p] = "none"]
  /\ UNCHANGED <<pipevars, lock, ends, pc, left>>

-----------------------------------------------------------------------------
KernelStep(p) ==
  \/ Acquire(p)
  \/ WriteError(p) \/ WriteFull(p) \/ (\E b \in Byte : WriteByte(p, b)) \/ WriteFault(p) \/ WriteDone(p)
  \/ ReadKilled(p) \/ ReadSleep(p) \/ ReadReady(p) \/ (\E ok \in BOOLEAN : ReadByte(p, ok)) \/ ReadDone(p)
  \/ Pipeclose(p)

UserStep(p) == (\E n \in 0 .. MaxN : Call(p, n)) \/ Fileclose(p)

Next == \E p \in Proc : KernelStep(p) \/ UserStep(p) \/ Kill(p)

Spec == Init /\ [][Next]_vars

-----------------------------------------------------------------------------
(* Properties *)

Size == (nwrite - nread) % UINT

(* The fields of struct pipe hold values of their kind, and the pipe never *)
(* holds more than PIPESIZE bytes.                                         *)
TypeOK ==
  /\ data \in [0 .. PIPESIZE - 1 -> Byte]
  /\ nread \in 0 .. UINT - 1 /\ nwrite \in 0 .. UINT - 1
  /\ Size <= PIPESIZE
  /\ readopen \in 0 .. 1 /\ writeopen \in 0 .. 1 /\ freed \in 0 .. 1
  /\ lock \in Proc \cup {Nobody}
  /\ ends \subseteq Proc
  /\ left \in [Proc -> 0 .. MaxN]
  /\ chan \in [Proc -> {"none", "nread", "nwrite"}]
  /\ killed \in [Proc -> 0 .. 1]

Queue == [k \in 1 .. Size |-> data[(nread + k - 1) % PIPESIZE]]

Channel == INSTANCE Fifo WITH
  Capacity <- PIPESIZE, queue <- Queue, readable <- readopen, writable <- writeopen

(* The circular buffer with its wrapping counters is a bounded queue:      *)
(* bytes come out in the order they went in, none is overwritten, read     *)
(* twice or invented, whichever processes share the ends.                  *)
IsFifo == Channel!Spec

(* No process is inside pipewrite(), piperead() or pipeclose() when the    *)
(* pipe has been freed.                                                    *)
NoUseAfterFree == freed = 1 => \A p \in Proc : pc[p] \in {"user", "closed"} /\ p \notin ends

(* The pipe is well formed: its types and at most PIPESIZE bytes while it  *)
(* exists, and nobody in it once pipeclose() has freed it.                 *)
WellFormed == TypeOK /\ NoUseAfterFree

(* Whoever sleeps has reason to: with the lock free, a sleeping reader     *)
(* means an empty pipe with a writer, a sleeping writer a full one with a  *)
(* reader (the sleeps marked pipe-empty and pipewrite-full).  The          *)
(* exception: a writer that is killed in the middle of pipewrite() returns *)
(* without wakeup(&pi->nread), and the reader sleeps on with what it left. *)
SleepIsJustified ==
  lock = Nobody => \A p \in Proc :
    /\ chan[p] = "nread" => (Empty \/ \E w \in Writer : killed[w] = 1) /\ writeopen = 1
    /\ chan[p] = "nwrite" => Full /\ readopen = 1
====
