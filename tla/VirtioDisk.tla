----------------------------- MODULE VirtioDisk -----------------------------
(***************************************************************************)
(* kernel/virtio_disk.c and the device it drives: the table of NUM         *)
(* descriptors, the avail and used rings, virtio_disk_rw() and             *)
(* virtio_disk_intr().  Each process does I/O on a buffer of its own (it   *)
(* holds the buffer's sleeplock), so a process also names its struct buf.  *)
(* sleep() and wakeup() are atomic (see Monitor).                          *)
(*                                                                         *)
(* The device takes chains from the avail ring at its own pace, finishes   *)
(* them in any order, and raises its interrupt for every entry it adds to  *)
(* the used ring.  The ring indices are uint16s: they wrap at UINT16.      *)
(*                                                                         *)
(* A ring entry that its consumer has read is dead until it is written     *)
(* again.  Dead stands for whatever it holds: a consumer that reads one    *)
(* has gone wrong.                                                         *)
(***************************************************************************)
EXTENDS Integers, FiniteSets

CONSTANTS
  Proc,      \* the processes doing I/O, and their buffers
  NUM,       \* descriptors, entries of each ring
  UINT16,    \* 2^16
  Nobody,    \* a null struct buf, or nobody holding the lock
  Intr       \* virtio_disk_intr() as the holder of vdisk_lock

ASSUME ProcAssumption == Nobody \notin Proc /\ Intr \notin Proc /\ Nobody # Intr
ASSUME NumAssumption == NUM \in Nat /\ NUM >= 3 /\ UINT16 \in Nat \ {0} /\ UINT16 % NUM = 0

Desc == 0 .. NUM - 1
Dead == NUM

VARIABLES
  free,      \* disk.free[]
  desc,      \* disk.desc[]: the buffer it belongs to, and next with F_NEXT
  infob,     \* disk.info[].b
  status,    \* disk.info[].status: 255 until the device sets it to 0
  avail,     \* avail->ring[]
  availidx,  \* avail->idx
  used,      \* used->ring[]
  usedidx,   \* used->idx, written by the device
  used_idx,  \* disk.used_idx
  bdisk,     \* b->disk
  lock,      \* who holds disk.vdisk_lock
  pc, chan,  \* where each process is and what it sleeps on
  idx,       \* the first descriptor of the process's chain
  seen,      \* device: how far it has read the avail ring
  inflight,  \* device: the chains it works on
  isr,       \* device: INTERRUPT_STATUS
  hpc,       \* the interrupt handler
  panicked

drivervars == <<free, desc, infob, avail, availidx, bdisk, idx>>
devicevars == <<used, usedidx, status, seen, inflight>>
vars == <<drivervars, devicevars, used_idx, lock, pc, chan, isr, hpc, panicked>>

NoDesc == [buf |-> Nobody, next |-> 0, more |-> 0]

(* virtio_disk_init() *)
Init ==
  /\ free = [i \in Desc |-> 1]
  /\ desc = [i \in Desc |-> NoDesc]
  /\ infob = [i \in Desc |-> Nobody]
  /\ status = [i \in Desc |-> 0]
  /\ avail = [i \in Desc |-> Dead] /\ availidx = 0
  /\ used = [i \in Desc |-> Dead] /\ usedidx = 0 /\ used_idx = 0
  /\ bdisk = [p \in Proc |-> 0]
  /\ lock = Nobody
  /\ pc = [p \in Proc |-> "idle"]
  /\ chan = [p \in Proc |-> "none"]
  /\ idx = [p \in Proc |-> 0]
  /\ seen = 0 /\ inflight = {} /\ isr = 0
  /\ hpc = "none"
  /\ panicked = "none"

At(p, l) == panicked = "none" /\ chan[p] = "none" /\ pc[p] = l

Goto(p, l) == pc' = [pc EXCEPT ![p] = l]

(* wakeup(&disk.free[0]), in the chan of the others. *)
WakeFree(ch) == [q \in Proc |-> IF ch[q] = "free" THEN "none" ELSE ch[q]]

FreeDescs == {i \in Desc : free[i] = 1}

Lowest(S) == CHOOSE i \in S : \A j \in S : i <= j

-----------------------------------------------------------------------------
(* virtio_disk_rw() *)

Call(p) ==
  /\ At(p, "idle")
  /\ Goto(p, "alloc")
  /\ UNCHANGED <<drivervars, devicevars, used_idx, lock, chan, isr, hpc, panicked>>

(* alloc3_desc() fails: the descriptors it got are freed again, which      *)
(* wakes the other waiters, and the process sleeps on disk.free[0].        *)
AllocWait(p) ==
  /\ At(p, "alloc") /\ lock = Nobody
  /\ Cardinality(FreeDescs) < 3
  /\ chan' = [(IF FreeDescs = {} THEN chan ELSE WakeFree(chan)) EXCEPT ![p] = "free"]
  /\ UNCHANGED <<drivervars, devicevars, used_idx, lock, pc, isr, hpc, panicked>>

(* alloc3_desc() succeeds: format the chain of three, b->disk = 1. *)
AllocFormat(p) ==
  /\ At(p, "alloc") /\ lock = Nobody
  /\ Cardinality(FreeDescs) >= 3
  /\ LET i0 == Lowest(FreeDescs)
         i1 == Lowest(FreeDescs \ {i0})
         i2 == Lowest(FreeDescs \ {i0, i1})
     IN  /\ free' = [i \in Desc |-> IF i \in {i0, i1, i2} THEN 0 ELSE free[i]]
         /\ desc' = [desc EXCEPT ![i0] = [buf |-> p, next |-> i1, more |-> 1],
                                 ![i1] = [buf |-> p, next |-> i2, more |-> 1],
                                 ![i2] = [buf |-> p, next |-> 0, more |-> 0]]
         /\ status' = [status EXCEPT ![i0] = 255]
         /\ infob' = [infob EXCEPT ![i0] = p]
         /\ idx' = [idx EXCEPT ![p] = i0]
  /\ bdisk' = [bdisk EXCEPT ![p] = 1]
  /\ lock' = p
  /\ Goto(p, "ring")
  /\ UNCHANGED <<avail, availidx, used, usedidx, seen, inflight, used_idx, chan, isr, hpc, panicked>>

(* Mutant: the slot after avail->idx. *)
RingPutNextSlot(p) ==
  /\ At(p, "ring")
  /\ avail' = [avail EXCEPT ![(availidx + 1) % NUM] = idx[p]]
  /\ Goto(p, "notify")
  /\ UNCHANGED <<free, desc, infob, availidx, bdisk, idx, devicevars, used_idx, lock, chan, isr, hpc, panicked>>

(* avail->ring[avail->idx % NUM] = idx[0] *)
RingPut(p) ==
  /\ At(p, "ring")
  /\ avail' = [avail EXCEPT ![availidx % NUM] = idx[p]]
  /\ Goto(p, "notify")
  /\ UNCHANGED <<free, desc, infob, availidx, bdisk, idx, devicevars, used_idx, lock, chan, isr, hpc, panicked>>

(* avail->idx += 1, notify the device, and sleep(b, &disk.vdisk_lock). *)
Notify(p) ==
  /\ At(p, "notify")
  /\ availidx' = (availidx + 1) % UINT16
  /\ chan' = [chan EXCEPT ![p] = "buf"]
  /\ lock' = Nobody
  /\ Goto(p, "wait")
  /\ UNCHANGED <<free, desc, infob, avail, bdisk, idx, devicevars, used_idx, isr, hpc, panicked>>

(* The chain that starts at descriptor i, as free_chain() walks it. *)
Chain(i) ==
  {i} \cup (IF desc[i].more = 0 THEN {}
            ELSE {desc[i].next} \cup (IF desc[desc[i].next].more = 0 THEN {}
                                      ELSE {desc[desc[i].next].next}))

(* Mutant: free_desc() wakes nobody. *)
FinishSilent(p) ==
  /\ At(p, "wait") /\ lock = Nobody
  /\ bdisk[p] = 0
  /\ infob' = [infob EXCEPT ![idx[p]] = Nobody]
  /\ panicked' = IF \E i \in Chain(idx[p]) : free[i] = 1 THEN "free_desc" ELSE "none"
  /\ free' = [i \in Desc |-> IF i \in Chain(idx[p]) THEN 1 ELSE free[i]]
  /\ desc' = [i \in Desc |-> IF i \in Chain(idx[p]) THEN NoDesc ELSE desc[i]]
  /\ idx' = [idx EXCEPT ![p] = 0]
  /\ chan' = chan
  /\ Goto(p, "idle")
  /\ UNCHANGED <<avail, availidx, bdisk, devicevars, used_idx, lock, isr, hpc>>

(* Awake with vdisk_lock, but b->disk is still 1: sleep(b) again. *)
WaitAgain(p) ==
  /\ At(p, "wait") /\ lock = Nobody
  /\ bdisk[p] = 1
  /\ chan' = [chan EXCEPT ![p] = "buf"]
  /\ UNCHANGED <<drivervars, devicevars, used_idx, lock, pc, isr, hpc, panicked>>

(* kill() makes a sleeping process runnable whatever it waits for. *)
Kill(p) ==
  /\ panicked = "none" /\ chan[p] # "none"
  /\ chan' = [chan EXCEPT ![p] = "none"]
  /\ UNCHANGED <<drivervars, devicevars, used_idx, lock, pc, isr, hpc, panicked>>

(* Mutant: the sleep is not in a loop that tests b->disk. *)
FinishUnchecked(p) ==
  /\ At(p, "wait") /\ lock = Nobody
  /\ infob' = [infob EXCEPT ![idx[p]] = Nobody]
  /\ panicked' = IF \E i \in Chain(idx[p]) : free[i] = 1 THEN "free_desc" ELSE "none"
  /\ free' = [i \in Desc |-> IF i \in Chain(idx[p]) THEN 1 ELSE free[i]]
  /\ desc' = [i \in Desc |-> IF i \in Chain(idx[p]) THEN NoDesc ELSE desc[i]]
  /\ idx' = [idx EXCEPT ![p] = 0]
  /\ chan' = WakeFree(chan)
  /\ Goto(p, "idle")
  /\ UNCHANGED <<avail, availidx, bdisk, devicevars, used_idx, lock, isr, hpc>>

(* Awake with vdisk_lock: b->disk is 0, so free_chain() and return. *)
Finish(p) ==
  /\ At(p, "wait") /\ lock = Nobody
  /\ bdisk[p] = 0
  /\ infob' = [infob EXCEPT ![idx[p]] = Nobody]
  /\ panicked' = IF \E i \in Chain(idx[p]) : free[i] = 1 THEN "free_desc" ELSE "none"
  /\ free' = [i \in Desc |-> IF i \in Chain(idx[p]) THEN 1 ELSE free[i]]
  /\ desc' = [i \in Desc |-> IF i \in Chain(idx[p]) THEN NoDesc ELSE desc[i]]
  /\ idx' = [idx EXCEPT ![p] = 0]
  /\ chan' = WakeFree(chan)
  /\ Goto(p, "idle")
  /\ UNCHANGED <<avail, availidx, bdisk, devicevars, used_idx, lock, isr, hpc>>

-----------------------------------------------------------------------------
(* The device *)

(* It takes the next chain from the avail ring. *)
DeviceFetch ==
  /\ panicked = "none"
  /\ seen # availidx
  /\ LET h == avail[seen % NUM]
     IN  IF h = Dead
         THEN panicked' = "stale_avail" /\ UNCHANGED inflight
         ELSE inflight' = inflight \cup {h} /\ UNCHANGED panicked
  /\ avail' = [avail EXCEPT ![seen % NUM] = Dead]
  /\ seen' = (seen + 1) % UINT16
  /\ UNCHANGED <<free, desc, infob, availidx, bdisk, idx, used, usedidx, status, used_idx, lock, pc, chan, isr, hpc>>

(* It finishes one of its chains: the status byte, the used ring, the      *)
(* interrupt.                                                              *)
DeviceComplete(h) ==
  /\ panicked = "none"
  /\ h \in inflight
  /\ inflight' = inflight \ {h}
  /\ status' = [status EXCEPT ![h] = 0]
  /\ used' = [used EXCEPT ![usedidx % NUM] = h]
  /\ usedidx' = (usedidx + 1) % UINT16
  /\ isr' = 1
  /\ UNCHANGED <<drivervars, seen, used_idx, lock, pc, chan, hpc, panicked>>

-----------------------------------------------------------------------------
(* virtio_disk_intr() *)

(* A CPU claims the interrupt from the PLIC. *)
IntrClaim ==
  /\ panicked = "none"
  /\ hpc = "none" /\ isr = 1
  /\ hpc' = "claimed"
  /\ UNCHANGED <<drivervars, devicevars, used_idx, lock, pc, chan, isr, panicked>>

(* acquire(&disk.vdisk_lock) and the acknowledgement. *)
IntrAck ==
  /\ panicked = "none"
  /\ hpc = "claimed" /\ lock = Nobody
  /\ lock' = Intr
  /\ isr' = 0
  /\ hpc' = "loop"
  /\ UNCHANGED <<drivervars, devicevars, used_idx, pc, chan, panicked>>

(* Mutant: one used entry per interrupt. *)
IntrDoneEarly ==
  /\ panicked = "none"
  /\ hpc = "loop"
  /\ lock' = Nobody
  /\ hpc' = "none"
  /\ UNCHANGED <<drivervars, devicevars, used_idx, pc, chan, isr, panicked>>

(* One entry of the used ring: b->disk = 0; wakeup(b). *)
IntrEntry ==
  /\ panicked = "none"
  /\ hpc = "loop" /\ used_idx # usedidx
  /\ LET id == used[used_idx % NUM]
     IN  IF id = Dead \/ status[id] # 0 \/ infob[id] = Nobody
         THEN panicked' = "virtio_disk_intr" /\ UNCHANGED <<bdisk, chan>>
         ELSE /\ bdisk' = [bdisk EXCEPT ![infob[id]] = 0]
              /\ chan' = [chan EXCEPT ![infob[id]] = IF @ = "buf" THEN "none" ELSE @]
              /\ UNCHANGED panicked
  /\ used' = [used EXCEPT ![used_idx % NUM] = Dead]
  /\ used_idx' = (used_idx + 1) % UINT16
  /\ UNCHANGED <<free, desc, infob, avail, availidx, idx, usedidx, status, seen, inflight, lock, pc, isr, hpc>>

(* used_idx has caught up: release, return, plic_complete(). *)
IntrDone ==
  /\ panicked = "none"
  /\ hpc = "loop" /\ used_idx = usedidx
  /\ lock' = Nobody
  /\ hpc' = "none"
  /\ UNCHANGED <<drivervars, devicevars, used_idx, pc, chan, isr, panicked>>

-----------------------------------------------------------------------------
DriverStep(p) == AllocWait(p) \/ AllocFormat(p) \/ RingPut(p) \/ Notify(p) \/ WaitAgain(p) \/ Finish(p)

IntrStep == IntrClaim \/ IntrAck \/ IntrEntry \/ IntrDone

DeviceStep == DeviceFetch \/ \E h \in Desc : DeviceComplete(h)

Next == (\E p \in Proc : Call(p) \/ Kill(p) \/ DriverStep(p)) \/ IntrStep \/ DeviceStep

Spec == Init /\ [][Next]_vars

-----------------------------------------------------------------------------
(* Properties *)

(* Every field holds a value of its kind. *)
TypeOK ==
  /\ free \in [Desc -> 0 .. 1]
  /\ desc \in [Desc -> [buf : Proc \cup {Nobody}, next : Desc, more : 0 .. 1]]
  /\ infob \in [Desc -> Proc \cup {Nobody}]
  /\ status \in [Desc -> {0, 255}]
  /\ avail \in [Desc -> Desc \cup {Dead}] /\ used \in [Desc -> Desc \cup {Dead}]
  /\ availidx \in 0 .. UINT16 - 1 /\ usedidx \in 0 .. UINT16 - 1
  /\ used_idx \in 0 .. UINT16 - 1 /\ seen \in 0 .. UINT16 - 1
  /\ bdisk \in [Proc -> 0 .. 1]
  /\ lock \in Proc \cup {Nobody, Intr}
  /\ chan \in [Proc -> {"none", "free", "buf"}]
  /\ idx \in [Proc -> Desc]
  /\ inflight \subseteq Desc
  /\ isr \in 0 .. 1

Active == {p \in Proc : pc[p] \in {"ring", "notify", "wait"}}

(* The descriptors in use are exactly the chains of three of the requests  *)
(* under way, which are disjoint.                                          *)
ChainsPartition ==
  /\ {i \in Desc : free[i] = 0} = UNION {Chain(idx[p]) : p \in Active}
  /\ \A p \in Active : Cardinality(Chain(idx[p])) = 3 /\ \A i \in Chain(idx[p]) : desc[i].buf = p

(* The rings are well formed: their types, descriptors that are free or    *)
(* belong to one request, and no panic: virtio_disk_intr() finds a         *)
(* finished status and a buffer for every used entry, free_chain() frees   *)
(* no descriptor twice, neither side takes an old ring entry for a new one. *)
WellFormed == TypeOK /\ ChainsPartition /\ panicked = "none"

(* The chains the device may still read or write. *)
Pending == {avail[k % NUM] : k \in {j \in 0 .. UINT16 - 1 : (j - seen) % UINT16 < (availidx - seen) % UINT16}}

(* The device only ever works on complete chains of buffers that wait for  *)
(* it: b->disk is not cleared, and no descriptor is reused, before the     *)
(* device is done with the buffer.                                         *)
DeviceOwnsBuffer ==
  \A h \in Pending \cup inflight :
    \E p \in Active : idx[p] = h /\ bdisk[p] = 1 /\ infob[h] = p /\ status[h] = 255

(* No completion is forgotten: entries of the used ring that no handler    *)
(* has seen have a handler at work or an interrupt pending, although the   *)
(* device adds entries while the handler acknowledges.                     *)
CompletionNoticed == used_idx # usedidx => isr = 1 \/ hpc # "none"

(* Nobody sleeps without reason: a process waits for descriptors only      *)
(* while fewer than three are free, and for the device only while its      *)
(* request is not reported done, although a failed alloc3_desc() and       *)
(* kill() wake processes at any time.                                      *)
SleepIsJustified ==
  \A p \in Proc :
    /\ chan[p] = "free" => Cardinality(FreeDescs) < 3
    /\ chan[p] = "buf" => bdisk[p] = 1
====
