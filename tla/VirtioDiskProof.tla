-------------------------- MODULE VirtioDiskProof --------------------------
(***************************************************************************)
(* Proofs about VirtioDisk, for any number of processes, any size NUM of   *)
(* the rings and any wrapping index that NUM divides: descriptors belong   *)
(* to one request, the device only touches buffers that wait for it, no    *)
(* completion and no wakeup is lost, and nothing panics.                   *)
(*                                                                         *)
(* Nothing in virtio_disk.c checks that a ring has room.  It always has:   *)
(* the entries of a ring that are not consumed yet are the first           *)
(* descriptors of different requests, and the request about to be added    *)
(* has two descriptors that are none of them.                              *)
(***************************************************************************)
EXTENDS VirtioDisk, FiniteSetTheorems, WellFoundedInduction, TLAPS

(* A leaf goes to Zenon, and to the SMT solver if Zenon fails.  Leaves     *)
(* that need arithmetic or the theory of functions name the SMT solver,    *)
(* which is tried twice.                                                   *)
USE ZenonT(30), SMTT(30), Z3T(30)

-----------------------------------------------------------------------------
(* Arithmetic of the wrapping ring indices *)

Index == 0 .. UINT16 - 1

(* Division with remainder. *)
LEMMA DivMod ==
  ASSUME NEW m \in Nat \ {0}, NEW a \in Int
  PROVE  a \div m \in Int /\ a % m \in 0 .. m - 1 /\ a = ((a \div m) * m) + (a % m)
<1>1. a % m \in 0 .. m - 1 BY Z3
<1>2. a \div m \in Int /\ a = ((a \div m) * m) + (a % m) BY Z3
<1>3. QED BY <1>1, <1>2

(* Sums and differences of indices wrap. *)
LEMMA Wrap ==
  ASSUME NEW a \in Index, NEW b \in Index
  PROVE  /\ (a - b) % UINT16 = IF a >= b THEN a - b ELSE a - b + UINT16
         /\ (a + b) % UINT16 = IF a + b < UINT16 THEN a + b ELSE a + b - UINT16
         /\ (a + 1) % UINT16 = IF a + 1 < UINT16 THEN a + 1 ELSE 0
<1>1. UINT16 \in Nat \ {0}
  BY NumAssumption
<1>2. ASSUME NEW c \in 0 .. UINT16 - 1 PROVE c % UINT16 = c
  BY <1>1, Z3
<1>3. ASSUME NEW c \in Int, -UINT16 <= c, c < 0 PROVE c % UINT16 = c + UINT16
  BY <1>1, <1>3, Z3
<1>4. ASSUME NEW c \in Int, UINT16 <= c, c < 2 * UINT16 PROVE c % UINT16 = c - UINT16
  BY <1>1, <1>4, Z3
<1>5. (a - b) % UINT16 = IF a >= b THEN a - b ELSE a - b + UINT16
  BY SMTT(30), Z3T(30), <1>1, <1>2, <1>3 DEF Index
<1>6. (a + b) % UINT16 = IF a + b < UINT16 THEN a + b ELSE a + b - UINT16
  BY SMTT(30), Z3T(30), <1>1, <1>2, <1>4 DEF Index
<1>7. (a + 1) % UINT16 = IF a + 1 < UINT16 THEN a + 1 ELSE 0
  BY SMTT(30), Z3T(30), <1>1, <1>2, <1>4 DEF Index
<1>8. QED BY <1>5, <1>6, <1>7

(* A slot of a ring, and a ring is no longer than its index counts. *)
LEMMA Slot ==
  /\ \A k \in Index : k % NUM \in Desc
  /\ NUM <= UINT16
  /\ Dead \notin Desc
<1>1. \A k \in Index : k % NUM \in Desc
  BY SMTT(30), Z3T(30), NumAssumption, DivMod DEF Index, Desc
<1>2. ASSUME UINT16 < NUM PROVE FALSE
  <2>1. UINT16 % NUM = UINT16
    BY <1>2, NumAssumption, Z3
  <2>2. QED BY <2>1, NumAssumption
<1>3. Dead \notin Desc
  BY SMTT(30), Z3T(30), NumAssumption DEF Dead, Desc
<1>4. QED BY SMTT(30), Z3T(30), <1>1, <1>2, <1>3, NumAssumption

(* Less than NUM indices apart, also across the wrap, two indices have     *)
(* different slots.                                                        *)
LEMMA SlotsDiffer ==
  ASSUME NEW a \in Index, NEW b \in Index, a # b, (b - a) % UINT16 < NUM
  PROVE  a % NUM # b % NUM
<1>1. NUM \in Nat \ {0} /\ UINT16 \in Nat \ {0} /\ a \in Int /\ b \in Int
  BY SMTT(30), Z3T(30), NumAssumption DEF Index
<1>2. SUFFICES ASSUME a % NUM = b % NUM PROVE FALSE
  OBVIOUS
<1>3. PICK qa \in Int, qb \in Int, r \in 0 .. NUM - 1 : a = qa * NUM + r /\ b = qb * NUM + r
  <2>1. a \div NUM \in Int /\ a % NUM \in 0 .. NUM - 1 /\ a = ((a \div NUM) * NUM) + (a % NUM)
    BY <1>1, DivMod
  <2>2. b \div NUM \in Int /\ b = ((b \div NUM) * NUM) + (b % NUM)
    BY <1>1, DivMod
  <2>3. QED BY <1>2, <2>1, <2>2
<1>4. PICK w \in Int : UINT16 = w * NUM
  <2>1. UINT16 \in Int BY SMTT(30), Z3T(30), <1>1
  <2>2. PICK w \in Int : UINT16 = (w * NUM) + (UINT16 % NUM)
    BY <1>1, <2>1, DivMod, ZenonT(30)
  <2>3. QED BY SMTT(30), Z3T(30), <1>1, <2>2, NumAssumption
<1>5. PICK d \in Int : 0 < d /\ d < NUM /\ (d = b - a \/ d = b - a + UINT16)
  <2>1. (IF b >= a THEN b - a ELSE b - a + UINT16) < NUM
    BY Wrap
  <2>2. a < UINT16 /\ b >= 0
    BY SMTT(30), Z3T(30), <1>1 DEF Index
  <2>3. CASE b >= a
    <3>1. b - a \in Int /\ 0 < b - a /\ b - a < NUM
      BY SMTT(30), Z3T(30), <1>1, <2>1, <2>3
    <3>2. QED BY <3>1
  <2>4. CASE b < a
    BY SMTT(30), Z3T(30), <1>1, <2>1, <2>2, <2>4
  <2>5. QED BY SMTT(30), Z3T(30), <1>1, <2>3, <2>4
<1>6. PICK e \in Int : d = e * NUM
  <2>1. CASE d = b - a
    <3>1. d = (qb - qa) * NUM
      BY <1>1, <1>3, <2>1, Z3
    <3>2. QED BY SMTT(30), Z3T(30), <3>1
  <2>2. CASE d = b - a + UINT16
    <3>1. d = (qb - qa + w) * NUM
      BY <1>1, <1>3, <1>4, <2>2, Z3
    <3>2. QED BY SMTT(30), Z3T(30), <3>1
  <2>3. QED BY <1>5, <2>1, <2>2
<1>7. ASSUME e >= 1 PROVE FALSE
  <2>1. e * NUM >= NUM BY <1>1, <1>7, Z3
  <2>2. QED BY SMTT(30), Z3T(30), <1>1, <1>5, <1>6, <2>1
<1>8. ASSUME e <= 0 PROVE FALSE
  <2>1. e * NUM <= 0 BY <1>1, <1>8, Z3
  <2>2. QED BY SMTT(30), Z3T(30), <1>1, <1>5, <1>6, <2>1
<1>9. QED BY SMTT(30), Z3T(30), <1>6, <1>7, <1>8

(* The entries between a consumer's index and its producer's. *)
Win(lo, hi) == {j \in Index : (j - lo) % UINT16 < (hi - lo) % UINT16}

(* The window without %. *)
LEMMA WinLinear ==
  ASSUME NEW lo \in Index, NEW hi \in Index, NEW j \in Index
  PROVE  j \in Win(lo, hi) <=> IF lo <= hi THEN lo <= j /\ j < hi ELSE lo <= j \/ j < hi
<1>1. UINT16 \in Nat /\ \A i \in Index : i \in Int /\ 0 <= i /\ i < UINT16
  BY SMTT(30), Z3T(30), NumAssumption DEF Index
<1>2. j \in Win(lo, hi) <=> (j - lo) % UINT16 < (hi - lo) % UINT16
  BY DEF Win
<1>3. j \in Win(lo, hi) <=> (IF j >= lo THEN j - lo ELSE j - lo + UINT16) <
                            (IF hi >= lo THEN hi - lo ELSE hi - lo + UINT16)
  BY <1>2, Wrap
<1>4. QED BY SMTT(30), Z3T(30), <1>1, <1>3

(* The consumer takes the first entry of the window. *)
LEMMA WinTake ==
  ASSUME NEW lo \in Index, NEW hi \in Index, lo # hi
  PROVE  /\ lo \in Win(lo, hi) /\ (lo + 1) % UINT16 \in Index
         /\ Win((lo + 1) % UINT16, hi) = Win(lo, hi) \ {lo}
<1>1. UINT16 \in Nat \ {0} /\ \A j \in Index : j \in Int /\ 0 <= j /\ j < UINT16
  BY SMTT(30), Z3T(30), NumAssumption DEF Index
<1>2. PICK n \in Index : n = (lo + 1) % UINT16 /\ n = IF lo + 1 < UINT16 THEN lo + 1 ELSE 0
  BY SMTT(30), Z3T(30), <1>1, Wrap DEF Index
<1>3. lo \in Win(lo, hi)
  BY SMTT(30), Z3T(30), <1>1, WinLinear
<1>4. ASSUME NEW j \in Index PROVE j \in Win(n, hi) <=> j \in Win(lo, hi) /\ j # lo
  BY SMTT(30), Z3T(30), <1>1, <1>2, WinLinear
<1>5. Win(n, hi) = Win(lo, hi) \ {lo}
  BY <1>4 DEF Win
<1>6. QED BY <1>2, <1>3, <1>5

(* The producer adds an entry at the end of a window that is not too large. *)
LEMMA WinPut ==
  ASSUME NEW lo \in Index, NEW hi \in Index, (hi - lo) % UINT16 < UINT16 - 1
  PROVE  /\ hi \notin Win(lo, hi) /\ (hi + 1) % UINT16 \in Index
         /\ Win(lo, (hi + 1) % UINT16) = Win(lo, hi) \cup {hi}
<1>1. UINT16 \in Nat \ {0} /\ \A j \in Index : j \in Int /\ 0 <= j /\ j < UINT16
  BY SMTT(30), Z3T(30), NumAssumption DEF Index
<1>2. PICK n \in Index : n = (hi + 1) % UINT16 /\ n = IF hi + 1 < UINT16 THEN hi + 1 ELSE 0
  BY SMTT(30), Z3T(30), <1>1, Wrap DEF Index
<1>3. hi \notin Win(lo, hi)
  BY SMTT(30), Z3T(30), <1>1, WinLinear
<1>4. (IF hi >= lo THEN hi - lo ELSE hi - lo + UINT16) < UINT16 - 1
  BY Wrap
<1>5. ASSUME NEW j \in Index PROVE j \in Win(lo, n) <=> j \in Win(lo, hi) \/ j = hi
  BY SMTT(30), Z3T(30), <1>1, <1>2, <1>4, WinLinear
<1>6. Win(lo, n) = Win(lo, hi) \cup {hi}
  BY <1>5 DEF Win
<1>7. QED BY <1>2, <1>3, <1>6

(* There are NUM descriptors. *)
LEMMA DescFinite == IsFiniteSet(Desc) /\ Cardinality(Desc) = NUM
<1>1. 0 \in Int /\ NUM - 1 \in Int
  BY SMTT(30), Z3T(30), NumAssumption
<1>2. IsFiniteSet(0 .. NUM - 1) /\ Cardinality(0 .. NUM - 1) = IF 0 > NUM - 1 THEN 0 ELSE (NUM - 1) - 0 + 1
  BY <1>1, FS_Interval, ZenonT(30)
<1>3. QED BY SMTT(30), Z3T(30), <1>2, NumAssumption DEF Desc

(* The entries of a window are different descriptors. *)
RingOK(ring, lo, hi) ==
  /\ \A k \in Win(lo, hi) : ring[k % NUM] \in Desc
  /\ \A j, k \in Win(lo, hi) : ring[j % NUM] = ring[k % NUM] => j = k

(* A window whose entries are neither of two descriptors is smaller than   *)
(* NUM - 1, by the pigeonhole principle.                                   *)
LEMMA RingRoom ==
  ASSUME NEW ring, NEW lo \in Index, NEW hi \in Index, RingOK(ring, lo, hi),
         NEW h \in Desc, NEW m \in Desc, h # m,
         \A k \in Win(lo, hi) : ring[k % NUM] # h /\ ring[k % NUM] # m
  PROVE  (hi - lo) % UINT16 < NUM - 1
<1>1. /\ UINT16 \in Nat \ {0} /\ NUM \in Nat /\ NUM >= 3 /\ NUM <= UINT16
      /\ \A j \in Index : j \in Int /\ 0 <= j /\ j < UINT16
  BY SMTT(30), Z3T(30), NumAssumption, Slot DEF Index
<1>2. SUFFICES ASSUME ~ ((hi - lo) % UINT16 < NUM - 1) PROVE FALSE
  OBVIOUS
<1>3. (IF hi >= lo THEN hi - lo ELSE hi - lo + UINT16) >= NUM - 1
  BY SMTT(30), Z3T(30), <1>1, <1>2, Wrap
<1> DEFINE pos(i) == IF lo + i < UINT16 THEN lo + i ELSE lo + i - UINT16
           S == 0 .. NUM - 2
           T == (Desc \ {h}) \ {m}
           f == [i \in S |-> ring[pos(i) % NUM]]
<1>4. ASSUME NEW i \in S PROVE pos(i) \in Index /\ pos(i) \in Win(lo, hi)
  <2>1. pos(i) \in Index BY SMTT(30), Z3T(30), <1>1 DEF Index
  <2>2. QED BY SMTT(30), Z3T(30), <1>1, <1>3, <2>1, WinLinear
<1>5. ASSUME NEW i \in S, NEW j \in S, pos(i) = pos(j) PROVE i = j
  BY SMTT(30), Z3T(30), <1>1, <1>5
<1>6. f \in [S -> T]
  BY <1>4 DEF RingOK
<1>7. IsFiniteSet(S) /\ Cardinality(S) = NUM - 1
  <2>1. 0 \in Int /\ NUM - 2 \in Int
    BY SMTT(30), Z3T(30), <1>1
  <2>2. IsFiniteSet(S) /\ Cardinality(S) = IF 0 > NUM - 2 THEN 0 ELSE (NUM - 2) - 0 + 1
    BY <2>1, FS_Interval, ZenonT(30)
  <2>3. QED BY SMTT(30), Z3T(30), <1>1, <2>2
<1>8. IsFiniteSet(T) /\ Cardinality(T) = NUM - 2
  <2>1. IsFiniteSet(Desc) /\ Cardinality(Desc) = NUM
    BY DescFinite
  <2>2. IsFiniteSet(Desc \ {h}) /\ Cardinality(Desc \ {h}) = NUM - 1
    BY <2>1, FS_RemoveElement
  <2>3. m \in Desc \ {h} OBVIOUS
  <2>4. IsFiniteSet(T) /\ Cardinality(T) = Cardinality(Desc \ {h}) - 1
    BY <2>2, <2>3, FS_RemoveElement
  <2>5. QED BY SMTT(30), Z3T(30), <1>1, <2>2, <2>4
<1>9. PICK i \in S, j \in S : i # j /\ f[i] = f[j]
  <2>1. Cardinality(T) < Cardinality(S) BY SMTT(30), Z3T(30), <1>1, <1>7, <1>8
  <2>2. QED
    <3> HIDE DEF S, T, f
    <3>1. QED BY <1>6, <1>7, <1>8, <2>1, FS_PigeonHole, ZenonT(30)
<1>10. ring[pos(i) % NUM] = ring[pos(j) % NUM]
  BY <1>9
<1>11. pos(i) = pos(j)
  BY <1>4, <1>10 DEF RingOK
<1>12. QED BY <1>5, <1>9, <1>11

(* So the producer's slot is in none of the window's entries. *)
LEMMA SlotFree ==
  ASSUME NEW lo \in Index, NEW hi \in Index, (hi - lo) % UINT16 < NUM - 1
  PROVE  \A k \in Win(lo, hi) : k % NUM # hi % NUM
<1>1. /\ UINT16 \in Nat \ {0} /\ NUM \in Nat
      /\ \A j \in Index : j \in Int /\ 0 <= j /\ j < UINT16
  BY SMTT(30), Z3T(30), NumAssumption DEF Index
<1>2. SUFFICES ASSUME NEW k \in Win(lo, hi) PROVE k % NUM # hi % NUM
  OBVIOUS
<1>3. k \in Index BY DEF Win
<1>4. k # hi
  BY SMTT(30), Z3T(30), <1>1, <1>3, WinLinear
<1>5. (hi - k) % UINT16 < NUM
  <2>1. (IF hi >= lo THEN hi - lo ELSE hi - lo + UINT16) < NUM - 1
    BY Wrap
  <2>2. (IF hi >= k THEN hi - k ELSE hi - k + UINT16) < NUM
    BY SMTT(30), Z3T(30), <1>1, <1>3, <2>1, WinLinear
  <2>3. QED BY <1>3, <2>2, Wrap
<1>6. QED BY <1>3, <1>4, <1>5, SlotsDiffer

-----------------------------------------------------------------------------
(* The inductive invariant *)

CodeTypes ==
  /\ pc \in [Proc -> {"idle", "alloc", "ring", "notify", "wait"}]
  /\ hpc \in {"none", "claimed", "loop"}
  /\ panicked = "none"

(* vdisk_lock is held by the code that says so; a process sleeps where     *)
(* virtio_disk_rw() calls sleep(), and with reason.                        *)
LockInv ==
  /\ \A p \in Proc : pc[p] \in {"ring", "notify"} <=> lock = p
  /\ hpc = "loop" <=> lock = Intr

SleepInv ==
  \A p \in Proc :
    /\ chan[p] = "free" => pc[p] = "alloc" /\ Cardinality(FreeDescs) < 3
    /\ chan[p] = "buf" => pc[p] = "wait" /\ bdisk[p] = 1

(* The three descriptors of a request. *)
Mid(p) == desc[idx[p]].next
End(p) == desc[Mid(p)].next

(* A request under way has a chain of three descriptors of its own. *)
Whole(p) ==
  /\ idx[p] # Mid(p) /\ idx[p] # End(p) /\ Mid(p) # End(p)
  /\ desc[idx[p]].more = 1 /\ desc[Mid(p)].more = 1 /\ desc[End(p)].more = 0
  /\ \A i \in {idx[p], Mid(p), End(p)} : free[i] = 0 /\ desc[i].buf = p
  /\ infob[idx[p]] = p

ChainInv ==
  /\ \A p \in Active : Whole(p)
  /\ \A i \in Desc : free[i] = 0 =>
       desc[i].buf \in Active /\ i \in {idx[desc[i].buf], Mid(desc[i].buf), End(desc[i].buf)}

(* Descriptor h starts the chain of a process that waits for the device,   *)
(* which has (s = 0) or has not (s = 255) written the status.              *)
Waiting(h, s) ==
  \E p \in Proc : pc[p] = "wait" /\ idx[p] = h /\ bdisk[p] = 1 /\ status[h] = s

(* A request is being added to the avail ring, is in it, is with the       *)
(* device, or is in the used ring, and in one of these places only.        *)
RingInv ==
  /\ \A p \in Proc : pc[p] \in {"ring", "notify"} => bdisk[p] = 1 /\ status[idx[p]] = 255
  /\ \A p \in Proc : pc[p] = "notify" => avail[availidx % NUM] = idx[p]
  /\ RingOK(avail, seen, availidx)
  /\ \A k \in Win(seen, availidx) : avail[k % NUM] \notin inflight /\ Waiting(avail[k % NUM], 255)
  /\ \A h \in inflight : Waiting(h, 255)
  /\ RingOK(used, used_idx, usedidx)
  /\ \A k \in Win(used_idx, usedidx) : Waiting(used[k % NUM], 0)

DInv ==
  /\ TypeOK /\ CodeTypes /\ LockInv /\ SleepInv
  /\ ChainInv /\ RingInv /\ CompletionNoticed

(* The descriptors of the requests under way. *)
LEMMA Heads ==
  ASSUME DInv, NEW p \in Active
  PROVE  /\ p \in Proc /\ idx[p] \in Desc /\ Mid(p) \in Desc /\ End(p) \in Desc
         /\ \A q \in Active : (idx[q] = idx[p] => q = p) /\ idx[q] # Mid(p)
<1>1. TypeOK /\ p \in Proc /\ Whole(p) /\ \A q \in Active : q \in Proc /\ Whole(q)
  BY DEF DInv, ChainInv, Active
<1>2. idx[p] \in Desc /\ Mid(p) \in Desc
  BY <1>1 DEF TypeOK, Mid
<1>3. End(p) \in Desc
  BY <1>1, <1>2 DEF TypeOK, End
<1>4. ASSUME NEW q \in Active PROVE (idx[q] = idx[p] => q = p) /\ idx[q] # Mid(p)
  <2>1. desc[idx[q]].buf = q /\ desc[idx[p]].buf = p /\ desc[Mid(p)].buf = p /\ idx[p] # Mid(p)
    BY <1>1 DEF Whole
  <2>2. QED BY <2>1
<1>5. QED BY <1>1, <1>2, <1>3, <1>4

(* A request that the device does not know yet: the avail ring has room    *)
(* for it.                                                                 *)
LEMMA AvailRoom ==
  ASSUME DInv, NEW p \in Proc, pc[p] \in {"ring", "notify"}
  PROVE  /\ p \in Active /\ idx[p] \in Desc /\ idx[p] \notin inflight
         /\ (availidx - seen) % UINT16 < NUM - 1
         /\ \A k \in Win(seen, availidx) : k % NUM # availidx % NUM /\ avail[k % NUM] # idx[p]
<1>1. p \in Active /\ seen \in Index /\ availidx \in Index
  BY DEF Active, DInv, TypeOK, Index
<1>2. idx[p] \in Desc /\ Mid(p) \in Desc /\ idx[p] # Mid(p)
  BY <1>1, Heads DEF DInv, ChainInv, Whole
<1>3. ASSUME NEW h, NEW s, Waiting(h, s) PROVE h # idx[p] /\ h # Mid(p)
  <2>1. PICK q \in Proc : pc[q] = "wait" /\ idx[q] = h
    BY <1>3 DEF Waiting
  <2>2. q \in Active /\ q # p
    BY <2>1 DEF Active
  <2>3. QED BY <1>1, <2>1, <2>2, Heads
<1>4. \A k \in Win(seen, availidx) : avail[k % NUM] # idx[p] /\ avail[k % NUM] # Mid(p)
  BY SMTT(30), Z3T(30), <1>3 DEF DInv, RingInv
<1>5. (availidx - seen) % UINT16 < NUM - 1
  BY SMTT(30), Z3T(30), <1>1, <1>2, <1>4, RingRoom DEF DInv, RingInv
<1>6. idx[p] \notin inflight
  BY SMTT(30), Z3T(30), <1>3 DEF DInv, RingInv
<1>7. QED BY <1>1, <1>2, <1>4, <1>5, <1>6, SlotFree

(* A request that the device works on: the used ring has room for it. *)
LEMMA UsedRoom ==
  ASSUME DInv, NEW h \in inflight
  PROVE  /\ h \in Desc /\ (usedidx - used_idx) % UINT16 < NUM - 1
         /\ \A k \in Win(used_idx, usedidx) : k % NUM # usedidx % NUM /\ used[k % NUM] # h
<1>1. used_idx \in Index /\ usedidx \in Index /\ h \in Desc
  BY DEF DInv, TypeOK, Index
<1>2. PICK p \in Proc : pc[p] = "wait" /\ idx[p] = h /\ status[h] = 255
  BY SMTT(30), Z3T(30) DEF DInv, RingInv, Waiting
<1>3. p \in Active /\ Mid(p) \in Desc /\ h # Mid(p)
  <2>1. p \in Active BY <1>2 DEF Active
  <2>2. QED BY <1>2, <2>1, Heads DEF DInv, ChainInv, Whole
<1>4. ASSUME NEW k \in Win(used_idx, usedidx) PROVE used[k % NUM] # h /\ used[k % NUM] # Mid(p)
  <2>1. PICK q \in Proc : pc[q] = "wait" /\ idx[q] = used[k % NUM] /\ status[used[k % NUM]] = 0
    BY SMTT(30), Z3T(30) DEF DInv, RingInv, Waiting
  <2>2. q \in Active
    BY <2>1 DEF Active
  <2>3. QED BY SMTT(30), Z3T(30), <1>2, <1>3, <2>1, <2>2, Heads
<1>5. (usedidx - used_idx) % UINT16 < NUM - 1
  BY SMTT(30), Z3T(30), <1>1, <1>3, <1>4, RingRoom DEF DInv, RingInv
<1>6. QED BY <1>1, <1>4, <1>5, SlotFree

(* virtio_disk_init() *)
LEMMA InitDInv ==
  ASSUME Init
  PROVE  DInv
<1>1. 0 \in Index /\ 0 \in Desc /\ Win(0, 0) = {}
  <2>1. 0 \in Index /\ 0 \in Desc BY SMTT(30), Z3T(30), NumAssumption DEF Index, Desc
  <2>2. ASSUME NEW j \in Index PROVE j \notin Win(0, 0)
    <3>1. j \in Int BY SMTT(30), Z3T(30), NumAssumption DEF Index
    <3>2. QED BY SMTT(30), Z3T(30), <2>1, <3>1, WinLinear
  <2>3. QED BY <2>1, <2>2 DEF Win
<1>2. TypeOK /\ CodeTypes
  BY SMTT(30), Z3T(30), <1>1 DEF Init, TypeOK, CodeTypes, NoDesc, Index
<1>3. LockInv /\ SleepInv /\ CompletionNoticed
  BY ProcAssumption DEF Init, LockInv, SleepInv, CompletionNoticed
<1>4. ChainInv /\ RingInv
  BY SMTT(30), Z3T(30), <1>1 DEF Init, ChainInv, Active, RingInv, RingOK
<1>5. QED BY <1>2, <1>3, <1>4 DEF DInv

(* A step that leaves the descriptors alone. *)
LEMMA SameChains ==
  ASSUME ChainInv, UNCHANGED <<free, desc, infob, idx>>, Active' = Active
  PROVE  ChainInv'
<1>1. \A p : Mid(p)' = Mid(p)
  BY DEF Mid
<1>2. \A p : End(p)' = End(p)
  BY DEF End, Mid
<1>3. \A p : Whole(p) => Whole(p)'
  BY <1>1, <1>2 DEF Whole
<1>4. ASSUME NEW i \in Desc, free'[i] = 0
      PROVE  (desc[i].buf \in Active /\ i \in {idx[desc[i].buf], Mid(desc[i].buf), End(desc[i].buf)})'
  <2>1. PICK p \in Active : p = desc[i].buf /\ i \in {idx[p], Mid(p), End(p)}
    BY <1>4 DEF ChainInv
  <2>2. QED BY <2>1 DEF Mid, End
<1>5. QED BY <1>3, <1>4 DEF ChainInv

(* Steps that touch neither descriptors nor rings. *)
QuietStep ==
  /\ UNCHANGED <<drivervars, devicevars, used_idx, panicked>>
  /\ \A p \in Proc : pc'[p] = pc[p] \/ (pc[p] = "idle" /\ pc'[p] = "alloc")
  /\ pc' \in [Proc -> {"idle", "alloc", "ring", "notify", "wait"}]
  /\ chan' \in [Proc -> {"none", "free", "buf"}]
  /\ hpc' \in {"none", "claimed", "loop"} /\ isr' \in 0 .. 1 /\ lock' \in Proc \cup {Nobody, Intr}
  /\ LockInv' /\ SleepInv' /\ CompletionNoticed'

(* They keep the invariant. *)
LEMMA QuietInv ==
  ASSUME DInv, QuietStep
  PROVE  DInv'
<1>1. TypeOK' /\ CodeTypes'
  BY DEF DInv, TypeOK, CodeTypes, QuietStep, drivervars, devicevars
<1>2. \A p \in Proc : /\ (pc'[p] \in {"ring", "notify", "wait"}) = (pc[p] \in {"ring", "notify", "wait"})
                      /\ \A l \in {"ring", "notify", "wait"} : (pc'[p] = l) = (pc[p] = l)
  BY SMTT(30), Z3T(30) DEF QuietStep
<1>3. Active' = Active
  BY <1>2 DEF Active
<1>4. ChainInv'
  BY <1>3, SameChains DEF DInv, QuietStep, drivervars
<1>5. \A h, s : Waiting(h, s)' <=> Waiting(h, s)
  BY <1>2 DEF Waiting, QuietStep, drivervars, devicevars
<1>6. RingInv'
  BY SMTT(30), Z3T(30), <1>2, <1>5 DEF DInv, RingInv, QuietStep, drivervars, devicevars
<1>7. QED BY <1>1, <1>4, <1>6 DEF DInv, QuietStep

(* virtio_disk_rw() is called, sleeps, or is killed; the handler starts    *)
(* and ends.                                                               *)
LEMMA QuietSteps ==
  ASSUME DInv,
         \/ \E p \in Proc : Call(p) \/ Kill(p) \/ AllocWait(p) \/ WaitAgain(p)
         \/ IntrClaim \/ IntrAck \/ IntrDone \/ UNCHANGED vars
  PROVE  DInv'
<1>1. /\ TypeOK /\ CodeTypes /\ LockInv /\ SleepInv /\ CompletionNoticed
      /\ Nobody \notin Proc /\ Intr \notin Proc /\ Nobody # Intr
  BY ProcAssumption DEF DInv
<1>2. ASSUME NEW p \in Proc, Call(p) PROVE DInv'
  <2>1. pc[p] = "idle" /\ pc' = [pc EXCEPT ![p] = "alloc"]
    BY <1>2 DEF Call, At, Goto
  <2>2. LockInv' /\ SleepInv' /\ CompletionNoticed'
    BY <1>1, <1>2, <2>1 DEF Call, LockInv, SleepInv, CompletionNoticed, FreeDescs, CodeTypes,
       drivervars, devicevars
  <2>3. QED BY <1>1, <1>2, <2>1, <2>2, QuietInv DEF Call, QuietStep, TypeOK, CodeTypes
<1>3. ASSUME NEW p \in Proc, Kill(p) PROVE DInv'
  <2>1. chan' = [chan EXCEPT ![p] = "none"]
    BY <1>3 DEF Kill
  <2>2. LockInv' /\ SleepInv' /\ CompletionNoticed'
    BY SMTT(30), Z3T(30), <1>1, <1>3, <2>1
      DEF Kill, LockInv, SleepInv, CompletionNoticed, FreeDescs, TypeOK,
       drivervars, devicevars
  <2>3. QED BY SMTT(30), Z3T(30), <1>1, <1>3, <2>1, <2>2, QuietInv
    DEF Kill, QuietStep, TypeOK, CodeTypes
<1>4. ASSUME NEW p \in Proc, AllocWait(p) PROVE DInv'
  <2>1. /\ pc[p] = "alloc" /\ Cardinality(FreeDescs) < 3
        /\ chan' \in [Proc -> {"none", "free", "buf"}]
        /\ \A q \in Proc \ {p} : chan'[q] = chan[q] \/ chan'[q] = "none"
        /\ chan'[p] = "free"
    BY SMTT(30), Z3T(30), <1>1, <1>4 DEF AllocWait, At, WakeFree, TypeOK
  <2>2. LockInv' /\ SleepInv' /\ CompletionNoticed'
    BY SMTT(30), Z3T(30), <1>1, <1>4, <2>1
      DEF AllocWait, LockInv, SleepInv, CompletionNoticed, FreeDescs,
       drivervars, devicevars
  <2>3. QED BY <1>1, <1>4, <2>1, <2>2, QuietInv DEF AllocWait, QuietStep, TypeOK, CodeTypes
<1>5. ASSUME NEW p \in Proc, WaitAgain(p) PROVE DInv'
  <2>1. pc[p] = "wait" /\ bdisk[p] = 1 /\ chan' = [chan EXCEPT ![p] = "buf"]
    BY <1>5 DEF WaitAgain, At
  <2>2. LockInv' /\ CompletionNoticed'
    BY <1>1, <1>5 DEF WaitAgain, LockInv, CompletionNoticed, devicevars
  <2>3. SleepInv'
    BY SMTT(30), Z3T(30), <1>1, <1>5, <2>1 DEF WaitAgain, SleepInv, FreeDescs, TypeOK, drivervars
  <2>4. QED BY <1>1, <1>5, <2>1, <2>2, <2>3, QuietInv DEF WaitAgain, QuietStep, TypeOK, CodeTypes
<1>6. CASE IntrClaim \/ IntrAck \/ IntrDone
  <2>1. SleepInv'
    BY <1>1, <1>6 DEF IntrClaim, IntrAck, IntrDone, SleepInv, FreeDescs, drivervars, devicevars
  <2>2. LockInv' /\ CompletionNoticed'
    BY <1>1, <1>6
      DEF IntrClaim, IntrAck, IntrDone, LockInv, CompletionNoticed, devicevars, CodeTypes
  <2>3. QED
    BY SMTT(30), Z3T(30), <1>1, <1>6, <2>1, <2>2, QuietInv
      DEF IntrClaim, IntrAck, IntrDone, QuietStep, TypeOK, CodeTypes
<1>7. CASE UNCHANGED vars
  <2>1. SleepInv' /\ LockInv' /\ CompletionNoticed'
    BY <1>1, <1>7 DEF vars, SleepInv, FreeDescs, LockInv, CompletionNoticed, drivervars, devicevars
  <2>2. QED BY <1>1, <1>7, <2>1, QuietInv DEF vars, QuietStep, TypeOK, CodeTypes
<1>8. QED BY <1>2, <1>3, <1>4, <1>5, <1>6, <1>7


-----------------------------------------------------------------------------
(* The steps that move a request *)

(* The search for a free descriptor finds one. *)
LEMMA LowestIn ==
  ASSUME NEW S, S \subseteq Desc, S # {}
  PROVE  Lowest(S) \in S
<1>1. S \subseteq Nat
  BY SMTT(30), Z3T(30), NumAssumption DEF Desc
<1>2. IsWellFoundedOn(OpToRel(<, Nat), Nat)
  BY NatLessThanWellFounded, ZenonT(30)
<1>3. PICK n \in S : \A m \in S : ~ (<<m, n>> \in OpToRel(<, Nat))
  BY <1>1, <1>2, WFMin, ZenonT(30)
<1>4. \A m \in S : n <= m
  <2>1. ASSUME NEW m \in S PROVE n <= m
    <3>1. m \in Nat /\ n \in Nat BY <1>1
    <3>2. ~ (m < n) BY <1>3, <3>1 DEF OpToRel
    <3>3. QED BY SMTT(30), Z3T(30), <3>1, <3>2
  <2>2. QED BY <2>1
<1>5. QED BY <1>4 DEF Lowest

(* alloc3_desc() gets three different free descriptors. *)
LEMMA ThreeFree ==
  ASSUME Cardinality(FreeDescs) >= 3
  PROVE  LET i0 == Lowest(FreeDescs)
             i1 == Lowest(FreeDescs \ {i0})
             i2 == Lowest(FreeDescs \ {i0, i1})
         IN  /\ i0 \in FreeDescs /\ i1 \in FreeDescs /\ i2 \in FreeDescs
             /\ i0 # i1 /\ i0 # i2 /\ i1 # i2
<1> DEFINE i0 == Lowest(FreeDescs)
           i1 == Lowest(FreeDescs \ {i0})
           i2 == Lowest(FreeDescs \ {i0, i1})
<1>1. FreeDescs \subseteq Desc
  BY DEF FreeDescs
<1>2. IsFiniteSet(FreeDescs) /\ Cardinality(FreeDescs) \in Nat
  BY <1>1, DescFinite, FS_Subset, FS_CardinalityType, ZenonT(30)
<1>3. IsFiniteSet(FreeDescs \ {i0}) /\ Cardinality(FreeDescs \ {i0}) >= 2
  BY SMTT(30), Z3T(30), <1>2, FS_RemoveElement
<1>4. IsFiniteSet((FreeDescs \ {i0}) \ {i1}) /\ Cardinality((FreeDescs \ {i0}) \ {i1}) >= 1
  <2>1. Cardinality(FreeDescs \ {i0}) \in Nat
    BY <1>3, FS_CardinalityType, ZenonT(30)
  <2>2. /\ IsFiniteSet((FreeDescs \ {i0}) \ {i1})
        /\ Cardinality((FreeDescs \ {i0}) \ {i1}) =
             IF i1 \in FreeDescs \ {i0} THEN Cardinality(FreeDescs \ {i0}) - 1 ELSE Cardinality(FreeDescs \ {i0})
    BY <1>3, FS_RemoveElement, ZenonT(30)
  <2>3. QED BY SMTT(30), Z3T(30), <1>3, <2>1, <2>2
<1>5. (FreeDescs \ {i0}) \ {i1} = FreeDescs \ {i0, i1}
  BY ZenonT(30)
<1>6. FreeDescs # {} /\ FreeDescs \ {i0} # {} /\ FreeDescs \ {i0, i1} # {}
  <2>1. Cardinality({}) = 0
    BY FS_EmptySet
  <2>2. QED BY SMTT(30), Z3T(30), <1>3, <1>4, <1>5, <2>1
<1>7. i0 \in FreeDescs /\ i1 \in FreeDescs \ {i0} /\ i2 \in FreeDescs \ {i0, i1}
  <2>1. FreeDescs \ {i0} \subseteq Desc /\ FreeDescs \ {i0, i1} \subseteq Desc
    BY <1>1, ZenonT(30)
  <2>2. QED
    <3> HIDE DEF i0, i1, i2
    <3>1. QED BY <1>1, <1>6, <2>1, LowestIn, ZenonT(30) DEF i0, i1, i2
<1>8. QED BY <1>7

(* A chain of which neither the first nor the second descriptor changes. *)
LEMMA SameChain ==
  ASSUME NEW q, idx'[q] = idx[q], desc'[idx[q]] = desc[idx[q]], desc'[Mid(q)] = desc[Mid(q)]
  PROVE  Mid(q)' = Mid(q) /\ End(q)' = End(q)
BY DEF Mid, End

(* A step that leaves the rings alone, and the requests in them. *)
LEMMA SameRings ==
  ASSUME RingInv, UNCHANGED <<avail, availidx, seen, inflight, used, usedidx, used_idx>>,
         \A h, s : Waiting(h, s) => Waiting(h, s)',
         \A p \in Proc : pc'[p] \in {"ring", "notify"} => bdisk'[p] = 1 /\ status'[idx'[p]] = 255,
         \A p \in Proc : pc'[p] = "notify" => avail'[availidx' % NUM] = idx'[p]
  PROVE  RingInv'
<1>1. RingOK(avail, seen, availidx)' /\ RingOK(used, used_idx, usedidx)'
  BY SMTT(30), Z3T(30) DEF RingInv, RingOK
<1>2. QED BY SMTT(30), Z3T(30), <1>1 DEF RingInv

(* free_chain() walks the three descriptors of a request. *)
LEMMA WholeChain ==
  ASSUME NEW p, Whole(p)
  PROVE  Chain(idx[p]) = {idx[p], Mid(p), End(p)}
<1>1. Mid(p) = desc[idx[p]].next /\ End(p) = desc[Mid(p)].next
  BY DEF Mid, End
<1>2. desc[idx[p]].more = 1 /\ desc[Mid(p)].more = 1 /\ 1 # 0
  BY DEF Whole
<1>3. Chain(idx[p]) = {idx[p]} \cup ({Mid(p)} \cup {End(p)})
  BY <1>1, <1>2, ZenonT(30) DEF Chain
<1>4. QED BY SMTT(30), Z3T(30), <1>3

(* alloc3_desc() succeeds and the chain is formatted. *)
LEMMA AllocFormatInv ==
  ASSUME DInv, NEW p \in Proc, AllocFormat(p)
  PROVE  DInv'
<1>1. /\ TypeOK /\ CodeTypes /\ LockInv /\ SleepInv /\ ChainInv /\ RingInv /\ CompletionNoticed
      /\ Nobody \notin Proc /\ Intr \notin Proc /\ Nobody # Intr
  BY ProcAssumption DEF DInv
<1>2. PICK i0 \in FreeDescs, i1 \in FreeDescs, i2 \in FreeDescs :
        /\ i0 # i1 /\ i0 # i2 /\ i1 # i2
        /\ free' = [i \in Desc |-> IF i \in {i0, i1, i2} THEN 0 ELSE free[i]]
        /\ desc' = [desc EXCEPT ![i0] = [buf |-> p, next |-> i1, more |-> 1],
                                ![i1] = [buf |-> p, next |-> i2, more |-> 1],
                                ![i2] = [buf |-> p, next |-> 0, more |-> 0]]
        /\ status' = [status EXCEPT ![i0] = 255]
        /\ infob' = [infob EXCEPT ![i0] = p]
        /\ idx' = [idx EXCEPT ![p] = i0]
  <2>1. Cardinality(FreeDescs) >= 3
    BY DEF AllocFormat
  <2>2. QED BY <2>1, ThreeFree, ZenonT(30) DEF AllocFormat
<1>3. /\ pc[p] = "alloc" /\ lock = Nobody /\ lock' = p /\ Cardinality(FreeDescs) >= 3
      /\ pc' = [pc EXCEPT ![p] = "ring"] /\ bdisk' = [bdisk EXCEPT ![p] = 1]
      /\ UNCHANGED <<avail, availidx, used, usedidx, seen, inflight, used_idx, chan, isr, hpc, panicked>>
  BY DEF AllocFormat, At, Goto
<1>4. /\ i0 \in Desc /\ i1 \in Desc /\ i2 \in Desc /\ 0 \in Desc
      /\ free[i0] = 1 /\ free[i1] = 1 /\ free[i2] = 1
  BY SMTT(30), Z3T(30), NumAssumption DEF FreeDescs, Desc
<1>5. /\ desc'[i0] = [buf |-> p, next |-> i1, more |-> 1]
      /\ desc'[i1] = [buf |-> p, next |-> i2, more |-> 1]
      /\ desc'[i2] = [buf |-> p, next |-> 0, more |-> 0]
      /\ \A i \in Desc : i \notin {i0, i1, i2} => desc'[i] = desc[i] /\ free'[i] = free[i]
      /\ free'[i0] = 0 /\ free'[i1] = 0 /\ free'[i2] = 0
  BY SMTT(30), Z3T(30), <1>1, <1>2, <1>4 DEF TypeOK
<1>6. TypeOK'
  <2>1. free' \in [Desc -> 0 .. 1]
    BY SMTT(30), Z3T(30), <1>1, <1>2 DEF TypeOK
  <2>2. status' \in [Desc -> {0, 255}]
    BY <1>1, <1>2, <1>4 DEF TypeOK
  <2>3. desc' \in [Desc -> [buf : Proc \cup {Nobody}, next : Desc, more : 0 .. 1]]
    BY SMTT(30), Z3T(30), <1>1, <1>2, <1>4 DEF TypeOK
  <2>4. infob' \in [Desc -> Proc \cup {Nobody}] /\ idx' \in [Proc -> Desc]
    BY <1>1, <1>2, <1>4 DEF TypeOK
  <2>5. bdisk' \in [Proc -> 0 .. 1] /\ lock' \in Proc \cup {Nobody, Intr}
    BY SMTT(30), Z3T(30), <1>1, <1>3 DEF TypeOK
  <2>6. QED BY <1>1, <1>3, <2>1, <2>2, <2>3, <2>4, <2>5 DEF TypeOK
<1>7. CodeTypes' /\ LockInv' /\ CompletionNoticed'
  BY <1>1, <1>3 DEF CodeTypes, LockInv, CompletionNoticed
<1>8. SleepInv'
  <2>1. Cardinality(FreeDescs) \in Nat
    <3>1. FreeDescs \subseteq Desc
      BY DEF FreeDescs
    <3>2. QED BY <3>1, DescFinite, FS_Subset, FS_CardinalityType, ZenonT(30)
  <2>2. \A q \in Proc : chan[q] # "free"
    BY SMTT(30), Z3T(30), <1>1, <1>3, <2>1 DEF SleepInv
  <2>3. QED BY <1>1, <1>3, <2>2 DEF SleepInv, TypeOK, CodeTypes
<1>9. /\ p \notin Active /\ Active' = Active \cup {p}
      /\ \A q \in Active : q \in Proc /\ q # p
  BY <1>1, <1>3 DEF Active, CodeTypes
<1>10. ASSUME NEW q \in Active
       PROVE  /\ idx'[q] = idx[q] /\ Mid(q)' = Mid(q) /\ End(q)' = End(q) /\ Whole(q) /\ Whole(q)'
              /\ idx[q] \in Desc /\ idx[q] # i0
  <2>1. Whole(q) /\ idx[q] \in Desc /\ Mid(q) \in Desc /\ End(q) \in Desc
    BY <1>1, Heads DEF ChainInv
  <2>2. \A i \in {idx[q], Mid(q), End(q)} : i \notin {i0, i1, i2} /\ i \in Desc
    BY SMTT(30), Z3T(30), <1>4, <2>1 DEF Whole
  <2>3. idx'[q] = idx[q] /\ infob'[idx[q]] = infob[idx[q]]
    BY SMTT(30), Z3T(30), <1>1, <1>2, <1>9, <2>2 DEF TypeOK
  <2>4. \A i \in {idx[q], Mid(q), End(q)} : desc'[i] = desc[i] /\ free'[i] = free[i]
    BY <1>5, <2>2
  <2>5. Mid(q)' = Mid(q) /\ End(q)' = End(q)
    BY <2>3, <2>4, SameChain
  <2>6. QED BY <2>1, <2>2, <2>3, <2>4, <2>5 DEF Whole
<1>11. /\ idx'[p] = i0 /\ Mid(p)' = i1 /\ End(p)' = i2 /\ Whole(p)'
  <2>1. idx'[p] = i0 /\ infob'[i0] = p
    BY <1>1, <1>2, <1>4 DEF TypeOK
  <2>2. Mid(p)' = i1 /\ End(p)' = i2
    BY SMTT(30), Z3T(30), <1>5, <2>1 DEF Mid, End
  <2>3. QED BY SMTT(30), Z3T(30), <1>2, <1>5, <2>1, <2>2 DEF Whole
<1>12. ChainInv'
  <2>1. ASSUME NEW i \in Desc, free'[i] = 0
        PROVE  \E q \in Active' : desc'[i].buf = q /\ i \in {idx'[q], Mid(q)', End(q)'}
    <3>1. CASE i \in {i0, i1, i2}
      <4>1. desc'[i].buf = p
        BY SMTT(30), Z3T(30), <1>5, <3>1
      <4>2. QED BY <1>9, <1>11, <3>1, <4>1
    <3>2. CASE i \notin {i0, i1, i2}
      <4>1. free[i] = 0 /\ desc'[i] = desc[i]
        BY <1>5, <2>1, <3>2
      <4>2. PICK q \in Active : q = desc[i].buf /\ i \in {idx[q], Mid(q), End(q)}
        BY <1>1, <4>1 DEF ChainInv
      <4>3. desc'[i].buf = q /\ q \in Active'
        BY <1>9, <4>1, <4>2
      <4>4. i \in {idx'[q], Mid(q)', End(q)'}
        BY <1>10, <4>2
      <4>5. QED BY <4>3, <4>4
    <3>3. QED BY <3>1, <3>2
  <2>2. \A q \in Active' : Whole(q)'
    BY <1>9, <1>10, <1>11
  <2>3. QED BY <2>1, <2>2 DEF ChainInv, Mid, End
<1>13. RingInv'
  <2>1. ASSUME NEW h, NEW s, Waiting(h, s) PROVE Waiting(h, s)'
    <3>1. PICK q \in Proc : pc[q] = "wait" /\ idx[q] = h /\ bdisk[q] = 1 /\ status[h] = s
      BY <2>1 DEF Waiting
    <3>2. q \in Active /\ q # p
      BY <1>3, <3>1 DEF Active
    <3>3. idx'[q] = h /\ h \in Desc /\ h # i0
      BY <1>10, <3>1, <3>2
    <3>4. pc'[q] = "wait" /\ bdisk'[q] = 1 /\ status'[h] = s
      BY <1>1, <1>2, <1>3, <3>1, <3>2, <3>3 DEF TypeOK, CodeTypes
    <3>5. QED BY <3>3, <3>4 DEF Waiting
  <2>2. ASSUME NEW q \in Proc, pc'[q] \in {"ring", "notify"} PROVE q = p /\ pc'[p] = "ring"
    BY <1>1, <1>3, <2>2 DEF LockInv, CodeTypes
  <2>3. bdisk'[p] = 1 /\ status'[idx'[p]] = 255
    BY SMTT(30), Z3T(30), <1>1, <1>2, <1>3, <1>4, <1>11 DEF TypeOK
  <2>4. QED BY SMTT(30), Z3T(30), <1>1, <1>3, <2>1, <2>2, <2>3, SameRings
<1>14. QED BY <1>6, <1>7, <1>8, <1>12, <1>13 DEF DInv

(* The request is put in the avail ring, ... *)
LEMMA RingPutInv ==
  ASSUME DInv, NEW p \in Proc, RingPut(p)
  PROVE  DInv'
<1>1. /\ TypeOK /\ CodeTypes /\ LockInv /\ SleepInv /\ ChainInv /\ RingInv /\ CompletionNoticed
  BY DEF DInv
<1>2. /\ pc[p] = "ring" /\ pc' = [pc EXCEPT ![p] = "notify"]
      /\ avail' = [avail EXCEPT ![availidx % NUM] = idx[p]]
      /\ UNCHANGED <<free, desc, infob, availidx, bdisk, idx, devicevars, used_idx, lock, chan, isr, hpc, panicked>>
  BY DEF RingPut, At, Goto
<1>3. /\ idx[p] \in Desc /\ availidx % NUM \in Desc
      /\ \A k \in Win(seen, availidx) : k % NUM # availidx % NUM
  <2>1. availidx \in Index
    BY <1>1 DEF TypeOK, Index
  <2>2. QED BY <1>2, <2>1, AvailRoom, Slot
<1>4. TypeOK' /\ CodeTypes'
  <2>1. avail' \in [Desc -> Desc \cup {Dead}]
    BY <1>1, <1>2, <1>3 DEF TypeOK
  <2>2. QED BY <1>1, <1>2, <2>1 DEF TypeOK, CodeTypes, devicevars
<1>5. LockInv' /\ SleepInv' /\ CompletionNoticed'
  <2>1. LockInv' /\ CompletionNoticed'
    BY <1>1, <1>2 DEF CodeTypes, LockInv, CompletionNoticed, devicevars
  <2>2. SleepInv'
    BY <1>1, <1>2 DEF CodeTypes, SleepInv, FreeDescs
  <2>3. QED BY <2>1, <2>2
<1>6. ChainInv'
  <2>1. Active' = Active
    BY <1>1, <1>2 DEF Active, CodeTypes
  <2>2. QED BY <1>1, <1>2, <2>1, SameChains
<1>7. RingInv'
  <2>1. \A h, s : Waiting(h, s) => Waiting(h, s)'
    BY <1>1, <1>2 DEF Waiting, CodeTypes, devicevars
  <2>2. ASSUME NEW q \in Proc, pc'[q] \in {"ring", "notify"}
        PROVE  /\ bdisk'[q] = 1 /\ status'[idx'[q]] = 255
               /\ pc'[q] = "notify" => avail'[availidx' % NUM] = idx'[q]
    <3>1. q = p
      BY <1>1, <1>2, <2>2 DEF LockInv, CodeTypes
    <3>2. QED BY SMTT(30), Z3T(30), <1>1, <1>2, <1>3, <3>1 DEF RingInv, TypeOK, devicevars
  <2>3. Win(seen, availidx)' = Win(seen, availidx)
    BY <1>2 DEF Win, devicevars
  <2>4. \A k \in Win(seen, availidx) : avail'[k % NUM] = avail[k % NUM]
    <3>1. \A k \in Win(seen, availidx) : k % NUM \in Desc
      BY Slot DEF Win
    <3>2. QED BY <1>1, <1>2, <1>3, <3>1 DEF TypeOK
  <2>5. RingOK(avail, seen, availidx)' /\ RingOK(used, used_idx, usedidx)'
    <3>1. RingOK(avail, seen, availidx) /\ RingOK(used, used_idx, usedidx)
      BY <1>1 DEF RingInv
    <3>2. QED BY SMTT(30), Z3T(30), <1>2, <2>3, <2>4, <3>1 DEF RingOK, Win, devicevars
  <2>6. \A k \in Win(seen, availidx)' : avail'[k % NUM] \notin inflight' /\ Waiting(avail[k % NUM], 255)'
    BY SMTT(30), Z3T(30), <1>1, <1>2, <2>1, <2>3, <2>4 DEF RingInv, devicevars, Waiting
  <2>7. (\A h \in inflight' : Waiting(h, 255)') /\ \A k \in Win(used_idx, usedidx)' : Waiting(used[k % NUM], 0)'
    BY SMTT(30), Z3T(30), <1>1, <1>2, <2>1 DEF RingInv, devicevars, Waiting, Win
  <2>8. QED BY SMTT(30), Z3T(30), <2>2, <2>5, <2>6, <2>7 DEF RingInv
<1>8. QED BY <1>4, <1>5, <1>6, <1>7 DEF DInv

(* ... the device is told, and virtio_disk_rw() sleeps. *)
LEMMA NotifyInv ==
  ASSUME DInv, NEW p \in Proc, Notify(p)
  PROVE  DInv'
<1>1. /\ TypeOK /\ CodeTypes /\ LockInv /\ SleepInv /\ ChainInv /\ RingInv /\ CompletionNoticed
      /\ Nobody \notin Proc /\ Intr \notin Proc /\ Nobody # Intr
  BY ProcAssumption DEF DInv
<1>2. /\ pc[p] = "notify" /\ pc' = [pc EXCEPT ![p] = "wait"] /\ lock' = Nobody
      /\ chan' = [chan EXCEPT ![p] = "buf"] /\ availidx' = (availidx + 1) % UINT16
      /\ UNCHANGED <<free, desc, infob, avail, bdisk, idx, devicevars, used_idx, isr, hpc, panicked>>
  BY DEF Notify, At, Goto
<1>3. /\ idx[p] \in Desc /\ idx[p] \notin inflight
      /\ \A k \in Win(seen, availidx) : avail[k % NUM] # idx[p]
      /\ (availidx - seen) % UINT16 < NUM - 1 /\ availidx \in Index /\ seen \in Index
  BY <1>1, <1>2, AvailRoom DEF TypeOK, Index
<1>4. /\ availidx' \in Index
      /\ Win(seen, availidx') = Win(seen, availidx) \cup {availidx}
  <2>1. (availidx - seen) % UINT16 < UINT16 - 1
    <3>1. NUM \in Int /\ UINT16 \in Int /\ NUM <= UINT16 /\ (availidx - seen) % UINT16 \in Int
      BY SMTT(30), Z3T(30), <1>3, Slot, NumAssumption, DivMod DEF Index
    <3>2. QED BY SMTT(30), Z3T(30), <1>3, <3>1
  <2>2. QED BY <1>2, <1>3, <2>1, WinPut
<1>5. TypeOK' /\ CodeTypes'
  BY <1>1, <1>2, <1>4 DEF TypeOK, CodeTypes, devicevars, Index
<1>6. bdisk[p] = 1 /\ status[idx[p]] = 255 /\ avail[availidx % NUM] = idx[p]
  BY SMTT(30), Z3T(30), <1>1, <1>2 DEF RingInv
<1>7. LockInv' /\ SleepInv' /\ CompletionNoticed'
  <2>1. LockInv' /\ CompletionNoticed'
    BY <1>1, <1>2 DEF CodeTypes, LockInv, CompletionNoticed, devicevars
  <2>2. SleepInv'
    BY SMTT(30), Z3T(30), <1>1, <1>2, <1>6 DEF SleepInv, FreeDescs, TypeOK, CodeTypes
  <2>3. QED BY <2>1, <2>2
<1>8. ChainInv'
  <2>1. Active' = Active
    BY <1>1, <1>2 DEF Active, CodeTypes
  <2>2. QED BY <1>1, <1>2, <2>1, SameChains
<1>9. RingInv'
  <2>1. (\A h, s : Waiting(h, s) => Waiting(h, s)') /\ Waiting(idx[p], 255)'
    BY SMTT(30), Z3T(30), <1>1, <1>2, <1>6 DEF Waiting, CodeTypes, devicevars
  <2>2. ASSUME NEW q \in Proc PROVE pc'[q] \notin {"ring", "notify"}
    BY <1>1, <1>2 DEF LockInv, CodeTypes
  <2>3. RingOK(avail, seen, availidx') /\ seen' = seen /\ avail' = avail
    BY SMTT(30), Z3T(30), <1>1, <1>2, <1>3, <1>4, <1>6 DEF RingInv, RingOK, devicevars
  <2>4. RingOK(avail, seen, availidx)' /\ RingOK(used, used_idx, usedidx)'
    <3>1. RingOK(used, used_idx, usedidx)
      BY <1>1 DEF RingInv
    <3>2. QED BY SMTT(30), Z3T(30), <1>2, <2>3, <3>1 DEF RingOK, Win, devicevars
  <2>5. ASSUME NEW k \in Win(seen, availidx')
        PROVE  avail[k % NUM] \notin inflight /\ Waiting(avail[k % NUM], 255)'
    <3>1. CASE k = availidx
      <4>1. avail[k % NUM] = idx[p] BY <1>6, <3>1
      <4>2. QED BY SMTT(30), Z3T(30), <1>2, <1>3, <2>1, <4>1 DEF Waiting
    <3>2. CASE k \in Win(seen, availidx)
      <4>1. PICK h : h = avail[k % NUM] /\ h \notin inflight /\ Waiting(h, 255)
        BY SMTT(30), Z3T(30), <1>1, <3>2 DEF RingInv
      <4>2. Waiting(h, 255)'
        BY <2>1, <4>1
      <4>3. QED BY <1>2, <4>1, <4>2 DEF Waiting
    <3>3. QED BY <1>4, <3>1, <3>2
  <2>6. (\A h \in inflight' : Waiting(h, 255)') /\ \A k \in Win(used_idx, usedidx)' : Waiting(used[k % NUM], 0)'
    BY SMTT(30), Z3T(30), <1>1, <1>2, <2>1 DEF RingInv, devicevars, Waiting, Win
  <2>7. Win(seen, availidx)' = Win(seen, availidx') /\ inflight' = inflight
    BY <1>2, <2>3 DEF Win, devicevars
  <2>8. \A k \in Win(seen, availidx)' : avail'[k % NUM] \notin inflight' /\ Waiting(avail[k % NUM], 255)'
    BY <2>3, <2>5, <2>7
  <2>9. QED BY <2>2, <2>4, <2>6, <2>8 DEF RingInv
<1>10. QED BY <1>5, <1>7, <1>8, <1>9 DEF DInv

(* The request is done: free_chain() frees its three descriptors. *)
LEMMA FinishInv ==
  ASSUME DInv, NEW p \in Proc, Finish(p)
  PROVE  DInv'
<1>1. /\ TypeOK /\ CodeTypes /\ LockInv /\ SleepInv /\ ChainInv /\ RingInv /\ CompletionNoticed
  BY DEF DInv
<1>2. /\ pc[p] = "wait" /\ chan[p] = "none" /\ bdisk[p] = 0 /\ lock = Nobody
      /\ pc' = [pc EXCEPT ![p] = "idle"]
      /\ infob' = [infob EXCEPT ![idx[p]] = Nobody]
      /\ free' = [i \in Desc |-> IF i \in Chain(idx[p]) THEN 1 ELSE free[i]]
      /\ desc' = [i \in Desc |-> IF i \in Chain(idx[p]) THEN NoDesc ELSE desc[i]]
      /\ idx' = [idx EXCEPT ![p] = 0]
      /\ chan' = WakeFree(chan)
      /\ UNCHANGED <<avail, availidx, bdisk, devicevars, used_idx, lock, isr, hpc>>
      /\ panicked' = IF \E i \in Chain(idx[p]) : free[i] = 1 THEN "free_desc" ELSE "none"
  BY DEF Finish, At, Goto
<1>3. /\ p \in Active /\ Whole(p) /\ idx[p] \in Desc /\ Mid(p) \in Desc /\ End(p) \in Desc /\ 0 \in Desc
      /\ Active' = Active \ {p} /\ \A q \in Active : q \in Proc
  <2>1. p \in Active
    BY <1>2 DEF Active
  <2>2. Active' = Active \ {p} /\ (\A q \in Active : q \in Proc) /\ 0 \in Desc
    BY SMTT(30), Z3T(30), <1>1, <1>2, NumAssumption DEF Active, CodeTypes, Desc
  <2>3. QED BY <1>1, <2>1, <2>2, Heads DEF ChainInv
<1>4. Chain(idx[p]) = {idx[p], Mid(p), End(p)}
  BY <1>3, WholeChain
<1>5. /\ \A i \in Chain(idx[p]) : desc[i].buf = p /\ free[i] = 0
      /\ \A i \in Desc : i \notin Chain(idx[p]) => desc'[i] = desc[i] /\ free'[i] = free[i]
  BY <1>2, <1>3, <1>4 DEF Whole
<1>6. TypeOK'
  <2>1. free' \in [Desc -> 0 .. 1]
    BY SMTT(30), Z3T(30), <1>1, <1>2 DEF TypeOK
  <2>2. desc' \in [Desc -> [buf : Proc \cup {Nobody}, next : Desc, more : 0 .. 1]]
    <3>1. NoDesc \in [buf : Proc \cup {Nobody}, next : Desc, more : 0 .. 1]
      BY SMTT(30), Z3T(30), <1>3 DEF NoDesc
    <3>2. QED BY SMTT(30), Z3T(30), <1>1, <1>2, <3>1 DEF TypeOK
  <2>3. infob' \in [Desc -> Proc \cup {Nobody}] /\ idx' \in [Proc -> Desc]
    BY <1>1, <1>2, <1>3 DEF TypeOK
  <2>4. chan' \in [Proc -> {"none", "free", "buf"}]
    BY <1>1, <1>2 DEF TypeOK, WakeFree
  <2>5. QED BY <1>1, <1>2, <2>1, <2>2, <2>3, <2>4 DEF TypeOK, devicevars
<1>7. CodeTypes' /\ LockInv' /\ CompletionNoticed'
  <2>1. panicked' = "none"
    BY SMTT(30), Z3T(30), <1>2, <1>5
  <2>2. CodeTypes' /\ CompletionNoticed'
    BY <1>1, <1>2, <2>1 DEF CodeTypes, CompletionNoticed, devicevars
  <2>3. LockInv'
    BY <1>1, <1>2, ProcAssumption DEF CodeTypes, LockInv
  <2>4. QED BY <2>2, <2>3
<1>8. SleepInv'
  <2>1. ASSUME NEW q \in Proc PROVE chan'[q] # "free" /\ (chan'[q] = "buf" => chan[q] = "buf")
    BY <1>1, <1>2 DEF TypeOK, WakeFree
  <2>2. ASSUME NEW q \in Proc, chan'[q] = "buf" PROVE pc'[q] = "wait" /\ bdisk'[q] = 1
    BY <1>1, <1>2, <2>1, <2>2 DEF SleepInv, CodeTypes
  <2>3. QED BY <2>1, <2>2 DEF SleepInv
<1>9. ASSUME NEW q \in Active \ {p}
      PROVE  /\ idx'[q] = idx[q] /\ Mid(q)' = Mid(q) /\ End(q)' = End(q) /\ Whole(q)'
  <2>1. Whole(q) /\ idx[q] \in Desc /\ Mid(q) \in Desc /\ End(q) \in Desc /\ q \in Proc
    BY <1>1, Heads DEF ChainInv, Active
  <2>2. \A i \in {idx[q], Mid(q), End(q)} : i \notin Chain(idx[p]) /\ i \in Desc
    BY SMTT(30), Z3T(30), <1>5, <2>1 DEF Whole
  <2>3. idx'[q] = idx[q] /\ infob'[idx[q]] = infob[idx[q]]
    BY SMTT(30), Z3T(30), <1>1, <1>2, <1>4, <2>1, <2>2 DEF TypeOK
  <2>4. \A i \in {idx[q], Mid(q), End(q)} : desc'[i] = desc[i] /\ free'[i] = free[i]
    BY <1>5, <2>2
  <2>5. Mid(q)' = Mid(q) /\ End(q)' = End(q)
    BY <2>3, <2>4, SameChain
  <2>6. QED BY <2>1, <2>3, <2>4, <2>5 DEF Whole
<1>10. ChainInv'
  <2>1. ASSUME NEW i \in Desc, free'[i] = 0
        PROVE  \E q \in Active' : desc'[i].buf = q /\ i \in {idx'[q], Mid(q)', End(q)'}
    <3>1. i \notin Chain(idx[p])
      <4>1. i \in Chain(idx[p]) => free'[i] = 1
        BY <1>2
      <4>2. QED BY SMTT(30), Z3T(30), <2>1, <4>1
    <3>2. free[i] = 0 /\ desc'[i] = desc[i]
      BY <1>5, <2>1, <3>1
    <3>3. PICK q \in Active : q = desc[i].buf /\ i \in {idx[q], Mid(q), End(q)}
      BY <1>1, <3>2 DEF ChainInv
    <3>4. q # p
      BY <1>4, <3>1, <3>3
    <3>5. q \in Active' /\ i \in {idx'[q], Mid(q)', End(q)'}
      BY <1>3, <1>9, <3>3, <3>4
    <3>6. QED BY <3>2, <3>3, <3>5
  <2>2. \A q \in Active' : Whole(q)'
    BY <1>3, <1>9
  <2>3. QED BY <2>1, <2>2 DEF ChainInv, Mid, End
<1>11. RingInv'
  <2>1. ASSUME NEW h, NEW s, Waiting(h, s) PROVE Waiting(h, s)'
    <3>1. PICK q \in Proc : pc[q] = "wait" /\ idx[q] = h /\ bdisk[q] = 1 /\ status[h] = s
      BY <2>1 DEF Waiting
    <3>2. q \in Active \ {p}
      BY SMTT(30), Z3T(30), <1>2, <3>1 DEF Active
    <3>3. idx'[q] = h
      BY <1>9, <3>1, <3>2
    <3>4. pc'[q] = "wait" /\ bdisk'[q] = 1 /\ status'[h] = s
      BY <1>1, <1>2, <3>1, <3>2 DEF CodeTypes, devicevars
    <3>5. QED BY <3>3, <3>4 DEF Waiting
  <2>2. ASSUME NEW q \in Proc PROVE pc'[q] \notin {"ring", "notify"}
    BY <1>1, <1>2, ProcAssumption DEF LockInv, CodeTypes
  <2>3. UNCHANGED <<avail, availidx, seen, inflight, used, usedidx, used_idx>>
    BY <1>2 DEF devicevars
  <2>4. QED BY <1>1, <2>1, <2>2, <2>3, SameRings
<1>12. QED BY <1>6, <1>7, <1>8, <1>10, <1>11 DEF DInv

(* The device takes a request from the avail ring. *)
LEMMA DeviceFetchInv ==
  ASSUME DInv, DeviceFetch
  PROVE  DInv'
<1>1. /\ TypeOK /\ CodeTypes /\ LockInv /\ SleepInv /\ ChainInv /\ RingInv /\ CompletionNoticed
  BY DEF DInv
<1>2. /\ seen \in Index /\ availidx \in Index /\ seen \in Win(seen, availidx) /\ seen' \in Index
      /\ Win(seen', availidx) = Win(seen, availidx) \ {seen}
      /\ seen % NUM \in Desc
  BY <1>1, WinTake, Slot DEF DeviceFetch, TypeOK, Index
<1>3. PICK h \in Desc : h = avail[seen % NUM]
  BY <1>1, <1>2 DEF RingInv, RingOK
<1>4. /\ panicked' = panicked /\ inflight' = inflight \cup {h}
      /\ avail' = [avail EXCEPT ![seen % NUM] = Dead]
      /\ UNCHANGED <<free, desc, infob, availidx, bdisk, idx, used, usedidx, status, used_idx, lock, pc, chan, isr, hpc>>
  <2>1. h # Dead
    BY Slot
  <2>2. QED BY <1>3, <2>1 DEF DeviceFetch
<1>5. TypeOK' /\ CodeTypes'
  <2>1. avail' \in [Desc -> Desc \cup {Dead}]
    BY <1>1, <1>4 DEF TypeOK
  <2>2. QED BY <1>1, <1>2, <1>4, <2>1 DEF TypeOK, CodeTypes, Index
<1>6. LockInv' /\ SleepInv' /\ CompletionNoticed'
  BY <1>1, <1>4 DEF LockInv, SleepInv, FreeDescs, CompletionNoticed
<1>7. ChainInv'
  <2>1. Active' = Active
    BY <1>4 DEF Active
  <2>2. QED BY <1>1, <1>4, <2>1, SameChains
<1>8. RingInv'
  <2>1. \A x, s : Waiting(x, s) <=> Waiting(x, s)'
    BY <1>4 DEF Waiting
  <2>2. ASSUME NEW q \in Proc, pc[q] \in {"ring", "notify"}
        PROVE  /\ bdisk'[q] = 1 /\ status'[idx'[q]] = 255
               /\ pc[q] = "notify" => avail'[availidx' % NUM] = idx'[q]
    <3>1. availidx % NUM # seen % NUM /\ availidx % NUM \in Desc
      BY <1>2, <2>2, AvailRoom, Slot
    <3>2. QED BY SMTT(30), Z3T(30), <1>1, <1>4, <2>2, <3>1 DEF RingInv, TypeOK
  <2>3. ASSUME NEW k \in Win(seen', availidx)
        PROVE  k \in Win(seen, availidx) /\ avail'[k % NUM] = avail[k % NUM] /\ avail[k % NUM] # h
    <3>1. k \in Win(seen, availidx) /\ k # seen
      BY <1>2
    <3>2. avail[k % NUM] # h
      BY <1>1, <1>2, <1>3, <3>1 DEF RingInv, RingOK
    <3>3. k % NUM # seen % NUM /\ k % NUM \in Desc
      BY <1>3, <3>1, <3>2, Slot DEF Win
    <3>4. QED BY <1>1, <1>4, <3>1, <3>2, <3>3 DEF TypeOK
  <2>4. RingOK(avail', seen', availidx)
    BY SMTT(30), Z3T(30), <1>1, <2>3 DEF RingInv, RingOK
  <2>5. RingOK(avail, seen, availidx)' /\ RingOK(used, used_idx, usedidx)'
    <3>1. RingOK(used, used_idx, usedidx)
      BY <1>1 DEF RingInv
    <3>2. QED BY SMTT(30), Z3T(30), <1>4, <2>4, <3>1 DEF RingOK, Win
  <2>6. ASSUME NEW k \in Win(seen', availidx)
        PROVE  avail'[k % NUM] \notin inflight' /\ Waiting(avail[k % NUM], 255)'
    <3>1. PICK x : x = avail[k % NUM] /\ x = avail'[k % NUM] /\ x # h /\ x \notin inflight /\ Waiting(x, 255)
      BY SMTT(30), Z3T(30), <1>1, <2>3 DEF RingInv
    <3>2. Waiting(x, 255)'
      BY <2>1, <3>1
    <3>3. x \notin inflight'
      BY <1>4, <3>1
    <3>4. QED BY <3>1, <3>2, <3>3 DEF Waiting
  <2>7. ASSUME NEW x \in inflight' PROVE Waiting(x, 255)'
    <3>1. Waiting(x, 255)
      BY SMTT(30), Z3T(30), <1>1, <1>2, <1>3, <1>4 DEF RingInv
    <3>2. QED BY <2>1, <3>1
  <2>8. \A k \in Win(used_idx, usedidx)' : Waiting(used[k % NUM], 0)'
    BY SMTT(30), Z3T(30), <1>1, <1>4 DEF RingInv, Waiting, Win
  <2>9. QED BY SMTT(30), Z3T(30), <1>4, <2>2, <2>5, <2>6, <2>7, <2>8 DEF RingInv, Waiting, Win
<1>9. QED BY <1>5, <1>6, <1>7, <1>8 DEF DInv

(* The device finishes a request and adds it to the used ring. *)
LEMMA DeviceCompleteInv ==
  ASSUME DInv, NEW h \in Desc, DeviceComplete(h)
  PROVE  DInv'
<1>1. /\ TypeOK /\ CodeTypes /\ LockInv /\ SleepInv /\ ChainInv /\ RingInv /\ CompletionNoticed
  BY DEF DInv
<1>2. /\ h \in inflight /\ inflight' = inflight \ {h} /\ status' = [status EXCEPT ![h] = 0]
      /\ used' = [used EXCEPT ![usedidx % NUM] = h] /\ usedidx' = (usedidx + 1) % UINT16 /\ isr' = 1
      /\ UNCHANGED <<drivervars, seen, used_idx, lock, pc, chan, hpc, panicked>>
  BY DEF DeviceComplete
<1>3. /\ (usedidx - used_idx) % UINT16 < NUM - 1 /\ usedidx \in Index /\ used_idx \in Index
      /\ \A k \in Win(used_idx, usedidx) : k % NUM # usedidx % NUM /\ used[k % NUM] # h
      /\ usedidx % NUM \in Desc
  BY <1>1, <1>2, UsedRoom, Slot DEF TypeOK, Index
<1>4. /\ usedidx' \in Index
      /\ Win(used_idx, usedidx') = Win(used_idx, usedidx) \cup {usedidx}
  <2>1. (usedidx - used_idx) % UINT16 < UINT16 - 1
    <3>1. NUM \in Int /\ UINT16 \in Int /\ NUM <= UINT16 /\ (usedidx - used_idx) % UINT16 \in Int
      BY SMTT(30), Z3T(30), <1>3, Slot, NumAssumption, DivMod DEF Index
    <3>2. QED BY SMTT(30), Z3T(30), <1>3, <3>1
  <2>2. QED BY <1>2, <1>3, <2>1, WinPut
<1>5. TypeOK' /\ CodeTypes'
  <2>1. used' \in [Desc -> Desc \cup {Dead}] /\ status' \in [Desc -> {0, 255}]
    BY <1>1, <1>2 DEF TypeOK
  <2>2. QED BY SMTT(30), Z3T(30), <1>1, <1>2, <1>4, <2>1 DEF TypeOK, CodeTypes, Index, drivervars
<1>6. LockInv' /\ SleepInv' /\ CompletionNoticed'
  BY <1>1, <1>2 DEF LockInv, SleepInv, FreeDescs, CompletionNoticed, drivervars
<1>7. ChainInv'
  <2>1. Active' = Active
    BY <1>2 DEF Active
  <2>2. QED BY <1>1, <1>2, <2>1, SameChains DEF drivervars
<1>8. RingInv'
  <2>1. /\ \A x : x # h /\ Waiting(x, 255) => Waiting(x, 255)'
        /\ \A x : Waiting(x, 0) => Waiting(x, 0)'
        /\ Waiting(h, 0)'
    <3>1. \A x \in Desc : x # h => status'[x] = status[x]
      BY SMTT(30), Z3T(30), <1>1, <1>2 DEF TypeOK
    <3>2. status'[h] = 0
      BY SMTT(30), Z3T(30), <1>1, <1>2 DEF TypeOK
    <3>3. \A p \in Proc : idx[p] \in Desc
      BY <1>1 DEF TypeOK
    <3>4. Waiting(h, 255)
      BY <1>1, <1>2 DEF RingInv
    <3>5. QED BY SMTT(30), Z3T(30), <1>2, <3>1, <3>2, <3>3, <3>4 DEF Waiting, drivervars
  <2>2. ASSUME NEW q \in Proc, pc[q] \in {"ring", "notify"}
        PROVE  /\ bdisk'[q] = 1 /\ status'[idx'[q]] = 255
               /\ pc[q] = "notify" => avail'[availidx' % NUM] = idx'[q]
    <3>1. idx[q] # h /\ idx[q] \in Desc
      BY <1>2, <2>2, AvailRoom
    <3>2. QED BY SMTT(30), Z3T(30), <1>1, <1>2, <2>2, <3>1 DEF RingInv, TypeOK, drivervars
  <2>3. ASSUME NEW k \in Win(used_idx, usedidx)
        PROVE  used'[k % NUM] = used[k % NUM] /\ used[k % NUM] # h
    <3>1. k % NUM \in Desc
      BY Slot DEF Win
    <3>2. QED BY SMTT(30), Z3T(30), <1>1, <1>2, <1>3, <3>1 DEF TypeOK
  <2>4. used'[usedidx % NUM] = h
    BY SMTT(30), Z3T(30), <1>1, <1>2, <1>3 DEF TypeOK
  <2>5. RingOK(used', used_idx, usedidx')
    <3>1. RingOK(used, used_idx, usedidx)
      BY <1>1 DEF RingInv
    <3>2. QED BY SMTT(30), Z3T(30), <1>4, <2>3, <2>4, <3>1 DEF RingOK
  <2>6. RingOK(used, used_idx, usedidx)' /\ RingOK(avail, seen, availidx)'
    <3>1. RingOK(avail, seen, availidx)
      BY <1>1 DEF RingInv
    <3>2. QED BY SMTT(30), Z3T(30), <1>2, <2>5, <3>1 DEF RingOK, Win, drivervars
  <2>7. ASSUME NEW k \in Win(used_idx, usedidx') PROVE Waiting(used[k % NUM], 0)'
    <3>1. PICK x : x = used'[k % NUM] /\ Waiting(x, 0)'
      <4>1. CASE k = usedidx
        BY <2>1, <2>4, <4>1
      <4>2. CASE k \in Win(used_idx, usedidx)
        BY SMTT(30), Z3T(30), <1>1, <2>1, <2>3, <4>2 DEF RingInv
      <4>3. QED BY <1>4, <4>1, <4>2
    <3>2. QED BY <3>1 DEF Waiting
  <2>8. ASSUME NEW k \in Win(seen, availidx)
        PROVE  avail'[k % NUM] \notin inflight' /\ Waiting(avail[k % NUM], 255)'
    <3>1. PICK x : x = avail[k % NUM] /\ x \notin inflight /\ Waiting(x, 255)
      BY SMTT(30), Z3T(30), <1>1 DEF RingInv
    <3>2. Waiting(x, 255)'
      BY <1>2, <2>1, <3>1
    <3>3. QED BY <1>2, <3>1, <3>2 DEF Waiting, drivervars
  <2>9. ASSUME NEW x \in inflight' PROVE Waiting(x, 255)'
    BY <1>1, <1>2, <2>1, <2>9 DEF RingInv
  <2>10. /\ \A q \in Proc : pc'[q] \in {"ring", "notify"} => bdisk'[q] = 1 /\ status'[idx'[q]] = 255
         /\ \A q \in Proc : pc'[q] = "notify" => avail'[availidx' % NUM] = idx'[q]
    BY <1>2, <2>2 DEF drivervars
  <2>11. Win(seen, availidx)' = Win(seen, availidx) /\ Win(used_idx, usedidx)' = Win(used_idx, usedidx')
    BY <1>2 DEF Win, drivervars
  <2>12. /\ \A k \in Win(seen, availidx)' :
              avail'[k % NUM] \notin inflight' /\ Waiting(avail[k % NUM], 255)'
         /\ \A k \in Win(used_idx, usedidx)' : Waiting(used[k % NUM], 0)'
    BY <2>7, <2>8, <2>11
  <2>13. QED BY <2>6, <2>9, <2>10, <2>12 DEF RingInv
<1>9. QED BY <1>5, <1>6, <1>7, <1>8 DEF DInv

(* The handler takes an entry of the used ring. *)
LEMMA IntrEntryInv ==
  ASSUME DInv, IntrEntry
  PROVE  DInv'
<1>1. /\ TypeOK /\ CodeTypes /\ LockInv /\ SleepInv /\ ChainInv /\ RingInv /\ CompletionNoticed
  BY DEF DInv
<1>2. /\ used_idx \in Index /\ usedidx \in Index /\ used_idx \in Win(used_idx, usedidx) /\ used_idx' \in Index
      /\ Win(used_idx', usedidx) = Win(used_idx, usedidx) \ {used_idx}
      /\ used_idx % NUM \in Desc
  BY <1>1, WinTake, Slot DEF IntrEntry, TypeOK, Index
<1>3. PICK h \in Desc : h = used[used_idx % NUM] /\ Waiting(h, 0)
  BY SMTT(30), Z3T(30), <1>1, <1>2 DEF RingInv, RingOK
<1>4. PICK p \in Proc : pc[p] = "wait" /\ idx[p] = h /\ bdisk[p] = 1 /\ status[h] = 0
  BY <1>3 DEF Waiting
<1>5. p \in Active /\ infob[h] = p /\ p # Nobody
  BY <1>1, <1>4, ProcAssumption DEF Active, ChainInv, Whole
<1>6. /\ hpc = "loop" /\ panicked' = panicked /\ bdisk' = [bdisk EXCEPT ![p] = 0]
      /\ chan' = [chan EXCEPT ![p] = IF chan[p] = "buf" THEN "none" ELSE chan[p]]
      /\ used' = [used EXCEPT ![used_idx % NUM] = Dead]
      /\ UNCHANGED <<free, desc, infob, avail, availidx, idx, usedidx, status, seen, inflight, lock, pc, isr, hpc>>
  <2>1. h # Dead
    BY Slot
  <2>2. QED BY <1>3, <1>4, <1>5, <2>1 DEF IntrEntry
<1>7. TypeOK' /\ CodeTypes'
  <2>1. used' \in [Desc -> Desc \cup {Dead}]
    BY <1>1, <1>6 DEF TypeOK
  <2>2. bdisk' \in [Proc -> 0 .. 1]
    BY SMTT(30), Z3T(30), <1>1, <1>6 DEF TypeOK
  <2>3. chan' \in [Proc -> {"none", "free", "buf"}]
    BY <1>1, <1>6 DEF TypeOK
  <2>4. QED BY <1>1, <1>2, <1>6, <2>1, <2>2, <2>3 DEF TypeOK, CodeTypes, Index
<1>8. LockInv' /\ CompletionNoticed'
  BY <1>1, <1>6 DEF LockInv, CompletionNoticed
<1>9. SleepInv'
  BY <1>1, <1>6 DEF SleepInv, FreeDescs, TypeOK
<1>10. ChainInv'
  <2>1. Active' = Active
    BY <1>6 DEF Active
  <2>2. QED BY <1>1, <1>6, <2>1, SameChains
<1>11. RingInv'
  <2>1. ASSUME NEW x, NEW s, x # h, Waiting(x, s) PROVE Waiting(x, s)'
    <3>1. PICK q \in Proc : pc[q] = "wait" /\ idx[q] = x /\ bdisk[q] = 1 /\ status[x] = s
      BY <2>1 DEF Waiting
    <3>2. q # p
      BY <1>4, <2>1, <3>1
    <3>3. QED BY <1>1, <1>6, <3>1, <3>2 DEF Waiting, TypeOK
  <2>2. ASSUME NEW x, Waiting(x, 255) PROVE Waiting(x, 255)'
    <3>1. x # h
      BY SMTT(30), Z3T(30), <1>4, <2>2 DEF Waiting
    <3>2. QED BY <2>1, <2>2, <3>1
  <2>3. ASSUME NEW q \in Proc, pc[q] \in {"ring", "notify"}
        PROVE  /\ bdisk'[q] = 1 /\ status'[idx'[q]] = 255
               /\ pc[q] = "notify" => avail'[availidx' % NUM] = idx'[q]
    <3>1. q # p
      BY <1>4, <2>3
    <3>2. QED BY SMTT(30), Z3T(30), <1>1, <1>6, <2>3, <3>1 DEF RingInv, TypeOK
  <2>4. ASSUME NEW k \in Win(used_idx', usedidx)
        PROVE  k \in Win(used_idx, usedidx) /\ used'[k % NUM] = used[k % NUM] /\ used[k % NUM] # h
    <3>1. k \in Win(used_idx, usedidx) /\ k # used_idx
      BY <1>2
    <3>2. used[k % NUM] # h
      BY <1>1, <1>2, <1>3, <3>1 DEF RingInv, RingOK
    <3>3. k % NUM # used_idx % NUM /\ k % NUM \in Desc
      BY <1>3, <3>1, <3>2, Slot DEF Win
    <3>4. QED BY <1>1, <1>6, <3>1, <3>2, <3>3 DEF TypeOK
  <2>5. RingOK(used', used_idx', usedidx)
    BY SMTT(30), Z3T(30), <1>1, <2>4 DEF RingInv, RingOK
  <2>6. RingOK(used, used_idx, usedidx)' /\ RingOK(avail, seen, availidx)'
    <3>1. RingOK(avail, seen, availidx)
      BY <1>1 DEF RingInv
    <3>2. QED BY SMTT(30), Z3T(30), <1>6, <2>5, <3>1 DEF RingOK, Win
  <2>7. ASSUME NEW k \in Win(used_idx', usedidx) PROVE Waiting(used[k % NUM], 0)'
    <3>1. PICK x : x = used'[k % NUM] /\ x # h /\ Waiting(x, 0)
      BY SMTT(30), Z3T(30), <1>1, <2>4 DEF RingInv
    <3>2. Waiting(x, 0)'
      BY <2>1, <3>1
    <3>3. QED BY <3>1, <3>2 DEF Waiting
  <2>8. ASSUME NEW k \in Win(seen, availidx)
        PROVE  avail'[k % NUM] \notin inflight' /\ Waiting(avail[k % NUM], 255)'
    <3>1. PICK x : x = avail[k % NUM] /\ x \notin inflight /\ Waiting(x, 255)
      BY SMTT(30), Z3T(30), <1>1 DEF RingInv
    <3>2. Waiting(x, 255)'
      BY <2>2, <3>1
    <3>3. QED BY <1>6, <3>1, <3>2 DEF Waiting
  <2>9. ASSUME NEW x \in inflight' PROVE Waiting(x, 255)'
    BY <1>1, <1>6, <2>2, <2>9 DEF RingInv
  <2>10. /\ \A q \in Proc : pc'[q] \in {"ring", "notify"} => bdisk'[q] = 1 /\ status'[idx'[q]] = 255
         /\ \A q \in Proc : pc'[q] = "notify" => avail'[availidx' % NUM] = idx'[q]
    BY <1>6, <2>3
  <2>11. Win(seen, availidx)' = Win(seen, availidx) /\ Win(used_idx, usedidx)' = Win(used_idx', usedidx)
    BY <1>6 DEF Win
  <2>12. /\ \A k \in Win(seen, availidx)' :
              avail'[k % NUM] \notin inflight' /\ Waiting(avail[k % NUM], 255)'
         /\ \A k \in Win(used_idx, usedidx)' : Waiting(used[k % NUM], 0)'
    BY <2>7, <2>8, <2>11
  <2>13. QED BY <2>6, <2>9, <2>10, <2>12 DEF RingInv
<1>12. QED BY <1>7, <1>8, <1>9, <1>10, <1>11 DEF DInv

(* Every step keeps the invariant. *)
LEMMA NextDInv ==
  ASSUME DInv, [Next]_vars
  PROVE  DInv'
BY QuietSteps, AllocFormatInv, RingPutInv, NotifyInv, FinishInv, DeviceFetchInv, DeviceCompleteInv,
   IntrEntryInv DEF Next, DriverStep, IntrStep, DeviceStep

-----------------------------------------------------------------------------
(* The invariant DInv holds in every state of virtio_disk.c and its device. *)
THEOREM DInvAlways == Spec => []DInv
BY InitDInv, NextDInv, PTL DEF Spec

(* Descriptors are free or belong to the chain of three of one request,    *)
(* whatever the order of completions, and neither virtio_disk_intr() nor   *)
(* free_chain() panics, nor does a side read an old ring entry.            *)
THEOREM WellFormedAlways == Spec => []WellFormed
<1>1. ASSUME DInv PROVE WellFormed
  <2>1. TypeOK /\ CodeTypes /\ ChainInv
    BY <1>1 DEF DInv
  <2>2. ASSUME NEW p \in Active
        PROVE  /\ Chain(idx[p]) = {idx[p], Mid(p), End(p)} /\ Chain(idx[p]) \subseteq Desc
               /\ Cardinality(Chain(idx[p])) = 3
               /\ \A i \in Chain(idx[p]) : desc[i].buf = p /\ free[i] = 0
    <3>1. Whole(p) /\ idx[p] \in Desc /\ Mid(p) \in Desc /\ End(p) \in Desc
      BY <1>1, <2>1, Heads DEF ChainInv
    <3>2. Chain(idx[p]) = {idx[p], Mid(p), End(p)}
      BY <3>1, WholeChain
    <3>3. idx[p] # Mid(p) /\ idx[p] # End(p) /\ Mid(p) # End(p)
      BY <3>1 DEF Whole
    <3>4. IsFiniteSet({idx[p]}) /\ Cardinality({idx[p]}) = 1
      BY FS_Singleton
    <3>5. IsFiniteSet({idx[p]} \cup {Mid(p)}) /\ Cardinality({idx[p]} \cup {Mid(p)}) = 2
      BY SMTT(30), Z3T(30), <3>3, <3>4, FS_AddElement
    <3>6. Cardinality(({idx[p]} \cup {Mid(p)}) \cup {End(p)}) = 3
      BY SMTT(30), Z3T(30), <3>3, <3>5, FS_AddElement
    <3>7. Chain(idx[p]) = ({idx[p]} \cup {Mid(p)}) \cup {End(p)}
      BY <3>2, ZenonT(30)
    <3>8. QED BY <3>1, <3>2, <3>6, <3>7 DEF Whole
  <2>3. ASSUME NEW i \in Desc, free[i] = 0 PROVE \E p \in Active : i \in Chain(idx[p])
    <3>1. PICK p \in Active : p = desc[i].buf /\ i \in {idx[p], Mid(p), End(p)}
      BY <2>1, <2>3 DEF ChainInv
    <3>2. QED BY <2>2, <3>1
  <2>4. {i \in Desc : free[i] = 0} = UNION {Chain(idx[p]) : p \in Active}
    <3>1. \A i : i \in UNION {Chain(idx[p]) : p \in Active} <=> \E p \in Active : i \in Chain(idx[p])
      BY ZenonT(30)
    <3>2. \A i : (i \in Desc /\ free[i] = 0) <=> \E p \in Active : i \in Chain(idx[p])
      BY <2>2, <2>3
    <3>3. QED BY <3>1, <3>2
  <2>5. QED BY <2>1, <2>2, <2>4 DEF WellFormed, ChainsPartition, CodeTypes
<1>2. QED BY <1>1, DInvAlways, PTL

(* The device only works on complete chains of buffers that wait for it:   *)
(* virtio_disk_rw() does not return, and reuses no descriptor, before the  *)
(* device is done, however late it takes and finishes the request.         *)
THEOREM DeviceOwnsBufferAlways == Spec => []DeviceOwnsBuffer
<1>1. ASSUME DInv PROVE DeviceOwnsBuffer
  <2>1. Pending = {avail[k % NUM] : k \in Win(seen, availidx)}
    BY ZenonT(30) DEF Pending, Win, Index
  <2>2. \A h \in Pending \cup inflight : Waiting(h, 255)
    BY SMTT(30), Z3T(30), <1>1, <2>1 DEF DInv, RingInv
  <2>3. ASSUME NEW h, Waiting(h, 255)
        PROVE  \E p \in Active : idx[p] = h /\ bdisk[p] = 1 /\ infob[h] = p /\ status[h] = 255
    <3>1. PICK p \in Proc : pc[p] = "wait" /\ idx[p] = h /\ bdisk[p] = 1 /\ status[h] = 255
      BY <2>3 DEF Waiting
    <3>2. p \in Active
      BY <3>1 DEF Active
    <3>3. infob[h] = p
      BY <1>1, <3>1, <3>2 DEF DInv, ChainInv, Whole
    <3>4. QED BY <3>1, <3>2, <3>3
  <2>4. QED BY SMTT(30), Z3T(30), <2>2, <2>3 DEF DeviceOwnsBuffer
<1>2. QED BY <1>1, DInvAlways, PTL

(* No completion is forgotten although virtio_disk_intr() acknowledges the *)
(* interrupt before it reads the used ring.                                *)
THEOREM CompletionNoticedAlways == Spec => []CompletionNoticed
<1>1. DInv => CompletionNoticed
  BY DEF DInv
<1>2. QED BY <1>1, DInvAlways, PTL

(* A process sleeps in virtio_disk_rw() only while there is a reason to:   *)
(* fewer than three free descriptors, or a request that is not done.       *)
THEOREM SleepIsJustifiedAlways == Spec => []SleepIsJustified
<1>1. DInv => SleepIsJustified
  BY DEF DInv, SleepInv, SleepIsJustified
<1>2. QED BY <1>1, DInvAlways, PTL
=============================================================================
